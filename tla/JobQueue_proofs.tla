--------------------------- MODULE JobQueue_proofs ---------------------------
(***************************************************************************)
(* The safety of the job queue for any number of jobs, restarts, attempts  *)
(* and appends that throw.                                                 *)
(***************************************************************************)
EXTENDS JobQueue, TLAPS

\* A record within its budget after n restarts: only a job that is RUNNING or
\* settled may have used its last attempt.
Fits(job, n) ==
    /\ job \in Job
    /\ job.attempts <= MaxAttempts + n
    /\ job.state \in Waiting => job.attempts < MaxAttempts + n
    /\ job.state = "RUNNING" => job.attempts >= 1

AllFit(js, lg, n) ==
    /\ js \in [Queues -> [Commands -> Job]]
    /\ lg \in [Commands -> Job]
    /\ \A q \in Queues, c \in Commands : Fits(js[q][c], n)
    /\ \A c \in Commands : Fits(lg[c], n)

\* With one queue object, memory knows every outcome that is in the file.
Followed(js, lg) ==
    HttpQueue = RunnerQueue =>
        \A c \in Commands :
            lg[c].state \in Terminal => js[RunnerQueue][c].state = lg[c].state

NothingRuns(js) == \A c \in Commands : js[RunnerQueue][c].state # "RUNNING"

\* Outcomes of one log that another one keeps, with one queue object.
Keeps(lg, lh) ==
    HttpQueue = RunnerQueue =>
        \A c \in Commands : lg[c].state \in Terminal => lh[c].state = lg[c].state

IndInv ==
    /\ batch \subseteq Commands
    /\ running \in Commands \cup {NoCommand}
    /\ crashes \in 0 .. MaxCrashes
    /\ faults \in 0 .. MaxFaults
    /\ AllFit(jobs, log, crashes)
    /\ Followed(jobs, log)
    /\ running # NoCommand => jobs[RunnerQueue][running].state = "RUNNING"
    /\ NoneStranded

LEMMA InitInductive == Init => IndInv
<1>. USE JobAssumption DEF JobAssumption
<1>1. Fits(NoJob, 0) /\ NoJob \in Job
  BY DEF Fits, NoJob, Job, Waiting, Terminal
<1>. SUFFICES ASSUME Init PROVE IndInv
  OBVIOUS
<1>2. AllFit(jobs, log, crashes)
  BY <1>1 DEF Init, AllFit
<1>3. \A c \in Commands : jobs[RunnerQueue][c] = NoJob /\ log[c] = NoJob
  BY DEF Init, Queues
<1>4. Followed(jobs, log) /\ NoneStranded
  BY <1>3 DEF Followed, NoneStranded, NoJob, Terminal
<1>. QED  BY <1>2, <1>4 DEF Init, IndInv

LEMMA AttemptedRecord ==
    ASSUME NEW job \in Job
    PROVE  Attempted(job) \in
               [state : {"RUNNING"}, attempts : {job.attempts + 1}, due : BOOLEAN]
BY DEF Attempted, Job

\* A waiting job has an attempt left.
LEMMA AttemptedFits ==
    ASSUME NEW n \in 0 .. MaxCrashes, NEW job, Fits(job, n), job.state \in Waiting
    PROVE  Fits(Attempted(job), n) /\ Attempted(job).state = "RUNNING"
<1>0. job \in Job
  BY DEF Fits
<1>1. job.attempts + 1 \in 1 .. MaxAttempts + n
  BY <1>0, JobAssumption DEF Fits, Job, JobAssumption
<1>2. Attempted(job) \in
          [state : {"RUNNING"}, attempts : {job.attempts + 1}, due : BOOLEAN]
  BY <1>0, AttemptedRecord
<1>. QED  BY <1>0, <1>1, <1>2, JobAssumption DEF Fits, Job, Waiting, Terminal, JobAssumption

\* A verdict leaves the job waiting only if an attempt is left, or given back.
LEMMA JudgedFits ==
    ASSUME NEW n \in 0 .. MaxCrashes, NEW job, Fits(job, n),
           job.state = "RUNNING", NEW v \in Verdicts
    PROVE  Fits(Judged(job, v), n) /\ Judged(job, v).state # "RUNNING"
<1>. USE JobAssumption DEF JobAssumption
<1>1. job \in Job /\ job.attempts \in 1 .. MaxAttempts + n
  BY DEF Fits, Job
<1>2. CASE v = "ok"
  <2>1. Judged(job, v) = [state |-> "VERIFIED", attempts |-> job.attempts,
                          due |-> job.due]
    BY <1>1, <1>2 DEF Judged, Job
  <2>. QED  BY <1>1, <2>1 DEF Fits, Job, Waiting, Terminal
<1>3. CASE v = "temporary"
  <2>1. Judged(job, v) = [state |-> "RETRYING", attempts |-> job.attempts - 1,
                          due |-> FALSE]
    BY <1>1, <1>3 DEF Judged, Job
  <2>. QED  BY <1>1, <2>1 DEF Fits, Job, Waiting, Terminal
<1>4. CASE v = "retryable" /\ job.attempts < MaxAttempts
  <2>1. Judged(job, v) = [state |-> "RETRYING", attempts |-> job.attempts,
                          due |-> FALSE]
    BY <1>1, <1>4 DEF Judged, Job
  <2>2. job.attempts < MaxAttempts + n /\ job.attempts \in 0 .. MaxAttempts + MaxCrashes
    BY <1>1, <1>4
  <2>. QED  BY <1>1, <2>1, <2>2 DEF Fits, Job, Waiting, Terminal
<1>5. CASE \/ v = "refused"
           \/ v = "retryable" /\ ~(job.attempts < MaxAttempts)
  <2>1. Judged(job, v) = [state |-> "FAILED", attempts |-> job.attempts,
                          due |-> job.due]
    BY <1>1, <1>5 DEF Judged, Job
  <2>. QED  BY <1>1, <2>1 DEF Fits, Job, Waiting, Terminal
<1>6. v \in {"ok", "temporary", "retryable", "refused"}
  OBVIOUS
<1>. QED  BY <1>2, <1>3, <1>4, <1>5, <1>6

\* The loop of drain(), entered with nothing running.
LEMMA LoopKeeps ==
    ASSUME NEW STATE js, NEW STATE lg, NEW STATE S, S \subseteq Commands,
           crashes \in 0 .. MaxCrashes, faults \in 0 .. MaxFaults,
           AllFit(js, lg, crashes), Followed(js, lg),
           faults = 0 => NothingRuns(js),
           NextAttempt(js, lg, S), UNCHANGED crashes
    PROVE  IndInv' /\ Keeps(lg, log')
<1>. USE JobAssumption DEF JobAssumption
<1>1. CASE DrainEnds(js, lg) /\ UNCHANGED faults
  BY <1>1 DEF DrainEnds, IndInv, NoneStranded, NothingRuns, Keeps
<1>2. ASSUME NEW c \in S, NEW STATE job, NEW STATE started,
             job = Attempted(js[RunnerQueue][c]),
             started = [js EXCEPT ![RunnerQueue][c] = job],
             js[RunnerQueue][c].state \in Waiting,
             \/ /\ jobs' = started
                /\ log' = [lg EXCEPT ![c] = job]
                /\ batch' = S \ {c} /\ running' = c
                /\ UNCHANGED faults
             \/ AppendThrows(started, lg)
      PROVE  IndInv' /\ Keeps(lg, log')
  <2>0. c \in Commands
    OBVIOUS
  <2>1. Fits(js[RunnerQueue][c], crashes) /\ crashes \in Nat
    BY <2>0 DEF AllFit, Queues
  <2>2. Fits(job, crashes) /\ job \in Job /\ job.state = "RUNNING"
    <3>1. Fits(job, crashes) /\ job.state = "RUNNING"
      BY <1>2, <2>1, AttemptedFits
    <3>. QED  BY <3>1 DEF Fits
  <2>3. /\ AllFit(started, lg, crashes)
        /\ AllFit(started, [lg EXCEPT ![c] = job], crashes)
        /\ started[RunnerQueue][c] = job
        /\ \A d \in Commands \ {c} : started[RunnerQueue][d] = js[RunnerQueue][d]
    BY <1>2, <2>0, <2>2 DEF AllFit, Queues
  <2>4. HttpQueue = RunnerQueue => lg[c].state \notin Terminal
    BY <1>2 DEF Followed, Waiting, Terminal
  <2>5. CASE /\ jobs' = started
             /\ log' = [lg EXCEPT ![c] = job]
             /\ batch' = S \ {c} /\ running' = c
             /\ UNCHANGED faults
    <3>1. \A d \in Commands : log'[d] = IF d = c THEN job ELSE lg[d]
      BY <2>0, <2>5 DEF AllFit
    <3>2. Followed(jobs, log)' /\ Keeps(lg, log')
      BY <2>2, <2>3, <2>4, <2>5, <3>1 DEF Followed, Keeps, Terminal
    <3>3. NoneStranded'
      BY <2>3, <2>5 DEF NoneStranded, NothingRuns
    <3>. QED  BY <2>2, <2>3, <2>5, <3>2, <3>3 DEF IndInv
  <2>6. CASE AppendThrows(started, lg)
    <3>1. /\ jobs' = started /\ log' = lg /\ batch' = {} /\ running' = NoCommand
          /\ faults' \in 1 .. MaxFaults
      BY <2>6 DEF AppendThrows, DrainEnds
    <3>. QED  BY <2>2, <2>3, <2>4, <3>1 DEF IndInv, Followed, NoneStranded, Keeps
  <2>. QED  BY <1>2, <2>5, <2>6
<1>. QED  BY <1>1, <1>2 DEF NextAttempt

\* A record of some queue is replaced, by a call of the HTTP layer or a delay
\* that passes: nothing that runs is touched and the file follows.
LEMMA OneRecord ==
    ASSUME IndInv, NEW q \in Queues, NEW c \in Commands, NEW STATE job,
           Fits(job, crashes), job.state # "RUNNING",
           jobs[q][c].state # "RUNNING",
           jobs' = [jobs EXCEPT ![q][c] = job],
           UNCHANGED <<batch, running, crashes, faults>>,
           \/ log' = log /\ (jobs[q][c].state = job.state)
           \/ /\ log' = [log EXCEPT ![c] = job]
              /\ jobs[q][c].state \notin Terminal
              /\ q = HttpQueue
    PROVE  IndInv' /\ Keeps(log, log')
<1>1. job \in Job
  BY DEF Fits
<1>2. AllFit(jobs, log, crashes)'
  BY <1>1 DEF IndInv, AllFit
<1>3. /\ \A d \in Commands \ {c} : jobs'[RunnerQueue][d] = jobs[RunnerQueue][d]
      /\ q = RunnerQueue => jobs'[RunnerQueue][c] = job
      /\ q # RunnerQueue => jobs'[RunnerQueue][c] = jobs[RunnerQueue][c]
  BY DEF IndInv, AllFit, Queues
<1>4. \A d \in Commands : log'[d] = log[d] \/ (d = c /\ log'[d] = job)
  BY DEF IndInv, AllFit
<1>5. Followed(jobs, log)' /\ Keeps(log, log')
  BY <1>3, <1>4 DEF IndInv, Followed, Keeps
<1>6. NoneStranded'
  BY <1>3 DEF IndInv, NoneStranded
<1>7. running' # NoCommand => jobs'[RunnerQueue][running'].state = "RUNNING"
  BY <1>3 DEF IndInv
<1>. QED  BY <1>2, <1>5, <1>6, <1>7 DEF IndInv

LEMMA Inductive ==
    ASSUME IndInv, [Next]_jqVars
    PROVE  IndInv' /\ Keeps(log, log')
<1>. USE DEF IndInv
<1>1. ASSUME NEW c \in Commands, Enqueue(c)
      PROVE  IndInv' /\ Keeps(log, log')
  <2>. DEFINE job == [state |-> "QUEUED", attempts |-> 0, due |-> TRUE]
  <2>1. Fits(job, crashes) /\ job.state # "RUNNING"
    BY JobAssumption DEF JobAssumption, Fits, Job, Waiting, Terminal
  <2>2. HttpQueue \in Queues /\ jobs[HttpQueue][c].state = "NONE"
    BY <1>1 DEF Enqueue, NoJob, Queues
  <2>3. /\ jobs' = [jobs EXCEPT ![HttpQueue][c] = job]
        /\ log' = [log EXCEPT ![c] = job]
        /\ UNCHANGED <<batch, running, crashes, faults>>
    BY <1>1 DEF Enqueue
  <2>4. jobs[HttpQueue][c].state \notin Terminal
    BY <2>2 DEF Terminal
  <2>. HIDE DEF job
  <2>. QED  BY <2>1, <2>2, <2>3, <2>4, OneRecord
<1>2. ASSUME NEW c \in Commands, Release(c)
      PROVE  IndInv' /\ Keeps(log, log')
  <2>. DEFINE old == jobs[HttpQueue][c]
              job == [old EXCEPT !.state = "CANCELLED"]
  <2>1. HttpQueue \in Queues /\ Fits(old, crashes) /\ old \in Job
    BY DEF AllFit, Queues, Fits
  <2>2. job = [state |-> "CANCELLED", attempts |-> old.attempts, due |-> old.due]
    BY <2>1 DEF Job
  <2>3. Fits(job, crashes) /\ job.state # "RUNNING"
    BY <2>1, <2>2 DEF Fits, Job, Waiting, Terminal
  <2>4. /\ jobs' = [jobs EXCEPT ![HttpQueue][c] = job]
        /\ log' = [log EXCEPT ![c] = job]
        /\ UNCHANGED <<batch, running, crashes, faults>>
        /\ old.state \notin Terminal /\ old.state # "RUNNING"
    BY <1>2 DEF Release, Waiting, Terminal
  <2>. HIDE DEF job
  <2>. QED  BY <2>1, <2>3, <2>4, OneRecord
<1>3. ASSUME NEW q \in Queues, NEW c \in Commands, DelayPasses(q, c)
      PROVE  IndInv' /\ Keeps(log, log')
  <2>. DEFINE old == jobs[q][c]
              job == [old EXCEPT !.due = TRUE]
  <2>1. Fits(old, crashes) /\ old \in Job /\ old.state = "RETRYING"
    BY <1>3 DEF AllFit, Fits, DelayPasses
  <2>2. job \in [state : {"RETRYING"}, attempts : {old.attempts}, due : BOOLEAN]
    BY <2>1 DEF Job
  <2>3. Fits(job, crashes) /\ job.state = "RETRYING"
    BY <2>1, <2>2 DEF Fits, Job, Waiting, Terminal
  <2>4. /\ jobs' = [jobs EXCEPT ![q][c] = job]
        /\ UNCHANGED <<log, batch, running, crashes, faults>>
    BY <1>3 DEF DelayPasses
  <2>. HIDE DEF job
  <2>. QED  BY <2>1, <2>3, <2>4, OneRecord
<1>4. CASE Drain
  <2>1. faults = 0 => NothingRuns(jobs)
    BY <1>4, JobAssumption DEF Drain, NoneStranded, NothingRuns, JobAssumption
  <2>2. DueJobs \subseteq Commands
    BY DEF DueJobs
  <2>. QED  BY <1>4, <2>1, <2>2, LoopKeeps DEF Drain
<1>5. ASSUME NEW v \in Verdicts, Verdict(v)
      PROVE  IndInv' /\ Keeps(log, log')
  <2>. DEFINE old == jobs[RunnerQueue][running]
              job == Judged(old, v)
              js == [jobs EXCEPT ![RunnerQueue][running] = job]
              lg == [log EXCEPT ![running] = job]
  <2>1. running \in Commands /\ Fits(old, crashes) /\ old.state = "RUNNING"
    BY <1>5 DEF Verdict, AllFit, Queues
  <2>2. Fits(job, crashes) /\ job \in Job /\ job.state # "RUNNING"
    <3>1. Fits(job, crashes) /\ job.state # "RUNNING"
      BY <2>1, JudgedFits
    <3>. QED  BY <3>1 DEF Fits
  <2>3. AllFit(js, log, crashes) /\ AllFit(js, lg, crashes)
    <3>. HIDE DEF job
    <3>. QED  BY <2>1, <2>2 DEF AllFit, Queues
  <2>4. /\ js[RunnerQueue][running] = job
        /\ \A d \in Commands \ {running} : js[RunnerQueue][d] = jobs[RunnerQueue][d]
        /\ lg[running] = job
        /\ \A d \in Commands \ {running} : lg[d] = log[d]
    <3>. HIDE DEF job
    <3>. QED  BY <2>1 DEF AllFit, Queues
  <2>5. HttpQueue = RunnerQueue => log[running].state \notin Terminal
    BY <2>1 DEF Followed, Terminal
  <2>. HIDE DEF job, js, lg
  <2>6. /\ Followed(js, log) /\ Followed(js, lg)
        /\ Keeps(log, lg)
    BY <2>4, <2>5 DEF Followed, Keeps
  <2>7. faults = 0 => NothingRuns(js)
    BY <2>2, <2>4 DEF NoneStranded, NothingRuns
  <2>8. CASE NextAttempt(js, lg, batch)
    <3>1. UNCHANGED crashes
      BY <1>5 DEF Verdict
    <3>2. IndInv' /\ Keeps(lg, log')
      BY <2>3, <2>6, <2>7, <2>8, <3>1, LoopKeeps
    <3>. QED  BY <2>6, <3>2 DEF Keeps
  <2>9. CASE AppendThrows(js, log)
    <3>1. /\ jobs' = js /\ log' = log /\ batch' = {} /\ running' = NoCommand
          /\ faults' \in 1 .. MaxFaults /\ crashes' = crashes
      BY <1>5, <2>9, JobAssumption DEF AppendThrows, DrainEnds, Verdict, JobAssumption
    <3>. QED  BY <2>3, <2>6, <3>1 DEF NoneStranded, Keeps
  <2>. QED  BY <1>5, <2>8, <2>9 DEF Verdict, job, js, lg
<1>6. CASE Crash
  <2>1. ASSUME NEW j, Fits(j, crashes)
        PROVE  /\ Fits(Loaded(j), crashes') /\ Loaded(j) \in Job
               /\ Fits(j, crashes')
               /\ Loaded(j).state # "RUNNING"
               /\ j.state \in Terminal => Loaded(j).state = j.state
    <3>1. crashes \in Nat /\ crashes' = crashes + 1 /\ j \in Job
      BY <1>6, <2>1 DEF Crash, Fits
    <3>2. CASE j.state = "RUNNING"
      <4>1. Loaded(j) = [state |-> "RETRYING", attempts |-> j.attempts, due |-> TRUE]
        BY <3>1, <3>2 DEF Loaded, Job
      <4>. QED  BY <2>1, <3>1, <3>2, <4>1, JobAssumption
                DEF Fits, Job, Waiting, Terminal, JobAssumption
    <3>3. CASE j.state # "RUNNING"
      BY <2>1, <3>1, <3>3, JobAssumption DEF Loaded, Fits, Job, Waiting, JobAssumption
    <3>. QED  BY <3>2, <3>3
  <2>2. /\ jobs' = [q \in Queues |-> [c \in Commands |-> Loaded(log[c])]]
        /\ log' = log /\ batch' = {} /\ running' = NoCommand
        /\ crashes' \in 0 .. MaxCrashes /\ faults' = faults
    BY <1>6, JobAssumption DEF Crash, JobAssumption
  <2>3. \A c \in Commands : Fits(log[c], crashes)
    BY DEF AllFit
  <2>4. AllFit(jobs, log, crashes)'
    BY <2>1, <2>2, <2>3 DEF AllFit
  <2>5. \A c \in Commands : jobs'[RunnerQueue][c] = Loaded(log[c])
    BY <2>2 DEF Queues
  <2>6. Followed(jobs, log)' /\ NoneStranded' /\ Keeps(log, log')
    BY <2>1, <2>2, <2>3, <2>5 DEF Followed, NoneStranded, Keeps
  <2>. QED  BY <2>2, <2>4, <2>6
<1>7. CASE UNCHANGED jqVars
  BY <1>7 DEF jqVars, AllFit, Followed, NoneStranded, Keeps
<1>. QED  BY <1>1, <1>2, <1>3, <1>4, <1>5, <1>6, <1>7 DEF Next

LEMMA Invariant == Spec => []IndInv
BY InitInductive, Inductive, PTL DEF Spec

\* The records of memory and file keep their types.
THEOREM TypeCorrect == Spec => []TypeOK
<1>1. IndInv => TypeOK
  BY DEF IndInv, AllFit, TypeOK
<1>. QED  BY <1>1, Invariant, PTL

\* No job is left RUNNING behind the runner's back, unless an append threw.
THEOREM NoneStrandedHolds == Spec => []NoneStranded
<1>1. IndInv => NoneStranded
  BY DEF IndInv
<1>. QED  BY <1>1, Invariant, PTL

\* A job is attempted maxAttempts times, and once more for every restart.
THEOREM AttemptsBoundedHolds == Spec => []AttemptsBounded
<1>1. IndInv => AttemptsBounded
  BY DEF IndInv, AllFit, Fits, AttemptsBounded
<1>. QED  BY <1>1, Invariant, PTL

\* With one queue object for the HTTP layer and the runner, as the comment in
\* main() wants it, an outcome in the file is never overwritten.
THEOREM OutcomeIsFinalHolds ==
    ASSUME HttpQueue = RunnerQueue
    PROVE  Spec => OutcomeIsFinal
<1>1. IndInv /\ [Next]_jqVars =>
        [\A c \in Commands :
            log[c].state \in Terminal => log'[c].state = log[c].state]_jqVars
  BY Inductive DEF Keeps
<1>. QED  BY <1>1, Invariant, PTL DEF Spec, OutcomeIsFinal

\* With one queue object a released job is not being replayed and never will be.
THEOREM ReleasedNeverRunsHolds ==
    ASSUME HttpQueue = RunnerQueue
    PROVE  Spec => []ReleasedNeverRuns
<1>1. IndInv => ReleasedNeverRuns
  BY JobAssumption DEF IndInv, Followed, ReleasedNeverRuns, Terminal, JobAssumption
<1>. QED  BY <1>1, Invariant, PTL

-----------------------------------------------------------------------------
(* The refinement of JobLife, with one queue object.                        *)

\* Memory and file know the same commands.
Known(js, lg) ==
    \A c \in Commands : js[RunnerQueue][c].state = "NONE" <=> lg[c].state = "NONE"

JobInv == IndInv /\ Known(jobs, log)

StandingOf(lg) == [c \in Commands |-> Standing(lg[c])]

\* Nobody is executed next, or one pending command.
PicksNext ==
    \/ running' = NoCommand
    \/ running' \in Commands /\ Standing(log'[running']) = "pending"

LEMMA StandingIs ==
    ASSUME NEW job
    PROVE  /\ job.state = "NONE" => Standing(job) = "absent"
           /\ job.state \in Terminal => Standing(job) = job.state
           /\ job.state \notin {"NONE"} \cup Terminal => Standing(job) = "pending"
BY DEF Standing, Terminal

LEMMA AttemptedStanding ==
    ASSUME NEW job \in Job
    PROVE  Attempted(job).state = "RUNNING" /\ Standing(Attempted(job)) = "pending"
<1>1. Attempted(job).state = "RUNNING"
  BY DEF Attempted, Job
<1>. QED  BY <1>1, StandingIs DEF Terminal

\* The loop of drain() settles nothing; what it starts is pending.
LEMMA LoopPicks ==
    ASSUME HttpQueue = RunnerQueue,
           NEW STATE js, NEW STATE lg, NEW STATE S, S \subseteq Commands,
           AllFit(js, lg, crashes), Followed(js, lg), Known(js, lg),
           NextAttempt(js, lg, S)
    PROVE  /\ Known(jobs', log')
           /\ \A c \in Commands : Standing(log'[c]) = Standing(lg[c])
           /\ PicksNext
<1>1. CASE DrainEnds(js, lg)
  BY <1>1 DEF DrainEnds, PicksNext
<1>2. ASSUME NEW c \in S, NEW STATE job, NEW STATE started,
             job = Attempted(js[RunnerQueue][c]),
             started = [js EXCEPT ![RunnerQueue][c] = job],
             js[RunnerQueue][c].state \in Waiting,
             \/ /\ jobs' = started
                /\ log' = [lg EXCEPT ![c] = job]
                /\ running' = c
             \/ DrainEnds(started, lg)
      PROVE  /\ Known(jobs', log')
             /\ \A d \in Commands : Standing(log'[d]) = Standing(lg[d])
             /\ PicksNext
  <2>0. c \in Commands /\ js[RunnerQueue][c] \in Job
    BY DEF AllFit, Queues
  <2>1. job.state = "RUNNING" /\ Standing(job) = "pending"
    BY <1>2, <2>0, AttemptedStanding
  <2>2. /\ started[RunnerQueue][c] = job
        /\ \A d \in Commands \ {c} : started[RunnerQueue][d] = js[RunnerQueue][d]
    BY <1>2, <2>0 DEF AllFit, Queues
  <2>3. lg[c].state \notin {"NONE"} \cup Terminal
    BY <1>2, <2>0 DEF Followed, Known, Waiting, Terminal
  <2>4. Standing(lg[c]) = "pending"
    BY <2>3, StandingIs
  <2>5. Known(started, lg)
    BY <2>1, <2>2, <2>3 DEF Known
  <2>6. CASE DrainEnds(started, lg)
    BY <2>5, <2>6 DEF DrainEnds, PicksNext
  <2>7. CASE /\ jobs' = started
             /\ log' = [lg EXCEPT ![c] = job]
             /\ running' = c
    <3>1. log'[c] = job /\ \A d \in Commands \ {c} : log'[d] = lg[d]
      BY <2>0, <2>7 DEF AllFit
    <3>2. Known(jobs', log')
      BY <2>1, <2>2, <2>7, <3>1 DEF Known
    <3>. QED  BY <2>0, <2>1, <2>4, <2>7, <3>1, <3>2 DEF PicksNext
  <2>. QED  BY <1>2, <2>6, <2>7
<1>. QED  BY <1>1, <1>2 DEF NextAttempt, AppendThrows

\* How a step of the queue looks to JobLife.
Parks(c) == /\ Standing(log[c]) = "absent" /\ Standing(log'[c]) = "pending"
            /\ UNCHANGED running
Withdraws(c) == /\ Standing(log[c]) = "pending" /\ Standing(log'[c]) = "CANCELLED"
                /\ running # c /\ UNCHANGED running
Ends(c) == /\ Standing(log[c]) = "pending" /\ running = c /\ PicksNext
           /\ Standing(log'[c]) \in {Standing(log[c]), "VERIFIED", "FAILED"}
Others(c) == \A d \in Commands \ {c} : Standing(log'[d]) = Standing(log[d])
Same == \A d \in Commands : Standing(log'[d]) = Standing(log[d])

LEMMA QueueStep ==
    ASSUME HttpQueue = RunnerQueue, JobInv, [Next]_jqVars
    PROVE  /\ Known(jobs, log)'
           /\ \/ \E c \in Commands : Others(c) /\ (Parks(c) \/ Withdraws(c) \/ Ends(c))
              \/ Same /\ running = NoCommand /\ PicksNext
              \/ Same /\ UNCHANGED running
<1>. USE DEF JobInv, IndInv
<1>0. RunnerQueue \in Queues
  BY DEF Queues
<1>1. ASSUME NEW c \in Commands, NEW STATE job,
             jobs' = [jobs EXCEPT ![HttpQueue][c] = job], log' = [log EXCEPT ![c] = job]
      PROVE  /\ jobs'[RunnerQueue][c] = job /\ log'[c] = job
             /\ \A d \in Commands \ {c} : /\ log'[d] = log[d]
                                          /\ jobs'[RunnerQueue][d] = jobs[RunnerQueue][d]
             /\ Known(jobs, log)'
             /\ Others(c)
  <2>1. /\ jobs'[RunnerQueue][c] = job /\ log'[c] = job
        /\ \A d \in Commands \ {c} : /\ log'[d] = log[d]
                                     /\ jobs'[RunnerQueue][d] = jobs[RunnerQueue][d]
    BY <1>0, <1>1 DEF AllFit
  <2>. QED  BY <2>1 DEF Known, Others
<1>2. ASSUME NEW c \in Commands, Enqueue(c)
      PROVE  Known(jobs, log)' /\ Others(c) /\ Parks(c)
  <2>1. PICK job : job = [state |-> "QUEUED", attempts |-> 0, due |-> TRUE]
    OBVIOUS
  <2>2. /\ jobs' = [jobs EXCEPT ![HttpQueue][c] = job] /\ log' = [log EXCEPT ![c] = job]
        /\ UNCHANGED running /\ jobs[RunnerQueue][c].state = "NONE"
    BY <1>2, <2>1 DEF Enqueue, NoJob
  <2>3. Standing(log[c]) = "absent"
    BY <2>2, StandingIs DEF Known
  <2>4. Standing(job) = "pending"
    BY <2>1, StandingIs DEF Terminal
  <2>. QED  BY <1>1, <2>2, <2>3, <2>4 DEF Parks
<1>3. ASSUME NEW c \in Commands, Release(c)
      PROVE  Known(jobs, log)' /\ Others(c) /\ Withdraws(c)
  <2>1. PICK job : job = [jobs[HttpQueue][c] EXCEPT !.state = "CANCELLED"]
    OBVIOUS
  <2>2. /\ jobs' = [jobs EXCEPT ![HttpQueue][c] = job] /\ log' = [log EXCEPT ![c] = job]
        /\ UNCHANGED running /\ jobs[RunnerQueue][c].state \in Waiting
    BY <1>3, <2>1 DEF Release
  <2>3. log[c].state \notin {"NONE"} \cup Terminal
    BY <2>2 DEF Known, Followed, Waiting, Terminal
  <2>4. job.state = "CANCELLED"
    BY <1>0, <2>1 DEF AllFit, Job
  <2>5. Standing(log[c]) = "pending" /\ Standing(job) = "CANCELLED"
    BY <2>3, <2>4, StandingIs DEF Terminal
  <2>6. running # c
    BY <2>2, JobAssumption DEF Waiting, JobAssumption
  <2>. QED  BY <1>1, <2>2, <2>5, <2>6 DEF Withdraws
<1>4. CASE Drain
  <2>1. DueJobs \subseteq Commands /\ running = NoCommand
        /\ NextAttempt(jobs, log, DueJobs)
    BY <1>4 DEF Drain, DueJobs
  <2>2. Known(jobs', log') /\ Same /\ PicksNext
    BY <2>1, LoopPicks DEF Same
  <2>. QED  BY <2>1, <2>2
<1>5. ASSUME NEW v \in Verdicts, Verdict(v)
      PROVE  Known(jobs, log)' /\ Others(running) /\ Ends(running) /\ running \in Commands
  <2>1. /\ running \in Commands /\ jobs[RunnerQueue][running].state = "RUNNING"
        /\ Fits(jobs[RunnerQueue][running], crashes)
    BY <1>0, <1>5 DEF Verdict, AllFit
  <2>2. PICK job : job = Judged(jobs[RunnerQueue][running], v)
    OBVIOUS
  <2>3. Fits(job, crashes) /\ job.state \in Waiting \cup {"VERIFIED", "FAILED"}
    <3>1. Fits(job, crashes)
      BY <2>1, <2>2, JudgedFits
    <3>2. jobs[RunnerQueue][running] \in Job
      BY <2>1 DEF Fits
    <3>3. Judged(jobs[RunnerQueue][running], v).state \in {"VERIFIED", "RETRYING", "FAILED"}
      BY <3>2 DEF Judged, Job
    <3>. QED  BY <2>2, <3>1, <3>3 DEF Waiting
  <2>4. Standing(job) \in {"pending", "VERIFIED", "FAILED"} /\ job.state # "NONE"
    BY <2>3, StandingIs DEF Waiting, Terminal
  <2>5. log[running].state \notin {"NONE"} \cup Terminal
    BY <2>1 DEF Known, Followed, Terminal
  <2>6. Standing(log[running]) = "pending"
    BY <2>5, StandingIs
  <2>7. PICK js, lg : /\ js = [jobs EXCEPT ![RunnerQueue][running] = job]
                      /\ lg = [log EXCEPT ![running] = job]
    OBVIOUS
  <2>8. /\ js[RunnerQueue][running] = job /\ lg[running] = job
        /\ \A d \in Commands \ {running} : /\ js[RunnerQueue][d] = jobs[RunnerQueue][d]
                                           /\ lg[d] = log[d]
    BY <1>0, <2>1, <2>7 DEF AllFit
  <2>9. job \in Job
    BY <2>3 DEF Fits
  <2>10. AllFit(js, lg, crashes)
    BY <2>1, <2>3, <2>7, <2>9 DEF AllFit, Queues
  <2>11. Followed(js, lg) /\ Known(js, lg) /\ Known(js, log)
    BY <2>4, <2>5, <2>8 DEF Followed, Known
  <2>12. NextAttempt(js, lg, batch) \/ AppendThrows(js, log)
    BY <1>5, <2>2, <2>7 DEF Verdict
  <2>13. CASE NextAttempt(js, lg, batch)
    <3>1. /\ Known(jobs', log') /\ PicksNext
          /\ \A c \in Commands : Standing(log'[c]) = Standing(lg[c])
      BY <2>10, <2>11, <2>13, LoopPicks
    <3>. QED  BY <2>1, <2>4, <2>6, <2>8, <3>1 DEF Others, Ends
  <2>14. CASE AppendThrows(js, log)
    BY <2>1, <2>6, <2>11, <2>14 DEF AppendThrows, DrainEnds, Others, Ends, PicksNext
  <2>. QED  BY <2>12, <2>13, <2>14
<1>6. ASSUME NEW q \in Queues, NEW c \in Commands, DelayPasses(q, c)
      PROVE  Known(jobs, log)' /\ Same /\ UNCHANGED running
  <2>1. log' = log /\ running' = running
    BY <1>6 DEF DelayPasses
  <2>2. \A d \in Commands : jobs'[RunnerQueue][d].state = jobs[RunnerQueue][d].state
    BY <1>0, <1>6 DEF DelayPasses, AllFit, Job
  <2>. QED  BY <2>1, <2>2 DEF Known, Same
<1>7. CASE Crash
  <2>1. log' = log /\ running' = NoCommand
    BY <1>7 DEF Crash
  <2>2. \A c \in Commands : jobs'[RunnerQueue][c] = Loaded(log[c])
    BY <1>0, <1>7 DEF Crash
  <2>3. \A c \in Commands : Loaded(log[c]).state = "NONE" <=> log[c].state = "NONE"
    BY DEF Loaded, AllFit, Job
  <2>4. Known(jobs, log)' /\ Same /\ PicksNext
    BY <2>1, <2>2, <2>3 DEF Known, Same, PicksNext
  <2>5. ASSUME running \in Commands
        PROVE  Others(running) /\ Ends(running)
    <3>1. jobs[RunnerQueue][running].state = "RUNNING"
      BY <2>5, JobAssumption DEF JobAssumption
    <3>2. log[running].state \notin {"NONE"} \cup Terminal
      BY <2>5, <3>1 DEF Known, Followed, Terminal
    <3>3. Standing(log[running]) = "pending"
      BY <3>2, StandingIs
    <3>. QED  BY <2>4, <2>5, <3>3 DEF Same, Others, Ends
  <2>. QED  BY <2>4, <2>5
<1>8. CASE UNCHANGED jqVars
  BY <1>8 DEF jqVars, Known, Same
<1>. QED  BY <1>2, <1>3, <1>4, <1>5, <1>6, <1>7, <1>8 DEF Next

LEMMA StepLives ==
    ASSUME HttpQueue = RunnerQueue, JobInv, [Next]_jqVars
    PROVE  [Life!JobNext]_Life!jobVars
<1>. DEFINE old == StandingOf(log)
            new == StandingOf(log')
            here == {running} \ {NoCommand}
            there == {running'} \ {NoCommand}
<1>0. /\ \A c \in Commands : old[c] = Standing(log[c]) /\ new[c] = Standing(log'[c])
      /\ \A c \in Commands : \A s : Others(c) /\ new[c] = s => new = [old EXCEPT ![c] = s]
      /\ Same => new = old
      /\ NoCommand \notin Commands
  BY JobAssumption DEF StandingOf, Others, Same, JobAssumption
<1>1. PicksNext => \/ there = {}
                   \/ \E c \in Commands : new[c] = "pending" /\ there = {c}
  BY <1>0 DEF PicksNext
<1>2. ASSUME NEW c \in Commands, Others(c), Parks(c)
      PROVE  old[c] = "absent" /\ new = [old EXCEPT ![c] = "pending"] /\ there = here
  BY <1>0, <1>2 DEF Parks
<1>3. ASSUME NEW c \in Commands, Others(c), Withdraws(c)
      PROVE  /\ old[c] = "pending" /\ c \notin here
             /\ new = [old EXCEPT ![c] = "CANCELLED"] /\ there = here
  BY <1>0, <1>3 DEF Withdraws
<1>4. ASSUME NEW c \in Commands, Others(c), Ends(c)
      PROVE  /\ old[c] = "pending" /\ here = {c}
             /\ new = old \/ \E s \in {"VERIFIED", "FAILED"} : new = [old EXCEPT ![c] = s]
             /\ PicksNext
  <2>1. new[c] \in {old[c], "VERIFIED", "FAILED"}
    BY <1>0, <1>4 DEF Ends
  <2>2. new[c] = old[c] => new = old
    BY <1>0, <1>4 DEF Others, StandingOf
  <2>3. new[c] \in {"VERIFIED", "FAILED"} =>
            \E s \in {"VERIFIED", "FAILED"} : new = [old EXCEPT ![c] = s]
    BY <1>0, <1>4
  <2>4. old[c] = "pending" /\ here = {c}
    BY <1>0, <1>4 DEF Ends
  <2>. QED  BY <1>4, <2>1, <2>2, <2>3, <2>4 DEF Ends
<1>5. \/ \E c \in Commands : Others(c) /\ (Parks(c) \/ Withdraws(c) \/ Ends(c))
      \/ Same /\ running = NoCommand /\ PicksNext
      \/ Same /\ UNCHANGED running
  BY QueueStep
<1>6. \/ \E c \in Commands :
            \/ old[c] = "absent" /\ new = [old EXCEPT ![c] = "pending"] /\ there = here
            \/ /\ old[c] = "pending" /\ c \notin here
               /\ new = [old EXCEPT ![c] = "CANCELLED"] /\ there = here
            \/ /\ old[c] = "pending" /\ here = {c}
               /\ new = old \/ \E s \in {"VERIFIED", "FAILED"} : new = [old EXCEPT ![c] = s]
               /\ there = {} \/ \E d \in Commands : new[d] = "pending" /\ there = {d}
      \/ /\ here = {} /\ new = old
         /\ there = {} \/ \E d \in Commands : new[d] = "pending" /\ there = {d}
      \/ new = old /\ there = here
  <2>1. running = NoCommand => here = {}
    OBVIOUS
  <2>2. running' = running => there = here
    OBVIOUS
  <2>. HIDE DEF old, new, here, there
  <2>. QED  BY <1>0, <1>1, <1>2, <1>3, <1>4, <1>5, <2>1, <2>2
<1>. QED  BY <1>6, Zenon DEF Life!JobNext, Life!jobVars, Life!Park, Life!Withdraw,
             Life!End, Life!Start, Life!Picks, StandingOf

\* With one queue object, what memory, file, runner and restarts do to a parked
\* write is a life of JobLife.
THEOREM LivesOnceHolds ==
    ASSUME HttpQueue = RunnerQueue
    PROVE  Spec => LivesOnce
<1>1. Init => Known(jobs, log) /\ Life!JobInit
  BY StandingIs DEF Init, Known, NoJob, Queues, Life!JobInit
<1>2. JobInv /\ [Next]_jqVars => JobInv'
  BY Inductive, QueueStep DEF JobInv
<1>3. Spec => []JobInv
  BY <1>1, <1>2, InitInductive, PTL DEF Spec, JobInv
<1>4. JobInv /\ [Next]_jqVars => [Life!JobNext]_Life!jobVars
  BY StepLives
<1>. QED  BY <1>1, <1>3, <1>4, PTL DEF Spec, LivesOnce, Life!JobSpec

\* Such a life keeps its outcome: what the file calls settled is never overwritten,
\* whatever the queue does.
THEOREM LivesOnceIsFinal == LivesOnce => OutcomeIsFinal
<1>1. [Life!JobNext]_Life!jobVars =>
        [\A c \in Commands :
            log[c].state \in Terminal => log'[c].state = log[c].state]_jqVars
  <2>. SUFFICES ASSUME [Life!JobNext]_Life!jobVars, NEW c \in Commands,
                       log[c].state \in Terminal
                PROVE  log'[c].state = log[c].state
    OBVIOUS
  <2>1. Standing(log[c]) = log[c].state /\ Standing(log[c]) \notin {"absent", "pending"}
    BY StandingIs DEF Terminal
  <2>2. StandingOf(log)[c] = Standing(log[c]) /\ StandingOf(log')[c] = Standing(log'[c])
    BY DEF StandingOf
  <2>3. ASSUME NEW d \in Commands, NEW s, StandingOf(log)[d] \in {"absent", "pending"},
               StandingOf(log') = [StandingOf(log) EXCEPT ![d] = s]
        PROVE  StandingOf(log')[c] = StandingOf(log)[c]
    BY <2>1, <2>2, <2>3 DEF StandingOf
  <2>4. \/ StandingOf(log') = StandingOf(log)
        \/ \E d \in Commands : /\ StandingOf(log)[d] \in {"absent", "pending"}
                               /\ \E s : StandingOf(log') = [StandingOf(log) EXCEPT ![d] = s]
    <3>1. ASSUME NEW d \in Commands, Life!Park(d) \/ Life!Withdraw(d)
          PROVE  /\ StandingOf(log)[d] \in {"absent", "pending"}
                 /\ \E s : StandingOf(log') = [StandingOf(log) EXCEPT ![d] = s]
      BY <3>1, Zenon DEF Life!Park, Life!Withdraw, StandingOf
    <3>2. ASSUME NEW d \in Commands, Life!End(d)
          PROVE  /\ StandingOf(log)[d] \in {"absent", "pending"}
                 /\ \/ StandingOf(log') = StandingOf(log)
                    \/ \E s : StandingOf(log') = [StandingOf(log) EXCEPT ![d] = s]
      BY <3>2, Zenon DEF Life!End, StandingOf
    <3>3. Life!Start \/ UNCHANGED Life!jobVars => StandingOf(log') = StandingOf(log)
      BY Zenon DEF Life!Start, Life!jobVars, StandingOf
    <3>4. \/ \E d \in Commands : Life!Park(d) \/ Life!Withdraw(d) \/ Life!End(d)
          \/ Life!Start \/ UNCHANGED Life!jobVars
      BY Zenon DEF Life!JobNext
    <3>. QED  BY <3>1, <3>2, <3>3, <3>4
  <2>5. Standing(log'[c]) = Standing(log[c])
    BY <2>2, <2>3, <2>4
  <2>. QED  BY <2>1, <2>5, StandingIs
<1>. QED  BY <1>1, PTL DEF LivesOnce, Life!JobSpec, OutcomeIsFinal
=============================================================================
