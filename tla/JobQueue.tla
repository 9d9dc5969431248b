------------------------------ MODULE JobQueue ------------------------------
(***************************************************************************)
(* The queue of confirmed writes that could not be carried out             *)
(* (job-queue.mjs) and the runner that replays them (startJobRunner in     *)
(* http-ask.mjs).  A JobQueue object is a Map in memory plus one shared    *)
(* append-only file, jobs.jsonl, of which only the last line of a command  *)
(* counts.  The HTTP layer enqueues and releases; the runner drains.       *)
(*                                                                         *)
(* drain() awaits nothing but runExecute, so from one verdict to the next  *)
(* attempt it is a single step.                                            *)
(***************************************************************************)
EXTENDS Naturals

CONSTANTS
    Commands,
    HttpQueue,    \* the JobQueue object of the HTTP layer ...
    RunnerQueue,  \* ... and the one the runner drains: are they the same?
    Verdicts,     \* what runExecute may answer to the runner
    MaxAttempts,  \* config.maxAttempts
    NoCommand,
    MaxCrashes,   \* restarts of the process (a bound)
    MaxFaults     \* appends of the runner that may throw (a bound)

ASSUME JobAssumption ==
    /\ MaxAttempts \in Nat \ {0}
    /\ MaxCrashes \in Nat /\ MaxFaults \in Nat
    /\ NoCommand \notin Commands
    /\ Verdicts \subseteq {"ok", "temporary", "retryable", "refused"}

VARIABLES
    jobs,     \* [Queues -> [Commands -> Job]], the Map of each object
    log,      \* [Commands -> Job], the last line of jobs.jsonl
    batch,    \* the commands of the due jobs drain() has still to go through
    running,  \* the command whose runExecute drain() awaits, or NoCommand
    crashes,  \* restarts so far
    faults    \* appends that threw so far

jqVars == <<jobs, log, batch, running, crashes, faults>>

Queues == {HttpQueue, RunnerQueue}
Terminal == {"VERIFIED", "FAILED", "CANCELLED"}
Waiting == {"QUEUED", "RETRYING"}

\* `due` says that next_attempt_at has passed.
Job == [state : {"NONE", "RUNNING"} \cup Waiting \cup Terminal,
        attempts : 0 .. MaxAttempts + MaxCrashes,
        due : BOOLEAN]

NoJob == [state |-> "NONE", attempts |-> 0, due |-> FALSE]

TypeOK ==
    /\ jobs \in [Queues -> [Commands -> Job]]
    /\ log \in [Commands -> Job]
    /\ batch \subseteq Commands
    /\ running \in Commands \cup {NoCommand}
    /\ crashes \in 0 .. MaxCrashes
    /\ faults \in 0 .. MaxFaults

Init ==
    /\ jobs = [q \in Queues |-> [c \in Commands |-> NoJob]]
    /\ log = [c \in Commands |-> NoJob]
    /\ batch = {} /\ running = NoCommand
    /\ crashes = 0 /\ faults = 0

-----------------------------------------------------------------------------
(* The HTTP layer.  An append that throws there is an unhandled rejection,  *)
(* which ends the process: it is the same as a Crash before the call.       *)

\* Broken: a settled job is queued again.
EnqueueAgain(c) ==
    /\ jobs[HttpQueue][c].state \in {"NONE"} \cup Terminal
    /\ LET job == [state |-> "QUEUED", attempts |-> 0, due |-> TRUE] IN
        /\ jobs' = [jobs EXCEPT ![HttpQueue][c] = job]
        /\ log' = [log EXCEPT ![c] = job]
    /\ UNCHANGED <<batch, running, crashes, faults>>

\* /execute answered 503 retry_same_command_id.  A known command is left alone.
Enqueue(c) ==
    /\ jobs[HttpQueue][c] = NoJob
    /\ LET job == [state |-> "QUEUED", attempts |-> 0, due |-> TRUE] IN
        /\ jobs' = [jobs EXCEPT ![HttpQueue][c] = job]
        /\ log' = [log EXCEPT ![c] = job]
    /\ UNCHANGED <<batch, running, crashes, faults>>

\* Broken: release() of a RUNNING job, and one with a state of its own.
ReleaseRunning(c) ==
    /\ jobs[HttpQueue][c].state \in Waiting \cup {"RUNNING"}
    /\ LET job == [jobs[HttpQueue][c] EXCEPT !.state = "CANCELLED"] IN
        /\ jobs' = [jobs EXCEPT ![HttpQueue][c] = job]
        /\ log' = [log EXCEPT ![c] = job]
    /\ UNCHANGED <<batch, running, crashes, faults>>

ReleaseRenamed(c) ==
    /\ jobs[HttpQueue][c].state \in Waiting
    /\ LET job == [jobs[HttpQueue][c] EXCEPT !.state = "RELEASED"] IN
        /\ jobs' = [jobs EXCEPT ![HttpQueue][c] = job]
        /\ log' = [log EXCEPT ![c] = job]
    /\ UNCHANGED <<batch, running, crashes, faults>>

\* /execute/cancel cancelled the command; a RUNNING job is refused.
Release(c) ==
    /\ jobs[HttpQueue][c].state \in Waiting
    /\ LET job == [jobs[HttpQueue][c] EXCEPT !.state = "CANCELLED"] IN
        /\ jobs' = [jobs EXCEPT ![HttpQueue][c] = job]
        /\ log' = [log EXCEPT ![c] = job]
    /\ UNCHANGED <<batch, running, crashes, faults>>

-----------------------------------------------------------------------------
(* The runner.                                                              *)

\* Broken: only jobs that never ran are due.
DueQueued ==
    {c \in Commands : jobs[RunnerQueue][c].state = "QUEUED"}

DueJobs ==
    {c \in Commands : /\ jobs[RunnerQueue][c].state \in Waiting
                      /\ jobs[RunnerQueue][c].due}

\* drain() gives up (an exception) or has gone through its jobs.
DrainEnds(js, lg) ==
    /\ jobs' = js /\ log' = lg
    /\ batch' = {} /\ running' = NoCommand

\* The append of a line of c throws: memory has changed, the file has not, and
\* the exception ends drain().
AppendThrows(js, lg) ==
    /\ faults < MaxFaults /\ faults' = faults + 1
    /\ DrainEnds(js, lg)

Attempted(job) ==
    [job EXCEPT !.state = "RUNNING", !.attempts = @ + 1]

\* The head of the loop of drain(): the next job of the snapshot S starts; one
\* that was released meanwhile makes _transition throw.
NextAttempt(js, lg, S) ==
    \/ S = {} /\ DrainEnds(js, lg) /\ UNCHANGED faults
    \/ \E c \in S :
        /\ js[RunnerQueue][c].state \notin Waiting
        /\ DrainEnds(js, lg) /\ UNCHANGED faults
    \/ \E c \in S :
        LET job == Attempted(js[RunnerQueue][c])
            started == [js EXCEPT ![RunnerQueue][c] = job]
        IN /\ js[RunnerQueue][c].state \in Waiting
           /\ \/ /\ jobs' = started
                 /\ log' = [lg EXCEPT ![c] = job]
                 /\ batch' = S \ {c} /\ running' = c
                 /\ UNCHANGED faults
              \/ AppendThrows(started, lg)

\* A tick of the timer, when no drain is going on (`draining`).
Drain ==
    /\ running = NoCommand
    /\ DueJobs # {}
    /\ NextAttempt(jobs, log, DueJobs)
    /\ UNCHANGED crashes

\* Broken: one attempt too many.
JudgedOnceMore(job, v) ==
    CASE v = "ok" -> [job EXCEPT !.state = "VERIFIED"]
      [] v = "temporary" -> [job EXCEPT !.state = "RETRYING",
                                        !.attempts = @ - 1, !.due = FALSE]
      [] v = "retryable" /\ job.attempts <= MaxAttempts ->
            [job EXCEPT !.state = "RETRYING", !.due = FALSE]
      [] OTHER -> [job EXCEPT !.state = "FAILED"]

\* What a verdict makes of the RUNNING job.  A temporary refusal (kill switch,
\* authorization) gives the attempt back.
Judged(job, v) ==
    CASE v = "ok" -> [job EXCEPT !.state = "VERIFIED"]
      [] v = "temporary" -> [job EXCEPT !.state = "RETRYING",
                                        !.attempts = @ - 1, !.due = FALSE]
      [] v = "retryable" /\ job.attempts < MaxAttempts ->
            [job EXCEPT !.state = "RETRYING", !.due = FALSE]
      [] OTHER -> [job EXCEPT !.state = "FAILED"]

\* runExecute answers; the loop goes on to the next job at once.
Verdict(v) ==
    /\ running # NoCommand
    /\ LET job == Judged(jobs[RunnerQueue][running], v)
           js == [jobs EXCEPT ![RunnerQueue][running] = job]
       IN \/ NextAttempt(js, [log EXCEPT ![running] = job], batch)
          \/ AppendThrows(js, log)
    /\ UNCHANGED crashes

-----------------------------------------------------------------------------
\* The retry delay of a job passes.
DelayPasses(q, c) ==
    /\ jobs[q][c].state = "RETRYING" /\ ~jobs[q][c].due
    /\ jobs' = [jobs EXCEPT ![q][c].due = TRUE]
    /\ UNCHANGED <<log, batch, running, crashes, faults>>

\* Broken: a job found RUNNING is left alone.
LoadedAsIs(job) == job

\* _load: a job found RUNNING is retried at once.
Loaded(job) ==
    IF job.state = "RUNNING"
    THEN [job EXCEPT !.state = "RETRYING", !.due = TRUE]
    ELSE job

\* The process dies and is started again; every queue object reads the file.
Crash ==
    /\ crashes < MaxCrashes /\ crashes' = crashes + 1
    /\ jobs' = [q \in Queues |-> [c \in Commands |-> Loaded(log[c])]]
    /\ batch' = {} /\ running' = NoCommand
    /\ UNCHANGED <<log, faults>>

Next ==
    \/ \E c \in Commands : Enqueue(c) \/ Release(c)
    \/ Drain
    \/ \E v \in Verdicts : Verdict(v)
    \/ \E q \in Queues, c \in Commands : DelayPasses(q, c)
    \/ Crash

Spec == Init /\ [][Next]_jqVars

-----------------------------------------------------------------------------
(* Safety.                                                                  *)

\* A job the file calls VERIFIED, FAILED or CANCELLED keeps that outcome: no
\* verdict, release or restart overwrites it, although any of them may append
\* the line that counts.
OutcomeIsFinal ==
    [][\A c \in Commands :
        log[c].state \in Terminal => log'[c].state = log[c].state]_jqVars

\* While no append threw, a job in state RUNNING is the one whose verdict is
\* awaited: no other would ever be picked up again (dueJobs skips RUNNING).
NoneStranded ==
    faults = 0 =>
        \A c \in Commands :
            jobs[RunnerQueue][c].state = "RUNNING" => running = c

\* Retries are bounded: a job is attempted MaxAttempts times, and once more for
\* each restart that cut an attempt short (its attempt stays counted but a
\* RUNNING line is retried without looking at the budget).
AttemptsBounded ==
    \A q \in Queues, c \in Commands :
        jobs[q][c].attempts <= MaxAttempts + crashes

\* A released intent is not being replayed and never will be.
ReleasedNeverRuns ==
    \A c \in Commands :
        log[c].state = "CANCELLED" =>
            /\ running # c
            /\ jobs[RunnerQueue][c].state = "CANCELLED"

-----------------------------------------------------------------------------
(* The abstract specification.                                              *)

Standing(job) ==
    CASE job.state = "NONE" -> "absent"
      [] job.state \in Terminal -> job.state
      [] OTHER -> "pending"

\* What the shop and the gateway see of a job: its last line, whether it is
\* being executed.
Life == INSTANCE JobLife WITH
    stands <- [c \in Commands |-> Standing(log[c])],
    executing <- {running} \ {NoCommand}

\* Through retries, restarts, releases and appends that throw, a parked write is
\* parked once, executed only while it is pending, alone, withdrawn only between
\* attempts, and never touched again when it is settled.
LivesOnce == Life!JobSpec

-----------------------------------------------------------------------------
(* Liveness: the timer of the runner ticks, delays pass, runExecute answers *)
(* (it has no timeout of its own) and a temporary refusal does not last.    *)

Fairness ==
    /\ WF_jqVars(Drain)
    /\ WF_jqVars(\E v \in Verdicts : Verdict(v))
    /\ SF_jqVars(\E v \in Verdicts \ {"temporary"} : Verdict(v))
    /\ \A q \in Queues, c \in Commands : WF_jqVars(DelayPasses(q, c))

LiveSpec == Spec /\ Fairness

\* A client that polls GET /jobs for its queued intent sees it settled, through
\* restarts and through drains that a released job ended early.  Only an append
\* that threw can strand the job, RUNNING in memory until the next restart.
QueuedJobSettles ==
    \A c \in Commands :
        jobs[HttpQueue][c].state = "QUEUED"
            ~> jobs[HttpQueue][c].state \in Terminal \/ faults > 0
=============================================================================
