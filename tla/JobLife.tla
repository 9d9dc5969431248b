------------------------------ MODULE JobLife ------------------------------
(***************************************************************************)
(* The life of a parked write, as the shop that polls it and the gateway   *)
(* that executes it see it: where its last line stands, and who is being   *)
(* executed.  It is parked once, attempted while it is pending and one at  *)
(* a time, settled by an attempt or withdrawn between attempts, and then   *)
(* over.  JobQueue with one queue object implements it (LivesOnce).        *)
(***************************************************************************)
CONSTANT Commands

VARIABLES
    stands,    \* [Commands -> "absent", "pending" or how it was settled]
    executing  \* the commands being executed, at most one

jobVars == <<stands, executing>>

JobInit == stands = [c \in Commands |-> "absent"] /\ executing = {}

Park(c) ==
    /\ stands[c] = "absent"
    /\ stands' = [stands EXCEPT ![c] = "pending"]
    /\ UNCHANGED executing

\* The shop takes back what is not being executed.
Withdraw(c) ==
    /\ stands[c] = "pending" /\ c \notin executing
    /\ stands' = [stands EXCEPT ![c] = "CANCELLED"]
    /\ UNCHANGED executing

\* Nobody, or one pending command, is executed next.
Picks ==
    \/ executing' = {}
    \/ \E c \in Commands : stands'[c] = "pending" /\ executing' = {c}

Start == executing = {} /\ UNCHANGED stands /\ Picks

\* The attempt is over: it settled the job, or not, or its outcome was lost.
\* The next one may start at once.
End(c) ==
    /\ stands[c] = "pending" /\ executing = {c}
    /\ \/ UNCHANGED stands
       \/ \E s \in {"VERIFIED", "FAILED"} : stands' = [stands EXCEPT ![c] = s]
    /\ Picks

JobNext ==
    \/ \E c \in Commands : Park(c) \/ Withdraw(c) \/ End(c)
    \/ Start

JobSpec == JobInit /\ [][JobNext]_jobVars
=============================================================================
