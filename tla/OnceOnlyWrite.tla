---------------------------- MODULE OnceOnlyWrite ---------------------------
(***************************************************************************)
(* What the write path promises a shop, said without handlers, stores and  *)
(* retries: a command has at most one effect on ERPNext; a client that is  *)
(* told "done" is told a document that exists, the same one every time it  *)
(* asks; a command declared failed has no effect and never gets one.       *)
(* SafetyGateway implements it (Implements), for a client that waits for   *)
(* its answer.                                                             *)
(***************************************************************************)
CONSTANTS Commands, Names

VARIABLES
    effect,  \* [Commands -> the documents that exist because of the command]
    told,    \* [Commands -> the documents its clients were told]
    failed   \* the commands declared failed

onceVars == <<effect, told, failed>>

OnceInit ==
    /\ effect = [c \in Commands |-> {}]
    /\ told = [c \in Commands |-> {}]
    /\ failed = {}

AllDocuments == UNION {effect[c] : c \in Commands}

\* The one effect of c.
Take(c) ==
    /\ effect[c] = {}
    /\ c \notin failed
    /\ \E n \in Names \ AllDocuments : effect' = [effect EXCEPT ![c] = {n}]
    /\ UNCHANGED <<told, failed>>

\* A client is told a document: the work of its command, which another command
\* may have done, and never another document than the first time.
Tell(c) ==
    /\ c \notin failed
    /\ \E n \in AllDocuments :
        told[c] \subseteq {n} /\ told' = [told EXCEPT ![c] = {n}]

\* Commands without an effect are declared failed (several at a time: the store
\* is written whole), on their own or together with an answer.
Declare ==
    /\ \E S \in SUBSET {c \in Commands : effect[c] = {} /\ told[c] = {}} :
        failed' = failed \cup S
    /\ UNCHANGED told \/ \E c \in Commands \ failed' : Tell(c)
    /\ UNCHANGED effect

OnceNext == Declare \/ \E c \in Commands : Take(c)

OnceSpec == OnceInit /\ [][OnceNext]_onceVars
=============================================================================
