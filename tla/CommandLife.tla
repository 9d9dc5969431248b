---------------------------- MODULE CommandLife ----------------------------
(***************************************************************************)
(* What a command can count on whatever happens: its requests overlap, the *)
(* process dies at any await, persists throw, writes land after their      *)
(* caller gave up.  OnceOnlyWrite promises more, to clients that wait.     *)
(* Only what outlives the process is here: the stored records, the         *)
(* documents on the site, and what clients were told.  SafetyGateway       *)
(* implements it (Outlives).                                               *)
(***************************************************************************)
CONSTANTS Commands, Users, Names, None

VARIABLES
    record,     \* [Commands -> what is stored of the command]
    documents,  \* the documents on the site, [name, cmd]
    told,       \* the answers some client got, [cmd, doc]
    flawless    \* no save has failed so far

lifeVars == <<record, documents, told, flawless>>

Entry == [status : {"UNKNOWN", "PENDING", "COMPLETED", "FAILED", "CANCELLED"},
          user : Users \cup {None}, ref : BOOLEAN]

LifeInit ==
    /\ record = [c \in Commands |-> [status |-> "UNKNOWN", user |-> None, ref |-> FALSE]]
    /\ documents = {} /\ told = {} /\ flawless = TRUE

\* A command that is known has an owner.  What was completed or cancelled may
\* have written and can be traced; what failed has not and cannot.
Stands(e) ==
    /\ e.status = "UNKNOWN" <=> e.user = None
    /\ e.status \in {"COMPLETED", "CANCELLED"} => e.ref
    /\ e.status \in {"UNKNOWN", "FAILED"} => ~e.ref

\* A save may store several changes of an entry at once, but it undoes no outcome,
\* no owner and no reference.
Follows(e, f) ==
    f = e \/ /\ e.status \notin {"COMPLETED", "FAILED"}
             /\ Stands(f)
             /\ e.user \in {None, f.user}
             /\ e.ref => f.ref

\* A client is told a document that exists, of a command that can be traced and,
\* as long as no save has failed, is stored as completed.
Tell(c) ==
    /\ \E d \in documents : told' = told \cup {[cmd |-> c, doc |-> d.name]}
    /\ record'[c].ref
    /\ flawless' => record'[c].status = "COMPLETED"

\* The store is saved, whole, or a save fails; perhaps with an answer.
Save ==
    /\ record' \in [Commands -> Entry]
    /\ \A c \in Commands : Follows(record[c], record'[c])
    /\ UNCHANGED told \/ \E c \in Commands : Tell(c)
    /\ flawless' \in {flawless, FALSE}
    /\ UNCHANGED documents

\* A document appears, only for a command that can be traced to it.
Land(c) ==
    /\ record[c].ref
    /\ \E n \in Names : /\ \A d \in documents : d.name # n
                        /\ documents' = documents \cup {[name |-> n, cmd |-> c]}
    /\ UNCHANGED <<record, told, flawless>>

LifeNext == Save \/ \E c \in Commands : Land(c)

LifeSpec == LifeInit /\ [][LifeNext]_lifeVars
=============================================================================
