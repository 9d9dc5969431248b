------------------------------ MODULE McpClient ------------------------------
(***************************************************************************)
(* client.mjs: one child process that speaks JSON-RPC over its pipes, and  *)
(* the calls of one route to it.  The child answers in any order or not at *)
(* all, and may die with requests unread and answers undelivered: its      *)
(* `exit` event and the last data of its pipe come in any order.           *)
(***************************************************************************)
EXTENDS Integers

CONSTANTS
  Calls,       \* listTools, callTool and callWriteTool, each called once
  Closers      \* calls of close()

ASSUME McpClientAssumption == Calls \cap Closers = {}

VARIABLES
  child,       \* "up", "dead" (its exit event is still to come) or "exited"
  stdinEnded,
  initialized,
  call,        \* [Calls -> how far it is, and what it was answered]
  requests,    \* `pending`: request id -> the call that waits for it
  nextId,
  toChild,     \* written into its stdin and not yet answered
  toParent,    \* in its stdout
  closer       \* [Closers -> "idle", "waits" or "closed"]
clientVars == <<child, stdinEnded, initialized, call, requests, nextId, toChild, toParent, closer>>

CallStages == {"idle", "refused", "opening", "called", "got", "failed"}
Waiting == {"opening", "called"}
NoAnswer == [id |-> 0, by |-> "nobody", ok |-> FALSE]

---------------------------------------------------------------------------
\* request(): the entry is there before the line is written; a line that is
\* written to a child that is gone is lost without an error.
Request(c, stage) ==
    /\ requests' = {e \in requests : e.by # c} \cup {[id |-> nextId, by |-> c, late |-> child = "exited"]}
    /\ nextId' = nextId + 1
    /\ toChild' = IF child = "up" /\ ~stdinEnded
                    THEN toChild \cup {[id |-> nextId, by |-> c]} ELSE toChild
    /\ call' = [call EXCEPT ![c].stage = stage]

\* The read-only guard or the doctype gate: nothing is sent.
CallRefused(c) ==
    /\ call[c].stage = "idle" /\ call' = [call EXCEPT ![c].stage = "refused"]
    /\ UNCHANGED <<child, stdinEnded, initialized, requests, nextId, toChild, toParent, closer>>
\* Two calls that come before the handshake is done both do it.
CallAllowed(c) ==
    /\ call[c].stage = "idle" /\ Request(c, IF initialized THEN "called" ELSE "opening")
    /\ UNCHANGED <<child, stdinEnded, initialized, toParent, closer>>

ChildAnswers(r, ok) ==
    /\ child = "up" /\ r \in toChild /\ toChild' = toChild \ {r}
    /\ toParent' = toParent \cup {[id |-> r.id, by |-> r.by, ok |-> ok]}
    /\ UNCHANGED <<child, stdinEnded, initialized, call, requests, nextId, closer>>
\* A crash, or the end of its stdin.
ChildDies ==
    /\ child = "up" /\ child' = "dead"
    /\ UNCHANGED <<stdinEnded, initialized, call, requests, nextId, toChild, toParent, closer>>

\* The data handler: what nobody waits for (any more) is dropped.
Entries(m) == {e \in requests : e.id = m.id}
DataCame(m) ==
    /\ m \in toParent /\ toParent' = toParent \ {m}
    /\ IF Entries(m) = {} THEN UNCHANGED <<initialized, call, requests, nextId, toChild>>
       ELSE LET c == (CHOOSE e \in Entries(m) : TRUE).by
            IN IF call[c].stage = "opening" /\ m.ok
                 THEN initialized' = TRUE /\ Request(c, "called")
               ELSE /\ requests' = requests \ Entries(m)
                    /\ call' = [call EXCEPT ![c] = [stage |-> IF m.ok THEN "got" ELSE "failed",
                                                    answer |-> m]]
                    /\ UNCHANGED <<initialized, nextId, toChild>>
    /\ UNCHANGED <<child, stdinEnded, closer>>

\* The exit handler rejects whoever waits, and whoever closes is through.
Rejected == {e.by : e \in requests}
ExitCame ==
    /\ child = "dead" /\ child' = "exited"
    /\ call' = [c \in Calls |-> IF c \in Rejected THEN [call[c] EXCEPT !.stage = "failed"] ELSE call[c]]
    /\ requests' = {e \in requests : e.by \notin Rejected}
    /\ closer' = [k \in Closers |-> IF closer[k] = "waits" THEN "closed" ELSE closer[k]]
    /\ UNCHANGED <<stdinEnded, initialized, nextId, toChild, toParent>>

\* Broken: close() always waits for the exit event.
NeverKnown == FALSE
\* close(): at once when the child is known to be gone; exitCode is set in the
\* same tick as the event is emitted.
ExitKnown == child = "exited"
CloseClient(k) ==
    /\ closer[k] = "idle"
    /\ IF ExitKnown THEN closer' = [closer EXCEPT ![k] = "closed"] /\ UNCHANGED stdinEnded
               ELSE closer' = [closer EXCEPT ![k] = "waits"] /\ stdinEnded' = TRUE
    /\ UNCHANGED <<child, initialized, call, requests, nextId, toChild, toParent>>

ClientInit ==
    /\ child = "up" /\ stdinEnded = FALSE /\ initialized = FALSE
    /\ call = [c \in Calls |-> [stage |-> "idle", answer |-> NoAnswer]]
    /\ requests = {} /\ nextId = 1 /\ toChild = {} /\ toParent = {}
    /\ closer = [k \in Closers |-> "idle"]
ClientNext ==
  \/ \E c \in Calls : CallRefused(c) \/ CallAllowed(c)
  \/ \E r \in toChild, ok \in BOOLEAN : ChildAnswers(r, ok)
  \/ ChildDies
  \/ \E m \in toParent : DataCame(m)
  \/ ExitCame
  \/ \E k \in Closers : CloseClient(k)
ClientSpec == ClientInit /\ [][ClientNext]_clientVars

---------------------------------------------------------------------------
ClientTypeOK ==
    /\ child \in {"up", "dead", "exited"} /\ stdinEnded \in BOOLEAN /\ initialized \in BOOLEAN
    /\ call \in [Calls -> [stage : CallStages,
                           answer : [id : Nat, by : Calls, ok : BOOLEAN] \cup {NoAnswer}]]
    /\ requests \subseteq [id : Nat, by : Calls, late : BOOLEAN] /\ nextId \in Nat
    /\ toChild \subseteq [id : Nat, by : Calls]
    /\ toParent \subseteq [id : Nat, by : Calls, ok : BOOLEAN]
    /\ closer \in [Closers -> {"idle", "waits", "closed"}]

\* However the answers are ordered, whoever else calls and whenever the child
\* dies: a call is given the answer to its own request or a failure, never
\* another's; and once the exit is known, nobody who asked before it and
\* nobody who closes is left waiting (the data and exit handlers, close; the
\* comment of close says that the wait once hung for ever).
OwnAnswerOrFailure ==
    /\ \A c \in Calls : call[c].stage = "got" => call[c].answer.by = c
    /\ child = "exited" =>
         /\ \A c \in Calls : call[c].stage \in Waiting => \E e \in requests : e.by = c /\ e.late
         /\ \A k \in Closers : closer[k] # "waits"
=============================================================================
