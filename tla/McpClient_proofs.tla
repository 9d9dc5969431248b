--------------------------- MODULE McpClient_proofs ---------------------------
(***************************************************************************)
(* What a caller of client.mjs may rely on, for any number of calls and of *)
(* closers.                                                                *)
(***************************************************************************)
EXTENDS McpClient, TLAPS

\* Ids are given out once: what carries the id of an entry is its caller's.
IdsInUse ==
    /\ \A e \in requests : e.id < nextId
    /\ \A r \in toChild : r.id < nextId
    /\ \A m \in toParent : m.id < nextId
Owned ==
    /\ \A e \in requests, r \in toChild : e.id = r.id => e.by = r.by
    /\ \A e \in requests, m \in toParent : e.id = m.id => e.by = m.by
AnsweredOwn == \A c \in Calls : call[c].stage = "got" => call[c].answer.by = c
\* Who waits has an entry, so that the exit handler finds him.
WaiterEntered == \A c \in Calls : call[c].stage \in Waiting => \E e \in requests : e.by = c
EntriesAfterExit ==
    child = "exited" => /\ \A e \in requests : e.late
                        /\ \A k \in Closers : closer[k] # "waits"
ClientInv ==
    /\ ClientTypeOK /\ IdsInUse /\ Owned /\ AnsweredOwn /\ WaiterEntered /\ EntriesAfterExit

\* The type invariant with the type of a call in one word.
Answers == [id : Nat, by : Calls, ok : BOOLEAN] \cup {NoAnswer}
CallTyped == call \in [Calls -> [stage : CallStages, answer : Answers]]
LEMMA CallTyping ==
  ClientTypeOK <=>
    /\ CallTyped
    /\ child \in {"up", "dead", "exited"} /\ stdinEnded \in BOOLEAN /\ initialized \in BOOLEAN
    /\ requests \subseteq [id : Nat, by : Calls, late : BOOLEAN] /\ nextId \in Nat
    /\ toChild \subseteq [id : Nat, by : Calls]
    /\ toParent \subseteq [id : Nat, by : Calls, ok : BOOLEAN]
    /\ closer \in [Closers -> {"idle", "waits", "closed"}]
  BY DEF ClientTypeOK, CallTyped, Answers

LEMMA ClientInvInit == ClientInit => ClientInv
<1> SUFFICES ASSUME ClientInit PROVE ClientInv
  OBVIOUS
<1>1. CallTyped
  BY DEF ClientInit, CallTyped, Answers, CallStages
<1>2. ClientTypeOK
  BY <1>1, CallTyping DEF ClientInit
<1> QED BY <1>1, <1>2 DEF ClientInit, ClientInv, CallTyped, IdsInUse, Owned, AnsweredOwn,
                          WaiterEntered, EntriesAfterExit, Waiting

\* A call that goes on keeps what it was answered.
LEMMA StageSet ==
  ASSUME NEW rec \in [stage : CallStages, answer : Answers], NEW s \in CallStages
  PROVE  /\ [rec EXCEPT !.stage = s] \in [stage : CallStages, answer : Answers]
         /\ [rec EXCEPT !.stage = s].stage = s
         /\ [rec EXCEPT !.stage = s].answer = rec.answer
  OBVIOUS

\* request() on behalf of one call, from wherever that call was.
LEMMA RequestKeeps ==
  ASSUME ClientInv, NEW c \in Calls, NEW stage \in Waiting, Request(c, stage),
         initialized' \in BOOLEAN, toParent' \subseteq toParent,
         UNCHANGED <<child, stdinEnded, closer>>
  PROVE  ClientInv'
<1> USE DEF ClientInv, Waiting
<1>1. /\ requests' = {e \in requests : e.by # c} \cup {[id |-> nextId, by |-> c, late |-> child = "exited"]}
      /\ nextId' = nextId + 1 /\ nextId \in Nat
      /\ toChild' \subseteq toChild \cup {[id |-> nextId, by |-> c]}
      /\ call' = [call EXCEPT ![c].stage = stage]
  BY DEF Request, ClientTypeOK
<1>a. stage \in CallStages /\ stage # "got" /\ CallTyped
  BY CallTyping DEF CallStages
<1>b. /\ CallTyped'
      /\ \A x \in Calls : call'[x].stage = IF x = c THEN stage ELSE call[x].stage
      /\ \A x \in Calls : call'[x].answer = call[x].answer
  BY <1>1, <1>a, StageSet DEF CallTyped
<1>2. ClientTypeOK'
  <2>1. CallTyped'
    BY <1>b
  <2>2. requests' \subseteq [id : Nat, by : Calls, late : BOOLEAN] /\ nextId' \in Nat
    <3>1. \A b \in BOOLEAN : [id |-> nextId, by |-> c, late |-> b] \in [id : Nat, by : Calls, late : BOOLEAN]
      BY <1>1
    <3>2. (child = "exited") \in BOOLEAN
      OBVIOUS
    <3>3. [id |-> nextId, by |-> c, late |-> child = "exited"] \in [id : Nat, by : Calls, late : BOOLEAN]
      BY <3>1, <3>2, Zenon
    <3>4. requests \subseteq [id : Nat, by : Calls, late : BOOLEAN]
      BY DEF ClientTypeOK
    <3>5. requests' \subseteq requests \cup {[id |-> nextId, by |-> c, late |-> child = "exited"]}
      BY <1>1, Zenon
    <3>6. requests' \subseteq [id : Nat, by : Calls, late : BOOLEAN]
      BY <3>3, <3>4, <3>5, Zenon
    <3> QED BY <1>1, <3>6
  <2>3. toChild' \subseteq [id : Nat, by : Calls]
    BY <1>1 DEF ClientTypeOK
  <2> QED BY <2>1, <2>2, <2>3, CallTyping DEF ClientTypeOK, CallTyped, Answers
<1>3. IdsInUse'
  BY <1>1 DEF ClientTypeOK, IdsInUse
<1>4. Owned'
  BY <1>1 DEF ClientTypeOK, IdsInUse, Owned
<1>5. AnsweredOwn'
  BY <1>a, <1>b DEF AnsweredOwn
<1>6. WaiterEntered'
  <2> SUFFICES ASSUME NEW x \in Calls, call'[x].stage \in Waiting
               PROVE  \E e \in requests' : e.by = x
    BY DEF WaiterEntered
  <2>1. CASE x = c
    <3>1. [id |-> nextId, by |-> c, late |-> child = "exited"] \in requests'
      BY <1>1
    <3> QED BY <2>1, <3>1
  <2>2. CASE x # c
    <3>1. PICK e \in requests : e.by = x
      BY <1>b, <2>2 DEF WaiterEntered
    <3>2. e \in requests'
      BY <1>1, <2>2, <3>1
    <3> QED BY <3>1, <3>2
  <2> QED BY <2>1, <2>2
<1>7. EntriesAfterExit'
  <2>1. ASSUME child' = "exited", NEW e \in requests' PROVE e.late
    <3>1. CASE e \in requests
      BY <2>1, <3>1 DEF EntriesAfterExit
    <3>2. CASE e = [id |-> nextId, by |-> c, late |-> child = "exited"]
      <4>1. e.late = (child = "exited")
        BY <3>2
      <4> QED BY <2>1, <4>1
    <3> QED BY <1>1, <2>1, <3>1, <3>2
  <2> QED BY <2>1 DEF EntriesAfterExit
<1> QED BY <1>2, <1>3, <1>4, <1>5, <1>6, <1>7

\* The entries of a message are its caller's, and they go together.
LEMMA DataKeeps ==
  ASSUME ClientInv, NEW m \in toParent, DataCame(m)
  PROVE  ClientInv'
<1> USE DEF ClientInv
<1>1. CASE Entries(m) = {}
  BY <1>1 DEF DataCame, ClientTypeOK, IdsInUse, Owned, AnsweredOwn, WaiterEntered, EntriesAfterExit
<1>2. CASE Entries(m) # {}
  <2> DEFINE c == (CHOOSE e \in Entries(m) : TRUE).by
  <2>1. c = m.by /\ c \in Calls /\ \A e \in Entries(m) : e.by = c
    BY <1>2 DEF Entries, Owned, ClientTypeOK
  <2>2. CASE call[c].stage = "opening" /\ m.ok
    <3>1. Request(c, "called") /\ initialized' = TRUE /\ toParent' \subseteq toParent
          /\ UNCHANGED <<child, stdinEnded, closer>>
      BY <1>2, <2>2 DEF DataCame
    <3> QED BY <2>1, <3>1, RequestKeeps DEF Waiting
  <2>3. CASE ~(call[c].stage = "opening" /\ m.ok)
    <3>1. /\ requests' = requests \ Entries(m) /\ toParent' = toParent \ {m}
          /\ call' = [call EXCEPT ![c] = [stage |-> IF m.ok THEN "got" ELSE "failed", answer |-> m]]
          /\ UNCHANGED <<child, stdinEnded, initialized, nextId, toChild, closer>>
      BY <1>2, <2>3 DEF DataCame
    <3>2. m \in [id : Nat, by : Calls, ok : BOOLEAN]
      BY DEF ClientTypeOK
    <3>3. ClientTypeOK'
      BY <2>1, <3>1, <3>2 DEF ClientTypeOK, CallStages
    <3>4. IdsInUse' /\ Owned'
      BY <3>1 DEF IdsInUse, Owned
    <3>5. AnsweredOwn'
      BY <2>1, <3>1 DEF AnsweredOwn, ClientTypeOK
    <3>6. WaiterEntered'
      BY <2>1, <3>1, <3>2 DEF WaiterEntered, ClientTypeOK, Waiting
    <3>7. EntriesAfterExit'
      BY <3>1 DEF EntriesAfterExit
    <3> QED BY <3>3, <3>4, <3>5, <3>6, <3>7
  <2> QED BY <2>2, <2>3
<1> QED BY <1>1, <1>2

\* The exit handler empties the map, and so nobody is left behind.
LEMMA ExitKeeps ==
  ASSUME ClientInv, ExitCame
  PROVE  ClientInv'
<1> USE DEF ClientInv
<1>1. requests' = {}
  BY DEF ExitCame, Rejected
<1>2. \A c \in Calls : /\ call[c].stage \in Waiting => c \in Rejected
                       /\ call'[c] = IF c \in Rejected THEN [call[c] EXCEPT !.stage = "failed"]
                                     ELSE call[c]
  BY DEF ExitCame, Rejected, WaiterEntered
<1>3. ClientTypeOK'
  <2>1. call' = [c \in Calls |-> IF c \in Rejected THEN [call[c] EXCEPT !.stage = "failed"]
                                 ELSE call[c]]
    BY DEF ExitCame
  <2>2. CallTyped'
    BY <2>1, CallTyping, StageSet DEF CallTyped, CallStages
  <2> QED BY <1>1, <2>2 DEF ExitCame, ClientTypeOK, CallTyped, Answers
<1>4. IdsInUse' /\ Owned'
  BY <1>1 DEF ExitCame, IdsInUse, Owned
<1>5. AnsweredOwn' /\ WaiterEntered'
  <2>1. \A c \in Calls : /\ call'[c].stage \notin Waiting
                         /\ call'[c].stage = "got" => call'[c] = call[c]
    <3> SUFFICES ASSUME NEW c \in Calls
                 PROVE  /\ call'[c].stage \notin Waiting
                        /\ call'[c].stage = "got" => call'[c] = call[c]
      OBVIOUS
    <3>1. call[c] \in [stage : CallStages, answer : Answers]
      BY CallTyping DEF CallTyped
    <3>2. [call[c] EXCEPT !.stage = "failed"].stage = "failed"
      BY <3>1, StageSet DEF CallStages
    <3> QED BY <1>2, <3>2 DEF Waiting
  <2> QED BY <2>1 DEF AnsweredOwn, WaiterEntered
<1>6. EntriesAfterExit'
  BY <1>1 DEF ExitCame, EntriesAfterExit
<1> QED BY <1>3, <1>4, <1>5, <1>6

LEMMA ClientInvNext == ClientInv /\ [ClientNext]_clientVars => ClientInv'
<1> SUFFICES ASSUME ClientInv, [ClientNext]_clientVars PROVE ClientInv'
  OBVIOUS
<1>1. ASSUME NEW c \in Calls, CallRefused(c) PROVE ClientInv'
  BY <1>1 DEF ClientInv, CallRefused, ClientTypeOK, IdsInUse, Owned, AnsweredOwn, WaiterEntered,
              EntriesAfterExit, CallStages, Waiting
<1>2. ASSUME NEW c \in Calls, CallAllowed(c) PROVE ClientInv'
  <2>1. Request(c, IF initialized THEN "called" ELSE "opening")
        /\ UNCHANGED <<child, stdinEnded, initialized, toParent, closer>>
    BY <1>2 DEF CallAllowed
  <2>2. initialized' \in BOOLEAN /\ toParent' \subseteq toParent
    BY <2>1 DEF ClientInv, ClientTypeOK
  <2> QED BY <2>1, <2>2, RequestKeeps DEF Waiting
<1>3. ASSUME NEW r \in toChild, NEW ok \in BOOLEAN, ChildAnswers(r, ok) PROVE ClientInv'
  <2>1. r \in [id : Nat, by : Calls]
    BY DEF ClientInv, ClientTypeOK
  <2>2. ClientTypeOK'
    BY <1>3, <2>1 DEF ClientInv, ChildAnswers, ClientTypeOK
  <2>3. IdsInUse' /\ Owned'
    BY <1>3 DEF ClientInv, ChildAnswers, IdsInUse, Owned
  <2> QED BY <1>3, <2>2, <2>3 DEF ClientInv, ChildAnswers, AnsweredOwn, WaiterEntered, EntriesAfterExit
<1>4. CASE ChildDies
  BY <1>4 DEF ClientInv, ChildDies, ClientTypeOK, IdsInUse, Owned, AnsweredOwn, WaiterEntered,
              EntriesAfterExit
<1>5. ASSUME NEW m \in toParent, DataCame(m) PROVE ClientInv'
  BY <1>5, DataKeeps
<1>6. CASE ExitCame
  BY <1>6, ExitKeeps
<1>7. ASSUME NEW k \in Closers, CloseClient(k) PROVE ClientInv'
  BY <1>7 DEF ClientInv, CloseClient, ExitKnown, ClientTypeOK, IdsInUse, Owned, AnsweredOwn,
              WaiterEntered, EntriesAfterExit
<1>8. CASE UNCHANGED clientVars
  BY <1>8 DEF clientVars, ClientInv, ClientTypeOK, IdsInUse, Owned, AnsweredOwn, WaiterEntered,
              EntriesAfterExit
<1> QED BY <1>1, <1>2, <1>3, <1>4, <1>5, <1>6, <1>7, <1>8 DEF ClientNext

LEMMA ClientInvHolds == ClientSpec => []ClientInv
  BY ClientInvInit, ClientInvNext, PTL DEF ClientSpec

\* Whatever the order of answers, exit and calls: the calls, the pending map
\* and the pipes of client.mjs hold what they are meant to hold.
THEOREM ClientTypeCorrect == ClientSpec => []ClientTypeOK
<1>1. ClientInv => ClientTypeOK
  BY DEF ClientInv
<1> QED BY <1>1, ClientInvHolds, PTL

\* For any number of calls and closers: a call ends with the answer to its
\* own request or with a failure, and the exit of the child leaves nobody
\* waiting who asked before it (data handler, exit handler, close).
THEOREM OwnAnswerOrFailureHolds == ClientSpec => []OwnAnswerOrFailure
<1>1. ClientInv => OwnAnswerOrFailure
  BY DEF ClientInv, OwnAnswerOrFailure, AnsweredOwn, WaiterEntered, EntriesAfterExit
<1> QED BY <1>1, ClientInvHolds, PTL
=============================================================================
