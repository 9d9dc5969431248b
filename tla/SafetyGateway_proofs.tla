------------------------ MODULE SafetyGateway_proofs ------------------------
(***************************************************************************)
(* The safety of the write path for every value of the constants: any      *)
(* number of handlers, commands and proposals, with overlapping requests,  *)
(* crashes, persists that throw and writes that land late.                 *)
(***************************************************************************)
EXTENDS SafetyGateway, CommandStore_proofs

-----------------------------------------------------------------------------
(* The inductive invariant.                                                 *)

\* Before the reference is recorded; with a document in hand; of a cancel.
Early == {"open", "probe", "check"}
Holding == {"found", "created", "submit", "submitted", "advance", "advanced"}
Cancelling == {"cancel", "cancelling"}

\* A handler at work serves a command that is begun and not failed; past the
\* early awaits its reference is recorded, and on disk if it may write.
HandlerOK(h) ==
    pc[h] # "idle" =>
        /\ req[h].cmd \in Commands
        /\ cache[req[h].cmd].status \notin {"UNKNOWN", "FAILED"}
        /\ pc[h] \notin Early => cache[req[h].cmd].ref
        /\ pc[h] \notin Early \cup Cancelling => disk[req[h].cmd].ref
        /\ pc[h] \notin Cancelling => req[h] \in RequestSet
        /\ pc[h] \in Holding => seen[h] \in Results

HandlerInv == \A h \in Handlers : HandlerOK(h)

\* While a command has no reference, one handler at most is past begin() with
\* it: a second begin() is resumed and refused.  This is what makes fail() safe.
EarlyAlone ==
    \A g, h \in Handlers :
        /\ pc[g] \in Early /\ pc[h] \in Early
        /\ req[g].cmd = req[h].cmd
        /\ ~cache[req[h].cmd].ref
        => g = h

AppliedReferenced ==
    /\ \A d \in docs : disk[d.write.cmd].ref
    /\ \A w \in late : disk[w.cmd].ref

AckedRecorded ==
    \A a \in acked :
        /\ disk[a.cmd].ref
        /\ faults = 0 => disk[a.cmd].status = "COMPLETED"

\* The types of what is not the store's.
GatewayTypeOK ==
    /\ pc \in [Handlers -> Pcs]
    /\ req \in [Handlers -> RequestSet \cup {NoRequest}
                            \cup [cmd : Commands, user : Users, prop : {None}]]
    /\ seen \in [Handlers -> Results \cup {None}]
    /\ docs \subseteq Document
    /\ submitted \subseteq Names
    /\ late \subseteq Write
    /\ expired \subseteq Proposals
    /\ acked \subseteq Answer
    /\ retryTold \subseteq Commands

IndInv ==
    /\ GatewayTypeOK
    /\ StoreGood
    /\ HandlerInv
    /\ EarlyAlone
    /\ AppliedReferenced
    /\ AckedRecorded

LEMMA InitInductive == Init => IndInv
<1>. SUFFICES ASSUME Init PROVE IndInv
  OBVIOUS
<1>1. StoreGood
  BY InitStore DEF Init
<1>2. GatewayTypeOK
  BY DEF Init, GatewayTypeOK, Pcs
<1>3. HandlerInv /\ EarlyAlone /\ AppliedReferenced /\ AckedRecorded
  BY DEF Init, HandlerInv, HandlerOK, EarlyAlone, AppliedReferenced, AckedRecorded, Early
<1>. QED  BY <1>1, <1>2, <1>3 DEF IndInv

-----------------------------------------------------------------------------
(* The store is only used as its lemmas require.                            *)

\* The catch block fails a command only while it has no reference.
LEMMA RefuseStore ==
    ASSUME IndInv, NEW h \in Handlers, pc[h] # "idle", Refuse(h)
    PROVE  StoreGood' /\ StoreKeeps
<1>1. req[h].cmd \in Commands
  BY DEF IndInv, HandlerInv, HandlerOK
<1>2. CASE UNCHANGED storeVars
  BY <1>2 DEF IndInv, StoreGood, StoreTypeOK, StoreInv, IntentLock,
              OnePendingPerIntent, StoreKeeps, storeVars
<1>3. CASE ~cache[req[h].cmd].ref /\ \E ok \in BOOLEAN : Fail(req[h].cmd, ok)
  BY <1>1, <1>3, FailGood DEF IndInv
<1>. QED  BY <1>2, <1>3 DEF Refuse

LEMMA StoreInductive ==
    ASSUME IndInv, [Next]_gwVars
    PROVE  StoreGood' /\ StoreKeeps
<1>. USE DEF IndInv
<1>1. ASSUME UNCHANGED storeVars PROVE StoreGood' /\ StoreKeeps
  BY <1>1 DEF StoreGood, StoreTypeOK, StoreInv, IntentLock,
              OnePendingPerIntent, StoreKeeps, storeVars
<1>2. ASSUME NEW h \in Handlers, NEW r \in Requests, Execute(h, r)
      PROVE  StoreGood' /\ StoreKeeps
  <2>0. r.cmd \in Commands /\ r.user \in Users /\ r.prop \in Proposals
    BY GatewayAssumption DEF GatewayAssumption, RequestSet
  <2>1. CASE Replay(h, r)
    BY <2>1, <1>1 DEF Replay
  <2>2. CASE BeginExecute(h, r)
    BY <2>0, <2>2, BeginGood DEF BeginExecute
  <2>3. CASE BeginNotPersisted(h, r)
    BY <2>0, <2>3, BeginGood DEF BeginNotPersisted
  <2>. QED  BY <1>2, <2>1, <2>2, <2>3 DEF Execute
<1>3. ASSUME NEW h \in Handlers, Step(h)
      PROVE  StoreGood' /\ StoreKeeps
  <2>1. CASE \/ ClientUnavailable(h) \/ ClientOpens(h)
             \/ ReconcileFinds(h) \/ ReconcileFindsNone(h) \/ ReconcileFails(h)
             \/ ProbeFindsNone(h) \/ ErpCreates(h) \/ NextWrite(h)
             \/ ErpSubmits(h) \/ ErpCreatesAdvance(h)
             \/ CancelFindsNone(h) \/ CancelRefused(h)
    BY <2>1, <1>1 DEF ClientUnavailable, ClientOpens, ReconcileFinds,
         ReconcileFindsNone, ReconcileFails, ProbeFindsNone, ErpCreates,
         NextWrite, ErpSubmits, ErpCreatesAdvance, CancelFindsNone, CancelRefused
  <2>2. CASE ProbeRefuses(h) \/ CheckRefuses(h) \/ WriteUnverified(h)
    BY <2>2, RefuseStore DEF ProbeRefuses, CheckRefuses, WriteUnverified
  <2>3. CASE CompleteFound(h) \/ Finish(h)
    <3>1. /\ pc[h] \in Holding
          /\ \E ok \in BOOLEAN : Complete(req[h].cmd, seen[h], ok)
      BY <2>3 DEF CompleteFound, Finish, Holding
    <3>2. /\ req[h].cmd \in Commands /\ seen[h] \in Results
          /\ cache[req[h].cmd].status # "FAILED" /\ disk[req[h].cmd].ref
      BY <3>1 DEF HandlerInv, HandlerOK, Holding, Early, Cancelling
    <3>. QED  BY <3>1, <3>2, CompleteGood
  <2>4. CASE SendCreate(h)
    <3>1. /\ pc[h] = "check"
          /\ \E ok \in BOOLEAN : SetReference(req[h].cmd, ok)
      BY <2>4 DEF SendCreate
    <3>2. req[h].cmd \in Commands /\ cache[req[h].cmd].status # "FAILED"
      BY <3>1 DEF HandlerInv, HandlerOK
    <3>. QED  BY <3>1, <3>2, SetReferenceGood
  <2>5. CASE CancelApplies(h)
    <3>1. req[h].cmd \in Commands
      BY <2>5 DEF CancelApplies, HandlerInv, HandlerOK
    <3>. QED  BY <2>5, <3>1, <1>1, CancelGood DEF CancelApplies
  <2>. QED  BY <1>3, <2>1, <2>2, <2>3, <2>4, <2>5 DEF Step
<1>4. ASSUME NEW h \in Handlers, NEW c \in Commands, NEW u \in Users,
             CancelRequest(h, c, u)
      PROVE  StoreGood' /\ StoreKeeps
  BY <1>4, <1>1 DEF CancelRequest
<1>5. CASE Crash
  BY <1>5, ReloadGood DEF Crash
<1>6. CASE ErpCreatesLate \/ Expire
  BY <1>6, <1>1 DEF ErpCreatesLate, Expire
<1>7. CASE UNCHANGED gwVars
  BY <1>7, <1>1 DEF gwVars, storeVars
<1>. QED  BY <1>2, <1>3, <1>4, <1>5, <1>6, <1>7 DEF Next

-----------------------------------------------------------------------------
(* The types of the rest.                                                   *)

LEMMA NextNameFree ==
    ASSUME FreeNames # {}
    PROVE  NextName \in Names
BY DEF NextName, FreeNames

LEMMA InsertType ==
    ASSUME docs \subseteq Document, NEW w \in Write, Insert(w)
    PROVE  docs' \subseteq Document /\ NextName \in Names
BY NextNameFree DEF Insert, Document

\* What a handler that is not cancelling may write.
LEMMA WriteTypes ==
    ASSUME IndInv, NEW h \in Handlers, pc[h] # "idle", pc[h] \notin Cancelling
    PROVE  MainWrite(h) \in Write /\ AdvanceWrite(h) \in Write
<1>1. req[h] \in RequestSet
  BY DEF IndInv, HandlerInv, HandlerOK
<1>. QED  BY <1>1 DEF RequestSet, MainWrite, AdvanceWrite, Write

LEMMA DoneTypes ==
    ASSUME GatewayTypeOK, NEW h \in Handlers, Done(h)
    PROVE  /\ pc' \in [Handlers -> Pcs]
           /\ req' \in [Handlers -> RequestSet \cup {NoRequest}
                            \cup [cmd : Commands, user : Users, prop : {None}]]
           /\ seen' \in [Handlers -> Results \cup {None}]
BY DEF GatewayTypeOK, Done, Pcs

LEMMA TypesInductive ==
    ASSUME IndInv, [Next]_gwVars
    PROVE  GatewayTypeOK'
<1>. USE DEF IndInv
<1>1. ASSUME NEW h \in Handlers, NEW r \in Requests, Execute(h, r)
      PROVE  GatewayTypeOK'
  <2>0. r \in RequestSet /\ r.cmd \in Commands
    BY GatewayAssumption DEF GatewayAssumption, RequestSet
  <2>1. CASE Replay(h, r)
    <3>1. cache[r.cmd].result.doc \in Names
      BY <2>0, <2>1 DEF Replay, Replays, StoreGood, StoreInv, Results
    <3>. QED  BY <2>0, <2>1, <3>1 DEF Replay, TellOk, GatewayTypeOK, Answer,
                                     erpVars
  <2>2. CASE BeginExecute(h, r)
    BY <2>0, <2>2 DEF BeginExecute, GatewayTypeOK, Pcs, erpVars, tellVars
  <2>3. CASE BeginNotPersisted(h, r)
    BY <2>3 DEF BeginNotPersisted, GatewayTypeOK, erpVars, tellVars
  <2>. QED  BY <1>1, <2>1, <2>2, <2>3 DEF Execute
<1>2. ASSUME NEW h \in Handlers, Step(h)
      PROVE  GatewayTypeOK'
  <2>1. CASE \/ ClientUnavailable(h) \/ ProbeRefuses(h) \/ CheckRefuses(h)
    <3>1. req[h].cmd \in Commands
      BY <2>1 DEF ClientUnavailable, ProbeRefuses, CheckRefuses, HandlerInv, HandlerOK
    <3>. QED  BY <2>1, <3>1, DoneTypes DEF ClientUnavailable, ProbeRefuses,
                CheckRefuses, Refuse, GatewayTypeOK, TellRetry, erpVars, tellVars
  <2>2. CASE \/ ClientOpens(h) \/ ReconcileFindsNone(h) \/ ProbeFindsNone(h)
             \/ NextWrite(h) \/ CancelFindsNone(h)
    BY <2>2 DEF ClientOpens, ReconcileFindsNone, ProbeFindsNone, NextWrite,
                CancelFindsNone, Goto, GatewayTypeOK, Pcs, erpVars, tellVars
  <2>3. CASE ReconcileFinds(h)
    BY <2>3 DEF ReconcileFinds, Goto, GatewayTypeOK, Pcs, erpVars, tellVars,
                Matches, PaymentMatches, PaymentEntries, ByReference, OrderMatches, Document, Results
  <2>4. CASE ReconcileFails(h)
    BY <2>4, DoneTypes DEF ReconcileFails, Goto, GatewayTypeOK, Pcs, erpVars,
                           tellVars
  <2>5. CASE CompleteFound(h) \/ Finish(h)
    <3>1. req[h].cmd \in Commands /\ seen[h].doc \in Names
      BY <2>5 DEF CompleteFound, Finish, HandlerInv, HandlerOK, Holding, Results
    <3>2. Done(h) /\ UNCHANGED <<erpVars, expired>>
      BY <2>5 DEF CompleteFound, Finish
    <3>3. acked' \subseteq Answer /\ retryTold' \subseteq Commands
      BY <2>5, <3>1 DEF CompleteFound, Finish, TellOk, TellRetry, GatewayTypeOK,
                        Answer, tellVars
    <3>. QED  BY <3>2, <3>3, DoneTypes DEF GatewayTypeOK, erpVars
  <2>6. CASE SendCreate(h)
    <3>1. req[h].cmd \in Commands
      BY <2>6 DEF SendCreate, HandlerInv, HandlerOK
    <3>. QED  BY <2>6, <3>1, DoneTypes DEF SendCreate, Goto, TellRetry,
                GatewayTypeOK, Pcs, erpVars, tellVars
  <2>7. CASE ErpCreates(h) \/ ErpCreatesAdvance(h)
    <3>1. MainWrite(h) \in Write /\ AdvanceWrite(h) \in Write
      BY <2>7, WriteTypes DEF ErpCreates, ErpCreatesAdvance, Cancelling
    <3>2. docs' \subseteq Document /\ NextName \in Names
      BY <2>7, <3>1, InsertType DEF ErpCreates, ErpCreatesAdvance, GatewayTypeOK
    <3>3. [doc |-> NextName, submitted |-> FALSE] \in Results
      BY <3>2 DEF Results
    <3>. QED  BY <2>7, <3>2, <3>3 DEF ErpCreates, ErpCreatesAdvance, Goto,
                GatewayTypeOK, Pcs, tellVars
  <2>8. CASE WriteUnverified(h)
    <3>1. req[h].cmd \in Commands /\ MainWrite(h) \in Write
            /\ AdvanceWrite(h) \in Write
      BY <2>8, WriteTypes DEF WriteUnverified, HandlerInv, HandlerOK, Cancelling
    <3>2. late' \subseteq Write
      BY <2>8, <3>1 DEF WriteUnverified, GatewayTypeOK
    <3>. QED  BY <2>8, <3>1, <3>2, DoneTypes DEF WriteUnverified, Refuse,
                GatewayTypeOK, TellRetry, tellVars
  <2>9. CASE ErpSubmits(h)
    <3>1. seen[h] \in Results
      BY <2>9 DEF ErpSubmits, HandlerInv, HandlerOK, Holding
    <3>2. [seen[h] EXCEPT !.submitted = TRUE] \in Results /\ seen[h].doc \in Names
      BY <3>1 DEF Results
    <3>. QED  BY <2>9, <3>2 DEF ErpSubmits, Goto, GatewayTypeOK, Pcs, tellVars
  <2>10. CASE CancelRefused(h) \/ CancelApplies(h)
    BY <2>10, DoneTypes DEF CancelRefused, CancelApplies, GatewayTypeOK,
                            erpVars, tellVars
  <2>. QED  BY <1>2, <2>1, <2>2, <2>3, <2>4, <2>5, <2>6, <2>7, <2>8, <2>9,
               <2>10 DEF Step
<1>3. ASSUME NEW h \in Handlers, NEW c \in Commands, NEW u \in Users,
             CancelRequest(h, c, u)
      PROVE  GatewayTypeOK'
  BY <1>3 DEF CancelRequest, GatewayTypeOK, Pcs, erpVars, tellVars
<1>4. CASE Crash
  <2>1. InFlightWrites \subseteq Write
    BY WriteTypes DEF InFlightWrites, Cancelling
  <2>2. late' \subseteq Write
    BY <1>4, <2>1 DEF Crash, GatewayTypeOK
  <2>. QED  BY <1>4, <2>2 DEF Crash, GatewayTypeOK, Pcs, tellVars
<1>5. CASE ErpCreatesLate
  BY <1>5, InsertType DEF ErpCreatesLate, GatewayTypeOK, tellVars
<1>6. CASE Expire
  BY <1>6 DEF Expire, GatewayTypeOK, erpVars, tellVars
<1>7. CASE UNCHANGED gwVars
  BY <1>7 DEF GatewayTypeOK, gwVars, erpVars, tellVars
<1>. QED  BY <1>1, <1>2, <1>3, <1>4, <1>5, <1>6, <1>7 DEF Next

-----------------------------------------------------------------------------
(* Writes and answers.                                                      *)

\* Past the reference: everything a handler may be sending is on disk.
LEMMA SentReferenced ==
    ASSUME IndInv
    PROVE  \A w \in InFlightWrites : disk[w.cmd].ref
<1>1. \A h \in Handlers : /\ MainWrite(h).cmd = req[h].cmd
                            /\ AdvanceWrite(h).cmd = req[h].cmd
  BY DEF MainWrite, AdvanceWrite
<1>2. \A h \in Handlers : pc[h] \in {"create", "advance"} => disk[req[h].cmd].ref
  BY DEF IndInv, HandlerInv, HandlerOK, Early, Cancelling
<1>. QED  BY <1>1, <1>2 DEF InFlightWrites

LEMMA AppliedInductive ==
    ASSUME IndInv, [Next]_gwVars
    PROVE  AppliedReferenced'
<1>. USE DEF IndInv
<1>0. /\ StoreKeeps
      /\ \A d \in docs : d.write.cmd \in Commands
      /\ \A w \in late : w.cmd \in Commands
  BY StoreInductive DEF GatewayTypeOK, Document, Write
<1>1. ASSUME NEW W \in SUBSET Write, \A w \in W : disk[w.cmd].ref,
             late' \subseteq late \cup W,
             \A d \in docs' : d \in docs \/ d.write \in late \cup W
      PROVE  AppliedReferenced'
  BY <1>0, <1>1 DEF AppliedReferenced, StoreKeeps, Write
<1>2. CASE UNCHANGED <<docs, late>>
  BY <1>0, <1>2 DEF AppliedReferenced, StoreKeeps
<1>3. ASSUME NEW h \in Handlers,
             ErpCreates(h) \/ ErpCreatesAdvance(h) \/ WriteUnverified(h)
      PROVE  AppliedReferenced'
  <2>. DEFINE W == {MainWrite(h), AdvanceWrite(h)}
  <2>1. CASE pc[h] \in Early \cup Cancelling \cup {"idle"}
    BY <1>3, <2>1 DEF ErpCreates, ErpCreatesAdvance, WriteUnverified, Early,
                      Cancelling
  <2>2. CASE pc[h] \notin Early \cup Cancelling \cup {"idle"}
    <3>1. W \in SUBSET Write
      BY <2>2, WriteTypes
    <3>2. \A w \in W : disk[w.cmd].ref
      BY <2>2 DEF HandlerInv, HandlerOK, MainWrite, AdvanceWrite
    <3>3. /\ late' \subseteq late \cup W
          /\ \A d \in docs' : d \in docs \/ d.write \in late \cup W
      BY <1>3 DEF ErpCreates, ErpCreatesAdvance, WriteUnverified, Insert
    <3>. QED  BY <3>1, <3>2, <3>3, <1>1
  <2>. QED  BY <2>1, <2>2
<1>4. CASE Crash
  <2>1. InFlightWrites \subseteq Write
    BY WriteTypes DEF InFlightWrites, Cancelling
  <2>2. late' \subseteq late \cup InFlightWrites /\ docs' = docs
    BY <1>4 DEF Crash
  <2>. QED  BY <2>1, <2>2, <1>1, SentReferenced
<1>5. CASE ErpCreatesLate
  <2>1. /\ late' \subseteq late
        /\ \A d \in docs' : d \in docs \/ d.write \in late
    BY <1>5 DEF ErpCreatesLate, Insert
  <2>. QED  BY <1>0, <2>1 DEF AppliedReferenced, StoreKeeps
<1>6. ASSUME NEW h \in Handlers, Step(h),
             ~(ErpCreates(h) \/ ErpCreatesAdvance(h) \/ WriteUnverified(h))
      PROVE  UNCHANGED <<docs, late>>
  BY <1>6 DEF Step, ClientUnavailable, ClientOpens, ReconcileFinds,
       ReconcileFindsNone, ReconcileFails, CompleteFound, ProbeFindsNone,
       ProbeRefuses, CheckRefuses, SendCreate, NextWrite, ErpSubmits, Finish,
       CancelFindsNone, CancelRefused, CancelApplies, erpVars
<1>7. ASSUME NEW h \in Handlers, NEW r \in Requests, Execute(h, r)
      PROVE  UNCHANGED <<docs, late>>
  BY <1>7 DEF Execute, Replay, BeginExecute, BeginNotPersisted, erpVars
<1>8. ASSUME NEW h \in Handlers, NEW c \in Commands, NEW u \in Users,
             CancelRequest(h, c, u)
      PROVE  UNCHANGED <<docs, late>>
  BY <1>8 DEF CancelRequest, erpVars
<1>9. Expire \/ UNCHANGED gwVars => UNCHANGED <<docs, late>>
  BY DEF Expire, gwVars, erpVars
<1>. QED  BY <1>2, <1>3, <1>4, <1>5, <1>6, <1>7, <1>8, <1>9 DEF Next

LEMMA AckedInductive ==
    ASSUME IndInv, [Next]_gwVars
    PROVE  AckedRecorded'
<1>. USE DEF IndInv
<1>0. /\ StoreKeeps
      /\ \A a \in acked : a.cmd \in Commands
      /\ faults' = 0 => faults = 0
  <2>1. faults' = faults \/ faults' = faults + 1
    BY DEF Next, Execute, Step, gwVars, storeVars, Replay, BeginExecute,
         BeginNotPersisted, CancelRequest, Crash, ErpCreatesLate, Expire,
         ClientUnavailable, ClientOpens, ReconcileFinds, ReconcileFindsNone,
         ReconcileFails, CompleteFound, ProbeFindsNone, ProbeRefuses,
         CheckRefuses, SendCreate, ErpCreates, WriteUnverified, NextWrite,
         ErpSubmits, ErpCreatesAdvance, Finish, CancelFindsNone, CancelRefused,
         CancelApplies, Refuse, Begin, Complete, Fail, SetReference, Cancel,
         Put, Reload
  <2>2. faults \in Nat
    BY DEF StoreGood, StoreTypeOK
  <2>. QED  BY <2>1, <2>2, StoreInductive DEF GatewayTypeOK, Answer
<1>1. CASE UNCHANGED acked
  BY <1>0, <1>1 DEF AckedRecorded, StoreKeeps
<1>2. ASSUME NEW h \in Handlers, NEW r \in Requests, Replay(h, r)
      PROVE  AckedRecorded'
  <2>1. /\ r.cmd \in Commands
        /\ cache[r.cmd].status = "COMPLETED"
        /\ disk' = disk
        /\ acked' = acked \cup {[cmd |-> r.cmd, doc |-> cache[r.cmd].result.doc]}
    BY <1>2, GatewayAssumption DEF Replay, Replays, TellOk, storeVars,
         GatewayAssumption, RequestSet
  <2>2. /\ disk[r.cmd].ref
        /\ faults = 0 => disk[r.cmd].status = "COMPLETED"
    BY <2>1 DEF StoreGood, StoreInv
  <2>. QED  BY <1>0, <2>1, <2>2 DEF AckedRecorded
<1>3. ASSUME NEW h \in Handlers, CompleteFound(h) \/ Finish(h)
      PROVE  AckedRecorded'
  <2>1. req[h].cmd \in Commands /\ disk[req[h].cmd].ref
    BY <1>3 DEF CompleteFound, Finish, HandlerInv, HandlerOK, Early, Cancelling
  <2>2. PICK ok \in BOOLEAN :
          /\ Complete(req[h].cmd, seen[h], ok)
          /\ ~ok => UNCHANGED acked
          /\ ok => acked' = acked \cup {[cmd |-> req[h].cmd, doc |-> seen[h].doc]}
    BY <1>3 DEF CompleteFound, Finish, TellOk, TellRetry, tellVars
  <2>3. CASE ok
    <3>1. cache'[req[h].cmd].status = "COMPLETED" /\ disk' = cache'
      <4>1. cache[req[h].cmd] \in Record
        BY <2>1 DEF StoreGood, StoreTypeOK
      <4>2. [cache[req[h].cmd] EXCEPT !.status = "COMPLETED",
                                      !.result = seen[h]].status = "COMPLETED"
        BY <4>1 DEF Record
      <4>3. Put(req[h].cmd, [cache[req[h].cmd] EXCEPT !.status = "COMPLETED",
                                                     !.result = seen[h]], ok)
        BY <2>2 DEF Complete
      <4>. QED  BY <2>1, <2>3, <4>2, <4>3 DEF Put, StoreGood, StoreTypeOK
    <3>. QED  BY <1>0, <2>1, <2>2, <2>3, <3>1 DEF AckedRecorded, StoreKeeps
  <2>. QED  BY <1>1, <2>2, <2>3
<1>4. ASSUME NEW h \in Handlers, Step(h), ~(CompleteFound(h) \/ Finish(h))
      PROVE  UNCHANGED acked
  BY <1>4 DEF Step, ClientUnavailable, ClientOpens, ReconcileFinds,
       ReconcileFindsNone, ReconcileFails, ProbeFindsNone, ProbeRefuses,
       CheckRefuses, SendCreate, ErpCreates, WriteUnverified, NextWrite,
       ErpSubmits, ErpCreatesAdvance, CancelFindsNone, CancelRefused,
       CancelApplies, Refuse, TellRetry, tellVars
<1>5. ASSUME NEW h \in Handlers, NEW r \in Requests, Execute(h, r), ~Replay(h, r)
      PROVE  UNCHANGED acked
  BY <1>5 DEF Execute, BeginExecute, BeginNotPersisted, tellVars
<1>6. ASSUME NEW h \in Handlers, NEW c \in Commands, NEW u \in Users,
             CancelRequest(h, c, u)
      PROVE  UNCHANGED acked
  BY <1>6 DEF CancelRequest, tellVars
<1>7. Crash \/ ErpCreatesLate \/ Expire \/ UNCHANGED gwVars => UNCHANGED acked
  BY DEF Crash, ErpCreatesLate, Expire, gwVars, tellVars
<1>. QED  BY <1>1, <1>2, <1>3, <1>4, <1>5, <1>6, <1>7 DEF Next

-----------------------------------------------------------------------------
(* Handlers do not disturb each other.                                      *)

\* What a step leaves to the handlers that serve command c.
Spares(c) ==
    /\ cache[c].ref => cache'[c].ref
    /\ cache[c].status \notin {"UNKNOWN", "FAILED"}
        => cache'[c].status \notin {"UNKNOWN", "FAILED"}

LEMMA PutSpares ==
    ASSUME StoreTypeOK, NEW c \in Commands, NEW rec, NEW ok \in BOOLEAN,
           Put(c, rec, ok), cache[c].ref => rec.ref
    PROVE  /\ \A d \in Commands \ {c} : Spares(d)
           /\ cache[c].ref => cache'[c].ref
           /\ rec.status \notin {"UNKNOWN", "FAILED"} => Spares(c)
           /\ rec.status = cache[c].status => Spares(c)
<1>1. cache'[c] = rec /\ \A d \in Commands \ {c} : cache'[d] = cache[d]
  BY DEF Put, StoreTypeOK
<1>. QED  BY <1>1 DEF Spares

LEMMA BeginSpares ==
    ASSUME StoreTypeOK, NEW c \in Commands, NEW u, NEW p, NEW ok \in BOOLEAN,
           Begin(c, u, p, ok)
    PROVE  /\ \A d \in Commands : Spares(d)
           /\ cache'[c].status = "PENDING"
           /\ cache'[c].ref = cache[c].ref
<1>1. Begun(c, u, p).status = "PENDING" /\ Begun(c, u, p).ref = cache[c].ref
  BY DEF Begun
<1>2. Put(c, Begun(c, u, p), ok)
  BY DEF Begin
<1>3. cache'[c] = Begun(c, u, p)
  BY <1>2 DEF Put, StoreTypeOK
<1>. QED  BY <1>1, <1>2, <1>3, PutSpares

LEMMA CompleteSpares ==
    ASSUME StoreTypeOK, NEW c \in Commands, NEW res, NEW ok \in BOOLEAN,
           Complete(c, res, ok)
    PROVE  \A d \in Commands : Spares(d)
<1>. DEFINE rec == [cache[c] EXCEPT !.status = "COMPLETED", !.result = res]
<1>1. cache[c] \in Record
  BY DEF StoreTypeOK
<1>2. rec.status = "COMPLETED" /\ rec.ref = cache[c].ref
  BY <1>1 DEF Record
<1>3. Put(c, rec, ok)
  BY DEF Complete
<1>. HIDE DEF rec
<1>. QED  BY <1>2, <1>3, PutSpares

LEMMA SetReferenceSpares ==
    ASSUME StoreTypeOK, NEW c \in Commands, NEW ok \in BOOLEAN,
           SetReference(c, ok)
    PROVE  /\ \A d \in Commands : Spares(d)
           /\ cache'[c].ref
           /\ ok => disk'[c].ref
<1>. DEFINE rec == [cache[c] EXCEPT !.ref = TRUE]
<1>1. cache[c] \in Record
  BY DEF StoreTypeOK
<1>2. rec.status = cache[c].status /\ rec.ref
  BY <1>1 DEF Record
<1>3. Put(c, rec, ok)
  BY DEF SetReference
<1>. HIDE DEF rec
<1>4. cache'[c] = rec /\ (ok => disk'[c] = rec)
  BY <1>3 DEF Put, StoreTypeOK
<1>. QED  BY <1>2, <1>3, <1>4, PutSpares

LEMMA CancelSpares ==
    ASSUME StoreTypeOK, NEW c \in Commands, NEW ok \in BOOLEAN, Cancel(c, ok)
    PROVE  \A d \in Commands : Spares(d)
<1>. DEFINE rec == [cache[c] EXCEPT !.status = "CANCELLED"]
<1>1. cache[c] \in Record
  BY DEF StoreTypeOK
<1>2. rec.status = "CANCELLED" /\ rec.ref = cache[c].ref
  BY <1>1 DEF Record
<1>3. Put(c, rec, ok)
  BY DEF Cancel
<1>. HIDE DEF rec
<1>. QED  BY <1>2, <1>3, PutSpares

\* Refusing fails at most the command of the handler itself, and then no other
\* handler serves it.
LEMMA RefuseSpares ==
    ASSUME IndInv, NEW h \in Handlers, pc[h] # "idle", Refuse(h)
    PROVE  \A g \in Handlers \ {h} : pc[g] # "idle" => Spares(req[g].cmd)
<1>. DEFINE c == req[h].cmd
            rec == [cache[c] EXCEPT !.status = "FAILED"]
<1>1. c \in Commands /\ StoreTypeOK /\ cache[c] \in Record
  BY DEF IndInv, HandlerInv, HandlerOK, StoreGood, StoreTypeOK
<1>2. CASE UNCHANGED storeVars
  BY <1>2 DEF storeVars, Spares
<1>3. CASE ~cache[c].ref /\ \E ok \in BOOLEAN : Fail(c, ok)
  <2>1. rec.ref = cache[c].ref
    BY <1>1 DEF Record
  <2>2. PICK ok \in BOOLEAN : Put(c, rec, ok)
    BY <1>3 DEF Fail
  <2>3. \A d \in Commands \ {c} : Spares(d)
    <3>. HIDE DEF rec, c
    <3>. QED  BY <1>1, <2>1, <2>2, PutSpares
  <2>4. pc[h] \in Early
    BY <1>3 DEF IndInv, HandlerInv, HandlerOK
  <2>5. ASSUME NEW g \in Handlers \ {h}, pc[g] # "idle"
        PROVE  req[g].cmd \in Commands \ {c}
    <3>1. req[g].cmd \in Commands
      BY <2>5 DEF IndInv, HandlerInv, HandlerOK
    <3>2. CASE req[g].cmd = c
      <4>1. pc[g] \in Early
        BY <1>3, <2>5, <3>2 DEF IndInv, HandlerInv, HandlerOK
      <4>. QED  BY <1>3, <2>4, <2>5, <3>2, <4>1 DEF IndInv, EarlyAlone
    <3>. QED  BY <3>1, <3>2
  <2>. QED  BY <2>3, <2>5
<1>. QED  BY <1>2, <1>3 DEF Refuse

\* A step of handler h leaves the others where they are and does not take the
\* record from under any handler that goes on.
LEMMA StepSpares ==
    ASSUME IndInv, NEW h \in Handlers, Step(h)
    PROVE  /\ \A g \in Handlers \ {h} : /\ pc'[g] = pc[g]
                                        /\ req'[g] = req[g]
                                        /\ seen'[g] = seen[g]
                                        /\ pc[g] # "idle" => Spares(req[g].cmd)
           /\ pc[h] # "idle"
           /\ \/ pc'[h] = "idle"
              \/ pc'[h] # "idle" /\ req'[h] = req[h] /\ Spares(req[h].cmd)
<1>. USE DEF IndInv
<1>0. pc[h] # "idle"
  BY DEF Step, ClientUnavailable, ClientOpens, ReconcileFinds,
       ReconcileFindsNone, ReconcileFails, CompleteFound, ProbeFindsNone,
       ProbeRefuses, CheckRefuses, SendCreate, ErpCreates, WriteUnverified,
       NextWrite, ErpSubmits, ErpCreatesAdvance, Finish, CancelFindsNone,
       CancelRefused, CancelApplies
<1>1. /\ \A g \in Handlers \ {h} : /\ pc'[g] = pc[g]
                                   /\ req'[g] = req[g]
                                   /\ seen'[g] = seen[g]
      /\ \/ pc'[h] = "idle"
         \/ pc'[h] # "idle" /\ req'[h] = req[h]
  BY DEF Step, ClientUnavailable, ClientOpens, ReconcileFinds,
       ReconcileFindsNone, ReconcileFails, CompleteFound, ProbeFindsNone,
       ProbeRefuses, CheckRefuses, SendCreate, ErpCreates, WriteUnverified,
       NextWrite, ErpSubmits, ErpCreatesAdvance, Finish, CancelFindsNone,
       CancelRefused, CancelApplies, Refuse, Done, Goto, GatewayTypeOK
<1>2. \A g \in Handlers : pc[g] # "idle" => req[g].cmd \in Commands
  BY DEF HandlerInv, HandlerOK
<1>3. StoreTypeOK
  BY DEF StoreGood
<1>4. ASSUME UNCHANGED storeVars PROVE \A c : Spares(c)
  BY <1>4 DEF storeVars, Spares
<1>5. ASSUME \A c \in Commands : Spares(c)
      PROVE  \A g \in Handlers : pc[g] # "idle" => Spares(req[g].cmd)
  BY <1>2, <1>5
<1>6. CASE ProbeRefuses(h) \/ CheckRefuses(h) \/ WriteUnverified(h)
  <2>1. Refuse(h) /\ pc'[h] = "idle"
    BY <1>6 DEF ProbeRefuses, CheckRefuses, WriteUnverified, Refuse, Done,
                GatewayTypeOK
  <2>. QED  BY <1>0, <1>1, <2>1, RefuseSpares
<1>7. CASE CompleteFound(h) \/ Finish(h)
  <2>1. \E ok \in BOOLEAN : Complete(req[h].cmd, seen[h], ok)
    BY <1>7 DEF CompleteFound, Finish
  <2>2. \A c \in Commands : Spares(c)
    BY <1>0, <1>2, <1>3, <2>1, CompleteSpares
  <2>. QED  BY <1>0, <1>1, <1>5, <2>2
<1>8. CASE SendCreate(h)
  <2>1. \E ok \in BOOLEAN : SetReference(req[h].cmd, ok)
    BY <1>8 DEF SendCreate
  <2>2. \A c \in Commands : Spares(c)
    BY <1>0, <1>2, <1>3, <2>1, SetReferenceSpares
  <2>. QED  BY <1>0, <1>1, <1>5, <2>2
<1>9. CASE CancelApplies(h)
  <2>1. UNCHANGED storeVars \/ \E ok \in BOOLEAN : Cancel(req[h].cmd, ok)
    BY <1>9 DEF CancelApplies
  <2>2. \A c \in Commands : Spares(c)
    BY <1>0, <1>2, <1>3, <1>4, <2>1, CancelSpares
  <2>. QED  BY <1>0, <1>1, <1>5, <2>2
<1>10. CASE \/ ClientUnavailable(h) \/ ClientOpens(h)
            \/ ReconcileFinds(h) \/ ReconcileFindsNone(h) \/ ReconcileFails(h)
            \/ ProbeFindsNone(h) \/ ErpCreates(h) \/ NextWrite(h)
            \/ ErpSubmits(h) \/ ErpCreatesAdvance(h)
            \/ CancelFindsNone(h) \/ CancelRefused(h)
  <2>1. UNCHANGED storeVars
    BY <1>10 DEF ClientUnavailable, ClientOpens, ReconcileFinds,
         ReconcileFindsNone, ReconcileFails, ProbeFindsNone, ErpCreates,
         NextWrite, ErpSubmits, ErpCreatesAdvance, CancelFindsNone, CancelRefused
  <2>. QED  BY <1>0, <1>1, <1>4, <2>1
<1>. QED  BY <1>6, <1>7, <1>8, <1>9, <1>10 DEF Step

\* A handler that stays where it is keeps what it relies on.
LEMMA OtherHandlers ==
    ASSUME IndInv, [Next]_gwVars, NEW g \in Handlers,
           pc'[g] = pc[g], req'[g] = req[g], seen'[g] = seen[g],
           pc[g] # "idle" => Spares(req[g].cmd)
    PROVE  HandlerOK(g)'
<1>1. StoreKeeps
  BY StoreInductive
<1>. QED  BY <1>1 DEF IndInv, HandlerInv, HandlerOK, Spares, StoreKeeps

\* The step of the handler itself: where it goes, it has what it needs there.
LEMMA ActorOK ==
    ASSUME IndInv, [Next]_gwVars, NEW h \in Handlers, Step(h)
    PROVE  HandlerOK(h)'
<1>. USE DEF IndInv
<1>0. StoreKeeps /\ HandlerOK(h) /\ StoreTypeOK
  BY StoreInductive DEF HandlerInv, StoreGood
<1>1. CASE pc'[h] = "idle"
  BY <1>1 DEF HandlerOK
<1>2. CASE pc'[h] # "idle"
  <2>0. pc[h] # "idle" /\ req'[h] = req[h] /\ Spares(req[h].cmd)
    BY <1>2, StepSpares
  <2>1. CASE SendCreate(h)
    <3>1. pc[h] = "check" /\ pc'[h] = "create" /\ SetReference(req[h].cmd, TRUE)
      BY <1>2, <2>1 DEF SendCreate, Goto, Done, GatewayTypeOK
    <3>2. disk'[req[h].cmd].ref /\ cache'[req[h].cmd].ref
      BY <1>0, <2>0, <3>1, SetReferenceSpares DEF HandlerOK
    <3>. QED  BY <1>0, <2>0, <3>1, <3>2 DEF HandlerOK, Spares, Early, Cancelling,
                                           Holding
  <2>2. CASE ReconcileFinds(h)
    <3>1. pc[h] = "reconcile" /\ pc'[h] = "found" /\ seen'[h] \in Results
      BY <2>2 DEF ReconcileFinds, Goto, GatewayTypeOK, Matches, PaymentMatches, PaymentEntries, ByReference,
                  OrderMatches, Document, Results
    <3>. QED  BY <1>0, <2>0, <3>1 DEF HandlerOK, Spares, StoreKeeps, Early,
                                      Cancelling, Holding
  <2>3. CASE ErpCreates(h)
    <3>1. /\ pc[h] = "create" /\ pc'[h] = "created"
          /\ seen'[h] = [doc |-> NextName, submitted |-> FALSE]
          /\ FreeNames # {}
      BY <2>3 DEF ErpCreates, Insert, Goto, GatewayTypeOK
    <3>2. seen'[h] \in Results
      BY <3>1, NextNameFree DEF Results
    <3>. QED  BY <1>0, <2>0, <3>1, <3>2 DEF HandlerOK, Spares, StoreKeeps, Early,
                                           Cancelling, Holding
  <2>4. CASE ErpSubmits(h)
    <3>1. /\ pc[h] = "submit" /\ pc'[h] = "submitted"
          /\ seen'[h] = [seen[h] EXCEPT !.submitted = TRUE]
      BY <2>4 DEF ErpSubmits, Goto, GatewayTypeOK
    <3>2. seen[h] \in Results
      BY <1>0, <3>1 DEF HandlerOK, Holding
    <3>3. seen'[h] \in Results
      BY <3>1, <3>2 DEF Results
    <3>. QED  BY <1>0, <2>0, <3>1, <3>3 DEF HandlerOK, Spares, StoreKeeps, Early,
                                           Cancelling, Holding
  <2>5. CASE \/ ClientOpens(h) \/ ReconcileFindsNone(h) \/ ReconcileFails(h)
             \/ ProbeFindsNone(h) \/ NextWrite(h) \/ ErpCreatesAdvance(h)
             \/ CancelFindsNone(h)
    <3>1. seen'[h] = seen[h]
      BY <1>2, <2>5 DEF ClientOpens, ReconcileFindsNone, ReconcileFails, Done,
           ProbeFindsNone, NextWrite, ErpCreatesAdvance, CancelFindsNone,
           GatewayTypeOK
    <3>2. \/ pc[h] \in {"reopen", "reconcile"} /\ pc'[h] \in {"reconcile", "open"}
          \/ pc[h] \in {"open", "probe"} /\ pc'[h] \in {"check", "probe"}
          \/ pc[h] \in {"created", "advance"}
                /\ pc'[h] \in {"submit", "advance", "advanced"}
          \/ pc[h] = "cancel" /\ pc'[h] = "cancelling"
      BY <1>2, <2>5 DEF ClientOpens, ReconcileFindsNone, ReconcileFails, Done,
           ProbeFindsNone, NextWrite, ErpCreatesAdvance, CancelFindsNone, Goto,
           GatewayTypeOK
    <3>. QED  BY <1>0, <2>0, <3>1, <3>2 DEF HandlerOK, Spares, StoreKeeps, Early,
                                           Cancelling, Holding
  <2>6. CASE \/ ClientUnavailable(h) \/ CompleteFound(h) \/ ProbeRefuses(h)
             \/ CheckRefuses(h) \/ WriteUnverified(h) \/ Finish(h)
             \/ CancelRefused(h) \/ CancelApplies(h)
    BY <1>2, <2>6 DEF ClientUnavailable, CompleteFound, ProbeRefuses,
         CheckRefuses, WriteUnverified, Finish, CancelRefused, CancelApplies,
         Refuse, Done, GatewayTypeOK
  <2>. QED  BY <2>1, <2>2, <2>3, <2>4, <2>5, <2>6 DEF Step
<1>. QED  BY <1>1, <1>2

\* begin() spares everyone: it keeps the reference and leaves PENDING behind.
LEMMA BeginFrame ==
    ASSUME IndInv, NEW h \in Handlers, NEW r \in Requests,
           BeginExecute(h, r) \/ BeginNotPersisted(h, r)
    PROVE  /\ r \in RequestSet /\ r.cmd \in Commands
           /\ pc[h] = "idle"
           /\ \A g \in Handlers : pc[g] # "idle" => Spares(req[g].cmd)
           /\ \A g \in Handlers \ {h} : pc'[g] = pc[g] /\ req'[g] = req[g]
           /\ seen' = seen
           /\ cache'[r.cmd].status = "PENDING"
           /\ cache'[r.cmd].ref = cache[r.cmd].ref
<1>1. r \in RequestSet /\ r.cmd \in Commands
  BY GatewayAssumption DEF GatewayAssumption, RequestSet
<1>2. StoreTypeOK
  BY DEF IndInv, StoreGood
<1>3. \E ok \in BOOLEAN : Begin(r.cmd, r.user, r.prop, ok)
  BY DEF BeginExecute, BeginNotPersisted
<1>4. /\ \A d \in Commands : Spares(d)
      /\ cache'[r.cmd].status = "PENDING"
      /\ cache'[r.cmd].ref = cache[r.cmd].ref
  BY <1>1, <1>2, <1>3, BeginSpares
<1>5. \A g \in Handlers : pc[g] # "idle" => req[g].cmd \in Commands
  BY DEF IndInv, HandlerInv, HandlerOK
<1>6. /\ pc[h] = "idle"
      /\ \A g \in Handlers \ {h} : pc'[g] = pc[g] /\ req'[g] = req[g]
      /\ seen' = seen
  BY DEF IndInv, GatewayTypeOK, BeginExecute, BeginNotPersisted, Serves
<1>. QED  BY <1>1, <1>4, <1>5, <1>6

LEMMA HandlersInductive ==
    ASSUME IndInv, [Next]_gwVars
    PROVE  HandlerInv'
<1>. USE DEF IndInv
<1>1. ASSUME NEW h \in Handlers, NEW r \in Requests, BeginExecute(h, r)
      PROVE  HandlerInv'
  <2>1. \A g \in Handlers \ {h} : HandlerOK(g)'
    BY <1>1, BeginFrame, OtherHandlers
  <2>2. CASE pc'[h] = "idle"
    BY <2>1, <2>2 DEF HandlerInv, HandlerOK
  <2>3. CASE ~Resumed(r.cmd) /\ pc'[h] = "open" /\ req'[h] = r
    BY <1>1, <2>1, <2>3, BeginFrame DEF HandlerInv, HandlerOK, Early, Holding
  <2>4. CASE cache[r.cmd].ref /\ pc'[h] = "reopen" /\ req'[h] = r
    <3>1. disk' = cache'
      BY <1>1 DEF BeginExecute, Begin, Put
    <3>. QED  BY <1>1, <2>1, <2>4, <3>1, BeginFrame
              DEF HandlerInv, HandlerOK, Early, Cancelling, Holding
  <2>. QED  BY <1>1, <2>2, <2>3, <2>4, BeginFrame DEF BeginExecute, GatewayTypeOK
<1>2. ASSUME NEW h \in Handlers, NEW r \in Requests, BeginNotPersisted(h, r)
      PROVE  HandlerInv'
  <2>1. pc' = pc /\ req' = req
    BY <1>2 DEF BeginNotPersisted
  <2>. QED  BY <1>2, <2>1, BeginFrame, OtherHandlers DEF HandlerInv
<1>3. ASSUME NEW h \in Handlers, Step(h)
      PROVE  HandlerInv'
  BY <1>3, ActorOK, StepSpares, OtherHandlers DEF HandlerInv
<1>4. ASSUME UNCHANGED storeVars
      PROVE  \A c : Spares(c)
  BY <1>4 DEF storeVars, Spares
<1>5. ASSUME NEW h \in Handlers, NEW c \in Commands, NEW u \in Users,
             CancelRequest(h, c, u)
      PROVE  HandlerInv'
  <2>1. UNCHANGED storeVars /\ seen' = seen
    BY <1>5 DEF CancelRequest
  <2>2. \A g \in Handlers \ {h} : pc'[g] = pc[g] /\ req'[g] = req[g]
    BY <1>5 DEF CancelRequest, GatewayTypeOK
  <2>3. \A g \in Handlers \ {h} : HandlerOK(g)'
    BY <1>4, <2>1, <2>2, OtherHandlers
  <2>4. /\ pc'[h] = "cancel" /\ req'[h].cmd = c
        /\ cache[c].status = "PENDING" /\ cache[c].ref
    BY <1>5 DEF CancelRequest, GatewayTypeOK
  <2>5. HandlerOK(h)'
    BY <2>1, <2>4 DEF HandlerOK, storeVars, Early, Cancelling, Holding
  <2>. QED  BY <2>3, <2>5 DEF HandlerInv
<1>6. CASE Crash
  BY <1>6 DEF Crash, HandlerInv, HandlerOK
<1>7. CASE UNCHANGED <<storeVars, pc, req, seen>>
  BY <1>4, <1>7, OtherHandlers DEF HandlerInv
<1>8. ASSUME NEW h \in Handlers, NEW r \in Requests, Replay(h, r)
      PROVE  UNCHANGED <<storeVars, pc, req, seen>>
  BY <1>8 DEF Replay
<1>9. ErpCreatesLate \/ Expire \/ UNCHANGED gwVars
        => UNCHANGED <<storeVars, pc, req, seen>>
  BY DEF ErpCreatesLate, Expire, gwVars
<1>. QED  BY <1>1, <1>2, <1>3, <1>5, <1>6, <1>7, <1>8, <1>9 DEF Next, Execute

LEMMA EarlyInductive ==
    ASSUME IndInv, [Next]_gwVars
    PROVE  EarlyAlone'
<1>. USE DEF IndInv
\* Enough that nobody enters the early awaits without a reference.
<1>0. ASSUME \A g \in Handlers :
                pc'[g] \in Early /\ ~cache'[req'[g].cmd].ref =>
                    /\ pc[g] \in Early
                    /\ req'[g] = req[g]
                    /\ Spares(req[g].cmd)
      PROVE  EarlyAlone'
  BY <1>0 DEF EarlyAlone, Spares
<1>1. ASSUME NEW h \in Handlers, NEW r \in Requests,
             BeginExecute(h, r) \/ BeginNotPersisted(h, r)
      PROVE  EarlyAlone'
  <2>1. CASE pc'[h] \notin Early
    BY <1>0, <1>1, <2>1, BeginFrame DEF Early
  <2>2. CASE pc'[h] \in Early
    <3>1. cache[r.cmd].status = "UNKNOWN" /\ req'[h] = r
      BY <1>1, <2>2, BeginFrame DEF BeginExecute, BeginNotPersisted, Resumed,
           GatewayTypeOK, Early
    <3>2. \A g \in Handlers \ {h} : pc[g] # "idle" => req[g].cmd # r.cmd
      BY <3>1 DEF HandlerInv, HandlerOK
    <3>3. ASSUME NEW g \in Handlers, NEW k \in Handlers,
                 pc'[g] \in Early, pc'[k] \in Early,
                 req'[g].cmd = req'[k].cmd, ~cache'[req'[k].cmd].ref
          PROVE  g = k
      <4>1. CASE g = h \/ k = h
        BY <1>1, <3>1, <3>2, <3>3, <4>1, BeginFrame DEF Early
      <4>2. CASE g # h /\ k # h
        BY <1>1, <3>3, <4>2, BeginFrame DEF Early, EarlyAlone, Spares
      <4>. QED  BY <4>1, <4>2
    <3>. QED  BY <3>3 DEF EarlyAlone
  <2>. QED  BY <2>1, <2>2
<1>2. ASSUME NEW h \in Handlers, Step(h)
      PROVE  EarlyAlone'
  <2>1. \A g \in Handlers \ {h} :
           pc'[g] \in Early =>
              pc[g] \in Early /\ req'[g] = req[g] /\ Spares(req[g].cmd)
    BY <1>2, StepSpares DEF Early
  <2>2. ASSUME pc'[h] \in Early, ~cache'[req'[h].cmd].ref
        PROVE  pc[h] \in Early /\ req'[h] = req[h] /\ Spares(req[h].cmd)
    <3>1. pc[h] # "idle" /\ req'[h] = req[h] /\ Spares(req[h].cmd)
      BY <1>2, <2>2, StepSpares DEF Early
    <3>2. ~cache[req[h].cmd].ref
      BY <2>2, <3>1 DEF Spares
    <3>. QED  BY <3>1, <3>2 DEF HandlerInv, HandlerOK
  <2>. QED  BY <1>0, <2>1, <2>2
<1>3. ASSUME NEW h \in Handlers, NEW c \in Commands, NEW u \in Users,
             CancelRequest(h, c, u)
      PROVE  EarlyAlone'
  <2>1. UNCHANGED storeVars /\ pc'[h] = "cancel"
    BY <1>3 DEF CancelRequest, GatewayTypeOK
  <2>2. \A g \in Handlers \ {h} : pc'[g] = pc[g] /\ req'[g] = req[g]
    BY <1>3 DEF CancelRequest, GatewayTypeOK
  <2>. QED  BY <1>0, <2>1, <2>2 DEF Early, Spares, storeVars
<1>4. CASE Crash
  BY <1>4 DEF Crash, EarlyAlone, Early
<1>5. CASE UNCHANGED <<storeVars, pc, req>>
  BY <1>0, <1>5 DEF Spares, storeVars
<1>6. ASSUME NEW h \in Handlers, NEW r \in Requests, Replay(h, r)
      PROVE  UNCHANGED <<storeVars, pc, req>>
  BY <1>6 DEF Replay
<1>7. ErpCreatesLate \/ Expire \/ UNCHANGED gwVars
        => UNCHANGED <<storeVars, pc, req>>
  BY DEF ErpCreatesLate, Expire, gwVars
<1>. QED  BY <1>1, <1>2, <1>3, <1>4, <1>5, <1>6, <1>7 DEF Next, Execute

-----------------------------------------------------------------------------
(* The theorems.                                                            *)

LEMMA Inductive ==
    IndInv /\ [Next]_gwVars => IndInv'
<1>. SUFFICES ASSUME IndInv, [Next]_gwVars PROVE IndInv'
  OBVIOUS
<1>1. GatewayTypeOK' /\ StoreGood' /\ HandlerInv' /\ EarlyAlone'
  BY TypesInductive, StoreInductive, HandlersInductive, EarlyInductive
<1>2. AppliedReferenced' /\ AckedRecorded'
  BY AppliedInductive, AckedInductive
<1>. QED  BY <1>1, <1>2 DEF IndInv

LEMMA Invariant == Spec => []IndInv
BY InitInductive, Inductive, PTL DEF Spec

\* The state of the write path keeps its types.
THEOREM TypeCorrect == Spec => []TypeOK
<1>1. IndInv => TypeOK
  BY DEF IndInv, StoreGood, GatewayTypeOK, TypeOK
<1>. QED  BY <1>1, Invariant, PTL

\* begin() never lets two commands be PENDING on one intent, in memory or on
\* disk, through resumes, cancels, persists that throw and restarts.
THEOREM IntentLockHolds == Spec => []IntentLock
<1>1. IndInv => IntentLock
  BY DEF IndInv, StoreGood
<1>. QED  BY <1>1, Invariant, PTL

\* Every write that was applied, is in flight or may still land has its
\* reference on disk, so that a restarted gateway reconciles before it writes.
THEOREM WriteAhead == Spec => []WriteAheadReference
<1>1. IndInv => WriteAheadReference
  BY SentReferenced DEF IndInv, AppliedReferenced, WriteAheadReference, Sent
<1>. QED  BY <1>1, Invariant, PTL

\* The catch block of runExecute fails only commands that never sent a write
\* and never will, even when requests of one command overlap.
THEOREM FailedNeverWroteHolds == Spec => []FailedNeverWrote
<1>1. ASSUME IndInv PROVE FailedNeverWrote
  <2>1. \A w \in Sent : disk[w.cmd].ref
    BY <1>1, SentReferenced DEF IndInv, AppliedReferenced, Sent
  <2>2. \A c \in Commands :
          "FAILED" \in {cache[c].status, disk[c].status} => ~disk[c].ref
    BY <1>1 DEF IndInv, StoreGood, StoreInv
  <2>. QED  BY <2>1, <2>2 DEF FailedNeverWrote
<1>. QED  BY <1>1, Invariant, PTL

\* A client that was told "done" is not contradicted by a restart: the reference
\* of its command is on disk, the command is not failed, and it is stored
\* COMPLETED as long as no persist threw.
THEOREM AckedDurable == Spec => []AckedIsDurable
<1>1. ASSUME IndInv PROVE AckedIsDurable
  <2>1. \A a \in acked : a.cmd \in Commands
    BY <1>1 DEF IndInv, GatewayTypeOK, Answer
  <2>2. \A c \in Commands : disk[c].ref => disk[c].status # "FAILED"
    BY <1>1 DEF IndInv, StoreGood, StoreInv
  <2>. QED  BY <1>1, <2>1, <2>2 DEF IndInv, AckedRecorded, AckedIsDurable
<1>. QED  BY <1>1, Invariant, PTL

\* complete(), fail(), setReference() and cancel() never undo a stored outcome:
\* what commands.json calls COMPLETED or FAILED stays so.
THEOREM SettledIsFinalHolds == Spec => SettledIsFinal
<1>1. IndInv /\ [Next]_gwVars =>
        [\A c \in Commands :
            disk[c].status \in {"COMPLETED", "FAILED"} =>
                disk'[c].status = disk[c].status]_gwVars
  BY StoreInductive DEF StoreKeeps
<1>. QED  BY <1>1, Invariant, PTL DEF Spec, SettledIsFinal

\* A stored command keeps its owner and its reference for good.
THEOREM OwnerAndReferenceKeptHolds == Spec => OwnerAndReferenceKept
<1>1. IndInv /\ [Next]_gwVars =>
        [\A c \in Commands :
            /\ disk[c].user # None => disk'[c].user = disk[c].user
            /\ disk[c].ref => disk'[c].ref]_gwVars
  BY StoreInductive DEF StoreKeeps
<1>. QED  BY <1>1, Invariant, PTL DEF Spec, OwnerAndReferenceKept

-----------------------------------------------------------------------------
(* The refinement of CommandLife: what outlives the process.               *)

NamedIn(n, D) == \E d \in D : d.name = n

\* A record, in memory or on disk: a known command has an owner, a cancelled one
\* its reference, a completed one a result that names a document.
Traceable(e, D) ==
    /\ e.status = "UNKNOWN" <=> e.user = None
    /\ e.status = "UNKNOWN" => ~e.ref
    /\ e.status = "CANCELLED" => e.ref
    /\ e.status = "COMPLETED" => NamedIn(e.result.doc, D)

StoreTraced == \A c \in Commands : Traceable(cache[c], docs) /\ Traceable(disk[c], docs)

\* A handler with a document in hand has one that exists.
SeenTraced == \A h \in Handlers : pc[h] \in Holding => NamedIn(seen[h].doc, docs)

LifeInv == IndInv /\ StoreTraced /\ SeenTraced

\* Documents only appear, one at a time, for a command whose reference is on disk.
Appears == /\ UNCHANGED <<storeVars, acked>>
           /\ \E w \in Write : disk[w.cmd].ref /\ Insert(w)

LEMMA DocumentsAppear ==
    ASSUME IndInv, [Next]_gwVars
    PROVE  UNCHANGED docs \/ Appears
<1>1. ASSUME NEW h \in Handlers, ErpCreates(h) \/ ErpCreatesAdvance(h)
      PROVE  Appears
  <2>1. pc[h] \in {"create", "advance"}
    BY <1>1 DEF ErpCreates, ErpCreatesAdvance
  <2>2. /\ MainWrite(h) \in Write /\ AdvanceWrite(h) \in Write
        /\ disk[req[h].cmd].ref
    BY <2>1, WriteTypes DEF IndInv, HandlerInv, HandlerOK, Early, Cancelling
  <2>3. MainWrite(h).cmd = req[h].cmd /\ AdvanceWrite(h).cmd = req[h].cmd
    BY DEF MainWrite, AdvanceWrite
  <2>4. UNCHANGED <<storeVars, acked>>
    BY <1>1 DEF ErpCreates, ErpCreatesAdvance, tellVars
  <2>5. Insert(MainWrite(h)) \/ Insert(AdvanceWrite(h))
    BY <1>1 DEF ErpCreates, ErpCreatesAdvance
  <2>. QED  BY <2>2, <2>3, <2>4, <2>5 DEF Appears
<1>2. ASSUME ErpCreatesLate PROVE Appears
  <2>1. PICK w \in late : Insert(w)
    BY <1>2 DEF ErpCreatesLate
  <2>2. w \in Write /\ disk[w.cmd].ref
    BY DEF IndInv, GatewayTypeOK, AppliedReferenced
  <2>3. UNCHANGED <<storeVars, acked>>
    BY <1>2 DEF ErpCreatesLate, tellVars
  <2>. QED  BY <2>1, <2>2, <2>3 DEF Appears
<1>3. ASSUME NEW h \in Handlers, Step(h), ~(ErpCreates(h) \/ ErpCreatesAdvance(h))
      PROVE  UNCHANGED docs
  BY <1>3 DEF Step, ClientUnavailable, ClientOpens, ReconcileFinds,
       ReconcileFindsNone, ReconcileFails, CompleteFound, ProbeFindsNone,
       ProbeRefuses, CheckRefuses, SendCreate, NextWrite, ErpSubmits, Finish,
       WriteUnverified, CancelFindsNone, CancelRefused, CancelApplies, erpVars
<1>4. ASSUME NEW h \in Handlers, NEW r \in Requests, Execute(h, r)
      PROVE  UNCHANGED docs
  BY <1>4 DEF Execute, Replay, BeginExecute, BeginNotPersisted, erpVars
<1>5. ASSUME NEW h \in Handlers, NEW c \in Commands, NEW u \in Users,
             CancelRequest(h, c, u)
      PROVE  UNCHANGED docs
  BY <1>5 DEF CancelRequest, erpVars
<1>6. Crash \/ Expire \/ UNCHANGED gwVars => UNCHANGED docs
  BY DEF Crash, Expire, gwVars, erpVars
<1>. QED  BY <1>1, <1>2, <1>3, <1>4, <1>5, <1>6 DEF Next

LEMMA DocumentsStay ==
    ASSUME IndInv, [Next]_gwVars
    PROVE  docs \subseteq docs'
BY DocumentsAppear DEF Appears, Insert

LEMMA PutTraced ==
    ASSUME StoreTypeOK, StoreTraced, NEW c \in Commands, NEW rec,
           Traceable(rec, docs), NEW ok, Put(c, rec, ok), docs \subseteq docs'
    PROVE  StoreTraced'
<1>1. cache'[c] = rec /\ \A d \in Commands \ {c} : cache'[d] = cache[d]
  BY DEF Put, StoreTypeOK
<1>2. disk' = cache' \/ disk' = disk
  BY DEF Put
<1>3. ASSUME NEW e, Traceable(e, docs) PROVE Traceable(e, docs')
  BY <1>3 DEF Traceable, NamedIn
<1>4. \A d \in Commands : Traceable(cache'[d], docs')
  BY <1>1, <1>3 DEF StoreTraced
<1>5. \A d \in Commands : Traceable(disk'[d], docs')
  BY <1>2, <1>3, <1>4 DEF StoreTraced
<1>. QED  BY <1>4, <1>5 DEF StoreTraced

\* What the methods of the store put.
LEMMA MethodsTraced ==
    ASSUME StoreTypeOK, StoreTraced, docs \subseteq docs', NEW c \in Commands,
           NEW ok \in BOOLEAN
    PROVE  /\ \A u \in Users, p \in Proposals : Begin(c, u, p, ok) => StoreTraced'
           /\ \A res : Complete(c, res, ok) /\ NamedIn(res.doc, docs) /\ cache[c].ref
                         => StoreTraced'
           /\ Fail(c, ok) => StoreTraced'
           /\ SetReference(c, ok) => StoreTraced'
           /\ Cancel(c, ok) /\ cache[c].ref => StoreTraced'
<1>0. cache[c] \in Record /\ Traceable(cache[c], docs)
  BY DEF StoreTypeOK, StoreTraced
<1>1. ASSUME NEW u \in Users, NEW p \in Proposals, Begin(c, u, p, ok)
      PROVE  StoreTraced'
  <2>1. u # None
    BY StoreAssumption DEF StoreAssumption
  <2>2. PICK rec : rec = Begun(c, u, p)
    OBVIOUS
  <2>3. Traceable(rec, docs)
    BY <2>1, <2>2 DEF Traceable, Begun
  <2>. QED  BY <1>1, <2>2, <2>3, PutTraced DEF Begin
<1>2. ASSUME NEW res, Complete(c, res, ok), NamedIn(res.doc, docs), cache[c].ref
      PROVE  StoreTraced'
  <2>1. PICK rec : rec = [cache[c] EXCEPT !.status = "COMPLETED", !.result = res]
    OBVIOUS
  <2>2. rec.status = "COMPLETED" /\ rec.user = cache[c].user /\ rec.result = res
    BY <1>0, <2>1 DEF Record
  <2>3. Traceable(rec, docs)
    BY <1>0, <1>2, <2>2 DEF Traceable, Complete, Resumed
  <2>. QED  BY <1>2, <2>1, <2>3, PutTraced DEF Complete
<1>3. ASSUME Fail(c, ok) PROVE StoreTraced'
  <2>1. PICK rec : rec = [cache[c] EXCEPT !.status = "FAILED"]
    OBVIOUS
  <2>2. rec.status = "FAILED" /\ rec.user = cache[c].user
    BY <1>0, <2>1 DEF Record
  <2>3. Traceable(rec, docs)
    BY <1>0, <1>3, <2>2 DEF Traceable, Fail, Resumed
  <2>. QED  BY <1>3, <2>1, <2>3, PutTraced DEF Fail
<1>4. ASSUME SetReference(c, ok) PROVE StoreTraced'
  <2>1. PICK rec : rec = [cache[c] EXCEPT !.ref = TRUE]
    OBVIOUS
  <2>2. /\ rec.status = cache[c].status /\ rec.user = cache[c].user
        /\ rec.result = cache[c].result /\ rec.ref
    BY <1>0, <2>1 DEF Record
  <2>3. Traceable(rec, docs)
    BY <1>0, <1>4, <2>2 DEF Traceable, SetReference, Resumed
  <2>. QED  BY <1>4, <2>1, <2>3, PutTraced DEF SetReference
<1>5. ASSUME Cancel(c, ok), cache[c].ref PROVE StoreTraced'
  <2>1. PICK rec : rec = [cache[c] EXCEPT !.status = "CANCELLED"]
    OBVIOUS
  <2>2. rec.status = "CANCELLED" /\ rec.user = cache[c].user /\ rec.ref
    BY <1>0, <1>5, <2>1 DEF Record
  <2>3. Traceable(rec, docs)
    BY <1>0, <1>5, <2>2 DEF Traceable, Cancel
  <2>. QED  BY <1>5, <2>1, <2>3, PutTraced DEF Cancel
<1>. QED  BY <1>1, <1>2, <1>3, <1>4, <1>5

LEMMA StoreTracedInductive ==
    ASSUME LifeInv, [Next]_gwVars
    PROVE  StoreTraced'
<1>0. /\ IndInv /\ StoreTypeOK /\ StoreTraced
      /\ docs \subseteq docs'
  BY DocumentsStay DEF LifeInv, IndInv, StoreGood
<1>1. ASSUME NEW e, Traceable(e, docs) PROVE Traceable(e, docs')
  BY <1>0, <1>1 DEF Traceable, NamedIn
<1>2. ASSUME UNCHANGED storeVars PROVE StoreTraced'
  BY <1>0, <1>1, <1>2 DEF StoreTraced, storeVars
<1>3. ASSUME NEW h \in Handlers, NEW r \in Requests, Execute(h, r)
      PROVE  StoreTraced'
  <2>1. r.cmd \in Commands /\ r.user \in Users /\ r.prop \in Proposals
    BY GatewayAssumption DEF GatewayAssumption, RequestSet
  <2>2. CASE Replay(h, r)
    BY <1>2, <2>2 DEF Replay
  <2>3. CASE BeginExecute(h, r) \/ BeginNotPersisted(h, r)
    <3>1. \E ok \in BOOLEAN : Begin(r.cmd, r.user, r.prop, ok)
      BY <2>3 DEF BeginExecute, BeginNotPersisted
    <3>. QED  BY <1>0, <2>1, <3>1, MethodsTraced
  <2>. QED  BY <1>3, <2>2, <2>3 DEF Execute
<1>4. ASSUME NEW h \in Handlers, Step(h) PROVE StoreTraced'
  <2>0. /\ pc[h] # "idle" /\ req[h].cmd \in Commands
        /\ pc[h] \notin Early => cache[req[h].cmd].ref
        /\ pc[h] \in Holding => NamedIn(seen[h].doc, docs)
    BY <1>0, <1>4, StepSpares DEF LifeInv, SeenTraced, IndInv, HandlerInv, HandlerOK
  <2>1. CASE ProbeRefuses(h) \/ CheckRefuses(h) \/ WriteUnverified(h)
    <3>1. UNCHANGED storeVars \/ \E ok \in BOOLEAN : Fail(req[h].cmd, ok)
      BY <2>1 DEF ProbeRefuses, CheckRefuses, WriteUnverified, Refuse
    <3>. QED  BY <1>0, <1>2, <2>0, <3>1, MethodsTraced
  <2>2. CASE CompleteFound(h) \/ Finish(h)
    <3>1. /\ pc[h] \in Holding
          /\ \E ok \in BOOLEAN : Complete(req[h].cmd, seen[h], ok)
      BY <2>2 DEF CompleteFound, Finish, Holding
    <3>. QED  BY <1>0, <2>0, <3>1, MethodsTraced DEF Holding, Early
  <2>3. CASE SendCreate(h)
    <3>1. \E ok \in BOOLEAN : SetReference(req[h].cmd, ok)
      BY <2>3 DEF SendCreate
    <3>. QED  BY <1>0, <2>0, <3>1, MethodsTraced
  <2>4. CASE CancelApplies(h)
    <3>1. /\ pc[h] = "cancelling"
          /\ UNCHANGED storeVars \/ \E ok \in BOOLEAN : Cancel(req[h].cmd, ok)
      BY <2>4 DEF CancelApplies
    <3>. QED  BY <1>0, <1>2, <2>0, <3>1, MethodsTraced DEF Early
  <2>5. CASE \/ ClientUnavailable(h) \/ ClientOpens(h)
             \/ ReconcileFinds(h) \/ ReconcileFindsNone(h) \/ ReconcileFails(h)
             \/ ProbeFindsNone(h) \/ ErpCreates(h) \/ NextWrite(h)
             \/ ErpSubmits(h) \/ ErpCreatesAdvance(h)
             \/ CancelFindsNone(h) \/ CancelRefused(h)
    BY <1>2, <2>5 DEF ClientUnavailable, ClientOpens, ReconcileFinds,
         ReconcileFindsNone, ReconcileFails, ProbeFindsNone, ErpCreates,
         NextWrite, ErpSubmits, ErpCreatesAdvance, CancelFindsNone, CancelRefused
  <2>. QED  BY <1>4, <2>1, <2>2, <2>3, <2>4, <2>5 DEF Step
<1>5. ASSUME NEW h \in Handlers, NEW c \in Commands, NEW u \in Users,
             CancelRequest(h, c, u)
      PROVE  StoreTraced'
  BY <1>2, <1>5 DEF CancelRequest
<1>6. CASE Crash
  BY <1>0, <1>1, <1>6 DEF Crash, Reload, StoreTraced
<1>7. CASE ErpCreatesLate \/ Expire \/ UNCHANGED gwVars
  BY <1>2, <1>7 DEF ErpCreatesLate, Expire, gwVars
<1>. QED  BY <1>3, <1>4, <1>5, <1>6, <1>7 DEF Next

LEMMA SeenTracedInductive ==
    ASSUME LifeInv, [Next]_gwVars
    PROVE  SeenTraced'
<1>0. /\ IndInv /\ GatewayTypeOK /\ SeenTraced
      /\ docs \subseteq docs'
  BY DocumentsStay DEF LifeInv, IndInv
<1>1. ASSUME NEW g \in Handlers, pc'[g] = pc[g], seen'[g] = seen[g], pc'[g] \in Holding
      PROVE  NamedIn(seen'[g].doc, docs')
  BY <1>0, <1>1 DEF SeenTraced, NamedIn
<1>2. ASSUME NEW h \in Handlers, Step(h), pc'[h] \in Holding
      PROVE  NamedIn(seen'[h].doc, docs')
  <2>1. CASE ReconcileFinds(h)
    <3>1. PICK d \in Matches(req[h]) :
             seen' = [seen EXCEPT ![h] = [doc       |-> d.name,
                                          submitted |-> d.name \in submitted]]
      BY <2>1 DEF ReconcileFinds
    <3>2. d \in docs
      BY DEF Matches, PaymentMatches, OrderMatches, ByReference, PaymentEntries
    <3>3. seen'[h].doc = d.name
      BY <1>0, <3>1 DEF GatewayTypeOK
    <3>. QED  BY <1>0, <3>2, <3>3 DEF NamedIn
  <2>2. CASE ErpCreates(h)
    <3>1. PICK n : n = NextName
      OBVIOUS
    <3>2. docs' = docs \cup {[name |-> n, write |-> MainWrite(h)]}
      BY <2>2, <3>1 DEF ErpCreates, Insert
    <3>3. seen' = [seen EXCEPT ![h] = [doc |-> n, submitted |-> FALSE]]
      BY <2>2, <3>1 DEF ErpCreates
    <3>4. seen'[h].doc = n
      BY <1>0, <3>3 DEF GatewayTypeOK
    <3>5. PICK d : d = [name |-> n, write |-> MainWrite(h)]
      OBVIOUS
    <3>6. d \in docs' /\ d.name = n
      BY <3>2, <3>5
    <3>. QED  BY <3>4, <3>6 DEF NamedIn
  <2>3. CASE ErpSubmits(h)
    <3>1. pc[h] \in Holding /\ seen[h] \in Results
      BY <1>0, <2>3 DEF ErpSubmits, Holding, IndInv, HandlerInv, HandlerOK
    <3>2. seen'[h].doc = seen[h].doc
      BY <1>0, <2>3, <3>1 DEF ErpSubmits, GatewayTypeOK, Results
    <3>. QED  BY <1>0, <3>1, <3>2 DEF SeenTraced, NamedIn
  <2>4. CASE NextWrite(h) \/ ErpCreatesAdvance(h)
    <3>1. pc[h] \in Holding /\ seen'[h] = seen[h]
      BY <2>4 DEF NextWrite, ErpCreatesAdvance, Holding
    <3>. QED  BY <1>0, <3>1 DEF SeenTraced, NamedIn
  <2>5. CASE \/ ClientUnavailable(h) \/ ClientOpens(h)
             \/ ReconcileFindsNone(h) \/ ReconcileFails(h) \/ CompleteFound(h)
             \/ ProbeFindsNone(h) \/ ProbeRefuses(h) \/ CheckRefuses(h)
             \/ SendCreate(h) \/ WriteUnverified(h) \/ Finish(h)
             \/ CancelFindsNone(h) \/ CancelRefused(h) \/ CancelApplies(h)
    <3>1. pc'[h] \notin Holding
      BY <1>0, <2>5 DEF ClientUnavailable, ClientOpens, ReconcileFindsNone,
           ReconcileFails, CompleteFound, ProbeFindsNone, ProbeRefuses,
           CheckRefuses, SendCreate, WriteUnverified, Finish, CancelFindsNone,
           CancelRefused, CancelApplies, Refuse, Done, Goto, GatewayTypeOK, Holding
    <3>. QED  BY <1>2, <3>1
  <2>. QED  BY <1>2, <2>1, <2>2, <2>3, <2>4, <2>5 DEF Step
<1>3. ASSUME NEW h \in Handlers, Step(h) PROVE SeenTraced'
  BY <1>0, <1>1, <1>2, <1>3, StepSpares DEF SeenTraced
<1>4. ASSUME NEW h \in Handlers, NEW g \in Handlers, pc'[g] \in Holding,
             \/ \E r \in Requests : Execute(h, r)
             \/ \E c \in Commands, u \in Users : CancelRequest(h, c, u)
      PROVE  pc'[g] = pc[g] /\ seen'[g] = seen[g]
  BY <1>0, <1>4 DEF Execute, Replay, BeginExecute, BeginNotPersisted, CancelRequest,
                    GatewayTypeOK, Holding
<1>5. CASE \E h \in Handlers :
               \/ \E r \in Requests : Execute(h, r)
               \/ \E c \in Commands, u \in Users : CancelRequest(h, c, u)
  BY <1>1, <1>4, <1>5 DEF SeenTraced
<1>6. CASE Crash
  BY <1>6 DEF Crash, SeenTraced, Holding
<1>7. CASE ErpCreatesLate \/ Expire \/ UNCHANGED gwVars
  <2>1. pc' = pc /\ seen' = seen
    BY <1>7 DEF ErpCreatesLate, Expire, gwVars
  <2>. QED  BY <1>1, <2>1 DEF SeenTraced
<1>. QED  BY <1>3, <1>5, <1>6, <1>7 DEF Next

LEMMA LifeInvInitially == Init => LifeInv
BY InitInductive DEF Init, LifeInv, StoreInit, EmptyStore, NoRecord, StoreTraced,
   Traceable, SeenTraced, Holding

LEMMA LifeInvHolds == Spec => []LifeInv
<1>1. LifeInv /\ [Next]_gwVars => LifeInv'
  BY Inductive, StoreTracedInductive, SeenTracedInductive DEF LifeInv
<1>. QED  BY <1>1, LifeInvInitially, PTL DEF Spec

\* begin() does not refuse the retry of a command that wrote or may have.
THEOREM SentIsNotRefusedHolds == Spec => []SentIsNotRefused
<1>1. ASSUME LifeInv PROVE SentIsNotRefused
  <2>. SUFFICES ASSUME NEW w \in Sent, NEW r \in Requests,
                       r.cmd = w.cmd, r.user = cache[r.cmd].user,
                       cache[r.cmd].status # "CANCELLED",
                       cache[r.cmd].fingerprint = FingerprintOf[r.prop],
                       cache[r.cmd].intent = IntentOf[r.prop],
                       cache[r.cmd].status # "COMPLETED"
                PROVE  Accepts(r.cmd, r.user, r.prop) /\ cache[r.cmd].ref
    BY DEF SentIsNotRefused, Replays, Foreign
  <2>1. r.cmd \in Commands
    BY GatewayAssumption DEF GatewayAssumption, RequestSet
  <2>2. disk[r.cmd].ref /\ cache[r.cmd].ref
    BY <1>1, <2>1, SentReferenced
       DEF LifeInv, IndInv, AppliedReferenced, Sent, StoreGood, StoreInv
  <2>3. cache[r.cmd].status = "PENDING"
    <3>1. cache[r.cmd] \in Record
      BY <1>1, <2>1 DEF LifeInv, IndInv, StoreGood, StoreTypeOK
    <3>2. cache[r.cmd].status \notin {"UNKNOWN", "FAILED"}
      BY <1>1, <2>1, <2>2 DEF LifeInv, StoreTraced, Traceable, IndInv, StoreGood, StoreInv
    <3>. QED  BY <3>1, <3>2 DEF Record, Statuses
  <2>4. ~IntentTaken(r.cmd, r.prop)
    BY <1>1, <2>1, <2>3
       DEF LifeInv, IndInv, StoreGood, IntentLock, OnePendingPerIntent, IntentTaken
  <2>. QED  BY <2>2, <2>3, <2>4 DEF Accepts, Foreign
<1>. QED  BY <1>1, LifeInvHolds, PTL

-----------------------------------------------------------------------------
\* An answer names a document, of a command of the gateway.
OneIsTold == \E c \in Commands, d \in docs : acked' = acked \cup {[cmd |-> c, doc |-> d.name]}

LEMMA AnswersName ==
    ASSUME LifeInv, [Next]_gwVars
    PROVE  UNCHANGED acked \/ OneIsTold
<1>0. /\ IndInv /\ StoreTraced /\ SeenTraced
  BY DEF LifeInv
<1>1. ASSUME NEW h \in Handlers, NEW r \in Requests, Replay(h, r)
      PROVE  OneIsTold
  <2>1. r.cmd \in Commands
    BY GatewayAssumption DEF GatewayAssumption, RequestSet
  <2>2. /\ cache[r.cmd].status = "COMPLETED"
        /\ acked' = acked \cup {[cmd |-> r.cmd, doc |-> cache[r.cmd].result.doc]}
    BY <1>1 DEF Replay, Replays, TellOk
  <2>3. NamedIn(cache[r.cmd].result.doc, docs)
    BY <1>0, <2>1, <2>2 DEF StoreTraced, Traceable
  <2>. QED  BY <2>1, <2>2, <2>3 DEF OneIsTold, NamedIn
<1>2. ASSUME NEW h \in Handlers, CompleteFound(h) \/ Finish(h)
      PROVE  UNCHANGED acked \/ OneIsTold
  <2>1. pc[h] \in Holding /\ req[h].cmd \in Commands
    BY <1>0, <1>2 DEF CompleteFound, Finish, Holding, IndInv, HandlerInv, HandlerOK
  <2>2. \/ UNCHANGED acked
        \/ acked' = acked \cup {[cmd |-> req[h].cmd, doc |-> seen[h].doc]}
    BY <1>2 DEF CompleteFound, Finish, TellOk, TellRetry, tellVars
  <2>3. NamedIn(seen[h].doc, docs)
    BY <1>0, <2>1 DEF SeenTraced
  <2>. QED  BY <2>1, <2>2, <2>3 DEF OneIsTold, NamedIn
<1>3. ASSUME NEW h \in Handlers, Step(h), ~(CompleteFound(h) \/ Finish(h))
      PROVE  UNCHANGED acked
  BY <1>3 DEF Step, ClientUnavailable, ClientOpens, ReconcileFinds,
       ReconcileFindsNone, ReconcileFails, ProbeFindsNone, ProbeRefuses,
       CheckRefuses, SendCreate, ErpCreates, WriteUnverified, NextWrite,
       ErpSubmits, ErpCreatesAdvance, CancelFindsNone, CancelRefused,
       CancelApplies, Refuse, TellRetry, tellVars
<1>4. ASSUME NEW h \in Handlers, NEW r \in Requests, Execute(h, r), ~Replay(h, r)
      PROVE  UNCHANGED acked
  BY <1>4 DEF Execute, BeginExecute, BeginNotPersisted, tellVars
<1>5. ASSUME NEW h \in Handlers, NEW c \in Commands, NEW u \in Users,
             CancelRequest(h, c, u)
      PROVE  UNCHANGED acked
  BY <1>5 DEF CancelRequest, tellVars
<1>6. Crash \/ ErpCreatesLate \/ Expire \/ UNCHANGED gwVars => UNCHANGED acked
  BY DEF Crash, ErpCreatesLate, Expire, gwVars, tellVars
<1>. QED  BY <1>1, <1>2, <1>3, <1>4, <1>5, <1>6 DEF Next

LEMMA FaultsGrow ==
    ASSUME IndInv, [Next]_gwVars
    PROVE  faults' = 0 => faults = 0
<1>1. faults' = faults \/ faults' = faults + 1
  BY DEF Next, Execute, Step, gwVars, storeVars, Replay, BeginExecute,
       BeginNotPersisted, CancelRequest, Crash, ErpCreatesLate, Expire,
       ClientUnavailable, ClientOpens, ReconcileFinds, ReconcileFindsNone,
       ReconcileFails, CompleteFound, ProbeFindsNone, ProbeRefuses,
       CheckRefuses, SendCreate, ErpCreates, WriteUnverified, NextWrite,
       ErpSubmits, ErpCreatesAdvance, Finish, CancelFindsNone, CancelRefused,
       CancelApplies, Refuse, Begin, Complete, Fail, SetReference, Cancel,
       Put, Reload
<1>2. faults \in Nat
  BY DEF IndInv, StoreGood, StoreTypeOK
<1>. QED  BY <1>1, <1>2

\* What CommandLife sees of a record.
Seen(e) == [status |-> e.status, user |-> e.user, ref |-> e.ref]

LEMMA RecordsFollow ==
    ASSUME LifeInv, LifeInv', [Next]_gwVars, NEW c \in Commands
    PROVE  /\ Seen(disk'[c]) \in Life!Entry
           /\ Life!Follows(Seen(disk[c]), Seen(disk'[c]))
<1>1. disk[c] \in Record /\ disk'[c] \in Record
  BY DEF LifeInv, IndInv, StoreGood, StoreTypeOK
<1>2. /\ disk[c].ref => disk'[c].ref
      /\ disk[c].status \in {"COMPLETED", "FAILED"} => disk'[c].status = disk[c].status
      /\ disk[c].user # None => disk'[c].user = disk[c].user
  BY StoreInductive DEF LifeInv, StoreKeeps
<1>3. /\ disk[c].status = "UNKNOWN" <=> disk[c].user = None
      /\ disk[c].status = "COMPLETED" => disk[c].ref
      /\ disk[c].status = "FAILED" => ~disk[c].ref
  BY DEF LifeInv, StoreTraced, Traceable, IndInv, StoreGood, StoreInv
<1>4. /\ disk'[c].status = "UNKNOWN" <=> disk'[c].user = None
      /\ disk'[c].status \in {"COMPLETED", "CANCELLED"} => disk'[c].ref
      /\ disk'[c].status \in {"UNKNOWN", "FAILED"} => ~disk'[c].ref
  BY DEF LifeInv, StoreTraced, Traceable, IndInv, StoreGood, StoreInv
<1>5. Life!Stands(Seen(disk'[c]))
  BY <1>4 DEF Life!Stands, Seen
<1>6. Seen(disk'[c]) \in Life!Entry
  BY <1>1 DEF Seen, Life!Entry, Record, Statuses
<1>7. CASE disk[c].status \in {"COMPLETED", "FAILED"}
  <2>1. disk'[c].ref = disk[c].ref
    BY <1>1, <1>2, <1>3, <1>4, <1>7 DEF Record
  <2>2. disk'[c].status = disk[c].status /\ disk'[c].user = disk[c].user
    BY <1>2, <1>3, <1>7
  <2>3. Seen(disk'[c]) = Seen(disk[c])
    BY <2>1, <2>2 DEF Seen
  <2>. QED  BY <1>6, <2>3 DEF Life!Follows
<1>8. CASE disk[c].status \notin {"COMPLETED", "FAILED"}
  BY <1>2, <1>5, <1>6, <1>8 DEF Life!Follows, Seen
<1>. QED  BY <1>7, <1>8

\* The documents as CommandLife lists them.
Listed(D) == {[name |-> d.name, cmd |-> d.write.cmd] : d \in D}

LEMMA DocumentsLand ==
    ASSUME LifeInv, Appears
    PROVE  \E c \in Commands : Life!Land(c)
<1>1. PICK w \in Write : disk[w.cmd].ref /\ Insert(w)
  BY DEF Appears
<1>2. w.cmd \in Commands /\ UNCHANGED <<disk, faults, acked>>
  BY DEF Appears, storeVars, Write
<1>3. PICK n \in FreeNames : docs' = docs \cup {[name |-> n, write |-> w]}
  BY <1>1 DEF Insert, NextName
<1>4. n \in Names /\ \A d \in docs : d.name # n
  BY DEF FreeNames
<1>5. Listed(docs') = Listed(docs) \cup {[name |-> n, cmd |-> w.cmd]}
  <2>1. PICK e : e = [name |-> n, write |-> w]
    OBVIOUS
  <2>2. docs' = docs \cup {e} /\ e.name = n /\ e.write = w
    BY <1>3, <2>1
  <2>3. Listed(docs \cup {e}) = Listed(docs) \cup {[name |-> e.name, cmd |-> e.write.cmd]}
    BY DEF Listed
  <2>. QED  BY <2>2, <2>3
<1>6. \A d \in Listed(docs) : d.name # n
  BY <1>4 DEF Listed
<1>7. /\ disk[w.cmd].ref
      /\ \E m \in Names :
            /\ \A d \in Listed(docs) : d.name # m
            /\ Listed(docs') = Listed(docs) \cup {[name |-> m, cmd |-> w.cmd]}
  BY <1>1, <1>4, <1>5, <1>6
<1>. QED  BY <1>2, <1>7 DEF Life!Land, Listed

LEMMA RecordsSaved ==
    ASSUME LifeInv, LifeInv', [Next]_gwVars, UNCHANGED docs
    PROVE  Life!Save
<1>1. \A c \in Commands : /\ Seen(disk'[c]) \in Life!Entry
                          /\ Life!Follows(Seen(disk[c]), Seen(disk'[c]))
  BY RecordsFollow
<1>2. faults' = 0 => faults = 0
  BY FaultsGrow DEF LifeInv
<1>3. UNCHANGED acked \/ \E c \in Commands : Life!Tell(c)
  <2>1. CASE OneIsTold
    <3>1. PICK c \in Commands, d \in docs :
             acked' = acked \cup {[cmd |-> c, doc |-> d.name]}
      BY <2>1 DEF OneIsTold
    <3>2. disk'[c].ref /\ (faults' = 0 => disk'[c].status = "COMPLETED")
      <4>1. [cmd |-> c, doc |-> d.name] \in acked'
        BY <3>1
      <4>. QED  BY <4>1 DEF LifeInv, IndInv, AckedRecorded
    <3>3. PICK e : e = [name |-> d.name, cmd |-> d.write.cmd]
      OBVIOUS
    <3>4. /\ e \in {[name |-> x.name, cmd |-> x.write.cmd] : x \in docs}
          /\ acked' = acked \cup {[cmd |-> c, doc |-> e.name]}
      BY <3>1, <3>3
    <3>. QED  BY <3>2, <3>4 DEF Life!Tell
  <2>. QED  BY <2>1, AnswersName
<1>. QED  BY <1>1, <1>2, <1>3 DEF Life!Save, Seen

\* Whatever overlaps, dies, throws or lands late, the records, the documents and
\* the answers move as CommandLife lets them: runExecute, the store and the
\* executors implement it.
THEOREM OutlivesHolds == Spec => Outlives
<1>1. Init => Life!LifeInit
  BY DEF Init, StoreInit, EmptyStore, NoRecord, Life!LifeInit
<1>2. LifeInv /\ LifeInv' /\ [Next]_gwVars => [Life!LifeNext]_Life!lifeVars
  BY DocumentsAppear, DocumentsLand, RecordsSaved DEF LifeInv, Life!LifeNext
<1>. QED  BY <1>1, <1>2, LifeInvHolds, PTL DEF Spec, Outlives, Life!LifeSpec

\* CommandLife is no weaker than what the store was asked for one by one: a stored
\* outcome is final, a stored owner and reference are kept.
THEOREM OutlivesIsFinal == Outlives => SettledIsFinal /\ OwnerAndReferenceKept
<1>1. ASSUME [Life!LifeNext]_Life!lifeVars, NEW c \in Commands
      PROVE  \/ Seen(disk'[c]) = Seen(disk[c])
             \/ Life!Follows(Seen(disk[c]), Seen(disk'[c]))
  <2>. DEFINE old == [d \in Commands |-> Seen(disk[d])]
              new == [d \in Commands |-> Seen(disk'[d])]
  <2>1. old[c] = Seen(disk[c]) /\ new[c] = Seen(disk'[c])
    OBVIOUS
  <2>2. new = old \/ \A d \in Commands : Life!Follows(old[d], new[d])
    BY <1>1, Zenon DEF Life!LifeNext, Life!lifeVars, Life!Save, Life!Land, Seen
  <2>. HIDE DEF old, new
  <2>. QED  BY <2>1, <2>2
<1>2. ASSUME [Life!LifeNext]_Life!lifeVars, NEW c \in Commands
      PROVE  /\ disk[c].status \in {"COMPLETED", "FAILED"} =>
                    disk'[c].status = disk[c].status
             /\ disk[c].user # None => disk'[c].user = disk[c].user
             /\ disk[c].ref => disk'[c].ref
  BY <1>1, <1>2 DEF Life!Follows, Seen
<1>3. [Life!LifeNext]_Life!lifeVars =>
        /\ [\A c \in Commands :
               disk[c].status \in {"COMPLETED", "FAILED"} =>
                   disk'[c].status = disk[c].status]_gwVars
        /\ [\A c \in Commands :
               /\ disk[c].user # None => disk'[c].user = disk[c].user
               /\ disk[c].ref => disk'[c].ref]_gwVars
  BY <1>2
<1>. QED  BY <1>3, PTL DEF Outlives, Life!LifeSpec, SettledIsFinal, OwnerAndReferenceKept
=============================================================================
