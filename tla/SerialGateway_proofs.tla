------------------------ MODULE SerialGateway_proofs ------------------------
(***************************************************************************)
(* What the write path promises a client that waits for an answer before   *)
(* it repeats itself (~Overlap), when a write dies with its caller         *)
(* (~LateWrites): the second group of safety properties of SafetyGateway,  *)
(* and that it implements OnceOnlyWrite.                                   *)
(*                                                                         *)
(* None of these is inductive.  They are proved together, as SerialInv on  *)
(* top of IndInv: a request in execution is alone with its command         *)
(* (OnePerCommand), which is PENDING in memory and on disk for the very    *)
(* work it is about (ServedPending), so that nobody else can be on its way *)
(* to write for that intent (Exclusive); what its lookups found absent is  *)
(* therefore still absent when it writes (UnwrittenInv).  A document that  *)
(* is still being submitted or followed by an advance is in nobody else's  *)
(* hands (Unshared), which is why a stored result stays true.              *)
(***************************************************************************)
EXTENDS SafetyGateway_proofs

\* The handlers that execute a request, as opposed to those that cancel one.
Executing(h) == pc[h] \notin Cancelling \cup {"idle"}

\* One handler per command.
OnePerCommand ==
    \A g, h \in Handlers :
        /\ pc[g] # "idle" /\ pc[h] # "idle"
        /\ req[g].cmd = req[h].cmd
        => g = h

\* While a request is executed, memory and disk hold its command PENDING for
\* what the request is about.
PendingFor(rec, p) ==
    /\ rec.status = "PENDING"
    /\ rec.intent = IntentOf[p]
    /\ rec.fingerprint = FingerprintOf[p]

Served(h) ==
    Executing(h) =>
        /\ req[h] \in Requests
        /\ PendingFor(cache[req[h].cmd], req[h].prop)
        /\ PendingFor(disk[req[h].cmd], req[h].prop)

ServedPending == \A h \in Handlers : Served(h)

\* A document was asked for; an advance accompanies the document of its sale.
DocAsked(d) ==
    \E r \in Requests : r.cmd = d.write.cmd /\ r.prop = d.write.prop

AdvanceFollows(d) ==
    d.write.part = "advance" =>
        /\ d.write.prop \in WithAdvance
        /\ \E e \in docs : e.write = [d.write EXCEPT !.part = "main"]

NamesUnique == \A d, e \in docs : d.name = e.name => d = e

SubmittedExist == \A n \in submitted : \E d \in docs : d.name = n

DocsInv ==
    /\ \A d \in docs : DocAsked(d) /\ AdvanceFollows(d)
    /\ NamesUnique
    /\ SubmittedExist
    /\ OneDocument
    /\ OneOrderPerProposal
    /\ late = {}

\* A result names a document of the work f, and tells whether it is submitted.
Describes(res, f) ==
    \E d \in docs : /\ d.write.part = "main"
                    /\ FingerprintOf[d.write.prop] = f
                    /\ d.name = res.doc
                    /\ res.submitted <=> d.name \in submitted

\* A record knows the work its documents are of; once a payment was written, it
\* is in flight or completed; and a stored result is true.
RecordOK(c, rec) ==
    /\ rec.status = "UNKNOWN" => ~rec.ref
    /\ \A d \in docs :
          d.write.cmd = c =>
              /\ FingerprintOf[d.write.prop] = rec.fingerprint
              /\ d.write.prop \in Payments => rec.status \in {"PENDING", "COMPLETED"}
    /\ rec.status = "COMPLETED" => Describes(rec.result, rec.fingerprint)

RecordsInv == \A c \in Commands : RecordOK(c, cache[c]) /\ RecordOK(c, disk[c])

\* What was not written yet, and what the writes to come rely on.
NothingOf(c) == \A d \in docs : d.write.cmd # c
NothingFor(p) == \A d \in docs : d.write.prop # p
NoAdvanceFor(p) == \A d \in docs : ~(d.write.prop = p /\ d.write.part = "advance")

Unwritten(h) ==
    /\ pc[h] \in {"open", "probe", "check", "create"} /\ req[h].prop \in Payments
        => NothingOf(req[h].cmd)
    /\ pc[h] \in {"check", "create"} /\ req[h].prop \notin Payments
        => NothingFor(req[h].prop)
    /\ pc[h] \in {"created", "advance"} => NoAdvanceFor(req[h].prop)
    /\ pc[h] = "advance" => req[h].prop \in WithAdvance
    /\ pc[h] = "cancelling" => ByReference(req[h].cmd) = {}

UnwrittenInv == \A h \in Handlers : Unwritten(h)

\* What a handler holds is true, and a document it goes on writing about is in
\* no other hands.
Writing == {"created", "submit", "advance"}

HeldInv ==
    \A h \in Handlers :
        pc[h] \in Holding => Describes(seen[h], FingerprintOf[req[h].prop])

WrittenInv ==
    \A h \in Handlers :
        pc[h] \in Writing =>
            \E d \in docs : d.name = seen[h].doc /\ d.write = MainWrite(h)

InResult(rec, n) == rec.status = "COMPLETED" /\ rec.result.doc = n

Unshared ==
    \A h \in Handlers :
        pc[h] \in Writing =>
            /\ \A c \in Commands : /\ ~InResult(cache[c], seen[h].doc)
                                   /\ ~InResult(disk[c], seen[h].doc)
            /\ \A g \in Handlers \ {h} :
                  pc[g] \in Holding => seen[g].doc # seen[h].doc

SerialInv ==
    /\ OnePerCommand
    /\ ServedPending
    /\ DocsInv
    /\ RecordsInv
    /\ UnwrittenInv
    /\ HeldInv
    /\ WrittenInv
    /\ Unshared

-----------------------------------------------------------------------------
(* What a serial step can change.                                           *)

LEMMA InitSerial == Init => SerialInv
<1>. SUFFICES ASSUME Init PROVE SerialInv
  OBVIOUS
<1>1. \A h \in Handlers : pc[h] = "idle"
  BY DEF Init
<1>2. docs = {} /\ submitted = {} /\ late = {}
  BY DEF Init
<1>3. \A c \in Commands : /\ cache[c].status = "UNKNOWN" /\ ~cache[c].ref
                          /\ disk[c].status = "UNKNOWN" /\ ~disk[c].ref
  BY DEF Init, StoreInit, EmptyStore, NoRecord
<1>4. OnePerCommand /\ ServedPending /\ UnwrittenInv /\ HeldInv
      /\ WrittenInv /\ Unshared
  BY <1>1 DEF OnePerCommand, ServedPending, Served, Executing, UnwrittenInv, Unwritten,
              HeldInv, WrittenInv, Unshared, Holding, Writing
<1>5. DocsInv
  BY <1>2 DEF DocsInv, NamesUnique, SubmittedExist, OneDocument,
              OneOrderPerProposal
<1>6. RecordsInv
  BY <1>2, <1>3 DEF RecordsInv, RecordOK
<1>. QED  BY <1>4, <1>5, <1>6 DEF SerialInv

\* No two requests in execution are for one intent: the second begin() is
\* refused as long as the first command is PENDING.
LEMMA Exclusive ==
    ASSUME IndInv, OnePerCommand, ServedPending,
           NEW g \in Handlers, NEW h \in Handlers, Executing(g), Executing(h),
           IntentOf[req[g].prop] = IntentOf[req[h].prop]
    PROVE  g = h
<1>1. req[g].cmd \in Commands /\ req[h].cmd \in Commands
  BY DEF IndInv, HandlerInv, HandlerOK, Executing
<1>2. /\ cache[req[g].cmd].status = "PENDING"
      /\ cache[req[h].cmd].status = "PENDING"
      /\ cache[req[g].cmd].intent = cache[req[h].cmd].intent
  BY DEF ServedPending, Served, PendingFor
<1>3. req[g].cmd = req[h].cmd
  BY <1>1, <1>2 DEF IndInv, StoreGood, IntentLock, OnePendingPerIntent
<1>. QED  BY <1>3 DEF OnePerCommand, Executing

\* Documents are inserted by two steps and submitted by one.
LEMMA SiteSteps ==
    ASSUME [Next]_gwVars, late = {}, ~LateWrites
    PROVE  /\ late' = {}
           /\ \/ docs' = docs
              \/ \E h \in Handlers : ErpCreates(h) \/ ErpCreatesAdvance(h)
           /\ \/ submitted' = submitted
              \/ \E h \in Handlers : ErpSubmits(h)
<1>1. ASSUME NEW h \in Handlers, Step(h)
      PROVE  /\ late' = {}
             /\ docs' = docs \/ ErpCreates(h) \/ ErpCreatesAdvance(h)
             /\ submitted' = submitted \/ ErpSubmits(h)
  BY <1>1 DEF Step, ClientUnavailable, ClientOpens, ReconcileFinds,
       ReconcileFindsNone, ReconcileFails, CompleteFound, ProbeFindsNone,
       ProbeRefuses, CheckRefuses, SendCreate, ErpCreates, WriteUnverified,
       NextWrite, ErpSubmits, ErpCreatesAdvance, Finish, CancelFindsNone,
       CancelRefused, CancelApplies, erpVars
<1>2. ASSUME \E h \in Handlers, r \in Requests : Execute(h, r)
      PROVE  UNCHANGED erpVars
  BY <1>2 DEF Execute, Replay, BeginExecute, BeginNotPersisted
<1>3. ASSUME \E h \in Handlers, c \in Commands, u \in Users : CancelRequest(h, c, u)
      PROVE  UNCHANGED erpVars
  BY <1>3 DEF CancelRequest
<1>4. ~ErpCreatesLate
  BY DEF ErpCreatesLate
<1>5. Crash \/ Expire \/ UNCHANGED gwVars => UNCHANGED erpVars
  BY DEF Crash, Expire, gwVars, erpVars
<1>. QED  BY <1>1, <1>2, <1>3, <1>4, <1>5 DEF Next, erpVars

\* A step of a handler changes the record of its own command, if any.
LEMMA StepStore ==
    ASSUME NEW h \in Handlers, Step(h)
    PROVE  \/ UNCHANGED storeVars
           \/ \E rec, ok : Put(req[h].cmd, rec, ok)
BY DEF Step, ClientUnavailable, ClientOpens, ReconcileFinds,
       ReconcileFindsNone, ReconcileFails, CompleteFound, ProbeFindsNone,
       ProbeRefuses, CheckRefuses, SendCreate, ErpCreates, WriteUnverified,
       NextWrite, ErpSubmits, ErpCreatesAdvance, Finish, CancelFindsNone,
       CancelRefused, CancelApplies, Refuse, Complete, Fail, SetReference, Cancel

\* Only sending the create goes on after a change of the record.
LEMMA StepGoesOn ==
    ASSUME IndInv, NEW h \in Handlers, Step(h), pc'[h] # "idle"
    PROVE  \/ UNCHANGED storeVars
           \/ SendCreate(h) /\ SetReference(req[h].cmd, TRUE)
BY DEF IndInv, GatewayTypeOK, Done,
       Step, ClientUnavailable, ClientOpens, ReconcileFinds,
       ReconcileFindsNone, ReconcileFails, CompleteFound, ProbeFindsNone,
       ProbeRefuses, CheckRefuses, SendCreate, ErpCreates, WriteUnverified,
       NextWrite, ErpSubmits, ErpCreatesAdvance, Finish, CancelFindsNone,
       CancelRefused, CancelApplies, Refuse

LEMMA OnePerCommandInductive ==
    ASSUME IndInv, OnePerCommand, [Next]_gwVars, ~Overlap
    PROVE  OnePerCommand'
<1>. USE DEF IndInv
<1>1. ASSUME \A h \in Handlers : pc'[h] # "idle" => pc[h] # "idle" /\ req'[h] = req[h]
      PROVE  OnePerCommand'
  BY <1>1 DEF OnePerCommand
<1>2. ASSUME NEW h \in Handlers, NEW c, Serves(h, c),
             \A g \in Handlers \ {h} : pc'[g] = pc[g] /\ req'[g] = req[g],
             pc'[h] # "idle" => req'[h].cmd = c
      PROVE  OnePerCommand'
  BY <1>2 DEF OnePerCommand, Serves
<1>3. ASSUME NEW h \in Handlers, NEW r \in Requests, Execute(h, r)
      PROVE  OnePerCommand'
  <2>1. CASE pc' = pc /\ req' = req
    BY <1>1, <2>1
  <2>2. CASE BeginExecute(h, r) /\ req' = [req EXCEPT ![h] = r]
    BY <1>2, <2>2, BeginFrame DEF BeginExecute, GatewayTypeOK
  <2>. QED  BY <1>3, <2>1, <2>2 DEF Execute, Replay, BeginExecute, BeginNotPersisted
<1>4. ASSUME NEW h \in Handlers, Step(h)
      PROVE  OnePerCommand'
  BY <1>1, <1>4, StepSpares
<1>5. ASSUME NEW h \in Handlers, NEW c \in Commands, NEW u \in Users,
             CancelRequest(h, c, u)
      PROVE  OnePerCommand'
  <2>1. Serves(h, c) /\ req'[h].cmd = c
    BY <1>5 DEF CancelRequest, GatewayTypeOK
  <2>2. \A g \in Handlers \ {h} : pc'[g] = pc[g] /\ req'[g] = req[g]
    BY <1>5 DEF CancelRequest, GatewayTypeOK
  <2>. QED  BY <1>2, <2>1, <2>2
<1>6. CASE Crash
  BY <1>6 DEF Crash, OnePerCommand
<1>7. CASE ErpCreatesLate \/ Expire \/ UNCHANGED gwVars
  BY <1>1, <1>7 DEF ErpCreatesLate, Expire, gwVars
<1>. QED  BY <1>3, <1>4, <1>5, <1>6, <1>7 DEF Next

\* What a handler of another command sees of a change to the store.
LEMMA PutElsewhere ==
    ASSUME StoreTypeOK, NEW c \in Commands, NEW rec, NEW ok, Put(c, rec, ok)
    PROVE  \A d \in Commands \ {c} :
              cache'[d] = cache[d] /\ disk'[d] \in {disk[d], cache[d]}
BY DEF StoreTypeOK, Put

LEMMA ServedElsewhere ==
    ASSUME IndInv, ServedPending, NEW c \in Commands, NEW rec, NEW ok,
           Put(c, rec, ok), NEW g \in Handlers, pc[g] # "idle" => req[g].cmd # c,
           pc'[g] = pc[g], req'[g] = req[g]
    PROVE  Served(g)'
<1>. SUFFICES ASSUME Executing(g) PROVE Served(g)'
  BY DEF Served, Executing
<1>1. req[g].cmd \in Commands \ {c}
  BY DEF IndInv, HandlerInv, HandlerOK, Executing
<1>2. /\ cache'[req[g].cmd] = cache[req[g].cmd]
      /\ disk'[req[g].cmd] \in {disk[req[g].cmd], cache[req[g].cmd]}
  BY <1>1, PutElsewhere DEF IndInv, StoreGood
<1>. QED  BY <1>2 DEF ServedPending, Served, PendingFor

LEMMA ServedInductive ==
    ASSUME IndInv, OnePerCommand, ServedPending, [Next]_gwVars, ~Overlap
    PROVE  ServedPending'
<1>. USE DEF IndInv
<1>1. ASSUME NEW g \in Handlers, UNCHANGED storeVars,
             pc'[g] \notin Cancelling \cup {"idle"} => Executing(g) /\ req'[g] = req[g]
      PROVE  Served(g)'
  BY <1>1 DEF ServedPending, Served, Executing, PendingFor, storeVars
<1>2. ASSUME NEW h \in Handlers, NEW r \in Requests,
             BeginExecute(h, r) \/ BeginNotPersisted(h, r)
      PROVE  ServedPending'
  <2>1. r.cmd \in Commands /\ r \in RequestSet /\ StoreTypeOK
    BY <1>2, BeginFrame DEF StoreGood
  <2>2. PICK ok \in BOOLEAN : /\ Put(r.cmd, Begun(r.cmd, r.user, r.prop), ok)
                              /\ BeginExecute(h, r) => ok
    BY <1>2 DEF BeginExecute, BeginNotPersisted, Begin
  <2>3. Serves(h, r.cmd)
    BY <1>2 DEF BeginExecute, BeginNotPersisted
  <2>4. ASSUME NEW g \in Handlers, pc'[g] = pc[g], req'[g] = req[g] PROVE Served(g)'
    BY <2>1, <2>2, <2>3, <2>4, ServedElsewhere DEF Serves
  <2>5. CASE pc'[h] = pc[h] /\ req'[h] = req[h]
    BY <1>2, <2>4, <2>5, BeginFrame DEF ServedPending
  <2>6. CASE pc'[h] # pc[h] \/ req'[h] # req[h]
    <3>1. ok /\ req'[h] = r
      BY <1>2, <2>2, <2>6 DEF BeginExecute, BeginNotPersisted, GatewayTypeOK
    <3>2. /\ cache'[r.cmd] = Begun(r.cmd, r.user, r.prop)
          /\ disk'[r.cmd] = Begun(r.cmd, r.user, r.prop)
      BY <2>1, <2>2, <3>1 DEF Put, StoreTypeOK
    <3>3. PendingFor(Begun(r.cmd, r.user, r.prop), r.prop)
      BY DEF PendingFor, Begun
    <3>4. Served(h)'
      BY <3>1, <3>2, <3>3 DEF Served, PendingFor
    <3>. QED  BY <1>2, <2>4, <3>4, BeginFrame DEF ServedPending
  <2>. QED  BY <2>5, <2>6
<1>3. ASSUME NEW h \in Handlers, Step(h)
      PROVE  ServedPending'
  <2>1. \A g \in Handlers \ {h} : pc'[g] = pc[g] /\ req'[g] = req[g]
    BY <1>3, StepSpares
  <2>2. pc[h] # "idle" /\ (pc'[h] # "idle" => req'[h] = req[h])
          /\ req[h].cmd \in Commands
    BY <1>3, StepSpares DEF HandlerInv, HandlerOK
  <2>3. CASE UNCHANGED storeVars
    <3>1. pc'[h] \notin Cancelling \cup {"idle"} => pc[h] \notin Cancelling
      BY <1>3 DEF Step, ClientUnavailable, ClientOpens, ReconcileFinds,
         ReconcileFindsNone, ReconcileFails, CompleteFound, ProbeFindsNone,
         ProbeRefuses, CheckRefuses, SendCreate, ErpCreates, WriteUnverified,
         NextWrite, ErpSubmits, ErpCreatesAdvance, Finish, CancelFindsNone,
         CancelRefused, CancelApplies, Refuse, Done, Goto, Cancelling,
         GatewayTypeOK
    <3>. QED  BY <1>1, <2>1, <2>2, <2>3, <3>1 DEF ServedPending, Executing
  <2>4. CASE ~UNCHANGED storeVars
    <3>1. PICK rec, ok : Put(req[h].cmd, rec, ok)
      BY <1>3, <2>4, StepStore
    <3>2. \A g \in Handlers \ {h} : Served(g)'
      BY <2>1, <2>2, <3>1, ServedElsewhere DEF OnePerCommand
    <3>3. CASE pc'[h] = "idle"
      BY <3>2, <3>3 DEF ServedPending, Served, Executing
    <3>4. CASE SendCreate(h) /\ SetReference(req[h].cmd, TRUE) /\ req'[h] = req[h]
      <4>. DEFINE new == [cache[req[h].cmd] EXCEPT !.ref = TRUE]
      <4>1. pc[h] = "check" /\ Executing(h)
        BY <3>4 DEF SendCreate, Executing, Cancelling
      <4>2. cache[req[h].cmd] \in Record
        BY <2>2 DEF StoreGood, StoreTypeOK
      <4>3. /\ new.status = cache[req[h].cmd].status
            /\ new.intent = cache[req[h].cmd].intent
            /\ new.fingerprint = cache[req[h].cmd].fingerprint
        BY <4>2 DEF Record
      <4>4. cache'[req[h].cmd] = new /\ disk'[req[h].cmd] = new
        BY <2>2, <3>4 DEF SetReference, Put, StoreGood, StoreTypeOK
      <4>. HIDE DEF new
      <4>5. Served(h)'
        BY <3>4, <4>1, <4>3, <4>4 DEF ServedPending, Served, PendingFor
      <4>. QED  BY <3>2, <4>5 DEF ServedPending
    <3>. QED  BY <1>3, <2>2, <2>4, <3>3, <3>4, StepGoesOn
  <2>. QED  BY <2>3, <2>4
<1>4. ASSUME NEW h \in Handlers, NEW c \in Commands, NEW u \in Users,
             CancelRequest(h, c, u)
      PROVE  ServedPending'
  <2>1. UNCHANGED storeVars /\ pc'[h] = "cancel"
    BY <1>4 DEF CancelRequest, GatewayTypeOK
  <2>2. \A g \in Handlers \ {h} : pc'[g] = pc[g] /\ req'[g] = req[g]
    BY <1>4 DEF CancelRequest, GatewayTypeOK
  <2>. QED  BY <1>1, <2>1, <2>2 DEF ServedPending, Executing, Cancelling
<1>5. CASE Crash
  BY <1>5 DEF Crash, ServedPending, Served, Executing
<1>6. ASSUME NEW h \in Handlers, NEW r \in Requests, Replay(h, r)
      PROVE  UNCHANGED <<storeVars, pc, req>>
  BY <1>6 DEF Replay
<1>7. ErpCreatesLate \/ Expire \/ UNCHANGED gwVars => UNCHANGED <<storeVars, pc, req>>
  BY DEF ErpCreatesLate, Expire, gwVars
<1>8. CASE UNCHANGED <<storeVars, pc, req>>
  BY <1>1, <1>8 DEF ServedPending, Executing
<1>. QED  BY <1>2, <1>3, <1>4, <1>5, <1>6, <1>7, <1>8 DEF Next, Execute

-----------------------------------------------------------------------------
(* The records.                                                             *)

\* A command that was never begun, or failed, has no documents.
LEMMA UnreferencedWroteNothing ==
    ASSUME IndInv, NEW c \in Commands, ~cache[c].ref
    PROVE  NothingOf(c)
<1>1. ~disk[c].ref
  BY DEF IndInv, StoreGood, StoreInv
<1>. QED  BY <1>1 DEF IndInv, AppliedReferenced, NothingOf

\* All documents of a command are of its one order, or all are payments.
LEMMA OneKindPerCommand ==
    ASSUME DocsInv, NEW r \in Requests, NEW d \in docs, d.write.cmd = r.cmd
    PROVE  /\ r.prop \notin Payments => d.write.prop = r.prop
           /\ r.prop \in Payments => d.write.prop \in Payments
BY CardAssumption DEF CardAssumption, DocsInv, DocAsked

\* An advance is no payment of its own.
LEMMA PaymentsAreMain ==
    ASSUME IndInv, DocsInv, NEW d \in docs, d.write.prop \in Payments
    PROVE  d.write.part = "main"
BY GatewayAssumption DEF GatewayAssumption, OrderProposals, DocsInv, AdvanceFollows,
   IndInv, GatewayTypeOK, Document, Write

LEMMA PutRecords ==
    ASSUME IndInv, RecordsInv, NEW c \in Commands, NEW rec, NEW ok,
           Put(c, rec, ok), docs' = docs, submitted' = submitted, RecordOK(c, rec)
    PROVE  RecordsInv'
<1>1. /\ cache'[c] = rec /\ disk'[c] \in {disk[c], rec}
      /\ \A d \in Commands \ {c} :
            cache'[d] = cache[d] /\ disk'[d] \in {disk[d], cache[d]}
  BY DEF IndInv, StoreGood, StoreTypeOK, Put
<1>2. \A d \in Commands : RecordOK(d, cache[d]) /\ RecordOK(d, disk[d])
  BY DEF RecordsInv
<1>3. ASSUME NEW d \in Commands, NEW x, RecordOK(d, x)
      PROVE  RecordOK(d, x)'
  BY <1>3 DEF RecordOK, Describes
<1>4. ASSUME NEW d \in Commands
      PROVE  RecordOK(d, cache[d])' /\ RecordOK(d, disk[d])'
  <2>1. PICK x, y : x = cache'[d] /\ y = disk'[d]
    OBVIOUS
  <2>2. RecordOK(d, x) /\ RecordOK(d, y)
    BY <1>1, <1>2, <2>1
  <2>3. RecordOK(d, x)' /\ RecordOK(d, y)'
    BY <1>3, <2>2
  <2>. QED  BY <2>1, <2>3 DEF RecordOK, Describes
<1>. QED  BY <1>4 DEF RecordsInv

\* begin() for another work is only possible while nothing was written.
LEMMA BeginRecord ==
    ASSUME IndInv, DocsInv, RecordsInv, NEW r \in Requests,
           Accepts(r.cmd, r.user, r.prop)
    PROVE  RecordOK(r.cmd, Begun(r.cmd, r.user, r.prop))
<1>. DEFINE c == r.cmd
            new == Begun(c, r.user, r.prop)
<1>1. c \in Commands /\ cache[c] \in Record
  BY GatewayAssumption DEF GatewayAssumption, RequestSet, IndInv, StoreGood,
                           StoreTypeOK
<1>2. new.status = "PENDING" /\ new.fingerprint = FingerprintOf[r.prop]
  BY DEF Begun
<1>3. ASSUME NEW d \in docs, d.write.cmd = c
      PROVE  FingerprintOf[d.write.prop] = FingerprintOf[r.prop]
  <2>1. /\ cache[c].ref
        /\ FingerprintOf[d.write.prop] = cache[c].fingerprint
        /\ d.write.prop \in Payments => cache[c].status \in {"PENDING", "COMPLETED"}
    BY <1>1, <1>3, UnreferencedWroteNothing DEF RecordsInv, RecordOK, NothingOf
  <2>2. cache[c].status \in {"PENDING", "CANCELLED"}
    BY <1>1, <2>1 DEF Accepts, Record, Statuses, RecordsInv, RecordOK
  <2>3. CASE cache[c].status = "PENDING"
    BY <2>1, <2>3 DEF Accepts
  <2>4. CASE cache[c].status = "CANCELLED"
    BY <1>3, <2>1, <2>4, OneKindPerCommand
  <2>. QED  BY <2>2, <2>3, <2>4
<1>. QED  BY <1>2, <1>3 DEF RecordOK

LEMMA CompleteRecord ==
    ASSUME IndInv, SerialInv, NEW h \in Handlers, Executing(h), pc[h] \in Holding
    PROVE  RecordOK(req[h].cmd, [cache[req[h].cmd] EXCEPT !.status = "COMPLETED",
                                                          !.result = seen[h]])
<1>. DEFINE c == req[h].cmd
            new == [cache[c] EXCEPT !.status = "COMPLETED", !.result = seen[h]]
<1>1. c \in Commands /\ cache[c] \in Record
  BY DEF IndInv, HandlerInv, HandlerOK, Executing, StoreGood, StoreTypeOK
<1>2. /\ new.status = "COMPLETED" /\ new.result = seen[h]
      /\ new.fingerprint = cache[c].fingerprint
  BY <1>1 DEF Record
<1>3. cache[c].fingerprint = FingerprintOf[req[h].prop]
  BY DEF SerialInv, ServedPending, Served, PendingFor
<1>4. Describes(seen[h], cache[c].fingerprint)
  BY <1>3 DEF SerialInv, HeldInv
<1>5. \A d \in docs : d.write.cmd = c => FingerprintOf[d.write.prop] = cache[c].fingerprint
  BY <1>1 DEF SerialInv, RecordsInv, RecordOK
<1>. HIDE DEF new
<1>. QED  BY <1>2, <1>4, <1>5 DEF RecordOK

\* The other methods leave fingerprint, reference and result as they are.
LEMMA StatusRecord ==
    ASSUME IndInv, RecordsInv, NEW c \in Commands, NEW s, s # "COMPLETED",
           s = "UNKNOWN" => ~cache[c].ref,
           s \in {"PENDING", "COMPLETED"}
              \/ \A d \in docs : d.write.cmd = c => d.write.prop \notin Payments
    PROVE  RecordOK(c, [cache[c] EXCEPT !.status = s])
<1>. DEFINE new == [cache[c] EXCEPT !.status = s]
<1>1. cache[c] \in Record
  BY DEF IndInv, StoreGood, StoreTypeOK
<1>2. /\ new.status = s /\ new.ref = cache[c].ref
      /\ new.fingerprint = cache[c].fingerprint
  BY <1>1 DEF Record
<1>3. \A d \in docs : d.write.cmd = c => FingerprintOf[d.write.prop] = cache[c].fingerprint
  BY <1>1 DEF RecordsInv, RecordOK
<1>. HIDE DEF new
<1>. QED  BY <1>2, <1>3 DEF RecordOK

LEMMA ReferenceRecord ==
    ASSUME IndInv, RecordsInv, NEW c \in Commands, cache[c].status = "PENDING"
    PROVE  RecordOK(c, [cache[c] EXCEPT !.ref = TRUE])
<1>. DEFINE new == [cache[c] EXCEPT !.ref = TRUE]
<1>1. cache[c] \in Record
  BY DEF IndInv, StoreGood, StoreTypeOK
<1>2. new.status = "PENDING" /\ new.fingerprint = cache[c].fingerprint
  BY <1>1 DEF Record
<1>3. \A d \in docs : d.write.cmd = c => FingerprintOf[d.write.prop] = cache[c].fingerprint
  BY <1>1 DEF RecordsInv, RecordOK
<1>. HIDE DEF new
<1>. QED  BY <1>2, <1>3 DEF RecordOK

\* What an insert does to the records.
LEMMA InsertRecords ==
    ASSUME IndInv, SerialInv, NEW h \in Handlers, Executing(h),
           NEW w, w.cmd = req[h].cmd, w.prop = req[h].prop,
           NEW n, n \notin {d.name : d \in docs},
           docs' = docs \cup {[name |-> n, write |-> w]},
           UNCHANGED <<storeVars, submitted>>
    PROVE  RecordsInv'
<1>1. /\ PendingFor(cache[req[h].cmd], req[h].prop)
      /\ PendingFor(disk[req[h].cmd], req[h].prop)
  BY DEF SerialInv, ServedPending, Served
<1>2. ASSUME NEW c \in Commands, NEW x, RecordOK(c, x),
             c = req[h].cmd => PendingFor(x, req[h].prop)
      PROVE  RecordOK(c, x)'
  <2>1. \A d \in docs' : d \in docs \/ d.write = w
    OBVIOUS
  <2>2. \A d \in docs' : d.write.cmd = c =>
            /\ FingerprintOf[d.write.prop] = x.fingerprint
            /\ d.write.prop \in Payments => x.status \in {"PENDING", "COMPLETED"}
    BY <1>2, <2>1 DEF RecordOK, PendingFor
  <2>3. Describes(x.result, x.fingerprint) => Describes(x.result, x.fingerprint)'
    BY DEF Describes
  <2>. QED  BY <1>2, <2>2, <2>3 DEF RecordOK
<1>3. \A c \in Commands : RecordOK(c, cache[c]) /\ RecordOK(c, disk[c])
  BY DEF SerialInv, RecordsInv
<1>4. ASSUME NEW c \in Commands
      PROVE  RecordOK(c, cache[c])' /\ RecordOK(c, disk[c])'
  <2>1. PICK x, y : x = cache[c] /\ y = disk[c]
    OBVIOUS
  <2>2. RecordOK(c, x)' /\ RecordOK(c, y)'
    BY <1>1, <1>2, <1>3, <2>1
  <2>3. x = cache'[c] /\ y = disk'[c]
    BY <2>1 DEF storeVars
  <2>. QED  BY <2>2, <2>3 DEF RecordOK, Describes
<1>. QED  BY <1>4 DEF RecordsInv

\* What a submit does to them: no result speaks of the document.
LEMMA SubmitRecords ==
    ASSUME IndInv, SerialInv, NEW h \in Handlers, ErpSubmits(h)
    PROVE  RecordsInv'
<1>1. /\ pc[h] \in Writing
      /\ UNCHANGED <<storeVars, docs>>
      /\ submitted' = submitted \cup {seen[h].doc}
  BY DEF ErpSubmits, Writing
<1>2. ASSUME NEW c \in Commands, NEW x, RecordOK(c, x), ~InResult(x, seen[h].doc)
      PROVE  RecordOK(c, x)'
  BY <1>1, <1>2 DEF RecordOK, Describes, InResult
<1>3. \A c \in Commands : /\ RecordOK(c, cache[c]) /\ RecordOK(c, disk[c])
                          /\ ~InResult(cache[c], seen[h].doc)
                          /\ ~InResult(disk[c], seen[h].doc)
  BY <1>1 DEF SerialInv, RecordsInv, Unshared
<1>4. ASSUME NEW c \in Commands
      PROVE  RecordOK(c, cache[c])' /\ RecordOK(c, disk[c])'
  <2>1. PICK x, y : x = cache[c] /\ y = disk[c]
    OBVIOUS
  <2>2. RecordOK(c, x)' /\ RecordOK(c, y)'
    BY <1>2, <1>3, <2>1
  <2>3. x = cache'[c] /\ y = disk'[c]
    BY <1>1, <2>1 DEF storeVars
  <2>. QED  BY <2>2, <2>3 DEF RecordOK, Describes
<1>. QED  BY <1>4 DEF RecordsInv

\* The next name is new.
LEMMA NameIsNew ==
    ASSUME NEW w, Insert(w)
    PROVE  /\ NextName \notin {d.name : d \in docs}
           /\ docs' = docs \cup {[name |-> NextName, write |-> w]}
<1>1. NextName \in FreeNames
  BY DEF Insert, NextName
<1>. QED  BY <1>1 DEF Insert, FreeNames

LEMMA MainIsOwn ==
    ASSUME NEW h \in Handlers
    PROVE  /\ MainWrite(h).cmd = req[h].cmd /\ MainWrite(h).prop = req[h].prop
           /\ MainWrite(h).part = "main"
           /\ AdvanceWrite(h).cmd = req[h].cmd /\ AdvanceWrite(h).prop = req[h].prop
           /\ AdvanceWrite(h).part = "advance"
           /\ MainWrite(h) = [AdvanceWrite(h) EXCEPT !.part = "main"]
<1>. DEFINE c == req[h].cmd
            p == req[h].prop
<1>1. MainWrite(h) = [cmd |-> c, prop |-> p, part |-> "main"]
  BY DEF MainWrite
<1>2. AdvanceWrite(h) = [cmd |-> c, prop |-> p, part |-> "advance"]
  BY <1>1 DEF AdvanceWrite
<1>. HIDE DEF c, p
<1>3. [AdvanceWrite(h) EXCEPT !.part = "main"]
        = [cmd |-> c, prop |-> p, part |-> "main"]
  BY <1>2
<1>. QED  BY <1>1, <1>2, <1>3 DEF c, p

LEMMA RecordsInductive ==
    ASSUME IndInv, SerialInv, [Next]_gwVars, ~Overlap, ~LateWrites
    PROVE  RecordsInv'
<1>. USE DEF IndInv, SerialInv
<1>0. \A h \in Handlers : pc[h] # "idle" => req[h].cmd \in Commands
  BY DEF HandlerInv, HandlerOK
<1>1. CASE UNCHANGED <<storeVars, docs, submitted>>
  BY <1>1 DEF RecordsInv, RecordOK, Describes, storeVars
<1>2. ASSUME NEW h \in Handlers, NEW r \in Requests,
             BeginExecute(h, r) \/ BeginNotPersisted(h, r)
      PROVE  RecordsInv'
  <2>1. r.cmd \in Commands /\ UNCHANGED erpVars
    BY <1>2, BeginFrame DEF BeginExecute, BeginNotPersisted
  <2>2. /\ Accepts(r.cmd, r.user, r.prop)
        /\ \E ok \in BOOLEAN : Put(r.cmd, Begun(r.cmd, r.user, r.prop), ok)
    BY <1>2 DEF BeginExecute, BeginNotPersisted, Begin
  <2>3. RecordOK(r.cmd, Begun(r.cmd, r.user, r.prop))
    BY <2>2, BeginRecord
  <2>. QED  BY <2>1, <2>2, <2>3, PutRecords DEF erpVars
<1>3. ASSUME NEW h \in Handlers, ProbeRefuses(h) \/ CheckRefuses(h) \/ WriteUnverified(h)
      PROVE  RecordsInv'
  <2>1. /\ Refuse(h) /\ UNCHANGED <<docs, submitted>> /\ pc[h] # "idle"
    BY <1>3 DEF ProbeRefuses, CheckRefuses, WriteUnverified, erpVars
  <2>2. CASE UNCHANGED storeVars
    BY <1>1, <2>1, <2>2
  <2>3. CASE ~cache[req[h].cmd].ref /\ \E ok \in BOOLEAN : Fail(req[h].cmd, ok)
    <3>1. \A d \in docs : d.write.cmd # req[h].cmd
      BY <1>0, <2>1, <2>3, UnreferencedWroteNothing DEF NothingOf
    <3>2. RecordOK(req[h].cmd, [cache[req[h].cmd] EXCEPT !.status = "FAILED"])
      BY <1>0, <2>1, <3>1, StatusRecord
    <3>. QED  BY <1>0, <2>1, <2>3, <3>2, PutRecords DEF Fail
  <2>. QED  BY <2>1, <2>2, <2>3 DEF Refuse
<1>4. ASSUME NEW h \in Handlers, CompleteFound(h) \/ Finish(h)
      PROVE  RecordsInv'
  <2>1. /\ pc[h] \in Holding /\ Executing(h) /\ UNCHANGED erpVars
        /\ \E ok \in BOOLEAN : Complete(req[h].cmd, seen[h], ok)
    BY <1>4 DEF CompleteFound, Finish, Holding, Executing, Cancelling
  <2>. QED  BY <1>0, <2>1, CompleteRecord, PutRecords DEF Complete, erpVars,
                                                          Executing
<1>5. ASSUME NEW h \in Handlers, SendCreate(h)
      PROVE  RecordsInv'
  <2>1. /\ Executing(h) /\ UNCHANGED erpVars
        /\ \E ok \in BOOLEAN : SetReference(req[h].cmd, ok)
    BY <1>5 DEF SendCreate, Executing, Cancelling
  <2>2. cache[req[h].cmd].status = "PENDING"
    BY <2>1 DEF ServedPending, Served, PendingFor
  <2>. QED  BY <1>0, <2>1, <2>2, ReferenceRecord, PutRecords
            DEF SetReference, erpVars, Executing
<1>6. ASSUME NEW h \in Handlers, CancelApplies(h)
      PROVE  RecordsInv'
  <2>1. pc[h] = "cancelling" /\ UNCHANGED erpVars
    BY <1>6 DEF CancelApplies
  <2>2. \A d \in docs : d.write.cmd = req[h].cmd => d.write.prop \notin Payments
    BY <2>1, PaymentsAreMain DEF UnwrittenInv, Unwritten, ByReference, PaymentEntries
  <2>3. RecordOK(req[h].cmd, [cache[req[h].cmd] EXCEPT !.status = "CANCELLED"])
    BY <1>0, <2>1, <2>2, StatusRecord
  <2>4. CASE UNCHANGED storeVars
    BY <1>1, <2>1, <2>4 DEF erpVars
  <2>5. CASE \E ok \in BOOLEAN : Cancel(req[h].cmd, ok)
    BY <1>0, <2>1, <2>3, <2>5, PutRecords DEF Cancel, erpVars
  <2>. QED  BY <1>6, <2>4, <2>5 DEF CancelApplies
<1>7. ASSUME NEW h \in Handlers, ErpCreates(h) \/ ErpCreatesAdvance(h)
      PROVE  RecordsInv'
  <2>1. /\ Executing(h) /\ UNCHANGED <<storeVars, submitted>>
        /\ Insert(MainWrite(h)) \/ Insert(AdvanceWrite(h))
    BY <1>7 DEF ErpCreates, ErpCreatesAdvance, Executing, Cancelling
  <2>. QED  BY <2>1, NameIsNew, MainIsOwn, InsertRecords
<1>8. ASSUME NEW h \in Handlers, ErpSubmits(h)
      PROVE  RecordsInv'
  BY <1>8, SubmitRecords
<1>9. CASE Crash
  BY <1>9 DEF Crash, Reload, RecordsInv, RecordOK, Describes
<1>10. ASSUME NEW h \in Handlers, Step(h)
      PROVE  \/ UNCHANGED <<storeVars, docs, submitted>>
             \/ ProbeRefuses(h) \/ CheckRefuses(h) \/ WriteUnverified(h)
             \/ CompleteFound(h) \/ Finish(h) \/ SendCreate(h)
             \/ CancelApplies(h) \/ ErpCreates(h) \/ ErpCreatesAdvance(h)
             \/ ErpSubmits(h)
  BY <1>10 DEF Step, ClientUnavailable, ClientOpens, ReconcileFinds,
       ReconcileFindsNone, ReconcileFails, ProbeFindsNone, NextWrite,
       CancelFindsNone, CancelRefused, erpVars
<1>11. ASSUME \/ \E h \in Handlers, r \in Requests : Replay(h, r)
              \/ \E h \in Handlers, c \in Commands, u \in Users : CancelRequest(h, c, u)
              \/ Expire \/ UNCHANGED gwVars
       PROVE  UNCHANGED <<storeVars, docs, submitted>>
  BY <1>11 DEF Replay, CancelRequest, Expire, gwVars, erpVars
<1>12. ~ErpCreatesLate
  BY DEF ErpCreatesLate, DocsInv
<1>. QED  BY <1>1, <1>2, <1>3, <1>4, <1>5, <1>6, <1>7, <1>8, <1>9, <1>10, <1>11,
             <1>12 DEF Next, Execute

-----------------------------------------------------------------------------
(* The documents.                                                           *)

\* While an order is looked up and not found, it has no advance either.
LEMMA NoMainNoAdvance ==
    ASSUME IndInv, DocsInv, NEW p \in OrderProposals, OrderMatches(p) = {}
    PROVE  NothingFor(p)
<1>. SUFFICES ASSUME NEW d \in docs, d.write.prop = p PROVE FALSE
  BY DEF NothingFor
<1>1. d.write.part = "advance"
  BY DEF OrderMatches, IndInv, GatewayTypeOK, Document, Write
<1>2. PICK e \in docs : e.write = [d.write EXCEPT !.part = "main"]
  BY <1>1 DEF DocsInv, AdvanceFollows
<1>3. d.write \in Write
  BY DEF IndInv, GatewayTypeOK, Document
<1>4. e.write.part = "main" /\ e.write.prop = p
  BY <1>2, <1>3 DEF Write
<1>. QED  BY <1>4 DEF OrderMatches

\* What an insert needs so that the documents stay in order.
MayInsert(w) ==
    /\ \E r \in Requests : r.cmd = w.cmd /\ r.prop = w.prop
    /\ w.part = "advance" =>
          /\ w.prop \in WithAdvance
          /\ \E e \in docs : e.write = [w EXCEPT !.part = "main"]
    /\ w.prop \in OrderProposals =>
          \A d \in docs : ~(d.write.prop = w.prop /\ d.write.part = w.part)
    /\ w.prop \in Payments => NothingOf(w.cmd)

LEMMA InsertDocs ==
    ASSUME IndInv, DocsInv, NEW w \in Write, MayInsert(w), Insert(w),
           submitted' = submitted, late' = {}
    PROVE  DocsInv'
<1>. DEFINE new == [name |-> NextName, write |-> w]
<1>1. /\ NextName \notin {d.name : d \in docs}
      /\ docs' = docs \cup {new}
  BY NameIsNew
<1>2. new.name = NextName /\ new.write = w
  OBVIOUS
<1>. HIDE DEF new
<1>3. \A d \in docs' : DocAsked(d)' /\ AdvanceFollows(d)'
  BY <1>1, <1>2 DEF DocsInv, DocAsked, AdvanceFollows, MayInsert
<1>4. NamesUnique' /\ SubmittedExist'
  BY <1>1, <1>2 DEF DocsInv, NamesUnique, SubmittedExist
\* A document of the same command and part would be one of the same order.
<1>5. ASSUME NEW d \in docs, d.write.cmd = w.cmd, d.write.part = w.part PROVE FALSE
  <2>1. CASE w.prop \in Payments
    BY <1>5, <2>1 DEF MayInsert, NothingOf
  <2>2. CASE w.prop \notin Payments
    <3>1. w.prop \in OrderProposals
      BY <2>2 DEF Write, OrderProposals
    <3>2. d.write.prop = w.prop
      BY <1>5, <2>2, OneKindPerCommand DEF MayInsert
    <3>. QED  BY <1>5, <3>1, <3>2 DEF MayInsert
  <2>. QED  BY <2>1, <2>2
<1>6. OneDocument'
  <2>1. \A d, e \in docs :
           d.write.cmd = e.write.cmd /\ d.write.part = e.write.part => d = e
    BY DEF DocsInv, OneDocument
  <2>. QED  BY <1>1, <1>2, <1>5, <2>1 DEF OneDocument
<1>7. OneOrderPerProposal'
  <2>1. \A d, e \in docs :
           /\ d.write.prop \in OrderProposals
           /\ d.write.prop = e.write.prop
           /\ d.write.part = e.write.part
           => d = e
    BY DEF DocsInv, OneOrderPerProposal
  <2>2. w.prop \in OrderProposals =>
          \A d \in docs : ~(d.write.prop = w.prop /\ d.write.part = w.part)
    BY DEF MayInsert
  <2>. QED  BY <1>1, <1>2, <2>1, <2>2 DEF OneOrderPerProposal
<1>. QED  BY <1>3, <1>4, <1>6, <1>7 DEF DocsInv

LEMMA DocsInductive ==
    ASSUME IndInv, SerialInv, [Next]_gwVars, ~Overlap, ~LateWrites
    PROVE  DocsInv'
<1>. USE DEF SerialInv
<1>0. late' = {}
  BY SiteSteps DEF DocsInv
<1>1. CASE docs' = docs /\ submitted' = submitted
  BY <1>0, <1>1 DEF DocsInv, DocAsked, AdvanceFollows, NamesUnique, SubmittedExist,
                    OneDocument, OneOrderPerProposal
<1>2. ASSUME NEW h \in Handlers, ErpCreates(h)
      PROVE  DocsInv'
  <2>1. /\ pc[h] = "create" /\ Executing(h) /\ Insert(MainWrite(h))
        /\ submitted' = submitted
    BY <1>2 DEF ErpCreates, Executing, Cancelling
  <2>2. req[h] \in Requests /\ MainWrite(h) \in Write
    BY <2>1, WriteTypes DEF Executing, ServedPending, Served
  <2>3. MayInsert(MainWrite(h))
    <3>1. req[h].prop \in Payments => NothingOf(req[h].cmd)
      BY <2>1 DEF UnwrittenInv, Unwritten
    <3>2. req[h].prop \in OrderProposals => NothingFor(req[h].prop)
      BY <2>1 DEF UnwrittenInv, Unwritten, OrderProposals
    <3>. QED  BY <2>2, <3>1, <3>2, MainIsOwn DEF MayInsert, NothingFor
  <2>. QED  BY <1>0, <2>1, <2>2, <2>3, InsertDocs
<1>3. ASSUME NEW h \in Handlers, ErpCreatesAdvance(h)
      PROVE  DocsInv'
  <2>1. /\ pc[h] = "advance" /\ Executing(h) /\ Insert(AdvanceWrite(h))
        /\ submitted' = submitted
    BY <1>3 DEF ErpCreatesAdvance, Executing, Cancelling
  <2>2. req[h] \in Requests /\ AdvanceWrite(h) \in Write
    BY <2>1, WriteTypes DEF Executing, ServedPending, Served
  <2>3. MayInsert(AdvanceWrite(h))
    <3>1. req[h].prop \in WithAdvance /\ NoAdvanceFor(req[h].prop)
      BY <2>1 DEF UnwrittenInv, Unwritten
    <3>2. \E e \in docs : e.write = MainWrite(h)
      BY <2>1 DEF WrittenInv, Writing
    <3>3. req[h].prop \notin Payments
      BY <3>1, GatewayAssumption DEF GatewayAssumption, OrderProposals
    <3>. QED  BY <2>2, <3>1, <3>2, <3>3, MainIsOwn DEF MayInsert, NoAdvanceFor
  <2>. QED  BY <1>0, <2>1, <2>2, <2>3, InsertDocs
<1>4. ASSUME NEW h \in Handlers, ErpSubmits(h)
      PROVE  DocsInv'
  <2>1. /\ pc[h] \in Writing /\ docs' = docs
        /\ submitted' = submitted \cup {seen[h].doc}
    BY <1>4 DEF ErpSubmits, Writing
  <2>2. \E d \in docs : d.name = seen[h].doc
    BY <2>1 DEF WrittenInv
  <2>3. SubmittedExist'
    BY <2>1, <2>2 DEF DocsInv, SubmittedExist
  <2>. QED  BY <1>0, <2>1, <2>3 DEF DocsInv, DocAsked, AdvanceFollows, NamesUnique,
                              OneDocument, OneOrderPerProposal
<1>5. ASSUME NEW h \in Handlers, ErpSubmits(h)
      PROVE  docs' = docs
  BY <1>5 DEF ErpSubmits
<1>. QED  BY <1>1, <1>2, <1>3, <1>4, <1>5, SiteSteps DEF DocsInv

-----------------------------------------------------------------------------
(* What is not written yet.                                                 *)

LEMMA UnwrittenStays ==
    ASSUME UnwrittenInv, NEW g \in Handlers, docs' = docs,
           pc'[g] # "idle" => pc'[g] = pc[g] /\ req'[g] = req[g]
    PROVE  Unwritten(g)'
BY DEF UnwrittenInv, Unwritten, NothingOf, NothingFor, NoAdvanceFor, ByReference,
       PaymentEntries

\* The document of another handler is of another command and another proposal.
LEMMA UnwrittenElsewhere ==
    ASSUME IndInv, SerialInv, NEW h \in Handlers, Executing(h),
           NEW w, w.cmd = req[h].cmd, w.prop = req[h].prop, Insert(w),
           NEW g \in Handlers \ {h}, pc'[g] = pc[g], req'[g] = req[g]
    PROVE  Unwritten(g)'
<1>. USE DEF SerialInv
<1>1. \A d \in docs' : d \in docs \/ d.write = w
  BY NameIsNew
<1>2. pc[g] # "idle" => req[g].cmd # w.cmd
  BY DEF OnePerCommand, Executing
<1>3. Executing(g) => req[g].prop # w.prop
  BY Exclusive
<1>4. pc[g] \in {"open", "probe", "check", "create", "created", "advance"}
         => Executing(g)
  BY DEF Executing, Cancelling
<1>. QED  BY <1>1, <1>2, <1>3, <1>4 DEF UnwrittenInv, Unwritten, NothingOf, NothingFor,
             NoAdvanceFor, ByReference, PaymentEntries

\* The handler that moves.
LEMMA UnwrittenActor ==
    ASSUME IndInv, SerialInv, NEW h \in Handlers, Step(h), pc'[h] # "idle",
           ~ErpCreates(h), ~ErpCreatesAdvance(h)
    PROVE  Unwritten(h)'
<1>. USE DEF SerialInv
<1>0. /\ req'[h] = req[h] /\ docs' = docs
  <2>1. req'[h] = req[h]
    BY StepSpares
  <2>2. docs' = docs
    BY DEF Step, ClientUnavailable, ClientOpens, ReconcileFinds,
       ReconcileFindsNone, ReconcileFails, CompleteFound, ProbeFindsNone,
       ProbeRefuses, CheckRefuses, SendCreate, WriteUnverified,
       NextWrite, ErpSubmits, Finish, CancelFindsNone,
       CancelRefused, CancelApplies, erpVars
  <2>. QED  BY <2>1, <2>2
<1>1. CASE ClientOpens(h)
  <2>1. \/ pc'[h] \in {"reconcile", "probe"}
        \/ pc[h] = "open" /\ pc'[h] = "check" /\ req[h].prop \in Payments
    BY <1>1 DEF ClientOpens, Goto, IndInv, GatewayTypeOK
  <2>2. pc[h] = "open" /\ req[h].prop \in Payments => NothingOf(req[h].cmd)
    BY DEF UnwrittenInv, Unwritten
  <2>3. pc'[h] = "check" => NothingOf(req[h].cmd) /\ req[h].prop \in Payments
    BY <2>1, <2>2
  <2>4. CASE pc'[h] = "probe"
    <3>1. pc[h] = "open" /\ req[h].prop \notin Payments
      BY <1>1, <2>4 DEF ClientOpens, Goto, IndInv, GatewayTypeOK
    <3>. QED  BY <1>0, <2>4, <3>1 DEF Unwritten
  <2>. QED  BY <1>0, <2>1, <2>3, <2>4 DEF Unwritten, NothingOf
<1>2. CASE ReconcileFindsNone(h)
  <2>1. /\ pc[h] = "reconcile" /\ pc'[h] = "open"
        /\ req[h].prop \in Payments => ByReference(req[h].cmd) = {}
    BY <1>2 DEF ReconcileFindsNone, Goto, IndInv, GatewayTypeOK
  <2>2. req[h] \in Requests
    BY <2>1 DEF ServedPending, Served, Executing, Cancelling
  <2>3. ASSUME req[h].prop \in Payments
        PROVE  NothingOf(req[h].cmd)
    BY <2>1, <2>2, <2>3, OneKindPerCommand, PaymentsAreMain
       DEF NothingOf, ByReference, PaymentEntries
  <2>. QED  BY <1>0, <2>1, <2>3 DEF Unwritten, NothingOf
<1>3. CASE ReconcileFails(h)
  <2>1. pc'[h] = "open" /\ req[h].prop \notin Payments
    BY <1>3 DEF ReconcileFails, Goto, Done, IndInv, GatewayTypeOK
  <2>. QED  BY <1>0, <2>1 DEF Unwritten
<1>4. CASE ProbeFindsNone(h)
  <2>1. pc[h] = "probe" /\ pc'[h] = "check" /\ OrderMatches(req[h].prop) = {}
    BY <1>4 DEF ProbeFindsNone, Goto, IndInv, GatewayTypeOK
  <2>2. req[h].prop \in Payments => NothingOf(req[h].cmd)
    BY <2>1 DEF UnwrittenInv, Unwritten
  <2>3. req[h].prop \notin Payments => NothingFor(req[h].prop)
    <3>1. req[h].prop \in Proposals
      BY <2>1 DEF IndInv, HandlerInv, HandlerOK, Cancelling, RequestSet
    <3>. QED  BY <2>1, <3>1, NoMainNoAdvance DEF OrderProposals
  <2>. QED  BY <1>0, <2>1, <2>2, <2>3 DEF Unwritten, NothingOf, NothingFor
<1>5. CASE SendCreate(h)
  <2>1. pc[h] = "check" /\ pc'[h] = "create"
    BY <1>5 DEF SendCreate, Goto, Done, IndInv, GatewayTypeOK
  <2>. QED  BY <1>0, <2>1 DEF UnwrittenInv, Unwritten, NothingOf, NothingFor
<1>6. CASE NextWrite(h)
  <2>1. \/ pc'[h] = "submit"
        \/ pc[h] = "created" /\ pc'[h] = "advance" /\ req[h].prop \in WithAdvance
    BY <1>6 DEF NextWrite, Goto, IndInv, GatewayTypeOK
  <2>. QED  BY <1>0, <2>1 DEF UnwrittenInv, Unwritten, NoAdvanceFor
<1>7. CASE CancelFindsNone(h)
  <2>1. pc'[h] = "cancelling" /\ ByReference(req[h].cmd) = {}
    BY <1>7 DEF CancelFindsNone, Goto, IndInv, GatewayTypeOK
  <2>. QED  BY <1>0, <2>1 DEF Unwritten, ByReference, PaymentEntries
<1>8. CASE ReconcileFinds(h) \/ ErpSubmits(h)
  <2>1. pc'[h] \in {"found", "submitted"}
    BY <1>8 DEF ReconcileFinds, ErpSubmits, Goto, IndInv, GatewayTypeOK
  <2>. QED  BY <2>1 DEF Unwritten
<1>9. ~(\/ ClientUnavailable(h) \/ CompleteFound(h) \/ ProbeRefuses(h)
        \/ CheckRefuses(h) \/ WriteUnverified(h) \/ Finish(h)
        \/ CancelRefused(h) \/ CancelApplies(h))
  BY DEF ClientUnavailable, CompleteFound, ProbeRefuses, CheckRefuses, Refuse,
         WriteUnverified, Finish, CancelRefused, CancelApplies, Done, IndInv,
         GatewayTypeOK
<1>. QED  BY <1>1, <1>2, <1>3, <1>4, <1>5, <1>6, <1>7, <1>8, <1>9 DEF Step

LEMMA UnwrittenInductive ==
    ASSUME IndInv, SerialInv, [Next]_gwVars, ~Overlap, ~LateWrites
    PROVE  UnwrittenInv'
<1>. USE DEF SerialInv
<1>1. ASSUME NEW h \in Handlers, ErpCreates(h) \/ ErpCreatesAdvance(h), Step(h)
      PROVE  UnwrittenInv'
  <2>1. /\ Executing(h)
        /\ Insert(MainWrite(h)) \/ Insert(AdvanceWrite(h))
    BY <1>1 DEF ErpCreates, ErpCreatesAdvance, Executing, Cancelling
  <2>2. \A g \in Handlers \ {h} : Unwritten(g)'
    BY <1>1, <2>1, StepSpares, UnwrittenElsewhere, MainIsOwn
  <2>3. CASE pc'[h] = "advanced"
    BY <2>2, <2>3 DEF UnwrittenInv, Unwritten
  <2>4. CASE ErpCreates(h)
    <3>1. pc[h] = "create" /\ pc'[h] = "created" /\ req'[h] = req[h]
      BY <2>4 DEF ErpCreates, Goto, IndInv, GatewayTypeOK
    <3>2. NoAdvanceFor(req[h].prop)
      BY <3>1, PaymentsAreMain DEF UnwrittenInv, Unwritten, NothingFor, NoAdvanceFor
    <3>3. \A d \in docs' : d \in docs \/ d.write.part = "main"
      BY <2>4, NameIsNew, MainIsOwn DEF ErpCreates
    <3>. QED  BY <2>2, <3>1, <3>2, <3>3 DEF UnwrittenInv, Unwritten, NoAdvanceFor
  <2>. QED  BY <1>1, <2>3, <2>4 DEF ErpCreatesAdvance, Goto, IndInv, GatewayTypeOK
<1>2. ASSUME NEW h \in Handlers, Step(h), ~ErpCreates(h), ~ErpCreatesAdvance(h)
      PROVE  UnwrittenInv'
  <2>1. docs' = docs
    BY <1>2 DEF Step, ClientUnavailable, ClientOpens, ReconcileFinds,
       ReconcileFindsNone, ReconcileFails, CompleteFound, ProbeFindsNone,
       ProbeRefuses, CheckRefuses, SendCreate, WriteUnverified,
       NextWrite, ErpSubmits, Finish, CancelFindsNone,
       CancelRefused, CancelApplies, erpVars
  <2>2. \A g \in Handlers \ {h} : Unwritten(g)'
    BY <1>2, <2>1, StepSpares, UnwrittenStays
  <2>3. CASE pc'[h] = "idle"
    BY <2>2, <2>3 DEF UnwrittenInv, Unwritten
  <2>. QED  BY <1>2, <2>2, <2>3, UnwrittenActor DEF UnwrittenInv
<1>3. ASSUME NEW h \in Handlers, NEW r \in Requests,
             BeginExecute(h, r) \/ BeginNotPersisted(h, r)
      PROVE  UnwrittenInv'
  <2>1. docs' = docs /\ r.cmd \in Commands
    BY <1>3, BeginFrame DEF BeginExecute, BeginNotPersisted, erpVars
  <2>2. \A g \in Handlers \ {h} : Unwritten(g)'
    BY <1>3, <2>1, BeginFrame, UnwrittenStays
  <2>3. CASE pc'[h] = "open" /\ req'[h] = r /\ ~Resumed(r.cmd)
    <3>1. NothingOf(r.cmd)
      BY <2>1, <2>3, UnreferencedWroteNothing DEF Resumed, RecordsInv, RecordOK
    <3>. QED  BY <2>1, <2>2, <2>3, <3>1 DEF UnwrittenInv, Unwritten, NothingOf
  <2>4. CASE pc'[h] \in {"idle", "reopen"}
    BY <2>2, <2>4 DEF UnwrittenInv, Unwritten
  <2>. QED  BY <1>3, <2>3, <2>4, BeginFrame DEF BeginExecute, BeginNotPersisted,
               IndInv, GatewayTypeOK
<1>4. ASSUME NEW h \in Handlers, NEW c \in Commands, NEW u \in Users,
             CancelRequest(h, c, u)
      PROVE  UnwrittenInv'
  <2>1. docs' = docs /\ pc'[h] = "cancel"
    BY <1>4 DEF CancelRequest, erpVars, IndInv, GatewayTypeOK
  <2>2. \A g \in Handlers \ {h} : pc'[g] = pc[g] /\ req'[g] = req[g]
    BY <1>4 DEF CancelRequest, IndInv, GatewayTypeOK
  <2>. QED  BY <2>1, <2>2, UnwrittenStays DEF UnwrittenInv, Unwritten
<1>5. CASE Crash
  BY <1>5 DEF Crash, UnwrittenInv, Unwritten
<1>6. ASSUME \/ \E h \in Handlers, r \in Requests : Replay(h, r)
             \/ Expire \/ UNCHANGED gwVars
      PROVE  UNCHANGED <<docs, pc, req>>
  BY <1>6 DEF Replay, Expire, gwVars, erpVars
<1>7. CASE UNCHANGED <<docs, pc, req>>
  BY <1>7, UnwrittenStays DEF UnwrittenInv
<1>8. ~ErpCreatesLate
  BY DEF ErpCreatesLate, DocsInv
<1>. QED  BY <1>1, <1>2, <1>3, <1>4, <1>5, <1>6, <1>7, <1>8 DEF Next, Execute

-----------------------------------------------------------------------------
(* What the handlers hold.                                                  *)

\* The document a lookup returns is of the work that the request is about.
LEMMA MatchDescribes ==
    ASSUME IndInv, SerialInv, NEW h \in Handlers, Executing(h),
           NEW d \in Matches(req[h])
    PROVE  /\ d \in docs /\ d.write.part = "main"
           /\ FingerprintOf[d.write.prop] = FingerprintOf[req[h].prop]
           /\ d.write.cmd = req[h].cmd \/ d.write.prop = req[h].prop
<1>1. /\ d \in docs /\ d.write.part = "main"
      /\ d.write.cmd = req[h].cmd \/ d.write.prop = req[h].prop
  BY DEF Matches, PaymentMatches, ByReference, PaymentEntries, OrderMatches
<1>2. req[h].cmd \in Commands
  BY DEF IndInv, HandlerInv, HandlerOK, Executing
<1>3. cache[req[h].cmd].fingerprint = FingerprintOf[req[h].prop]
  BY DEF SerialInv, ServedPending, Served, PendingFor
<1>4. d.write.cmd = req[h].cmd
        => FingerprintOf[d.write.prop] = cache[req[h].cmd].fingerprint
  BY <1>1, <1>2 DEF SerialInv, RecordsInv, RecordOK
<1>. QED  BY <1>1, <1>3, <1>4

LEMMA DescribesStays ==
    ASSUME NEW res, NEW f, Describes(res, f), \A d \in docs : d \in docs',
           res.doc \in submitted' <=> res.doc \in submitted
    PROVE  Describes(res, f)'
BY DEF Describes

LEMMA HeldInductive ==
    ASSUME IndInv, SerialInv, [Next]_gwVars, ~Overlap, ~LateWrites
    PROVE  HeldInv'
<1>. USE DEF SerialInv
<1>0. \A d \in docs : d \in docs'
  BY SiteSteps, NameIsNew DEF DocsInv, ErpCreates, ErpCreatesAdvance
<1>1. ASSUME NEW g \in Handlers,
             pc'[g] \in Holding =>
                /\ pc[g] \in Holding /\ req'[g] = req[g] /\ seen'[g] = seen[g]
                /\ seen[g].doc \in submitted' <=> seen[g].doc \in submitted
      PROVE  pc'[g] \in Holding => Describes(seen[g], FingerprintOf[req[g].prop])'
  <2>. SUFFICES ASSUME pc'[g] \in Holding
                PROVE  Describes(seen[g], FingerprintOf[req[g].prop])'
    OBVIOUS
  <2>1. PICK res, f : res = seen[g] /\ f = FingerprintOf[req[g].prop]
    OBVIOUS
  <2>2. Describes(res, f)'
    BY <1>0, <1>1, <2>1, DescribesStays DEF HeldInv
  <2>. QED  BY <1>1, <2>1, <2>2 DEF Describes
<1>2. ASSUME NEW h \in Handlers, Step(h)
      PROVE  HeldInv'
  <2>0. /\ \A g \in Handlers \ {h} : /\ pc'[g] = pc[g] /\ req'[g] = req[g]
                                     /\ seen'[g] = seen[g]
        /\ pc[h] # "idle"
        /\ pc'[h] # "idle" => req'[h] = req[h]
    BY <1>2, StepSpares
  <2>1. CASE ErpSubmits(h)
    <3>1. /\ pc[h] = "submit" /\ pc'[h] = "submitted"
          /\ seen'[h] = [seen[h] EXCEPT !.submitted = TRUE]
          /\ submitted' = submitted \cup {seen[h].doc} /\ docs' = docs
      BY <2>1 DEF ErpSubmits, Goto, IndInv, GatewayTypeOK
    <3>2. \A g \in Handlers \ {h} : pc[g] \in Holding => seen[g].doc # seen[h].doc
      BY <3>1 DEF Unshared, Writing
    <3>3. \A g \in Handlers \ {h} :
             pc'[g] \in Holding => Describes(seen[g], FingerprintOf[req[g].prop])'
      BY <1>1, <2>0, <3>1, <3>2
    <3>4. seen[h] \in Results /\ Describes(seen[h], FingerprintOf[req[h].prop])
      BY <3>1 DEF HeldInv, Holding, IndInv, HandlerInv, HandlerOK
    <3>5. seen'[h].doc = seen[h].doc /\ seen'[h].submitted
      BY <3>1, <3>4 DEF Results
    <3>6. Describes(seen[h], FingerprintOf[req[h].prop])'
      BY <2>0, <3>1, <3>4, <3>5 DEF Describes
    <3>. QED  BY <3>3, <3>6 DEF HeldInv
  <2>2. CASE ~ErpSubmits(h)
    <3>1. submitted' = submitted
      BY <1>2, <2>2 DEF Step, ClientUnavailable, ClientOpens, ReconcileFinds,
         ReconcileFindsNone, ReconcileFails, CompleteFound, ProbeFindsNone,
         ProbeRefuses, CheckRefuses, SendCreate, ErpCreates, WriteUnverified,
         NextWrite, ErpCreatesAdvance, Finish, CancelFindsNone,
         CancelRefused, CancelApplies, erpVars
    <3>2. \A g \in Handlers \ {h} :
             pc'[g] \in Holding => Describes(seen[g], FingerprintOf[req[g].prop])'
      BY <1>1, <2>0, <3>1
    <3>3. CASE ReconcileFinds(h)
      <4>1. pc[h] = "reconcile" /\ pc'[h] = "found" /\ docs' = docs
        BY <3>3 DEF ReconcileFinds, Goto, IndInv, GatewayTypeOK, erpVars
      <4>2. PICK d \in Matches(req[h]) :
               seen'[h] = [doc |-> d.name, submitted |-> d.name \in submitted]
        BY <3>3 DEF ReconcileFinds, IndInv, GatewayTypeOK
      <4>3. /\ seen'[h].doc = d.name
            /\ seen'[h].submitted <=> d.name \in submitted
        <5>. DEFINE b == d.name \in submitted
        <5>1. b \in BOOLEAN /\ seen'[h] = [doc |-> d.name, submitted |-> b]
          BY <4>2
        <5>. HIDE DEF b
        <5>2. seen'[h].doc = d.name /\ seen'[h].submitted = b
          BY <5>1
        <5>. QED  BY <5>2 DEF b
      <4>4. /\ d \in docs /\ d.write.part = "main"
            /\ FingerprintOf[d.write.prop] = FingerprintOf[req[h].prop]
        BY <4>1, MatchDescribes DEF Executing, Cancelling
      <4>5. Describes(seen[h], FingerprintOf[req[h].prop])'
        BY <2>0, <3>1, <4>1, <4>3, <4>4 DEF Describes
      <4>. QED  BY <3>2, <4>5 DEF HeldInv
    <3>4. CASE ErpCreates(h)
      <4>1. /\ pc[h] = "create" /\ pc'[h] = "created" /\ Insert(MainWrite(h))
            /\ seen'[h] = [doc |-> NextName, submitted |-> FALSE]
        BY <3>4 DEF ErpCreates, Goto, IndInv, GatewayTypeOK
      <4>2. /\ NextName \notin {d.name : d \in docs}
            /\ [name |-> NextName, write |-> MainWrite(h)] \in docs'
        BY <4>1, NameIsNew
      <4>3. NextName \notin submitted
        BY <4>2 DEF DocsInv, SubmittedExist
      <4>4. Describes(seen[h], FingerprintOf[req[h].prop])'
        BY <2>0, <3>1, <4>1, <4>2, <4>3, MainIsOwn DEF Describes
      <4>. QED  BY <3>2, <4>4 DEF HeldInv
    <3>5. CASE ~ReconcileFinds(h) /\ ~ErpCreates(h)
      <4>1. pc'[h] \in Holding => pc[h] \in Holding /\ seen'[h] = seen[h]
        BY <1>2, <2>2, <3>5 DEF Step, ClientUnavailable, ClientOpens,
           ReconcileFindsNone, ReconcileFails, CompleteFound, ProbeFindsNone,
           ProbeRefuses, CheckRefuses, SendCreate, WriteUnverified,
           NextWrite, ErpCreatesAdvance, Finish, CancelFindsNone,
           CancelRefused, CancelApplies, Refuse, Done, Goto, Holding, IndInv,
           GatewayTypeOK
      <4>2. pc'[h] \in Holding => Describes(seen[h], FingerprintOf[req[h].prop])'
        BY <1>1, <2>0, <3>1, <4>1 DEF Holding
      <4>. QED  BY <3>2, <4>2 DEF HeldInv
    <3>. QED  BY <3>3, <3>4, <3>5
  <2>. QED  BY <2>1, <2>2
<1>3. ASSUME NEW h \in Handlers, NEW r \in Requests,
             BeginExecute(h, r) \/ BeginNotPersisted(h, r)
      PROVE  HeldInv'
  <2>1. /\ submitted' = submitted /\ pc[h] = "idle" /\ seen' = seen
        /\ \A g \in Handlers \ {h} : pc'[g] = pc[g] /\ req'[g] = req[g]
    BY <1>3, BeginFrame DEF BeginExecute, BeginNotPersisted, erpVars
  <2>2. pc'[h] \notin Holding
    BY <1>3, <2>1 DEF BeginExecute, BeginNotPersisted, IndInv, GatewayTypeOK, Holding
  <2>. QED  BY <1>1, <2>1, <2>2 DEF HeldInv
<1>4. ASSUME NEW h \in Handlers, NEW c \in Commands, NEW u \in Users,
             CancelRequest(h, c, u)
      PROVE  HeldInv'
  <2>1. /\ submitted' = submitted /\ pc'[h] = "cancel" /\ seen' = seen
        /\ \A g \in Handlers \ {h} : pc'[g] = pc[g] /\ req'[g] = req[g]
    BY <1>4 DEF CancelRequest, erpVars, IndInv, GatewayTypeOK
  <2>. QED  BY <1>1, <2>1 DEF HeldInv, Holding
<1>5. CASE Crash
  BY <1>5 DEF Crash, HeldInv, Holding
<1>6. ASSUME \/ \E h \in Handlers, r \in Requests : Replay(h, r)
             \/ Expire \/ UNCHANGED gwVars
      PROVE  UNCHANGED <<submitted, pc, req, seen>>
  BY <1>6 DEF Replay, Expire, gwVars, erpVars
<1>7. CASE UNCHANGED <<submitted, pc, req, seen>>
  BY <1>1, <1>7 DEF HeldInv
<1>8. ~ErpCreatesLate
  BY DEF ErpCreatesLate, DocsInv
<1>. QED  BY <1>2, <1>3, <1>4, <1>5, <1>6, <1>7, <1>8 DEF Next, Execute

\* A handler at a writing await was there before, or has just inserted.
LEMMA WritingFrom ==
    ASSUME IndInv, [Next]_gwVars, NEW h \in Handlers, pc'[h] \in Writing
    PROVE  \/ pc[h] \in Writing /\ req'[h] = req[h] /\ seen'[h] = seen[h]
           \/ ErpCreates(h)
<1>1. ASSUME Step(h), ~ErpCreates(h)
      PROVE  pc[h] \in Writing /\ req'[h] = req[h] /\ seen'[h] = seen[h]
  BY <1>1 DEF Step, ClientUnavailable, ClientOpens, ReconcileFinds,
     ReconcileFindsNone, ReconcileFails, CompleteFound, ProbeFindsNone,
     ProbeRefuses, CheckRefuses, SendCreate, WriteUnverified, ErpSubmits,
     NextWrite, ErpCreatesAdvance, Finish, CancelFindsNone, CancelRefused,
     CancelApplies, Refuse, Done, Goto, Writing, IndInv, GatewayTypeOK
<1>2. ASSUME NEW k \in Handlers \ {h}, Step(k)
      PROVE  pc[h] \in Writing /\ req'[h] = req[h] /\ seen'[h] = seen[h]
  BY <1>2, StepSpares
<1>3. ASSUME NEW k \in Handlers, NEW r \in Requests, Execute(k, r)
      PROVE  pc[h] \in Writing /\ req'[h] = req[h] /\ seen'[h] = seen[h]
  BY <1>3 DEF Execute, Replay, BeginExecute, BeginNotPersisted, IndInv, GatewayTypeOK,
              Writing
<1>4. ASSUME NEW k \in Handlers, NEW c \in Commands, NEW u \in Users,
             CancelRequest(k, c, u)
      PROVE  pc[h] \in Writing /\ req'[h] = req[h] /\ seen'[h] = seen[h]
  BY <1>4 DEF CancelRequest, IndInv, GatewayTypeOK, Writing
<1>5. ~Crash
  BY DEF Crash, Writing
<1>6. ErpCreatesLate \/ Expire \/ UNCHANGED gwVars => UNCHANGED <<pc, req, seen>>
  BY DEF ErpCreatesLate, Expire, gwVars
<1>. QED  BY <1>1, <1>2, <1>3, <1>4, <1>5, <1>6 DEF Next

LEMMA WrittenInductive ==
    ASSUME IndInv, SerialInv, [Next]_gwVars, ~Overlap, ~LateWrites
    PROVE  WrittenInv'
<1>. USE DEF SerialInv
<1>. SUFFICES ASSUME NEW h \in Handlers, pc'[h] \in Writing
              PROVE  \E d \in docs' : d.name = seen'[h].doc /\ d.write = MainWrite(h)'
  BY DEF WrittenInv
<1>0. \A d \in docs : d \in docs'
  BY SiteSteps, NameIsNew DEF DocsInv, ErpCreates, ErpCreatesAdvance
<1>1. CASE ErpCreates(h)
  <2>1. /\ Insert(MainWrite(h)) /\ req'[h] = req[h]
        /\ seen'[h] = [doc |-> NextName, submitted |-> FALSE]
    BY <1>1 DEF ErpCreates, Goto, IndInv, GatewayTypeOK
  <2>2. [name |-> NextName, write |-> MainWrite(h)] \in docs'
    BY <2>1, NameIsNew
  <2>3. MainWrite(h)' = MainWrite(h)
    BY <2>1 DEF MainWrite
  <2>. QED  BY <2>1, <2>2, <2>3
<1>2. CASE pc[h] \in Writing /\ req'[h] = req[h] /\ seen'[h] = seen[h]
  BY <1>0, <1>2 DEF WrittenInv, MainWrite
<1>. QED  BY <1>1, <1>2, WritingFrom

-----------------------------------------------------------------------------
(* A document that is still written about is in no other hands.             *)

KnownOf(c, n) == InResult(cache[c], n) \/ InResult(disk[c], n)
Known(n) == \E c \in Commands : KnownOf(c, n)

LEMMA PutKnown ==
    ASSUME StoreTypeOK, NEW b \in Commands, NEW rec, NEW ok, Put(b, rec, ok),
           NEW c \in Commands, NEW n, KnownOf(c, n)',
           c = b => ~InResult(rec, n)
    PROVE  KnownOf(c, n)
<1>1. /\ cache'[c] = cache[c] \/ (c = b /\ cache'[c] = rec)
      /\ disk'[c] \in {disk[c], cache[c]} \/ (c = b /\ disk'[c] = rec)
  <2>1. \A x \in Commands \ {b} :
           cache'[x] = cache[x] /\ disk'[x] \in {disk[x], cache[x]}
    BY PutElsewhere
  <2>2. cache'[b] = rec /\ (disk'[b] = disk[b] \/ disk'[b] = rec)
    BY DEF StoreTypeOK, Put
  <2>. QED  BY <2>1, <2>2
<1>. QED  BY <1>1 DEF KnownOf

\* A document comes to be in a result only by completing a command with it.
LEMMA KnownFrom ==
    ASSUME IndInv, SerialInv, [Next]_gwVars, NEW c \in Commands, NEW n,
           KnownOf(c, n)'
    PROVE  \/ KnownOf(c, n)
           \/ \E h \in Handlers : /\ CompleteFound(h) \/ Finish(h)
                                  /\ pc[h] \in Holding
                                  /\ req[h].cmd = c /\ seen[h].doc = n
<1>. USE DEF IndInv, SerialInv, StoreGood
<1>0. \A h \in Handlers : pc[h] # "idle" => req[h].cmd \in Commands
  BY DEF HandlerInv, HandlerOK
<1>1. CASE UNCHANGED storeVars
  BY <1>1 DEF KnownOf, storeVars
<1>2. ASSUME NEW h \in Handlers, NEW r \in Requests,
             BeginExecute(h, r) \/ BeginNotPersisted(h, r)
      PROVE  KnownOf(c, n)
  <2>1. /\ r.cmd \in Commands
        /\ \E ok \in BOOLEAN : Put(r.cmd, Begun(r.cmd, r.user, r.prop), ok)
    BY <1>2, BeginFrame DEF BeginExecute, BeginNotPersisted, Begin
  <2>2. ~InResult(Begun(r.cmd, r.user, r.prop), n)
    BY DEF InResult, Begun
  <2>. QED  BY <2>1, <2>2, PutKnown
<1>3. ASSUME NEW b \in Commands, NEW ok, NEW s, s # "COMPLETED",
             Put(b, [cache[b] EXCEPT !.status = s], ok)
      PROVE  KnownOf(c, n)
  <2>1. cache[b] \in Record
    BY DEF StoreTypeOK
  <2>2. ~InResult([cache[b] EXCEPT !.status = s], n)
    BY <1>3, <2>1 DEF InResult, Record
  <2>. QED  BY <1>3, <2>2, PutKnown
<1>4. ASSUME NEW h \in Handlers, CompleteFound(h) \/ Finish(h), ~KnownOf(c, n)
      PROVE  pc[h] \in Holding /\ req[h].cmd = c /\ seen[h].doc = n
  <2>1. /\ pc[h] \in Holding
        /\ \E ok \in BOOLEAN : Complete(req[h].cmd, seen[h], ok)
    BY <1>4 DEF CompleteFound, Finish, Holding
  <2>. DEFINE b == req[h].cmd
              rec == [cache[b] EXCEPT !.status = "COMPLETED", !.result = seen[h]]
  <2>2. b \in Commands /\ cache[b] \in Record
    BY <1>0, <2>1 DEF Holding, StoreTypeOK
  <2>3. rec.result = seen[h]
    BY <2>2 DEF Record
  <2>4. \E ok \in BOOLEAN : Put(b, rec, ok)
    BY <2>1 DEF Complete
  <2>. HIDE DEF b, rec
  <2>5. c = b /\ InResult(rec, n)
    BY <1>4, <2>2, <2>4, PutKnown
  <2>. QED  BY <2>1, <2>3, <2>5 DEF InResult, b
<1>5. ASSUME NEW h \in Handlers, SendCreate(h)
      PROVE  KnownOf(c, n)
  <2>1. /\ Executing(h) /\ \E ok \in BOOLEAN : SetReference(req[h].cmd, ok)
    BY <1>5 DEF SendCreate, Executing, Cancelling
  <2>. DEFINE b == req[h].cmd
              rec == [cache[b] EXCEPT !.ref = TRUE]
  <2>2. b \in Commands /\ cache[b] \in Record
    BY <1>0, <2>1 DEF Executing, StoreTypeOK
  <2>3. rec.status = "PENDING"
    BY <2>1, <2>2 DEF Record, ServedPending, Served, PendingFor
  <2>4. \E ok \in BOOLEAN : Put(b, rec, ok)
    BY <2>1 DEF SetReference
  <2>. HIDE DEF b, rec
  <2>. QED  BY <2>2, <2>3, <2>4, PutKnown DEF InResult
<1>6. ASSUME NEW h \in Handlers, ProbeRefuses(h) \/ CheckRefuses(h)
                                   \/ WriteUnverified(h) \/ CancelApplies(h)
      PROVE  KnownOf(c, n)
  <2>1. pc[h] # "idle"
    BY <1>6 DEF ProbeRefuses, CheckRefuses, WriteUnverified, CancelApplies
  <2>2. \/ UNCHANGED storeVars
        \/ \E ok \in BOOLEAN : Fail(req[h].cmd, ok)
        \/ \E ok \in BOOLEAN : Cancel(req[h].cmd, ok)
    BY <1>6 DEF ProbeRefuses, CheckRefuses, WriteUnverified, CancelApplies, Refuse
  <2>. QED  BY <1>0, <1>1, <1>3, <2>1, <2>2 DEF Fail, Cancel, KnownOf, storeVars
<1>7. CASE Crash
  BY <1>7 DEF Crash, Reload, KnownOf
<1>8. ASSUME NEW h \in Handlers, Step(h)
      PROVE  \/ UNCHANGED storeVars
             \/ ProbeRefuses(h) \/ CheckRefuses(h) \/ WriteUnverified(h)
             \/ CompleteFound(h) \/ Finish(h) \/ SendCreate(h) \/ CancelApplies(h)
  BY <1>8 DEF Step, ClientUnavailable, ClientOpens, ReconcileFinds,
       ReconcileFindsNone, ReconcileFails, ProbeFindsNone, NextWrite, ErpCreates,
       ErpCreatesAdvance, ErpSubmits, CancelFindsNone, CancelRefused
<1>9. ASSUME \/ \E h \in Handlers, r \in Requests : Replay(h, r)
             \/ \E h \in Handlers, b \in Commands, u \in Users : CancelRequest(h, b, u)
             \/ Expire \/ ErpCreatesLate \/ UNCHANGED gwVars
      PROVE  UNCHANGED storeVars
  BY <1>9 DEF Replay, CancelRequest, Expire, ErpCreatesLate, gwVars, storeVars
<1>. QED  BY <1>1, <1>2, <1>4, <1>5, <1>6, <1>7, <1>8, <1>9 DEF Next, Execute

\* A handler takes a document in hand by looking it up or by inserting it.
LEMMA HoldingFrom ==
    ASSUME IndInv, [Next]_gwVars, NEW g \in Handlers, pc'[g] \in Holding
    PROVE  \/ pc[g] \in Holding /\ seen'[g].doc = seen[g].doc
           \/ ReconcileFinds(g)
           \/ ErpCreates(g)
<1>0. pc[g] \in Holding => seen[g] \in Results
  BY DEF IndInv, HandlerInv, HandlerOK, Holding
<1>1. CASE ErpSubmits(g)
  BY <1>0, <1>1 DEF ErpSubmits, IndInv, GatewayTypeOK, Holding, Results
<1>2. ASSUME Step(g), ~ErpCreates(g), ~ErpSubmits(g), ~ReconcileFinds(g)
      PROVE  pc[g] \in Holding /\ seen'[g] = seen[g]
  BY <1>2 DEF Step, ClientUnavailable, ClientOpens,
     ReconcileFindsNone, ReconcileFails, CompleteFound, ProbeFindsNone,
     ProbeRefuses, CheckRefuses, SendCreate, WriteUnverified,
     NextWrite, ErpCreatesAdvance, Finish, CancelFindsNone, CancelRefused,
     CancelApplies, Refuse, Done, Goto, Holding, IndInv, GatewayTypeOK
<1>3. ASSUME NEW k \in Handlers \ {g}, Step(k)
      PROVE  pc[g] \in Holding /\ seen'[g] = seen[g]
  BY <1>3, StepSpares
<1>4. ASSUME NEW k \in Handlers, NEW r \in Requests, Execute(k, r)
      PROVE  pc[g] \in Holding /\ seen'[g] = seen[g]
  BY <1>4 DEF Execute, Replay, BeginExecute, BeginNotPersisted, IndInv, GatewayTypeOK,
              Holding
<1>5. ASSUME NEW k \in Handlers, NEW c \in Commands, NEW u \in Users,
             CancelRequest(k, c, u)
      PROVE  pc[g] \in Holding /\ seen'[g] = seen[g]
  BY <1>5 DEF CancelRequest, IndInv, GatewayTypeOK, Holding
<1>6. ~Crash
  BY DEF Crash, Holding
<1>7. ErpCreatesLate \/ Expire \/ UNCHANGED gwVars => UNCHANGED <<pc, req, seen>>
  BY DEF ErpCreatesLate, Expire, gwVars
<1>. QED  BY <1>1, <1>2, <1>3, <1>4, <1>5, <1>6, <1>7 DEF Next

\* What is in somebody's hands exists.
LEMMA HeldExists ==
    ASSUME SerialInv
    PROVE  /\ \A n : Known(n) => n \in {d.name : d \in docs}
           /\ \A g \in Handlers : pc[g] \in Holding
                                     => seen[g].doc \in {d.name : d \in docs}
<1>1. ASSUME NEW n, Known(n) PROVE n \in {d.name : d \in docs}
  BY <1>1 DEF SerialInv, RecordsInv, RecordOK, Describes, Known, KnownOf, InResult
<1>. QED  BY <1>1 DEF SerialInv, HeldInv, Describes

LEMMA UnsharedInductive ==
    ASSUME IndInv, SerialInv, [Next]_gwVars, ~Overlap, ~LateWrites
    PROVE  Unshared'
<1>. USE DEF SerialInv
<1>. SUFFICES ASSUME NEW h \in Handlers, pc'[h] \in Writing
              PROVE  /\ ~Known(seen[h].doc)'
                     /\ \A g \in Handlers \ {h} :
                           pc'[g] \in Holding => seen'[g].doc # seen'[h].doc
  BY DEF Unshared, Known, KnownOf
<1>1. CASE ErpCreates(h)
  <2>1. /\ seen'[h].doc = NextName /\ Insert(MainWrite(h))
        /\ UNCHANGED storeVars
        /\ \A g \in Handlers \ {h} : pc'[g] = pc[g] /\ seen'[g] = seen[g]
    BY <1>1 DEF ErpCreates, Goto, IndInv, GatewayTypeOK
  <2>2. NextName \notin {d.name : d \in docs}
    BY <2>1, NameIsNew
  <2>3. ~Known(NextName) /\ \A g \in Handlers : pc[g] \in Holding => seen[g].doc # NextName
    BY <2>2, HeldExists
  <2>. QED  BY <2>1, <2>3 DEF Known, KnownOf, storeVars
<1>2. CASE pc[h] \in Writing /\ req'[h] = req[h] /\ seen'[h] = seen[h]
  <2>1. /\ ~Known(seen[h].doc)
        /\ \A g \in Handlers \ {h} : pc[g] \in Holding => seen[g].doc # seen[h].doc
    BY <1>2 DEF Unshared, Known, KnownOf
  <2>2. ~CompleteFound(h) /\ ~Finish(h)
    BY <1>2 DEF CompleteFound, Finish, Done, IndInv, GatewayTypeOK, Writing
  <2>3. ~Known(seen[h].doc)'
    <3>1. PICK n : n = seen[h].doc
      OBVIOUS
    <3>2. ASSUME NEW c \in Commands PROVE ~KnownOf(c, n)'
      BY <2>1, <2>2, <3>1, KnownFrom DEF Known
    <3>. QED  BY <1>2, <3>1, <3>2 DEF Known, KnownOf
  <2>4. PICK e \in docs : e.name = seen[h].doc /\ e.write = MainWrite(h)
    BY <1>2 DEF WrittenInv
  <2>5. ASSUME NEW g \in Handlers \ {h}, pc'[g] \in Holding
        PROVE  seen'[g].doc # seen'[h].doc
    <3>1. CASE pc[g] \in Holding /\ seen'[g].doc = seen[g].doc
      BY <1>2, <2>1, <3>1
    <3>2. CASE ErpCreates(g)
      <4>1. seen'[g].doc = NextName /\ Insert(MainWrite(g))
        BY <3>2 DEF ErpCreates, Goto, IndInv, GatewayTypeOK
      <4>. QED  BY <1>2, <2>4, <4>1, NameIsNew
    <3>3. CASE ReconcileFinds(g)
      <4>1. /\ Executing(g) /\ Executing(h)
        BY <1>2, <3>3 DEF ReconcileFinds, Executing, Writing, Cancelling
      <4>2. PICK d \in Matches(req[g]) : seen'[g].doc = d.name
        BY <3>3 DEF ReconcileFinds, IndInv, GatewayTypeOK
      <4>3. d \in docs /\ (d.write.cmd = req[g].cmd \/ d.write.prop = req[g].prop)
        BY <4>1, MatchDescribes
      <4>4. ASSUME d.name = seen[h].doc PROVE FALSE
        <5>1. d = e
          BY <2>4, <4>3, <4>4 DEF DocsInv, NamesUnique
        <5>2. req[g].cmd = req[h].cmd \/ req[g].prop = req[h].prop
          BY <2>4, <4>3, <5>1, MainIsOwn
        <5>. QED  BY <4>1, <5>2, Exclusive DEF OnePerCommand, Executing
      <4>. QED  BY <1>2, <4>2, <4>4
    <3>. QED  BY <2>5, <3>1, <3>2, <3>3, HoldingFrom
  <2>. QED  BY <2>3, <2>5
<1>. QED  BY <1>1, <1>2, WritingFrom

-----------------------------------------------------------------------------
(* The theorems.                                                            *)

LEMMA SerialInductive ==
    ASSUME ~Overlap, ~LateWrites
    PROVE  IndInv /\ SerialInv /\ [Next]_gwVars => SerialInv'
<1>. SUFFICES ASSUME IndInv, SerialInv, [Next]_gwVars PROVE SerialInv'
  OBVIOUS
<1>1. OnePerCommand' /\ ServedPending'
  BY OnePerCommandInductive, ServedInductive DEF SerialInv
<1>2. DocsInv' /\ RecordsInv' /\ UnwrittenInv' /\ HeldInv' /\ WrittenInv' /\ Unshared'
  BY DocsInductive, RecordsInductive, UnwrittenInductive, HeldInductive,
     WrittenInductive, UnsharedInductive
<1>. QED  BY <1>1, <1>2 DEF SerialInv

LEMMA SerialInvariant ==
    ASSUME ~Overlap, ~LateWrites
    PROVE  Spec => [](IndInv /\ SerialInv)
<1>1. Init => IndInv /\ SerialInv
  BY InitInductive, InitSerial
<1>2. IndInv /\ SerialInv /\ [Next]_gwVars => (IndInv /\ SerialInv)'
  BY Inductive, SerialInductive
<1>. QED  BY <1>1, <1>2, PTL DEF Spec

\* A command writes one document of each part, through every retry, resume and
\* restart: for a client that waits for an answer before it repeats itself.
THEOREM OneDocumentHolds ==
    ASSUME ~Overlap, ~LateWrites
    PROVE  Spec => []OneDocument
<1>1. IndInv /\ SerialInv => OneDocument
  BY DEF SerialInv, DocsInv
<1>. QED  BY <1>1, SerialInvariant, PTL

\* A confirmed order becomes one document and at most one advance, under however
\* many command ids it is sent.
THEOREM OneOrderPerProposalHolds ==
    ASSUME ~Overlap, ~LateWrites
    PROVE  Spec => []OneOrderPerProposal
<1>1. IndInv /\ SerialInv => OneOrderPerProposal
  BY DEF SerialInv, DocsInv
<1>. QED  BY <1>1, SerialInvariant, PTL

\* The result stored for a completed command, and returned by every replay, is a
\* document of the work it was confirmed for, and says truly whether it is submitted.
THEOREM ResultTruthfulHolds ==
    ASSUME ~Overlap, ~LateWrites
    PROVE  Spec => []ResultTruthful
<1>1. IndInv /\ SerialInv => ResultTruthful
  BY DEF SerialInv, RecordsInv, RecordOK, Describes, ResultTruthful, WorkOf
<1>. QED  BY <1>1, SerialInvariant, PTL

\* Two requests are never both on their way to a write for one intent, whatever
\* lands late.
THEOREM IntentExclusiveHolds ==
    ASSUME ~Overlap
    PROVE  Spec => []IntentExclusive
<1>. DEFINE Served1 == IndInv /\ OnePerCommand /\ ServedPending
<1>1. Init => Served1
  BY InitInductive, InitSerial DEF SerialInv
<1>2. Served1 /\ [Next]_gwVars => Served1'
  BY Inductive, OnePerCommandInductive, ServedInductive
<1>3. Served1 => IntentExclusive
  BY Exclusive DEF IntentExclusive, WritingPcs, Executing, Cancelling
<1>. QED  BY <1>1, <1>2, <1>3, PTL DEF Spec

\* A payment recorded CANCELLED has left no document and no write on its way.
THEOREM CancelledPaymentWroteNothingHolds ==
    ASSUME ~Overlap, ~LateWrites
    PROVE  Spec => []CancelledPaymentWroteNothing
<1>1. ASSUME IndInv, SerialInv PROVE CancelledPaymentWroteNothing
  <2>. SUFFICES ASSUME NEW c \in Commands, disk[c].status = "CANCELLED",
                       \A r \in Requests : r.cmd = c => r.prop \in Payments,
                       NEW w \in Sent, w.cmd = c
                PROVE  FALSE
    BY DEF CancelledPaymentWroteNothing, CancelledWroteNothing
  <2>1. ASSUME NEW d \in docs, d.write.cmd = c PROVE FALSE
    BY <1>1, <2>1 DEF SerialInv, DocsInv, DocAsked, RecordsInv, RecordOK
  <2>2. ASSUME NEW h \in Handlers, pc[h] \in {"create", "advance"}, req[h].cmd = c
        PROVE  FALSE
    BY <1>1, <2>2 DEF SerialInv, ServedPending, Served, PendingFor, Executing,
                      Cancelling
  <2>3. late = {}
    BY <1>1 DEF SerialInv, DocsInv
  <2>. QED  BY <2>1, <2>2, <2>3, MainIsOwn DEF Sent, InFlightWrites
<1>. QED  BY <1>1, SerialInvariant, PTL

-----------------------------------------------------------------------------
(* The write path implements OnceOnlyWrite.                                 *)

\* A document n is an answer for command c: some request of c asked for it, for
\* exactly that proposal unless it is a payment.
AnswerFor(c, n) ==
    \E r \in Requests, d \in docs :
        /\ r.cmd = c
        /\ d.write.part = "main"
        /\ d.name = n
        /\ r.prop \notin Payments => d.write.prop = r.prop

\* What was or will be told of a command is an answer for it; and while no
\* persist threw, what was told is what is stored.
AnswerInv ==
    /\ \A h \in Handlers : pc[h] \in Holding => AnswerFor(req[h].cmd, seen[h].doc)
    /\ \A c \in Commands : \A n \in Names : KnownOf(c, n) => AnswerFor(c, n)
    /\ \A a \in acked :
          /\ AnswerFor(a.cmd, a.doc)
          /\ faults = 0 => InResult(cache[a.cmd], a.doc)
    /\ MaxFaults = 0 => faults = 0

LEMMA DocsGrow ==
    ASSUME DocsInv, [Next]_gwVars, ~LateWrites
    PROVE  docs \subseteq docs'
BY SiteSteps, NameIsNew DEF DocsInv, ErpCreates, ErpCreatesAdvance

LEMMA AnswerStays ==
    ASSUME docs \subseteq docs', NEW c, NEW n, AnswerFor(c, n)
    PROVE  AnswerFor(c, n)'
BY DEF AnswerFor

\* A handler that takes a document in hand takes an answer for its command.
LEMMA AnswerHeld ==
    ASSUME IndInv, SerialInv, AnswerInv, [Next]_gwVars, ~Overlap, ~LateWrites,
           NEW h \in Handlers, pc'[h] \in Holding
    PROVE  AnswerFor(req[h].cmd, seen[h].doc)'
<1>. USE DEF SerialInv
<1>. PICK c : c = req[h].cmd
  OBVIOUS
<1>0. docs \subseteq docs'
  BY DocsGrow
<1>1. req'[h] = req[h]
  <2>1. CASE pc[h] = "idle"
    BY <2>1, HoldingFrom DEF Holding, ReconcileFinds, ErpCreates
  <2>2. CASE pc[h] # "idle"
    <3>1. ASSUME NEW k \in Handlers, Step(k) PROVE req'[h] = req[h]
      BY <3>1, StepSpares DEF Holding
    <3>2. ASSUME NEW k \in Handlers, NEW r \in Requests, Execute(k, r)
          PROVE  req'[h] = req[h]
      BY <2>2, <3>2, BeginFrame DEF Execute, Replay, BeginExecute, BeginNotPersisted
    <3>3. ASSUME NEW k \in Handlers, NEW b \in Commands, NEW u \in Users,
                 CancelRequest(k, b, u)
          PROVE  req'[h] = req[h]
      BY <2>2, <3>3 DEF CancelRequest, Serves, IndInv, GatewayTypeOK
    <3>4. ~Crash
      BY DEF Crash, Holding
    <3>5. ErpCreatesLate \/ Expire \/ UNCHANGED gwVars => UNCHANGED req
      BY DEF ErpCreatesLate, Expire, gwVars
    <3>. QED  BY <3>1, <3>2, <3>3, <3>4, <3>5 DEF Next
  <2>. QED  BY <2>1, <2>2
<1>2. ASSUME NEW n, n = seen'[h].doc, AnswerFor(c, n)'
      PROVE  AnswerFor(req[h].cmd, seen[h].doc)'
  BY <1>1, <1>2 DEF AnswerFor
<1>3. CASE pc[h] \in Holding /\ seen'[h].doc = seen[h].doc
  BY <1>0, <1>2, <1>3, AnswerStays DEF AnswerInv
<1>4. CASE ReconcileFinds(h) \/ ErpCreates(h)
  <2>1. Executing(h) /\ req[h] \in Requests
    BY <1>4 DEF ReconcileFinds, ErpCreates, Executing, Cancelling, ServedPending,
                Served
  <2>2. CASE ReconcileFinds(h)
    <3>1. PICK d \in Matches(req[h]) : seen'[h].doc = d.name
      BY <2>2 DEF ReconcileFinds, IndInv, GatewayTypeOK
    <3>2. /\ d \in docs /\ d.write.part = "main"
          /\ req[h].prop \notin Payments => d.write.prop = req[h].prop
      BY <3>1 DEF Matches, PaymentMatches, ByReference, PaymentEntries, OrderMatches
    <3>3. AnswerFor(c, d.name)'
      BY <1>0, <2>1, <3>2 DEF AnswerFor
    <3>. QED  BY <1>2, <3>1, <3>3
  <2>3. CASE ErpCreates(h)
    <3>1. /\ seen'[h].doc = NextName /\ Insert(MainWrite(h))
      BY <2>3 DEF ErpCreates, IndInv, GatewayTypeOK
    <3>2. PICK d \in docs' : d = [name |-> NextName, write |-> MainWrite(h)]
      BY <3>1, NameIsNew
    <3>3. /\ d.name = NextName /\ d.write.part = "main"
          /\ d.write.prop = req[h].prop
      BY <3>2 DEF MainWrite
    <3>4. AnswerFor(c, d.name)'
      BY <2>1, <3>3 DEF AnswerFor
    <3>. QED  BY <1>2, <3>1, <3>3, <3>4
  <2>. QED  BY <1>4, <2>2, <2>3
<1>. QED  BY <1>3, <1>4, HoldingFrom

\* The stored result of a completed command changes in a crash only.
LEMMA CompletedStays ==
    ASSUME IndInv, SerialInv, [Next]_gwVars, NEW c \in Commands,
           cache[c].status = "COMPLETED"
    PROVE  Crash \/ cache'[c] = cache[c]
<1>. USE DEF IndInv, SerialInv, StoreGood
<1>1. ASSUME NEW b \in Commands, NEW rec, NEW ok, Put(b, rec, ok), b # c
      PROVE  cache'[c] = cache[c]
  BY <1>1, PutElsewhere
<1>2. ASSUME NEW h \in Handlers, NEW r \in Requests, Execute(h, r)
      PROVE  cache'[c] = cache[c]
  <2>1. CASE Replay(h, r)
    BY <2>1 DEF Replay, storeVars
  <2>2. CASE BeginExecute(h, r) \/ BeginNotPersisted(h, r)
    <3>1. /\ r.cmd \in Commands /\ r.cmd # c
          /\ \E ok \in BOOLEAN : Put(r.cmd, Begun(r.cmd, r.user, r.prop), ok)
      BY <2>2, BeginFrame DEF BeginExecute, BeginNotPersisted, Begin, Accepts
    <3>. QED  BY <1>1, <3>1
  <2>. QED  BY <1>2, <2>1, <2>2 DEF Execute
<1>3. ASSUME NEW h \in Handlers, Step(h)
      PROVE  cache'[c] = cache[c]
  <2>1. pc[h] # "idle" /\ req[h].cmd \in Commands
    BY <1>3, StepSpares DEF HandlerInv, HandlerOK
  <2>2. CASE Executing(h)
    <3>1. req[h].cmd # c
      BY <2>2 DEF ServedPending, Served, PendingFor
    <3>. QED  BY <1>1, <1>3, <2>1, <3>1, StepStore DEF storeVars
  <2>3. CASE pc[h] \in Cancelling
    <3>1. UNCHANGED storeVars \/ \E ok \in BOOLEAN : Cancel(req[h].cmd, ok)
      BY <1>3, <2>3 DEF Step, ClientUnavailable, ClientOpens, ReconcileFinds,
       ReconcileFindsNone, ReconcileFails, CompleteFound, ProbeFindsNone,
       ProbeRefuses, CheckRefuses, SendCreate, ErpCreates, WriteUnverified,
       NextWrite, ErpSubmits, ErpCreatesAdvance, Finish, CancelFindsNone,
       CancelRefused, CancelApplies, Cancelling
    <3>. QED  BY <1>1, <2>1, <3>1 DEF Cancel, storeVars
  <2>. QED  BY <2>1, <2>2, <2>3 DEF Executing
<1>4. ASSUME \/ \E h \in Handlers, b \in Commands, u \in Users : CancelRequest(h, b, u)
             \/ Expire \/ ErpCreatesLate \/ UNCHANGED gwVars
      PROVE  cache'[c] = cache[c]
  BY <1>4 DEF CancelRequest, Expire, ErpCreatesLate, gwVars, storeVars
<1>. QED  BY <1>2, <1>3, <1>4 DEF Next

\* A client is told the stored result of a completed command, or the document
\* that a handler has just completed a pending one with.
Answers(c, n) ==
    /\ acked' = acked \cup {[cmd |-> c, doc |-> n]}
    /\ InResult(cache'[c], n)
    /\ \/ InResult(cache[c], n)
       \/ /\ cache[c].status = "PENDING"
          /\ \E h \in Handlers :
                pc[h] \in Holding /\ req[h].cmd = c /\ seen[h].doc = n

LEMMA AnswersFrom ==
    ASSUME IndInv, SerialInv, [Next]_gwVars
    PROVE  \/ UNCHANGED acked
           \/ \E c \in Commands, n \in Names : Answers(c, n)
<1>. USE DEF IndInv, SerialInv, StoreGood
<1>1. ASSUME NEW h \in Handlers, NEW r \in Requests, Replay(h, r)
      PROVE  \E c \in Commands, n \in Names : Answers(c, n)
  <2>1. r.cmd \in Commands
    BY GatewayAssumption DEF GatewayAssumption, RequestSet
  <2>2. cache[r.cmd].status = "COMPLETED" /\ cache[r.cmd].result \in Results
    BY <1>1, <2>1 DEF Replay, Replays, StoreInv
  <2>3. cache[r.cmd].result.doc \in Names
    BY <2>2 DEF Results
  <2>4. Answers(r.cmd, cache[r.cmd].result.doc)
    BY <1>1, <2>2 DEF Replay, TellOk, Answers, InResult, storeVars
  <2>. QED  BY <2>1, <2>3, <2>4
<1>2. ASSUME NEW h \in Handlers, CompleteFound(h) \/ Finish(h)
      PROVE  \/ UNCHANGED acked
             \/ \E c \in Commands, n \in Names : Answers(c, n)
  <2>. SUFFICES ASSUME acked' # acked
                PROVE  \E c \in Commands, n \in Names : Answers(c, n)
    OBVIOUS
  <2>1. Executing(h) /\ pc[h] \in Holding /\ pc[h] # "idle"
    BY <1>2 DEF CompleteFound, Finish, Executing, Holding, Cancelling
  <2>2. /\ Complete(req[h].cmd, seen[h], TRUE)
        /\ acked' = acked \cup {[cmd |-> req[h].cmd, doc |-> seen[h].doc]}
    BY <1>2, Zenon DEF CompleteFound, Finish, TellOk, TellRetry, tellVars
  <2>3. /\ req[h].cmd \in Commands /\ seen[h] \in Results
        /\ cache[req[h].cmd].status = "PENDING"
    BY <2>1 DEF HandlerInv, HandlerOK, ServedPending, Served, PendingFor
  <2>4. InResult(cache'[req[h].cmd], seen[h].doc)
    <3>. DEFINE b == req[h].cmd
                rec == [cache[b] EXCEPT !.status = "COMPLETED", !.result = seen[h]]
    <3>1. b \in Commands /\ cache[b] \in Record
      BY <2>3 DEF StoreTypeOK
    <3>2. rec.result = seen[h] /\ rec.status = "COMPLETED"
      BY <3>1 DEF Record
    <3>3. Put(b, rec, TRUE)
      BY <2>2 DEF Complete
    <3>. HIDE DEF rec
    <3>4. cache'[b] = rec
      BY <3>1, <3>3 DEF Put, StoreTypeOK
    <3>. QED  BY <3>2, <3>4 DEF InResult
  <2>5. seen[h].doc \in Names
    BY <2>3 DEF Results
  <2>6. Answers(req[h].cmd, seen[h].doc)
    BY <2>1, <2>2, <2>3, <2>4 DEF Answers
  <2>. QED  BY <2>3, <2>5, <2>6
<1>3. ASSUME NEW h \in Handlers, Step(h), ~CompleteFound(h), ~Finish(h)
      PROVE  UNCHANGED acked
  BY <1>3 DEF Step, ClientUnavailable, ClientOpens, ReconcileFinds,
       ReconcileFindsNone, ReconcileFails, ProbeFindsNone,
       ProbeRefuses, CheckRefuses, SendCreate, ErpCreates, WriteUnverified,
       NextWrite, ErpSubmits, ErpCreatesAdvance, CancelFindsNone,
       CancelRefused, CancelApplies, Refuse, TellRetry, tellVars
<1>4. ASSUME NEW h \in Handlers, NEW r \in Requests,
             BeginExecute(h, r) \/ BeginNotPersisted(h, r)
      PROVE  UNCHANGED acked
  BY <1>4 DEF BeginExecute, BeginNotPersisted, tellVars
<1>5. ASSUME \/ \E h \in Handlers, b \in Commands, u \in Users : CancelRequest(h, b, u)
             \/ Crash \/ Expire \/ ErpCreatesLate \/ UNCHANGED gwVars
      PROVE  UNCHANGED acked
  BY <1>5 DEF CancelRequest, Crash, Expire, ErpCreatesLate, gwVars, tellVars
<1>. QED  BY <1>1, <1>2, <1>3, <1>4, <1>5 DEF Next, Execute

\* Persists that throw are counted, and never more than MaxFaults.
LEMMA FaultsStep ==
    ASSUME StoreTypeOK, [Next]_gwVars
    PROVE  /\ faults' = 0 => faults = 0
           /\ MaxFaults = 0 => faults' = faults
<1>1. ASSUME NEW c, NEW rec, NEW ok, Put(c, rec, ok)
      PROVE  (faults' = 0 => faults = 0) /\ (MaxFaults = 0 => faults' = faults)
  BY <1>1 DEF Put, StoreTypeOK
<1>2. ASSUME ~UNCHANGED storeVars
      PROVE  Crash \/ \E c, rec, ok : Put(c, rec, ok)
  <2>1. ASSUME NEW h \in Handlers, Step(h) PROVE \E c, rec, ok : Put(c, rec, ok)
    BY <1>2, <2>1, StepStore
  <2>2. ASSUME NEW h \in Handlers, NEW r \in Requests, Execute(h, r)
        PROVE  \E c, rec, ok : Put(c, rec, ok)
    BY <1>2, <2>2 DEF Execute, Replay, BeginExecute, BeginNotPersisted, Begin
  <2>. QED  BY <1>2, <2>1, <2>2 DEF Next, CancelRequest, Expire, ErpCreatesLate,
                                     gwVars, storeVars
<1>. QED  BY <1>1, <1>2 DEF Crash, Reload, storeVars

LEMMA AnswerInductive ==
    ASSUME IndInv, SerialInv, AnswerInv, [Next]_gwVars, ~Overlap, ~LateWrites
    PROVE  AnswerInv'
<1>. USE DEF SerialInv
<1>0. docs \subseteq docs'
  BY DocsGrow
<1>1. ASSUME NEW h \in Handlers, pc'[h] \in Holding
      PROVE  AnswerFor(req[h].cmd, seen[h].doc)'
  BY <1>1, AnswerHeld
<1>2. ASSUME NEW c \in Commands, NEW n \in Names, KnownOf(c, n)'
      PROVE  AnswerFor(c, n)
  BY <1>2, KnownFrom DEF AnswerInv
<1>3. ASSUME NEW a \in acked'
      PROVE  a.cmd \in Commands /\ a.doc \in Names /\ (a \in acked \/ Answers(a.cmd, a.doc))
  <2>1. a.cmd \in Commands /\ a.doc \in Names
    BY <1>3, Inductive DEF IndInv, GatewayTypeOK, Answer
  <2>2. CASE UNCHANGED acked
    BY <1>3, <2>1, <2>2
  <2>3. ASSUME NEW c \in Commands, NEW n \in Names, Answers(c, n)
        PROVE  a \in acked \/ Answers(a.cmd, a.doc)
    <3>1. CASE a = [cmd |-> c, doc |-> n]
      BY <2>3, <3>1
    <3>. QED  BY <1>3, <2>3, <3>1 DEF Answers
  <2>. QED  BY <2>1, <2>2, <2>3, AnswersFrom
<1>4. ASSUME NEW a \in acked' PROVE AnswerFor(a.cmd, a.doc)
  <2>1. CASE a \in acked
    BY <2>1 DEF AnswerInv
  <2>2. CASE Answers(a.cmd, a.doc)
    BY <1>3, <2>2 DEF AnswerInv, Answers, KnownOf
  <2>. QED  BY <1>3, <1>4, <2>1, <2>2
<1>5. ASSUME NEW a \in acked', faults' = 0 PROVE InResult(cache'[a.cmd], a.doc)
  <2>0. faults = 0 /\ StoreTypeOK
    BY <1>5, FaultsStep DEF IndInv, StoreGood
  <2>1. CASE a \in acked
    <3>1. a.cmd \in Commands /\ InResult(cache[a.cmd], a.doc)
      BY <1>3, <2>0, <2>1 DEF AnswerInv
    <3>2. cache'[a.cmd] = cache[a.cmd]
      BY <2>0, <3>1, CompletedStays DEF InResult, Crash, Reload, IndInv, StoreGood, StoreInv
    <3>. QED  BY <3>1, <3>2
  <2>. QED  BY <1>3, <1>5, <2>1 DEF Answers
<1>6. MaxFaults = 0 => faults' = 0
  BY FaultsStep DEF AnswerInv, IndInv, StoreGood
<1>7. \A c \in Commands : \A n \in Names : KnownOf(c, n)' => AnswerFor(c, n)'
  BY <1>0, <1>2, AnswerStays
<1>8. \A a \in acked' : AnswerFor(a.cmd, a.doc)'
  BY <1>0, <1>4, AnswerStays
<1>. QED  BY <1>1, <1>5, <1>6, <1>7, <1>8 DEF AnswerInv

\* What a client sees of the gateway, as Promise names it.
EffectOf(c) ==
    {d.name : d \in {e \in docs : e.write.part = "main" /\ e.write.cmd = c}}
ToldTo(c) == {a.doc : a \in {b \in acked : b.cmd = c}}
FailedOnes == {c \in Commands : disk[c].status = "FAILED"}

Effect == [c \in Commands |-> EffectOf(c)]
Told == [c \in Commands |-> ToldTo(c)]
AllEffects == UNION {Effect[c] : c \in Commands}

LEMMA PromiseTake ==
    ASSUME NEW c \in Commands, Effect[c] = {}, c \notin FailedOnes,
           \E n \in Names \ AllEffects : Effect' = [Effect EXCEPT ![c] = {n}],
           UNCHANGED <<Told, FailedOnes>>
    PROVE  Promise!Take(c)
BY DEF Promise!Take, Promise!AllDocuments, AllEffects, Effect, Told, FailedOnes,
       EffectOf, ToldTo

LEMMA PromiseTell ==
    ASSUME NEW c \in Commands, c \notin FailedOnes,
           \E n \in AllEffects :
              Told[c] \subseteq {n} /\ Told' = [Told EXCEPT ![c] = {n}]
    PROVE  Promise!Tell(c)
BY DEF Promise!Tell, Promise!AllDocuments, AllEffects, Effect, Told, FailedOnes,
       EffectOf, ToldTo

LEMMA PromiseDeclare ==
    ASSUME \E S \in SUBSET {c \in Commands : Effect[c] = {} /\ Told[c] = {}} :
               FailedOnes' = FailedOnes \cup S,
           UNCHANGED Told \/ \E c \in Commands \ FailedOnes' : Promise!Tell(c),
           UNCHANGED Effect
    PROVE  Promise!Declare
BY DEF Promise!Declare, Effect, Told, FailedOnes, EffectOf, ToldTo

NothingMain(c) == \A d \in docs : ~(d.write.cmd = c /\ d.write.part = "main")

\* The document ERPNext inserts for a main write is the effect of its command.
LEMMA CreateTakes ==
    ASSUME IndInv, SerialInv, [Next]_gwVars, NEW h \in Handlers, ErpCreates(h)
    PROVE  \E c \in Commands : Promise!Take(c)
<1>. USE DEF IndInv, SerialInv
<1>. DEFINE w == MainWrite(h)
<1>0. /\ pc[h] = "create" /\ Executing(h) /\ req[h].cmd \in Commands
      /\ Insert(w) /\ UNCHANGED <<storeVars, acked>>
  <2>1. pc[h] = "create" /\ Insert(w) /\ UNCHANGED storeVars
    BY DEF ErpCreates
  <2>2. UNCHANGED acked
    BY DEF ErpCreates, tellVars
  <2>3. Executing(h) /\ req[h].cmd \in Commands
    BY <2>1 DEF Executing, Cancelling, HandlerInv, HandlerOK
  <2>. QED  BY <2>1, <2>2, <2>3
<1>. PICK c \in Commands : c = req[h].cmd
  BY <1>0
<1>1. PICK new \in Document : /\ new.name \in Names
                              /\ new.write = w
                              /\ docs' = docs \cup {new}
                              /\ \A d \in docs : d.name # new.name
  <2>1. w \in Write /\ FreeNames # {} /\ NextName \in Names
    BY <1>0, WriteTypes, NextNameFree DEF Insert, Executing, Cancelling
  <2>2. \A d \in docs : d.name # NextName
    BY <1>0, NameIsNew
  <2>. DEFINE new == [name |-> NextName, write |-> w]
  <2>3. docs' = docs \cup {new}
    BY <1>0 DEF Insert
  <2>4. new \in Document /\ new.name = NextName /\ new.write = w
    BY <2>1 DEF Document
  <2>. HIDE DEF new, w
  <2>. QED  BY <2>1, <2>2, <2>3, <2>4
<1>2. w.cmd = c /\ w.part = "main"
  BY DEF MainWrite
<1>3. NothingMain(c)
  <2>1. req[h] \in Requests /\ req[h].prop \in Proposals
    BY <1>0, GatewayAssumption DEF GatewayAssumption, RequestSet, ServedPending, Served
  <2>2. CASE req[h].prop \in Payments
    BY <1>0, <2>2 DEF UnwrittenInv, Unwritten, NothingOf, NothingMain
  <2>3. CASE req[h].prop \notin Payments
    <3>1. NothingFor(req[h].prop)
      BY <1>0, <2>3 DEF UnwrittenInv, Unwritten
    <3>2. \A r \in Requests : r.cmd = c => r.prop = req[h].prop
      BY <2>1, <2>3, CardAssumption DEF CardAssumption
    <3>. QED  BY <3>1, <3>2 DEF DocsInv, DocAsked, NothingFor, NothingMain
  <2>. QED  BY <2>2, <2>3
<1>4. EffectOf(c) = {} /\ EffectOf(c)' = {new.name}
  BY <1>1, <1>2, <1>3 DEF EffectOf, NothingMain
<1>5. \A b \in Commands \ {c} : EffectOf(b)' = EffectOf(b)
  BY <1>1, <1>2 DEF EffectOf
<1>6. Effect' = [Effect EXCEPT ![c] = {new.name}]
  BY <1>4, <1>5 DEF Effect
<1>7. new.name \notin AllEffects
  BY <1>1 DEF AllEffects, Effect, EffectOf
<1>8. c \notin FailedOnes
  BY <1>0 DEF ServedPending, Served, PendingFor, FailedOnes
<1>9. UNCHANGED <<Told, FailedOnes>>
  BY <1>0 DEF Told, ToldTo, FailedOnes, storeVars
<1>10. Effect[c] = {}
  BY <1>4 DEF Effect
<1>. QED  BY <1>1, <1>6, <1>7, <1>8, <1>9, <1>10, PromiseTake

\* What becomes FAILED has no effect and was never told.
LEMMA FailedHasNothing ==
    ASSUME IndInv, [Next]_gwVars
    PROVE  /\ FailedOnes \subseteq FailedOnes'
           /\ \A c \in FailedOnes' : Effect[c] = {} /\ Told[c] = {}
<1>1. FailedOnes \subseteq FailedOnes'
  BY StoreInductive DEF StoreKeeps, FailedOnes
<1>2. ASSUME NEW c \in FailedOnes' PROVE ~disk[c].ref /\ c \in Commands
  BY <1>2, StoreInductive DEF FailedOnes, StoreKeeps, StoreGood, StoreInv
<1>3. ASSUME NEW c \in FailedOnes' PROVE EffectOf(c) = {} /\ ToldTo(c) = {}
  BY <1>2 DEF IndInv, AppliedReferenced, AckedRecorded, EffectOf, ToldTo
<1>. QED  BY <1>1, <1>2, <1>3 DEF Effect, Told

\* A client is never told another document of a command than before.
LEMMA SameAnswer ==
    ASSUME IndInv, SerialInv, AnswerInv, Payments = {} \/ MaxFaults = 0,
           NEW c \in Commands, NEW n \in Names, Answers(c, n)
    PROVE  /\ n \in AllEffects
           /\ Told[c] \subseteq {n}
           /\ Told' = [Told EXCEPT ![c] = {n}]
<1>. USE DEF IndInv, SerialInv
<1>1. AnswerFor(c, n)
  BY DEF Answers, AnswerInv, KnownOf
<1>2. n \in AllEffects
  <2>1. PICK d \in docs : d.write.part = "main" /\ d.name = n
    BY <1>1 DEF AnswerFor
  <2>2. d.write.cmd \in Commands
    BY DEF GatewayTypeOK, Document, Write
  <2>3. n \in EffectOf(d.write.cmd)
    BY <2>1 DEF EffectOf
  <2>. QED  BY <2>2, <2>3 DEF AllEffects, Effect
<1>3. ASSUME NEW a \in acked, a.cmd = c PROVE a.doc = n
  <2>1. AnswerFor(c, a.doc)
    BY <1>3 DEF AnswerInv
  <2>2. CASE Payments = {}
    <3>1. PICK r \in Requests, d \in docs :
             /\ r.cmd = c /\ d.write.part = "main" /\ d.name = n
             /\ d.write.prop = r.prop
      BY <1>1, <2>2 DEF AnswerFor
    <3>2. PICK s \in Requests, e \in docs :
             /\ s.cmd = c /\ e.write.part = "main" /\ e.name = a.doc
             /\ e.write.prop = s.prop
      BY <2>1, <2>2 DEF AnswerFor
    <3>3. d.write.prop = e.write.prop /\ d.write.prop \in OrderProposals
      BY <2>2, <3>1, <3>2, CardAssumption DEF CardAssumption, GatewayTypeOK, Document,
         Write, OrderProposals
    <3>4. d = e
      BY <3>1, <3>2, <3>3 DEF DocsInv, OneOrderPerProposal
    <3>. QED  BY <3>1, <3>2, <3>4
  <2>3. CASE MaxFaults = 0
    <3>1. InResult(cache[c], a.doc)
      BY <1>3, <2>3 DEF AnswerInv
    <3>. QED  BY <3>1 DEF Answers, InResult
  <2>. QED  BY <2>2, <2>3
<1>4. \A a \in acked' : a \in acked \/ (a.cmd = c /\ a.doc = n)
  BY DEF Answers
<1>5. acked \subseteq acked' /\ \E a \in acked' : a.cmd = c /\ a.doc = n
  <2>1. [cmd |-> c, doc |-> n] \in acked' /\ acked \subseteq acked'
    BY DEF Answers
  <2>. QED  BY <2>1
<1>6. ToldTo(c) \subseteq {n} /\ ToldTo(c)' = {n}
  BY <1>3, <1>4, <1>5 DEF ToldTo
<1>7. \A b \in Commands \ {c} : ToldTo(b)' = ToldTo(b)
  BY <1>4, <1>5 DEF ToldTo
<1>8. Told' = [Told EXCEPT ![c] = {n}]
  BY <1>6, <1>7 DEF Told
<1>9. Told[c] \subseteq {n}
  BY <1>6 DEF Told
<1>. QED  BY <1>2, <1>8, <1>9

\* A step that is not the insertion of a main document only declares.
LEMMA OthersDeclare ==
    ASSUME IndInv, SerialInv, AnswerInv, Payments = {} \/ MaxFaults = 0,
           [Next]_gwVars, ~LateWrites, \A h \in Handlers : ~ErpCreates(h)
    PROVE  Promise!Declare
<1>. USE DEF SerialInv
<1>1. UNCHANGED Effect
  <2>1. CASE docs' = docs
    BY <2>1 DEF Effect, EffectOf
  <2>2. ASSUME NEW h \in Handlers, ErpCreatesAdvance(h)
        PROVE  UNCHANGED Effect
    <3>1. docs' = docs \cup {[name |-> NextName, write |-> AdvanceWrite(h)]}
      BY <2>2 DEF ErpCreatesAdvance, Insert
    <3>2. AdvanceWrite(h).part = "advance"
      BY DEF AdvanceWrite, MainWrite
    <3>3. \A c \in Commands : EffectOf(c)' = EffectOf(c)
      BY <3>1, <3>2 DEF EffectOf
    <3>. QED  BY <3>3 DEF Effect
  <2>. QED  BY <2>1, <2>2, SiteSteps DEF DocsInv
<1>2. \E S \in SUBSET {c \in Commands : Effect[c] = {} /\ Told[c] = {}} :
         FailedOnes' = FailedOnes \cup S
  <2>1. FailedOnes' \in SUBSET {c \in Commands : Effect[c] = {} /\ Told[c] = {}}
    BY FailedHasNothing DEF FailedOnes
  <2>. QED  BY <2>1, FailedHasNothing
<1>3. UNCHANGED Told \/ \E c \in Commands \ FailedOnes' : Promise!Tell(c)
  <2>1. CASE UNCHANGED acked
    BY <2>1 DEF Told, ToldTo
  <2>2. ASSUME NEW c \in Commands, NEW n \in Names, Answers(c, n)
        PROVE  \E b \in Commands \ FailedOnes' : Promise!Tell(b)
    <3>1. disk'[c].status # "FAILED"
      <4>1. StoreGood' /\ cache'[c].status = "COMPLETED"
        BY <2>2, StoreInductive DEF Answers, InResult
      <4>. QED  BY <4>1 DEF StoreGood, StoreInv
    <3>2. c \notin FailedOnes' /\ c \notin FailedOnes
      BY <3>1, FailedHasNothing DEF FailedOnes
    <3>3. Promise!Tell(c)
      BY <2>2, <3>2, SameAnswer, PromiseTell
    <3>. QED  BY <3>2, <3>3
  <2>. QED  BY <2>1, <2>2, AnswersFrom
<1>. QED  BY <1>1, <1>2, <1>3, PromiseDeclare

LEMMA InitImplements == Init => AnswerInv /\ Promise!OnceInit
<1>. SUFFICES ASSUME Init PROVE AnswerInv /\ Promise!OnceInit
  OBVIOUS
<1>1. /\ \A h \in Handlers : pc[h] = "idle"
      /\ \A c \in Commands : cache[c].status = "UNKNOWN" /\ disk[c].status = "UNKNOWN"
      /\ docs = {} /\ acked = {} /\ faults = 0
  BY DEF Init, StoreInit, EmptyStore, NoRecord
<1>2. AnswerInv
  BY <1>1 DEF AnswerInv, Holding, KnownOf, InResult
<1>3. Promise!OnceInit
  BY <1>1 DEF Promise!OnceInit
<1>. QED  BY <1>2, <1>3

\* What a client sees of the write path is OnceOnlyWrite: one effect of a command,
\* one answer about it, and no failure of what had an effect.  For payments it
\* needs a disk that keeps what it is given: after a persist that threw, a command
\* can be answered from memory, forgotten by a crash and written again.
THEOREM ImplementsOnceOnlyWrite ==
    ASSUME ~Overlap, ~LateWrites, Payments = {} \/ MaxFaults = 0
    PROVE  Spec => Implements
<1>. DEFINE Inv == IndInv /\ SerialInv /\ AnswerInv
<1>1. Init => Inv /\ Promise!OnceInit
  BY InitInductive, InitSerial, InitImplements
<1>2. Inv /\ [Next]_gwVars => Inv'
  BY Inductive, SerialInductive, AnswerInductive
<1>3. Inv /\ [Next]_gwVars => [Promise!OnceNext]_Promise!onceVars
  <2>. SUFFICES ASSUME Inv, [Next]_gwVars PROVE Promise!OnceNext
    OBVIOUS
  <2>1. CASE \E h \in Handlers : ErpCreates(h)
    BY <2>1, CreateTakes DEF Promise!OnceNext
  <2>2. CASE \A h \in Handlers : ~ErpCreates(h)
    BY <2>2, OthersDeclare DEF Promise!OnceNext
  <2>. QED  BY <2>1, <2>2
<1>. QED  BY <1>1, <1>2, <1>3, PTL DEF Spec, Implements, Promise!OnceSpec
=============================================================================
