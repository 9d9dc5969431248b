---------------------------- MODULE SafetyGateway ---------------------------
(***************************************************************************)
(* The one write path of the project: POST /execute and POST               *)
(* /execute/cancel (http-ask.mjs), runExecute (safety-gateway.mjs), the    *)
(* executors it dispatches to (skills/*-write.mjs), the idempotency store  *)
(* (CommandStore) and the ERPNext site behind them.                        *)
(*                                                                         *)
(* Node runs one handler at a time between two awaits, so an action is the *)
(* code from one await to the next; `pc` names the await a handler is at.  *)
(* A handler ends (pc = "idle") by answering its client; an answer that    *)
(* changes nothing else (a refusal at a gate before begin()) is no step.   *)
(***************************************************************************)
EXTENDS CommandStore

CONSTANTS
    Handlers,     \* the requests the process can be serving at once (a bound)
    Requests,     \* what clients send to /execute: [cmd, user, prop]
    Payments,     \* the proposals of payment.create; the others are orders:
                  \* sales_order, quotation, delivery, ..., sales.create
    SubmitNow,    \* the payments with params.submit_now
    WithAdvance,  \* the sales.create / purchase_invoice.create proposals that
                  \* carry a payment method: invoice AND an advance payment
    Releasers,    \* the principals that may cancel a command of another one
    MayExpire,    \* proposals can outlive their TTL (assertFresh)
    Overlap,      \* a client may repeat a command that is still being served
    LateWrites    \* a write whose caller gave up may still be applied later

RequestSet == [cmd : Commands, user : Users, prop : Proposals]
OrderProposals == Proposals \ Payments

ASSUME GatewayAssumption ==
    /\ Requests \subseteq RequestSet
    /\ Payments \subseteq Proposals
    /\ SubmitNow \subseteq Payments
    /\ WithAdvance \subseteq OrderProposals
    /\ Releasers \subseteq Users
    /\ None \notin Commands \cup Proposals
    /\ {MayExpire, Overlap, LateWrites} \subseteq BOOLEAN

\* The app pins the command id to the card, hence to the proposal
\* (proposal_card.dart): a command of an order is only ever sent with it.
ASSUME CardAssumption ==
    \A r, s \in Requests :
        r.cmd = s.cmd /\ r.prop \notin Payments => r.prop = s.prop

VARIABLES
    pc,        \* [Handlers -> the await the handler is at]
    req,       \* [Handlers -> the request it serves]
    seen,      \* [Handlers -> the document it read or wrote, or None: its name
               \* and whether it was submitted when it was last looked at]
    docs,      \* the documents these commands left on the ERPNext site
    submitted, \* the names of the submitted ones (docstatus 1)
    late,      \* writes whose caller gave up, not applied yet
    expired,   \* the proposals older than the TTL
    acked,     \* the ok: true answers some client got, [cmd, doc] (history)
    retryTold  \* commands answered 503 retry_same_command_id (history)

erpVars == <<docs, submitted, late>>
tellVars == <<acked, retryTold>>
gwVars == <<storeVars, pc, req, seen, erpVars, expired, tellVars>>

-----------------------------------------------------------------------------
\* A document carries the command (reference_no of a Payment Entry) and the
\* proposal's action id (custom_ai_action_id).  The "advance" part is the
\* second document of a sale: its reference is "<command>:advance" and its
\* action id is fresh, so that no lookup of the command ever returns it.
Write == [cmd : Commands, prop : Proposals, part : {"main", "advance"}]
Document == [name : Names, write : Write]

\* What a client is told of a command that is done.
Answer == [cmd : Commands, doc : Names]

NoRequest == [cmd |-> None, user |-> None, prop |-> None]

\* reopen, reconcile, found: the resumed branch;  open, probe, check: before
\* the write;  create, created: the first document was sent / has landed;
\* submit, submitted and advance, advanced: likewise for what follows it;
\* cancel, cancelling: the cancel endpoint before and after its lookup.
Pcs == {"idle", "reopen", "reconcile", "found", "open", "probe", "check",
        "create", "created", "submit", "submitted", "advance", "advanced",
        "cancel", "cancelling"}

TypeOK ==
    /\ StoreTypeOK
    /\ pc \in [Handlers -> Pcs]
    /\ req \in [Handlers -> RequestSet \cup {NoRequest}
                            \cup [cmd : Commands, user : Users, prop : {None}]]
    /\ seen \in [Handlers -> Results \cup {None}]
    /\ docs \subseteq Document
    /\ submitted \subseteq Names
    /\ late \subseteq Write
    /\ expired \subseteq Proposals
    /\ acked \subseteq Answer
    /\ retryTold \subseteq Commands

Init ==
    /\ StoreInit
    /\ pc = [h \in Handlers |-> "idle"]
    /\ req = [h \in Handlers |-> NoRequest]
    /\ seen = [h \in Handlers |-> None]
    /\ docs = {} /\ submitted = {} /\ late = {}
    /\ expired = {}
    /\ acked = {} /\ retryTold = {}

-----------------------------------------------------------------------------
\* ERPNext's naming series: a name no document has yet.
FreeNames == {n \in Names : \A d \in docs : d.name # n}
NextName == CHOOSE n \in FreeNames : TRUE

\* ERPNext inserts the document of a write, as a draft.
Insert(w) ==
    /\ FreeNames # {}
    /\ docs' = docs \cup {[name |-> NextName, write |-> w]}

MainWrite(h) == [cmd |-> req[h].cmd, prop |-> req[h].prop, part |-> "main"]
AdvanceWrite(h) == [MainWrite(h) EXCEPT !.part = "advance"]

\* reconcilePaymentEntry: the Payment Entries whose reference_no is the command
\* come first; those whose correlation field is the action id of the proposal
\* count when there is none.
PaymentEntries == {d \in docs : d.write.part = "main" /\ d.write.prop \in Payments}
ByReference(c) == {d \in PaymentEntries : d.write.cmd = c}

PaymentMatches(c, p) ==
    IF ByReference(c) # {} THEN ByReference(c)
                           ELSE {d \in PaymentEntries : d.write.prop = p}

\* reconcileSalesOrder, reconcileSalesDraft and their like: the action id only.
OrderMatches(p) ==
    {d \in docs : d.write.part = "main" /\ d.write.prop = p}

Matches(r) ==
    IF r.prop \in Payments THEN PaymentMatches(r.cmd, r.prop)
                           ELSE OrderMatches(r.prop)

-----------------------------------------------------------------------------
\* The handler moves to its next await.
Goto(h, next) == pc' = [pc EXCEPT ![h] = next] /\ UNCHANGED req

\* The handler answers and ends.
Done(h) ==
    /\ pc' = [pc EXCEPT ![h] = "idle"]
    /\ req' = [req EXCEPT ![h] = NoRequest]
    /\ seen' = [seen EXCEPT ![h] = None]

TellRetry(h) == retryTold' = retryTold \cup {req[h].cmd} /\ UNCHANGED acked
TellOk(c, res) ==
    acked' = acked \cup {[cmd |-> c, doc |-> res.doc]} /\ UNCHANGED retryTold

\* A free handler takes a request of command c.  Without Overlap the client
\* waits for the answer (or for the process to die) before it repeats itself.
Serves(h, c) ==
    /\ pc[h] = "idle"
    /\ ~Overlap => \A g \in Handlers : pc[g] # "idle" => req[g].cmd # c

-----------------------------------------------------------------------------
(* POST /execute up to begin().  Freshness is a gate; the kill switch, the  *)
(* rate limiter and the authorization are gates too, and a request they     *)
(* refuse is a request that has no effect.                                  *)

\* begin() answers {replay}: 200 with the stored result.
Replay(h, r) ==
    /\ Serves(h, r.cmd)
    /\ r.prop \notin expired
    /\ Replays(r.cmd, r.user)
    /\ TellOk(r.cmd, cache[r.cmd].result)
    /\ UNCHANGED <<storeVars, pc, req, seen, erpVars, expired>>

\* Broken: a resumed command without a reference goes on to write as well.
BeginAnyway(h, r) ==
    /\ Serves(h, r.cmd)
    /\ r.prop \notin expired
    /\ Begin(r.cmd, r.user, r.prop, TRUE)
    /\ pc' = [pc EXCEPT ![h] = IF cache[r.cmd].ref THEN "reopen" ELSE "open"]
    /\ req' = [req EXCEPT ![h] = r]
    /\ UNCHANGED <<seen, erpVars, expired, tellVars>>

\* begin() takes the command.  A new one goes on to the write; one that was in
\* flight before must be reconciled first, and is refused (409, a human must
\* look) when no reference was recorded.
BeginExecute(h, r) ==
    /\ Serves(h, r.cmd)
    /\ r.prop \notin expired
    /\ Begin(r.cmd, r.user, r.prop, TRUE)
    /\ \/ /\ ~Resumed(r.cmd)
          /\ pc' = [pc EXCEPT ![h] = "open"]
          /\ req' = [req EXCEPT ![h] = r]
       \/ /\ Resumed(r.cmd) /\ cache[r.cmd].ref
          /\ pc' = [pc EXCEPT ![h] = "reopen"]
          /\ req' = [req EXCEPT ![h] = r]
       \/ /\ Resumed(r.cmd) /\ ~cache[r.cmd].ref
          /\ UNCHANGED <<pc, req>>
    /\ UNCHANGED <<seen, erpVars, expired, tellVars>>

\* The persist inside begin() throws: 409, with the command PENDING in memory.
BeginNotPersisted(h, r) ==
    /\ Serves(h, r.cmd)
    /\ r.prop \notin expired
    /\ Begin(r.cmd, r.user, r.prop, FALSE)
    /\ UNCHANGED <<pc, req, seen, erpVars, expired, tellVars>>

-----------------------------------------------------------------------------
(* The resumed branch: reconcile before any write.                          *)

\* openClientOrRefuse: the client does not open, 503 retry_same_command_id.
ClientUnavailable(h) ==
    /\ pc[h] \in {"reopen", "open"}
    /\ Done(h) /\ TellRetry(h)
    /\ UNCHANGED <<storeVars, erpVars, expired>>

ClientOpens(h) ==
    /\ pc[h] \in {"reopen", "open"}
    /\ Goto(h, IF pc[h] = "reopen" THEN "reconcile"
               ELSE IF req[h].prop \in Payments THEN "check" ELSE "probe")
    /\ UNCHANGED <<storeVars, seen, erpVars, expired, tellVars>>

ReconcileFinds(h) ==
    /\ pc[h] = "reconcile"
    /\ \E d \in Matches(req[h]) :
        seen' = [seen EXCEPT ![h] = [doc       |-> d.name,
                                     submitted |-> d.name \in submitted]]
    /\ Goto(h, "found")
    /\ UNCHANGED <<storeVars, erpVars, expired, tellVars>>

\* Nothing found: the earlier attempt never landed, go on and write.  The second
\* lookup of a payment, by action id, may fail unnoticed (the site may not have
\* the field), so that only the one by reference counts.
ReconcileFindsNone(h) ==
    /\ pc[h] = "reconcile"
    /\ IF req[h].prop \in Payments THEN ByReference(req[h].cmd) = {}
                                   ELSE OrderMatches(req[h].prop) = {}
    /\ Goto(h, "open")
    /\ UNCHANGED <<storeVars, seen, erpVars, expired, tellVars>>

\* Broken: every lookup that fails counts as "not found".
ReconcileFailsOpen(h) ==
    /\ pc[h] = "reconcile"
    /\ Goto(h, "open")
    /\ UNCHANGED <<storeVars, seen, erpVars, expired, tellVars>>

\* The lookup fails: a payment is refused (503, not retryable); the lookups of
\* the orders swallow the error and answer "not found".
ReconcileFails(h) ==
    /\ pc[h] = "reconcile"
    /\ IF req[h].prop \in Payments THEN Done(h)
                                   ELSE Goto(h, "open") /\ UNCHANGED seen
    /\ UNCHANGED <<storeVars, erpVars, expired, tellVars>>

\* resultFromReconcile: the command is completed with the found document, as
\* submitted if the lookup saw it submitted.
CompleteFound(h) ==
    /\ pc[h] = "found"
    /\ \E ok \in BOOLEAN :
        /\ Complete(req[h].cmd, seen[h], ok)
        /\ IF ok THEN TellOk(req[h].cmd, seen[h]) ELSE UNCHANGED tellVars
    /\ Done(h)
    /\ UNCHANGED <<erpVars, expired>>

-----------------------------------------------------------------------------
(* The executors.                                                           *)

\* Broken: the catch block fails the command whatever was sent.
RefuseFails(h) ==
    /\ Done(h)
    /\ \E ok \in BOOLEAN : Fail(req[h].cmd, ok)
    /\ UNCHANGED tellVars

\* The catch block of runExecute.  Once a reference is recorded the write may
\* have happened: the command stays PENDING and the client is told to retry.
\* Before that nothing was sent: the command is FAILED.
Refuse(h) ==
    /\ Done(h)
    /\ IF cache[req[h].cmd].ref
       THEN UNCHANGED storeVars /\ TellRetry(h)
       ELSE /\ \E ok \in BOOLEAN : Fail(req[h].cmd, ok)
            /\ UNCHANGED tellVars

\* Broken: an executor without the probe for its own action id.
ProbeSkipped(h) ==
    /\ pc[h] = "probe"
    /\ Goto(h, "check")
    /\ UNCHANGED <<storeVars, seen, erpVars, expired, tellVars>>

\* An order first looks its own action id up: a document means that this
\* proposal was written before (.._DUPLICATE_ACTION).
ProbeFindsNone(h) ==
    /\ pc[h] = "probe"
    /\ OrderMatches(req[h].prop) = {}
    /\ Goto(h, "check")
    /\ UNCHANGED <<storeVars, seen, erpVars, expired, tellVars>>

ProbeRefuses(h) ==
    /\ pc[h] = "probe"
    /\ Refuse(h)
    /\ UNCHANGED <<erpVars, expired>>

\* The live re-reads: drifted (PROPOSAL_STALE), invalid, or ERPNext is down.
CheckRefuses(h) ==
    /\ pc[h] = "check"
    /\ Refuse(h)
    /\ UNCHANGED <<erpVars, expired>>

\* Broken: the create is sent even if the reference could not be persisted.
SendRegardless(h) ==
    /\ pc[h] = "check"
    /\ \E ok \in BOOLEAN : SetReference(req[h].cmd, ok)
    /\ Goto(h, "create")
    /\ UNCHANGED <<seen, tellVars, erpVars, expired>>

\* The checks hold: record the reference, then send the create.  If the record
\* cannot be persisted setReference throws and nothing is sent.
SendCreate(h) ==
    /\ pc[h] = "check"
    /\ \/ /\ SetReference(req[h].cmd, TRUE)
          /\ Goto(h, "create")
          /\ UNCHANGED <<seen, tellVars>>
       \/ /\ SetReference(req[h].cmd, FALSE)
          /\ Done(h) /\ TellRetry(h)
    /\ UNCHANGED <<erpVars, expired>>

\* ERPNext inserts the document (a draft), the answer is on its way.
ErpCreates(h) ==
    /\ pc[h] = "create"
    /\ Insert(MainWrite(h))
    /\ seen' = [seen EXCEPT ![h] = [doc |-> NextName, submitted |-> FALSE]]
    /\ Goto(h, "created")
    /\ UNCHANGED <<storeVars, submitted, late, expired, tellVars>>

\* The create, the submit or the advance was rejected, its answer was lost, or
\* the read-back did not verify it: 503 retry_same_command_id.  A write that
\* had not been applied can still be applied later.
WriteUnverified(h) ==
    /\ pc[h] \in {"create", "created", "submit", "submitted",
                  "advance", "advanced"}
    /\ Refuse(h)
    /\ \/ UNCHANGED late
       \/ LateWrites /\ pc[h] = "create" /\ late' = late \cup {MainWrite(h)}
       \/ LateWrites /\ pc[h] = "advance" /\ late' = late \cup {AdvanceWrite(h)}
    /\ UNCHANGED <<docs, submitted, expired>>

\* The document was read back: submit it, write the advance payment, or finish.
NextWrite(h) ==
    /\ pc[h] = "created"
    /\ \/ req[h].prop \in SubmitNow /\ Goto(h, "submit")
       \/ req[h].prop \in WithAdvance /\ Goto(h, "advance")
    /\ UNCHANGED <<storeVars, seen, erpVars, expired, tellVars>>

ErpSubmits(h) ==
    /\ pc[h] = "submit"
    /\ submitted' = submitted \cup {seen[h].doc}
    /\ seen' = [seen EXCEPT ![h].submitted = TRUE]
    /\ Goto(h, "submitted")
    /\ UNCHANGED <<storeVars, docs, late, expired, tellVars>>

ErpCreatesAdvance(h) ==
    /\ pc[h] = "advance"
    /\ Insert(AdvanceWrite(h))
    /\ Goto(h, "advanced")
    /\ UNCHANGED <<storeVars, seen, submitted, late, expired, tellVars>>

\* Everything was read back: complete() and answer 200.  If complete() cannot
\* persist it throws into the catch block, which finds the reference.
Finish(h) ==
    /\ \/ pc[h] = "created" /\ req[h].prop \notin SubmitNow \cup WithAdvance
       \/ pc[h] \in {"submitted", "advanced"}
    /\ \E ok \in BOOLEAN :
        /\ Complete(req[h].cmd, seen[h], ok)
        /\ IF ok THEN TellOk(req[h].cmd, seen[h]) ELSE TellRetry(h)
    /\ Done(h)
    /\ UNCHANGED <<erpVars, expired>>

-----------------------------------------------------------------------------
(* POST /execute/cancel.  Every early return leaves the state alone.        *)

\* Broken: the endpoint that does not ask for a recorded reference.
CancelUntraced(h, c, u) ==
    /\ Serves(h, c)
    /\ cache[c].status = "PENDING"
    /\ cache[c].user = u \/ u \in Releasers
    /\ pc' = [pc EXCEPT ![h] = "cancel"]
    /\ req' = [req EXCEPT ![h] = [cmd |-> c, user |-> u, prop |-> None]]
    /\ UNCHANGED <<storeVars, seen, erpVars, expired, tellVars>>

CancelRequest(h, c, u) ==
    /\ Serves(h, c)
    /\ cache[c].status = "PENDING"
    /\ cache[c].user = u \/ u \in Releasers
    /\ cache[c].ref
    /\ pc' = [pc EXCEPT ![h] = "cancel"]
    /\ req' = [req EXCEPT ![h] = [cmd |-> c, user |-> u, prop |-> None]]
    /\ UNCHANGED <<storeVars, seen, erpVars, expired, tellVars>>

\* Broken: a cancel that does not look at ERPNext.
CancelUnproved(h) ==
    /\ pc[h] = "cancel"
    /\ Goto(h, "cancelling")
    /\ UNCHANGED <<storeVars, seen, erpVars, expired, tellVars>>

\* The proof that nothing landed is always a Payment Entry lookup by reference.
CancelFindsNone(h) ==
    /\ pc[h] = "cancel"
    /\ ByReference(req[h].cmd) = {}
    /\ Goto(h, "cancelling")
    /\ UNCHANGED <<storeVars, seen, erpVars, expired, tellVars>>

\* A document exists (409) or the lookup failed (503): never cancel.
CancelRefused(h) ==
    /\ pc[h] = "cancel"
    /\ Done(h)
    /\ UNCHANGED <<storeVars, erpVars, expired, tellVars>>

\* cancel() refuses a command that is no longer PENDING (409).
CancelApplies(h) ==
    /\ pc[h] = "cancelling"
    /\ \/ \E ok \in BOOLEAN : Cancel(req[h].cmd, ok)
       \/ cache[req[h].cmd].status # "PENDING" /\ UNCHANGED storeVars
    /\ Done(h)
    /\ UNCHANGED <<erpVars, expired, tellVars>>

-----------------------------------------------------------------------------
(* The environment.                                                         *)

\* The gateway process dies and is started again on the stored file.  Writes on
\* their way to ERPNext are lost or, with LateWrites, still to be applied.
InFlightWrites ==
    {MainWrite(h) : h \in {g \in Handlers : pc[g] = "create"}}
    \cup {AdvanceWrite(h) : h \in {g \in Handlers : pc[g] = "advance"}}

Crash ==
    /\ Reload
    /\ pc' = [h \in Handlers |-> "idle"]
    /\ req' = [h \in Handlers |-> NoRequest]
    /\ seen' = [h \in Handlers |-> None]
    /\ late' \in IF LateWrites
                 THEN {late \cup lost : lost \in SUBSET InFlightWrites}
                 ELSE {late}
    /\ UNCHANGED <<docs, submitted, expired, tellVars>>

\* ERPNext applies a write nobody waits for any more.
ErpCreatesLate ==
    \E w \in late :
        /\ Insert(w)
        /\ late' = late \ {w}
        /\ UNCHANGED <<storeVars, pc, req, seen, submitted, expired, tellVars>>

\* A proposal reaches its TTL.
Expire ==
    /\ MayExpire
    /\ \E p \in Proposals \ expired : expired' = expired \cup {p}
    /\ UNCHANGED <<storeVars, pc, req, seen, erpVars, tellVars>>

-----------------------------------------------------------------------------
\* What a handler does after its request was taken.
Step(h) ==
    \/ ClientUnavailable(h) \/ ClientOpens(h)
    \/ ReconcileFinds(h) \/ ReconcileFindsNone(h) \/ ReconcileFails(h)
    \/ CompleteFound(h)
    \/ ProbeFindsNone(h) \/ ProbeRefuses(h)
    \/ CheckRefuses(h) \/ SendCreate(h)
    \/ ErpCreates(h) \/ WriteUnverified(h) \/ NextWrite(h)
    \/ ErpSubmits(h) \/ ErpCreatesAdvance(h) \/ Finish(h)
    \/ CancelFindsNone(h) \/ CancelRefused(h) \/ CancelApplies(h)

Execute(h, r) == Replay(h, r) \/ BeginExecute(h, r) \/ BeginNotPersisted(h, r)

Next ==
    \/ \E h \in Handlers, r \in Requests : Execute(h, r)
    \/ \E h \in Handlers, c \in Commands, u \in Users : CancelRequest(h, c, u)
    \/ \E h \in Handlers : Step(h)
    \/ Crash \/ ErpCreatesLate \/ Expire

Spec == Init /\ [][Next]_gwVars

-----------------------------------------------------------------------------
(* Safety.  The first group holds whatever the clients, the process and the *)
(* network do: overlapping repeats of a command, writes that land after     *)
(* their caller gave up, crashes, persists that throw.                      *)

\* The writes that ERPNext has applied, is about to or may still apply.
Sent == {d.write : d \in docs} \cup late \cup InFlightWrites

\* No write leaves the gateway before its reference is on disk, so that every
\* document a restart finds can be reconciled (setReference before the create,
\* in every executor), and the reference is never lost again.
WriteAheadReference ==
    \A w \in Sent : disk[w.cmd].ref

\* A command recorded FAILED never wrote and never will: fail() is only reached
\* before the reference is recorded, however the handlers of one command
\* interleave.  It is what makes a new command_id safe after a failure.
FailedNeverWrote ==
    \A c \in Commands :
        "FAILED" \in {cache[c].status, disk[c].status} =>
            \A w \in Sent : w.cmd # c

\* What the store has recorded as COMPLETED or FAILED stays so, although
\* complete() and fail() do not look at the status they overwrite.
SettledIsFinal ==
    [][\A c \in Commands :
        disk[c].status \in {"COMPLETED", "FAILED"} =>
            disk'[c].status = disk[c].status]_gwVars

\* A stored command keeps its owner and its reference for good, through every
\* resume, cancel and restart ("never drop fields it holds").
OwnerAndReferenceKept ==
    [][\A c \in Commands :
        /\ disk[c].user # None => disk'[c].user = disk[c].user
        /\ disk[c].ref => disk'[c].ref]_gwVars

\* A client that was told "done" is never contradicted: its command can still be
\* reconciled from the disk and never turns FAILED, and as long as every persist
\* succeeded it is stored COMPLETED.  (After a persist that threw, the answer may
\* come from memory only; a restart then finds the command PENDING.)
AckedIsDurable ==
    \A a \in acked :
        /\ disk[a.cmd].ref
        /\ disk[a.cmd].status # "FAILED"
        /\ faults = 0 => disk[a.cmd].status = "COMPLETED"

\* A command that wrote, or may have, is never locked out: when its client sends
\* what was confirmed again, begin() replays the result, or resumes it with the
\* reference that the reconcile needs.  Neither the catch block, a crash, a persist
\* that threw nor another command of the same intent gets in between.
SentIsNotRefused ==
    \A w \in Sent, r \in Requests :
        (/\ r.cmd = w.cmd /\ r.user = cache[r.cmd].user
         /\ cache[r.cmd].status # "CANCELLED"
         /\ cache[r.cmd].fingerprint = FingerprintOf[r.prop]
         /\ cache[r.cmd].intent = IntentOf[r.prop])
        => \/ Replays(r.cmd, r.user)
           \/ Accepts(r.cmd, r.user, r.prop) /\ cache[r.cmd].ref

\* The second group needs a client that waits for an answer (~Overlap) and
\* writes that are lost when their caller is (~LateWrites).

\* The documents that are the work the record of a command was confirmed for.
WorkOf(rec) ==
    {d \in docs : /\ d.write.part = "main"
                  /\ FingerprintOf[d.write.prop] = rec.fingerprint}

\* The stored result, returned for ever after, names a document of the work the
\* command was confirmed for and tells truly whether it is submitted.
ResultTruthful ==
    \A c \in Commands :
        cache[c].status = "COMPLETED" =>
            \E d \in WorkOf(cache[c]) :
                /\ d.name = cache[c].result.doc
                /\ cache[c].result.submitted <=> d.name \in submitted

\* A command writes one document of each part, through every retry, resume and
\* restart.
OneDocument ==
    \A d, e \in docs :
        d.write.cmd = e.write.cmd /\ d.write.part = e.write.part => d = e

\* A confirmed order becomes one document, even under two command ids: the probe
\* of the executor finds what another command wrote.
OneOrderPerProposal ==
    \A d, e \in docs :
        /\ d.write.prop \in OrderProposals
        /\ d.write.prop = e.write.prop
        /\ d.write.part = e.write.part
        => d = e

\* Two requests are never both on their way to a write for one intent.
WritingPcs == {"open", "probe", "check", "create", "created", "submit",
               "submitted", "advance", "advanced"}

IntentExclusive ==
    \A g, h \in Handlers :
        /\ pc[g] \in WritingPcs /\ pc[h] \in WritingPcs
        /\ IntentOf[req[g].prop] = IntentOf[req[h].prop]
        => g = h

\* A payment recorded CANCELLED left no document behind.
CancelledWroteNothing(c) ==
    disk[c].status = "CANCELLED" => \A w \in Sent : w.cmd # c

CancelledPaymentWroteNothing ==
    \A c \in Commands :
        (\A r \in Requests : r.cmd = c => r.prop \in Payments)
            => CancelledWroteNothing(c)

-----------------------------------------------------------------------------
(* The abstract specification and liveness.                                 *)

\* What a client can see of the gateway: documents, answers, failures.
Promise == INSTANCE OnceOnlyWrite WITH
    effect <- [c \in Commands |->
                {d.name : d \in {e \in docs : /\ e.write.part = "main"
                                              /\ e.write.cmd = c}}],
    told <- [c \in Commands |-> {a.doc : a \in {b \in acked : b.cmd = c}}],
    failed <- {c \in Commands : disk[c].status = "FAILED"}

\* The write path takes the effect of a command once, answers with it, and
\* declares nothing failed that has an effect.
Implements == Promise!OnceSpec

\* What outlives the process: the stored records, the documents, the answers.
Life == INSTANCE CommandLife WITH
    record <- [c \in Commands |-> [status |-> disk[c].status, user |-> disk[c].user,
                                  ref |-> disk[c].ref]],
    documents <- {[name |-> d.name, cmd |-> d.write.cmd] : d \in docs},
    told <- acked,
    flawless <- (faults = 0)

\* Overlapping requests, crashes, persists that throw and late writes undo no
\* stored outcome, owner or reference, leave no document without a reference on
\* disk, and no answer without a document.
Outlives == Life!LifeSpec

\* A handler that took a request goes on; a client repeats its request until it
\* is done (the app keeps command and card, the retry button resends them); and
\* ERPNext and the disk are not down for ever.
Fairness ==
    /\ \A h \in Handlers :
        /\ WF_gwVars(Step(h))
        /\ SF_gwVars(ClientOpens(h))
        /\ SF_gwVars(ReconcileFinds(h))
        /\ SF_gwVars(CompleteFound(h))
    /\ \A r \in Requests : SF_gwVars(\E h \in Handlers : Execute(h, r))

LiveSpec == Spec /\ Fairness

\* A payment that landed is found: however often the process dies between the
\* write and complete(), the retries end with the command COMPLETED.
LandedIsCompleted ==
    \A c \in Commands :
        (\E d \in docs : d.write.cmd = c)
            ~> cache[c].status = "COMPLETED"

-----------------------------------------------------------------------------
(* What the comments and tests of the repository say and the code does not  *)
(* do; each is refuted by a run of its own.  So is OneDocument, once a      *)
(* client overlaps its own request.                                         *)

\* "retry the SAME command_id" (safety-gateway.mjs:926): a client told to retry
\* can have its command reconciled.  A pending command without a reference is
\* refused for ever: no retry resumes it and the cancel endpoint turns it away.
RetryCanResume ==
    \A c \in retryTold :
        cache[c].status = "PENDING" => cache[c].ref

\* "a write that DID land must never be cancelled" (idempotency.mjs:252), said
\* of every command and not of payments only.
CancelledCommandWroteNothing ==
    \A c \in Commands : CancelledWroteNothing(c)

\* "when the proposal carries a payment method, the SAME command ALSO writes
\* ONE advance Payment Entry" (sales-write.mjs:552).
AdvanceHonoured ==
    \A a \in acked :
        (\E r \in Requests : r.cmd = a.cmd /\ r.prop \in WithAdvance)
            => \E d \in docs : d.write.cmd = a.cmd /\ d.write.part = "advance"
=============================================================================
