# Verification of the ERPNext voice copilot

TLA+ models, TLC runs and TLAPS proofs for `erpn_mobile1`: a Vietnamese voice
copilot that reads a shop's ERPNext site and, after a person confirmed a card,
writes to it. Three questions are asked of it.

- **Once.** A confirmed command is written once, whatever retries, crashes and
  lost answers do: `CommandStore`, `SafetyGateway`, `JobQueue`.
- **As confirmed.** What is written is what the card showed, at a price of the
  moment, and draws on no debt, order or shelf twice, while other people work on
  the same site: the modules of `MCShop`.
- **As meant.** The card is about the party the user meant, the figures are of the
  right company, and nothing between the thumb and the skills (app, meter, tickets,
  agent, child process) mixes up, loses or repeats: the modules of `MCFront`.

Paths below are relative to the repository; `src/…` alone means
`mcp-erpnext/src/…`.

## 1. The system

```
 Flutter app ── HTTP ──> http-ask.mjs (gateway process, Node)
  card + command_id        │  /ask ......... NLP service (Python), copilot-server, read skills
                           │  /execute ..... safety-gateway ── skills/*-write ── client.mjs ── MCP child ── ERPNext
                           │  /execute/cancel      │
                           │                 idempotency.mjs (commands.json)
                           └─ job runner ── job-queue.mjs (jobs.jsonl) ── safety-gateway
```

| Component | State | Operations | Hard parts | Correct when |
|---|---|---|---|---|
| Idempotency store `idempotency.mjs` | a cached record per command, the whole cache in `commands.json` | begin, setReference, complete, fail, cancel, load | memory changes before the persist, which may throw; restart | one PENDING command per intent; owner and reference never lost; settled is final |
| Safety Gateway `safety-gateway.mjs` | none of its own between awaits | `runExecute`: gates, begin, reconcile, execute, classify the failure | every await lets other requests run; the answer of a write may be lost | one command, one document; what a client is told is true |
| Write executors `skills/*-write.mjs` | none | probe, re-read, setReference, create, verify, submit / advance, complete | crash between any two; two documents in one command | reference on disk before any write |
| HTTP endpoints `http-ask.mjs` | the store, the queue, the limiter | `/execute`, `/execute/cancel`, `/jobs`, `startJobRunner`, `main` | a status read before an await and used after it; wiring | a cancelled command wrote nothing; a parked intent settles |
| Job queue `job-queue.mjs` | a Map of jobs, append-only `jobs.jsonl` | enqueue, release, drain, load | drain's snapshot against release; crash in an attempt; failing append | nothing stranded, retries bounded, outcome final |
| MCP client `client.mjs` | requests by id, a child process | request, callWriteTool, close | no timeout; exit against answer | every request ends |
| Draft cover `payment-write.mjs:1641-1664` | open drafts on the site | re-derive, refuse | read, then write, concurrently | receipts never exceed the debt |
| Rate limiter `rate-limit.mjs` | windows by key | chargeUser, chargeCapability, prune | window boundary, doors that share a bucket | the bound per window |
| Business handoff `business-handoff.mjs` | tickets by id, with TTL | put, read | expiry, another screen, another conversation | a screen builds cards with its own ticket only |
| Authorization, company scope, kill switch | configuration | authorize, resolveReadCompany | the site's Default Company changes between requests | figures of a permitted company |
| Question answering `copilot-server.mjs`, `entity-resolution.mjs` | none between awaits | answerQuestion | lists read one after the other while people change them | a card names the party that was meant |
| Read skills `ops-summary.mjs`, `read-views.mjs` | none | day summary, drill-downs, lists | pages that are cut, blocks that fail alone | a total is whole or says that it is not |
| DSH gateway `dsh-gateway.mjs` | slots, a promise chain per conversation, session memory | ask, lock, kill on timeout, touch | chains and counters through failures; eviction | one child per conversation; no turn lost |
| Flutter app `apps/mobile` | turns, stored history, cards, three forms | ask, confirm, retry, clear, edit, propose | answers to superseded requests, restart | a card keeps one command id for life |
| Session context, dedup ledger | entities by scope; a ledger | set, clear; record | none: nothing reads them | (section 6) |
| Execution states `execution-state.mjs` | a transition table | canTransition | used by tests only | (section 6) |
| NLP service, router, classifier, units, OCR, e-invoice | none | text in, data out | data only | not a matter for a state machine |

`PROJECT.json` lists every component with its status, and under `hazards` the
places in the code where an order of events, a crash, a retry or a limit can bite.

## 2. The modules

| Module | Models |
|---|---|
| `CommandStore` | `IdempotencyStore`: what is in memory, what is on disk, what each method does when its persist throws |
| `SafetyGateway` | `/execute`, `/execute/cancel`, `runExecute`, the common protocol of the twelve executors, and ERPNext; extends `CommandStore` |
| `OnceOnlyWrite` | abstract: what the write path promises a client that waits |
| `CommandLife` | abstract: what it promises with nothing assumed of clients, disk or site |
| `JobQueue` | the queue objects, their file, the runner |
| `JobLife` | abstract: the life of a parked write |
| `Fulfilment` | deliveries, purchase receipts, invoices and returns: the four skills that draw goods from a document of the site |
| `Payments` | payments and the collect screen's card: debts, drafts that promise money, advances |
| `MoneyAccount` | direction, channel, Mode of Payment and ledger account of a payment |
| `Drafting` | quotations, sales and purchase orders, sales and purchases with an advance: prices, units, imported bills |
| `StockIssue` | stock written off |
| `NewCustomer` | a record of the customer master |
| `Asking` | `answerQuestion`, the resolution of a party, tickets to the screens and the cards those ask for |
| `Frontdoor` | the routes: meter, permission, company, kill switch, and the figures of the read routes |
| `DshGateway` | a turn with the DSH agent: lock, slots, child, session memory |
| `McpClient` | the JSON-RPC client of one child process |
| `Phone` | the app: chat, card, sales, purchase and collect screens |
| `MCSafetyGateway`, `MCJobQueue`, `MCShop`, `MCFront` | instances for TLC; the last two compose the modules above them |
| `CommandStore_proofs`, `SafetyGateway_proofs`, `JobQueue_proofs`, `DshGateway_proofs`, `McpClient_proofs` | theorems about the module of that name |
| `SerialGateway_proofs` | theorems about `SafetyGateway` with clients that wait and writes that die with their caller, and its refinement of `OnceOnlyWrite` |
| `Shop_proofs` | theorems about the six modules of `MCShop`, about sums over finite sets, and about `MCShop` itself |
| `Front_proofs` | theorems about `Asking`, `Frontdoor` and `Phone`, and about `MCFront` |

Operators whose comment begins with "Broken:" are deliberate mistakes. No
specification uses them; put in place of the definition that follows them, each
makes one property of one run fail. They show that the property depends on that
piece of the code.

### CommandStore

`cache` is `_cache`, `disk` is `commands.json`. Every method is a record change
followed by `_persist`, written `Put(c, rec, ok)`: the change always reaches the
cache, and the disk gets the whole cache if `ok`. That is the code's order, and it
matters: a persist that throws leaves a change in memory that the next successful
persist of another command writes after all. `begin` is split into its gates:
`Foreign`, `Replays`, `Accepts` (status, fingerprint, intent) and `Begun` (the
record it writes). `reference_no` is a Boolean, as every executor sets it to the
command id. `Fingerprint` and `Intent` are values; which proposals share one is a
constant.

### SafetyGateway

Node runs a handler without interruption from one `await` to the next. An action
is that stretch, and `pc[h]` names the await handler `h` is at:

| pc | await | code |
|---|---|---|
| `open`, `reopen` | the MCP client starts | `openClientOrRefuse`, safety-gateway.mjs:928 |
| `reconcile`, `found` | lookup sent / answered | `executor.reconcile`, :813 |
| `probe` | an order looks its own action id up | e.g. sales-order-write.mjs:446 |
| `check` | the live re-reads, up to setReference | payment-write.mjs:1475-1890 |
| `create`, `created` | create sent / applied by ERPNext | :1935, read-back :1949 |
| `submit`, `submitted` | `submit_now` payments | :2024, read-back :2059 |
| `advance`, `advanced` | second document of a sale or purchase | sales-write.mjs:793-849 |
| `cancel`, `cancelling` | the cancel endpoint's lookup | http-ask.mjs:828 |

A call to ERPNext is two steps (sent, applied), so that a crash, a lost answer or
another request fits between them. `WriteUnverified` is every way in which a write
ends without proof: rejected, lost, or read back wrong. `Refuse` is the catch block
of `runExecute`, which decides between PENDING with a retry and FAILED by whether a
reference was recorded. `docs` are the documents on the site, each labelled with
the command and proposal that caused it; a lookup (`PaymentMatches`: `ByReference`
or the action id; `OrderMatches`: the action id alone) uses exactly what the code
filters on. A failed lookup refuses a
payment, and means "not found" for the others, as in the code.

Proposals are model values: `Payments`, `SubmitNow`, `WithAdvance` say which path
they take. Customer, order, quotation, delivery, receipt, return and stock writes
have the protocol of an order and differ in what their re-reads compare, which is
abstracted to "refuses or not" (`CheckRefuses`).

Switches of the environment: `Overlap` (a command is sent again while it is being
served), `LateWrites` (ERPNext applies a write after its caller gave up),
`MayExpire` (the TTL of `assertFresh`, ten minutes by default). Requests refused before
`begin()` change nothing and are not steps.

### OnceOnlyWrite

Three variables: the effect of a command, what its clients were told, and which
commands were declared failed. `Promise == INSTANCE OnceOnlyWrite WITH …` in
`SafetyGateway` maps the main documents of a command to its effect, the ok answers
to what was told, and FAILED on disk to failed.

### CommandLife

`OnceOnlyWrite` does not survive overlapping requests, late writes or a failing
persist, and is not meant to. `CommandLife` is what does: four variables (`record`,
what `commands.json` says of each command; `documents`; `told`; `flawless`, no persist
has thrown) and two steps. `Save` stores any number of changes at once, as a persist
writes the whole cache, but none that undoes an outcome, an owner or a reference; an
answer given with it names a document on the site, of a command that can be traced
and, while no persist threw, is stored as completed. `Land` adds a document, and
only for a command whose reference is stored. There is no crash: one changes nothing
of these four, which is the point. `Life == INSTANCE CommandLife WITH …` maps the disk,
the documents, the ok answers and `faults = 0`.

### JobQueue

`jobs[q]` is the Map of queue object `q`, `log` the last line of each command in
`jobs.jsonl`. `HttpQueue` and `RunnerQueue` are the objects the HTTP layer and the
runner hold: equal in the intended wiring, different in the one `main()` makes.
`drain()` awaits only `runExecute`, so one verdict and the start of the next
attempt are a single action (`Verdict`, `NextAttempt`); `batch` is what is left of
the snapshot that `dueJobs()` took. A job of the snapshot that was released
meanwhile ends the drain, as `_transition` throws.

### JobLife

What the shop that polls a parked write and the gateway that executes it can see: where
its last line stands, and which command is being executed. It is parked once, executed
only while it is pending and one at a time, settled by an attempt or withdrawn between
attempts, and then over. An attempt may end without a trace (an append that threw, a
crash). `Life == INSTANCE JobLife WITH …` in `JobQueue` maps the last line of the file and
`running`.

### The writing skills (MCShop)

`SafetyGateway` knows an executor as a protocol; these six modules know what it
reads and compares. They have one shape. A *builder* (`Build…Proposal`) reads
the site and shows a card, or refuses and shows none (no step). An *executor* goes
call by call: the probe for its own action id and the live re-reads, then the
drafts of others, then the insert, then the read-back; each action is the code
between two calls. Between any two of them another executor, or a person at a desk,
may act on the site. A refusal (`PROPOSAL_STALE`, drift, a full page of drafts) ends
the executor; the card stays and may be confirmed again.

The code reads, then writes, with no lock on the site. Two executors that are both
between their reads and their insert are therefore not told apart from one, and no
comparison can help. History variables say when that happened (`raced`,
`payRaced`, `crossed`, `mixed`, the field `raced` of a customer record); the
properties except those documents and nothing else. They do not except a second
confirmation after the first, nor desk work before the reads or after the insert. Stock
entries have a second exception, `blind`: those inserted by an executor that could not know
all drafts, as the page was full or one of them could not be read. The code takes that for "no
drafts at all" (section 5).

| Module | State | Code |
|---|---|---|
| `Fulfilment` | `source` (orders or invoices), `notes` on the site, `cards`, `pc`, `left`, `price` | delivery-write, purchase-receipt-write, sales-invoice-write, sales-return-write; `kind` is the skill. `FirstPage` is the lookup limit, `…Cover` is `openDraftCover`, `Accepts…` what ERPNext refuses (it counts submitted notes, not drafts) |
| `Payments` | `outstanding`, `entries`, `payCards`, `gl`, `wrote` | payment-write from `buildPaymentProposal` and `buildCollectProposal` to `submit_now` and its read-back of the entry the insert named; this executor has no probe of its own (the gateway reconciles), so that a card may be written again |
| `MoneyAccount` | `shop`, `wish`, `plan` | `directionOf`, `resolveAccountPlan`, one resolution per behaviour, over every site and request of the instance |
| `Drafting` | `tariff`, `unit`, `papers`, `slips`, `step`, `reread` | the five `…-write.mjs` that price from lists; `trade` is the skill, `BreakOff` a refusal, a lost answer or a death at any call |
| `StockIssue` | `onHand`, `issues`, `forms`, `counted`, `guess` | stock-adjustment-write, quantities in the unit of the line and of the stock. The drafts are listed in one call and read in one each; any of them may be unreadable (`unread`), which the builder refuses and the executor counts as no draft (`Unknown`, `Available`) |
| `NewCustomer` | `records`, `groups`, `policy`, `offers` | customer-create: likeness of names as runs of words, profile defaults, and no draft: the record is real at once |

### What stands before them (MCFront)

**Asking.** A request reads the customers, for a payment also the suppliers, then
the picked row, each in a call of its own (`ReadCustomers`, `ReadSuppliers`,
`ReadPicked`), and people add and delete rows between the calls. A name is a
sequence of words, `includes` is containment of words, and `Resolutions` is the
cascade of `resolvePartyFromList`: exact fragments, lone fragments unless the next
word contradicts them, twins, several. `Match` and `MayWrite` are
`classifyResolution` and `entityPolicy`. A payment has two texts: its party is looked up in
the sentence without the words the extractors took for amounts (`PartyText`,
`TextWithoutAmounts`; which words those are is the constant `AmountsIn`), and the hit is judged
exact by the whole sentence (`Match`), as in the code. Every other question has one. `passes` is `HandoffStore.entries`. The
route that `router.mjs` and `classifier.mjs` find in the text is the `group` of the
question, any of them.

**Frontdoor.** What each route does before its first await is one step (`Arrive`:
charge, validate, authorize), then the client, the company
(`resolveReadCompany`), the reads. A figure is the *set of documents* it is the
total of, which is what can go wrong with it: `rows` are those counted, `whole`
those there were. The day summary reads its blocks one by one.

**DshGateway.** `tail` is the promise chain of a conversation, `inFlight` the slots,
`memory` the session store, a record per conversation with the turn of its last use
(`Now` counts the turns that are over). A turn that ends gives lock and slot
on in the microtasks of its promise, *before* it writes its answer to the memory:
`Settle` starts the next turn and writes in one step, in that order, which is why
the next turn's `context` may miss it.

**McpClient.** `toChild` and `toParent` are the pipes, `requests` the pending map.
The exit event may come before or after data that is still in the pipe.

**Phone.** `screen` selects chat or one of the forms. In the chat, `disk` is the stored
history and `ScreenGone` a restart; a card has an id, a command id (`key`) and
whether it was seeded from the storage. In the forms, `epoch` counts edits as the
controllers do and a reply carries the epoch it answers; `Rebuild` is Flutter's
`build()`, which parses the card again. A discount or a method can be taken back in the sales
form, an amount cannot: `copyWith` keeps the old one (`SetMoney`).

## 3. The runs

| Run | Expect | Shows |
|---|---|---|
| `SerialPayments` | pass | two cards of one debt, two principals, a changed amount, a crash anywhere, one failing persist, clients that wait for their answer: `OneDocument`, `ResultTruthful`, `IntentExclusive`, `CancelledPaymentWroteNothing`, and `LandedIsCompleted` under fairness |
| `SerialOrders` | pass | two cards of one sale with an advance, proposals that expire: `OneOrderPerProposal`, and the refinement `Implements` |
| `Overlap` | pass | overlapping repeats, late writes, crashes: what holds unconditionally: `IntentLock`, `WriteAheadReference`, `FailedNeverWrote`, `AckedIsDurable`, `SentIsNotRefused`, and the refinement `Outlives`, which implies `SettledIsFinal` and `OwnerAndReferenceKept` |
| `JobQueue` | pass | `NoneStranded`, `AttemptsBounded`, `ReleasedNeverRuns`, the refinement `LivesOnce`, which implies `OutcomeIsFinal`, and `QueuedJobSettles` |
| `Shop` | pass | goods `NothingDrawnTwice`, `WrittenAsConfirmed`; money `NoDebtPromisedTwice`, `AdvanceAfterDebts`, `MoneyInSaidChannel`; drafts `PricedAsShown`, `WrittenAtLivePrice`, `NothingDraftedTwice`; stock `ShelfNotOverdrawn`; customers `OneRecordPerCustomer` |
| `Front` | pass | `CardPartyIsMeant`, `CardFromOwnHandoff`, `NeverTwiceTheLimit`, `OwnBooksWhole`, `OneChildPerChat`, `NoTurnLost`, `OwnAnswerOrFailure`, `SentAsShown` |
| `Rekeyed` | violation | `OneKeyPerCard` |
| `ClientUnavailable` | violation | `RetryCanResume` |
| `DoubleTap` | violation | `OneDocument` |
| `CancelSale` | violation | `CancelledCommandWroteNothing` |
| `LostAdvance` | violation | `AdvanceHonoured` |
| `JobQueueWiring` | violation | `QueuedJobSettles` |

**Composition.** The modules of `Shop` write to different doctypes, those of
`Front` meet only through the data one hands to the next. A behaviour of the composed
specification therefore runs one of them: `part`, or `side`, is chosen at the start
and the state of the others stays as it is, so that the state spaces add up (961
thousand and 760 thousand states) and one run checks every property of its group. `Sides`
has the door twice: its books with the clock standing still, its meter with the site
standing still, as neither reads what the other changes. In the part `asking`, a reply is
taken down before the next step of a request and the item of the instance is missing only
for questions about items; both leave out states that differ from others in what no
action reads.

**Bounds of the gateway and queue runs.** Two handlers, two commands, two principals, two proposals: every
property is about one command, or about a pair of commands, requests or documents,
so two of each are what a counterexample needs; a third handler would serve a
request like one of the first two. The four requests of `SerialPayments` are one
command, the same one from another principal, the same one with another amount,
and another command. `Names` (two to four documents) is at least one more than the
commands may write, so that a surplus document can appear; in `Overlap` two, as none
of its properties counts documents. `MaxFaults = 1` persist throws: the damage
of a failing persist is a difference between memory and disk, which one makes.
Crashes are unbounded in `SafetyGateway`, at most two in `JobQueue`, where each one
adds an attempt. `MaxAttempts = 2` so that both the retry and the last attempt
happen. Proposals do not expire in `SerialPayments`: the freshness gate comes
before `begin()`, so that an expired card can no longer reach the document its
command wrote, and `LandedIsCompleted` does not hold of one.

**Bounds of `Shop`.** Two cards, two executors, two documents per skill: a property
compares a document with its card or with one other document. One order with two
goods, of which there are two and one, so that a part of it, all of it and too much of
it can be asked for; debts of two and one, so that one draft can cover a debt in part.
Pages hold two (`PageLimit`, `OpenLimit`, `DraftLimit`, `PageOfDrafts`), so that two drafts
fill one. Prices are 1 and 2, on one list in this instance; a sale sees two changes
of prices, the least that leave its total as it was (the mutant `TotalAgrees`), the other
trades one. A shelf of three and a unit of two, and
any of the drafts unreadable at any reading. Names of one and two words, one
inside another. Modes that read as cash, as a bank, and as neither.

**Bounds of `Front`.** Three customers of whom two share a name and one has a longer one
that contains it, a supplier of the shared name, one item, and the saying "lan anh", which
names some of them in full, continues past others and stops short of one: each branch of the
cascade is taken. A payment may also say "lan anh tu", of which "tu" (four) is the amount and, in
the book, the last word of a name; other questions look at one text only and do not say it. One request at a time is in progress (requests share nothing
but the tickets, and each reads lists that change anyway). Two companies, a document
of each and one with no company; a page of one, so that two documents cut it. Limits of
one (two for reads) over windows of two or three ticks, four ticks, two callers. Three
turns in two conversations, two slots, a memory of one conversation and two turns, the
least that evicts and trims. Two calls and two closers of one child. One party, one chat
item kept, four requests or edits, three command ids: a card, its retry and another card.

**Symmetry.** `Shop` permutes cards and executors, `Front` two of the customers and
the conversations. No definition singles one of them out (`CHOOSE` over them is over a
set of one, or its choice is not compared; `One` of `MCFront` is written so that it is
empty when there is no caller, as the theorems have to hold then too), and neither run has a liveness property.

**Deadlock** is checked except where the system may stop: in `Shop` and `Front` when the
bounded documents, questions and keys are used up, and likewise in `Rekeyed`.

**Fairness.** `Shop` and `Front` check safety and assume none. `LiveSpec` of `SafetyGateway`: a handler goes on (promises of a live
process settle: weak fairness of `Step`); the client repeats its request (the card
keeps its command id and offers the retry, `proposal_card.dart`): strong, because a
crash or another request disables it now and again; ERPNext and the disk are not
down for ever: strong fairness of opening the client, of a lookup that answers and
of completing what it found. Nothing is assumed about writes that land: no fairness on
`ErpCreates`, `ErpSubmits` or the persist in `Finish`. `LiveSpec` of `JobQueue`:
the timer ticks (`setInterval` and the `draining` flag), delays pass, `runExecute`
answers, and does not answer "temporary" for ever. The client has no timeout, so
the last but one is an assumption about ERPNext and its MCP child.

## 4. What is proved

For every value of the constants that satisfies their assumptions (any number of
commands, handlers, proposals, documents, cards, callers, turns and names, any choice
of the switches):

| Module | Theorem | Statement |
|---|---|---|
| `SafetyGateway_proofs` | `TypeCorrect` | `Spec => []TypeOK` |
| | `IntentLockHolds`, `WriteAhead`, `FailedNeverWroteHolds`, `AckedDurable` | `[]IntentLock`, `[]WriteAheadReference`, `[]FailedNeverWrote`, `[]AckedIsDurable` |
| | `SettledIsFinalHolds`, `OwnerAndReferenceKeptHolds` | the two action properties |
| | `OutlivesHolds` | `Spec => Outlives`, the refinement of `CommandLife`, under no switch |
| | `SentIsNotRefusedHolds` | `[]SentIsNotRefused` |
| | `OutlivesIsFinal` | `Outlives => SettledIsFinal /\ OwnerAndReferenceKept` |
| `SerialGateway_proofs` | `OneDocumentHolds`, `OneOrderPerProposalHolds`, `ResultTruthfulHolds`, `CancelledPaymentWroteNothingHolds` | the invariants, under `~Overlap` and `~LateWrites` |
| | `IntentExclusiveHolds` | the invariant, under `~Overlap` |
| | `ImplementsOnceOnlyWrite` | `Spec => Implements`, under `~Overlap`, `~LateWrites` and `Payments = {} \/ MaxFaults = 0` |
| `JobQueue_proofs` | `TypeCorrect`, `NoneStrandedHolds`, `AttemptsBoundedHolds` | the invariants, for one queue object or two |
| | `OutcomeIsFinalHolds`, `ReleasedNeverRunsHolds` | with `HttpQueue = RunnerQueue` |
| | `LivesOnceHolds` | `Spec => LivesOnce`, the refinement of `JobLife`, with `HttpQueue = RunnerQueue` |
| | `LivesOnceIsFinal` | `LivesOnce => OutcomeIsFinal` |
| `Shop_proofs` | `NothingDrawnTwiceHolds`, `WrittenAsConfirmedHolds` | `GoodsSpec => []…` |
| | `NoDebtPromisedTwiceHolds`, `AdvanceAfterDebtsHolds` | `PaymentSpec => []…`, and the action property |
| | `MoneyInSaidChannelHolds` | `MoneySpec => []…` |
| | `PricedAsShownHolds`, `NothingDraftedTwiceHolds`, `WrittenAtLivePriceHolds` | `DraftingSpec => []…`, and the action property |
| | `ShelfNotOverdrawnHolds`, `OneRecordPerCustomerHolds` | `StockSpec => []…`, `CustomerSpec => []…` |
| | `GoodsTypeOKHolds`, `PaymentTypeOKHolds`, `DraftingTypeOKHolds`, `StockTypeOKHolds`, `CustomerTypeOKHolds` | the type invariants |
| | `ShopImplementsItsSkills` | `ShopSpec` implies `GoodsSpec`, `PaymentSpec`, `DraftingSpec`, `StockSpec` and `CustomerSpec` |
| | `ShopTypeOKHolds`, `ShopKeepsItsWord` | `ShopSpec => []ShopTypeOK`, and everything else the run `Shop` checks |
| `Front_proofs` | `CardPartyIsMeantHolds`, `CardFromOwnHandoffHolds`, `AskingTypeOKHolds` | `AskingSpec => []…` |
| | `NeverTwiceTheLimitHolds`, `OwnBooksWholeHolds`, `FrontdoorTypeOKHolds` | `FrontdoorSpec => []…` |
| | `SentAsShownHolds`, `PhoneTypeOKHolds` | `PhoneSpec => []…` |
| | `FrontImplementsItsParts` | `FrontSpec` implies `AskingSpec`, `FrontdoorSpec`, `DshSpec`, `ClientSpec` and `PhoneSpec` |
| | `FrontTypeOKHolds`, `FrontKeepsItsWord` | `FrontSpec => []FrontTypeOK`, and everything else the run `Front` checks |
| `DshGateway_proofs` | `OneChildPerChatHolds`, `DshTypeOKHolds`, `NoTurnLostHolds` | `DshSpec => []…`, and the action property |
| `McpClient_proofs` | `ClientTypeCorrect`, `OwnAnswerOrFailureHolds` | `ClientSpec => []ClientTypeOK`, `[]OwnAnswerOrFailure` |

**Assumptions.** Most are typing: sets that the code keeps in memory or reads from a
list are finite, limits and pages are numbers, what is owed, ordered or priced is a
natural number, and the marks for "none" are none of the values (`StoreAssumption`,
`GatewayAssumption`, `JobAssumption`, `DshGatewayAssumption`, `FrontdoorAssumption`,
`AskingAssumption`, `PhoneAssumption`, `FulfilmentAssumption`, `PaymentAssumption`,
`MoneyAssumption`, `StockAssumption`, `DraftingAssumption`, `NewCustomerAssumption`,
`GroupsAssumption`). One says more. `CardAssumption` is about the app: a
command of an order is only ever sent with the proposal of its card
(`chat_models.dart` pins the id to the card); `SerialGateway_proofs` uses it, the
theorems that hold unconditionally do not. `McpClientAssumption` keeps calls and
closers apart and is not cited. The hypotheses `~Overlap` and `~LateWrites` are
behaviours of the environment, not facts: the runs `DoubleTap` and `Overlap` show
what goes wrong, and what does not, without them.

**Argument, gateway.** None of the properties is inductive. `WriteAheadReference`
speaks of documents, and a document appears in `ErpCreates`, whose guard says
nothing of the disk; the handler must have come through `SendCreate`. So `IndInv`
says where a handler can be with what in the store (`HandlerInv`): one that sent a
write, or is in the resumed branch, has its reference on disk; two handlers are never in the part before the reference for one
command (`EarlyAlone`), because the second `begin()` of a command is resumed and
without a reference is refused. That is what `fail()` relies on, and the code
states it nowhere. `AppliedReferenced` and `AckedRecorded` carry it to documents,
late writes and answers. Below that, `StoreInv` relates memory and disk: a
reference, an owner or a settled status on disk is in memory too, and while
`faults = 0` they agree. `StoreKeeps` proves it once for all methods; the handler
lemmas are one step per action (`HandlersInductive`, `EarlyInductive`), other
handlers being spared by `OtherHandlers`.

**Argument, what outlives the process.** `LifeInv` adds to `IndInv` where documents come
from. `StoreTraced`: a completed record, in memory or on disk, names a document that
exists, a known one has its owner, a cancelled one its reference. `SeenTraced`: a handler
with a document in hand (read by the lookup, or created by itself) has one that exists,
so that what it completes with and answers does. Documents only appear (`DocumentsAppear`),
each for a write whose reference `IndInv` has on disk, and that is `Land`; any other step
is a `Save`, as `StoreKeeps` and `StoreTraced` bound what one persist can change
(`RecordsFollow`), and an answer comes from a replay of a completed record or from a
completion that was persisted (`AnswersName`). `SentIsNotRefused` comes from the same
invariant: what wrote has its reference in memory, hence is neither unknown nor failed,
and `IntentLock` keeps every other command from holding its intent. It is what the finding
`ClientUnavailable` shows to be false of a command that did *not* get as far as a write. The first step of the argument that fails
without a guard is `CancelRequest`: a cancel that did not ask for a reference would leave a
cancelled command that no lookup could trace, which is the mutant of `Outlives`.

**Argument, waiting clients.** `SerialInv` stands on `IndInv`. A request in execution
is alone with its command, which memory and disk hold PENDING for the very work it is
about (`ServedPending`); with `IntentLock` nobody else can be on its way to write for
that intent (`Exclusive`). So what its lookups found absent is still absent when it
writes (`UnwrittenInv`). A document that is still being submitted or followed by an
advance is in nobody else's hands (`Unshared`); that is why a stored result stays true.

**Argument, refinement.** `AnswerInv` adds that whatever was or will be told of a
command is an answer to some request of it, and, while no persist threw, what is
stored. A step of `SafetyGateway` is then a `Take`, a `Tell`, a `Declare` or a stutter of
`OnceOnlyWrite`. The hypothesis on payments is needed: with one failing persist, a
payment may be answered from memory with the document of another command of its
proposal, forgotten by a crash, and, when the lookup by action id fails unnoticed,
written again, so that two documents are told of one command. TLC finds that
behaviour with `MaxFaults = 1`. Orders are spared by `CardAssumption`.

**Argument, queue.** `IndInv` ties `running` to the one RUNNING job of the runner,
bounds attempts by `MaxAttempts` plus crashes, one less while the job waits, and says
how the last line in the file follows the job in memory when no append threw.
`LoopKeeps` treats the loop head once, for `Drain` and `Verdict` both, and `LoopPicks` does
so for the refinement: what the loop starts was waiting in memory, and as memory and
file know the same jobs (`Known`) and memory knows every outcome of the file (`Followed`),
its last line is pending. With two queue objects neither is true, and the refinement
fails (after a restart a job that was withdrawn is executed all the same); the run
`JobQueueWiring` shows another consequence.

**Argument, sums.** What notes draw, drafts promise and entries allocate are sums over
sets of documents (`SumFunctionOnSet`). That such a sum is what one term adds to the
rest is an induction over the set, which the theorems of the library cannot be
instantiated for; `PartsInduction` states it with a *set* of parts in place of a
predicate, from the well-foundedness of `<` on sizes, and `SumIsDefined`,
`SumIsUnique`, `SumUnfolds` and `SumTakesOut` follow. `OneNoteChanges`, `OneEntryChanges` and
`OneTermChanges` are what the skills need: the sum before and after one document
changed.

**Argument, skills.** The invariants have one form. An executor at a call knows what
its reads left of the source, *unless* somebody wrote since the first of them
(`alone`, `payAlone`, `sure`, `fresh`, `calm`); at its insert the lines of the card fit into
what the site has left, so the insert keeps the bound, or the document is among those
that raced. `HandlerOK`, `PayHandlerOK`, `KeeperOK`, `ClerkOK` and `TellerInv` say that call
by call, over constants, so that a step that changes nothing of one executor keeps it
at once. Each module adds its own: that a page that is not full is the whole list
(`ShortPageIsWhole`), and in `StockIssue` that a cover whose page is not full and of which
every draft was read is all that drafts take, so that an insert on anything else is `blind`; in
`PayInv` that what is owed plus what submitted entries settled
is what was owed at first, so that submitting a draft moves its promise and keeps the
rest; in `DraftInv` that an advance belongs to a draft of its slip, and that nothing was
written from the slip, or for its bill, before the insert (`Unwritten`), with the prices
of the market (`Live`). The action properties follow from the invariant and one look at
the inserts, the only steps that make a document.

**Argument, questions.** `ResolutionSound` says of the cascade of `resolvePartyFromList`,
for any names and texts, that what it settles on was said, or fits alone a stretch of it; it is
applied to `PartyText`, which is a sequence whatever words are amounts (`TextIsSequence`), and
the whole name in the whole sentence comes from `Match`. `Understood` carries what
each of the three reads established to the card, and `OwnTicket` that the ticket a
screen holds is of that screen and conversation. Tickets are written where none was
and afterwards only marked as gone (`TicketsKept`).

**Argument, door.** The bound over any stretch is not inductive, as a stretch lies across two
windows: `Metered` says that the charges of the window are at most its count, one
fewer without its first tick, and that the ticks before it hold less than a limit,
because an older window opened before them. `BooksInv` says that a request that
reads has settled on a company its account may be shown, and that rows read so far
are of it.

**Argument, app.** `ChatOK` relates the turns on the screen, the stored copies and what
was sent: a card that can still be pressed has the id it was sent under, alone, and
one that is stored was keyed before. `Heeded`: a reply is taken only by the form it was
asked for, because every change counts the epoch on.

**Argument, agent.** The lock is a pointer to the turn before, so nothing in the state
says that the turns of a conversation form one chain without a ring or a fork, and that is
what the property depends on: a tail that is taken away while somebody waits would let a
second child start. `Line(line)` says it with a sequence per conversation: first in line
works, each of the others is queued behind the one in front, the tail is the last. The
sequence is a witness, not a variable; `LineStarts`, `LineGrows` and `LineMoves` give the
next witness for a turn that starts, waits and ends. `OneChildPerChat` needs nothing of the
memory. `NoTurnLost` adds `MemoryOK`: at most `MemoryCap` conversations of at most `KeptTurns`
turns, so that an insert of a new one evicts at most what rests (`TouchLoses`).

**Argument, client.** `IdsInUse` and `Owned`: an id is given out once, so what carries it
in a pipe belongs to whoever waits under it. `WaiterEntered`: who waits has an entry, and
the exit handler therefore finds him.

**Argument, composition.** `ShopSpec` and `FrontSpec` run one part at a time, so each of
their steps is a step of one part or leaves its variables alone (`ShopGoodsStep`, …,
`FrontDoorStep`): the composition implements every part, variables mapped to
themselves, and the theorems about the parts hold of what the runs check. `MoneyAccount`
is the exception: its choice of site and request is made at the start of its own part
only, so that the state of the other parts is not one of `MoneySpec`; `ShopMoneyInv` says
what holds of it there.

**Only model-checked.** The two liveness properties, `LandedIsCompleted` and
`QueuedJobSettles`: fairness and ENABLED are out of the reach of the proof system used.
No safety property of a passing run is left to TLC alone.

## 5. Findings

Each is a run that ends in a counterexample to a sentence of the repository.

1. **`ClientUnavailable`** The first attempt cannot open the MCP client: 503, "retry
   the SAME command_id" (safety-gateway.mjs:926). The record is PENDING without a
   reference, so every retry is refused (802-808), the cancel endpoint too
   (http-ask.mjs:816), and the intent stays locked.
2. **`DoubleTap`** "the same command_id racing through begin() yields exactly ONE
   mock write" (test/http-execute.test.mjs:931). The second request reconciles while
   the create of the first is on its way, finds nothing, and writes.
3. **`CancelSale`** "a write that DID land must never be cancelled"
   (idempotency.mjs:252). The endpoint looks for a Payment Entry whatever the
   command was.
4. **`LostAdvance`** "the SAME command ALSO writes ONE advance Payment Entry"
   (sales-write.mjs:552). An interruption between the two documents, and the retry
   reports success with the invoice alone.
5. **`Rekeyed`** "a card is keyed once for its whole life" (chat_models.dart:1012). The
   forms parse their card inside `build()` (sales_screen.dart:260, purchase_screen.dart:261,
   collect_screen.dart:343), and the id lives with the parsed object: a retry after a
   rebuild is a new command.
6. **`JobQueueWiring`** "One shared queue instance" (http-ask.mjs:2984).
   `createAskServer` takes `jobs`, `main` passes `jobQueue`.

Two more disagree with a comment and are in the models, as what two properties except; a
reader who strikes the exception has the counterexample.

- *A draft that cannot be read.* "never assumed empty: the whole point is that its goods are
  still on the shelf" (stock-adjustment-write.mjs:177). The executor subtracts nothing at all
  when the cover is unknown (710), whether one draft cannot be read or the page is full, and
  writes; the builder refuses. Without `blind = {}` in `ShelfNotOverdrawn`, TLC finds two drafts,
  written one after the other, that take more than the shelf holds.
- *An amount that completes a name.* "The party is resolved on the text WITHOUT the spoken
  amount: a number right after a name otherwise becomes part of the name"
  (copilot-server.mjs:2009). It is looked up there, and judged exact by the candidates of the
  text *with* the amount (2165, 2170): "trả tiền Hà Tiên 2 triệu", where the book has Hà Tiên 2
  and no Hà Tiên, hits Hà Tiên 2 by a part and passes as exact. With `PartyText(a.q)` for
  `a.q.says` in `Meant`, TLC finds a payment card for a customer whose name the words without the
  amount say in part.

Seen while reading and modelling, without a run of its own, because no sentence of the
repository promises otherwise or because the properties carve it out.

*Gateway and queue.* The runner calls `runExecute` without a store (http-ask.mjs:2921,
2987), which ends every drained job in FAILED; `drain()` can throw (a released job in its
snapshot), against the comment at http-ask.mjs:2907; a cancel that overlaps a request of
its own command can look before the create is applied, and the document lands after it
(excluded by `~Overlap` in `SerialPayments`); an expired card cannot reach the document
its command wrote; attempts exceed `maxAttempts` by one per crash (`AttemptsBounded`
says so); after a persist that threw, a client of a payment can be told a second document
(section 4, refinement), which is why `SerialOrders` checks `Implements` and
`SerialPayments`, with its failing persist, does not.

*Skills.* Builders of sales and
purchases price from the party's own list, executors from the default one
(sales-write.mjs:592, purchase-invoice-write.mjs:450): a card for a party with its own
prices is refused, never written wrongly. A label of no known channel becomes cash
(payment-write.mjs:643-650). Two overlapping confirmations of one bill, one return or one
debt both pass their re-reads. An imported bill is probed and written in two calls
(purchase-order-write.mjs:606).

*Client and agent.* `request()` has no timeout and does not look whether the child has
exited (client.mjs:73): a request made after the exit waits for ever, which
`OwnAnswerOrFailure` marks as `late`. A queued DSH turn reads its context before the turn
in front has written its answer, against the comment at dsh-gateway.mjs:821-824; nothing is
lost from the memory (`NoTurnLost`). A killed child whose pipes a grandchild keeps open
never closes and holds slot and lock (1298-1316).

*Books.* Doors whose capability has no required company follow the Default Company of the
site whatever the account is pinned to, although company-scope.mjs:47-50 says the pin comes
first; the shelf asks for 1000 rows and tests for more than 1000 (ops-summary.mjs:910, 916);
the list screen does not say when its balance was cut (read-views.mjs). `OwnBooksWhole` leaves these out by
name.

*App.* A DSH answer that comes after the history was cleared brings the old conversation id
back (chat_controller.dart:289-302); a refused card that was not restored from the storage
gets a new key (`attachRejection`, 470); emptying the warehouse field empties the lines and keeps
the warehouse (sales_controller.dart:86), and an emptied amount is kept too (134); the collect screen keeps a card of older contents
after an edit.

## 6. Not modelled

*Nothing depends on it.* The session context is written at copilot-server.mjs:1771, 1947,
2192 and never read; the business dedup ledger is appended to and read by a test only, so
that no card of the server asks for the extra acknowledgement, although
safety-gateway.mjs:960-964 expects the next proposal to be warned; `execution-state.mjs` is
imported by tests; the learning log is telemetry; `llm-router.mjs` is a script beside the
product. A model of these would be a model of their tests.

*Its data is the whole point.* The NLP service, the routing rules of `router.mjs` and
`classifier.mjs`, the parsers of units, lines, days, OCR and e-invoices are text in, data
out, character by character. Their results are inputs of the modules, over every value
the instance has. The capability contract is a static table; what it declares is in the tables
of `Frontdoor`, `Fulfilment` and `Drafting`. `mock-server.mjs` is the tests' ERPNext; it was read
as the repository's statement of how the site accepts and refuses.

*Left out of a modelled part.* Taxes, dates, addresses, wording and rendering; the sums inside
a figure; two gateway processes on one store directory; torn lines of `jobs.jsonl` and a torn
`commands.json`; the gates before `begin()` other than freshness and ownership (they change
nothing); clocks that step back; the persisted copy of the DSH memory, the inside of the remote
runner; body parsing, `/health` and the static routes; the app's voice input and layout.
Faults and retries of an executor are in `SafetyGateway` and in `Drafting` (`BreakOff`); in the
other skills an executor that stops between two calls is one whose next call never comes.

## 7. Plan

Every safety property of a passing run is a theorem, of the specification that the run
checks (section 4). What could be added: theorems
that compare one module with another where they model the same code from two sides
(an executor of `Fulfilment` or `Payments` as an instance of the protocol of
`SafetyGateway`); what the two switches cost exactly, i.e. how many documents a command
may have when clients do not wait; the same properties for two processes on one
store directory, should the product ever be run that way.
