----------------------------- MODULE Frontdoor ------------------------------
(***************************************************************************)
(* The routes of http-ask.mjs around what they serve: the meter            *)
(* (rate-limit.mjs), the permission and the company (authorization.mjs,    *)
(* company-scope.mjs), the kill switch, and the figures of the read routes *)
(* (skills/ops-summary.mjs, read-views.mjs, drill-views.mjs).              *)
(*                                                                         *)
(* A server has one user for its whole life, so a bucket is a kind of      *)
(* charge.  A document of the site is what a list returns; a figure is the *)
(* set of documents it is the total of.                                    *)
(***************************************************************************)
EXTENDS Integers, FiniteSets

CONSTANTS
  Firms,       \* companies of the site
  Callers,     \* requests in progress at a time
  Docs,        \* documents people may enter
  FirmOf,      \* [Docs -> Firms \cup {Nil}]: Nil where the field is missing
  KindOf,      \* [Docs -> {"sale", "receipt"}]
  PageSize,    \* limit of a list that is summed (500 to 2000 in the code)
  ScreenCap,   \* OPEN_INVOICE_READ_CAP (200) and the cap of a stock list
  LimitOf,     \* [Buckets -> limit of one window]
  SpanOf,      \* [Buckets -> windowMs, in ticks]
  LastTick,    \* bound on the clock
  Nil

VARIABLES
  who,         \* the principal, COPILOT_COMPANY, and the switches
  default,     \* Default Company of the site
  site,        \* documents of the site
  tick,
  windows,     \* RateLimiter._windows
  done,        \* [Buckets -> what was let through, numbered, and when] (history)
  calls,       \* requests in progress
  shown        \* the figure the last step served, or Nothing
doorVars == <<who, default, site, tick, windows, done, calls, shown>>

Buckets == {"read", "write_proposal", "write_execute", "capability"}
Blocks == {"sale", "receipt", "drawer"}

ASSUME FrontdoorAssumption ==
    /\ Nil \notin Firms \cup Docs /\ {LastTick, PageSize, ScreenCap} \subseteq Nat
    /\ FirmOf \in [Docs -> Firms \cup {Nil}] /\ KindOf \in [Docs -> Blocks]
    /\ LimitOf \in [Buckets -> Nat \ {0}] /\ SpanOf \in [Buckets -> Nat \ {0}]

\* capabilities.json: the doors whose capability has a required company, those
\* of a write, and those that read a company's books.
Required == {"accounts", "summary", "day", "slots", "einvoice", "execute"}
Writing == {"slots", "einvoice", "execute"}
OfCompany == {"list", "accounts", "summary", "day", "receipts", "debts", "shelf"}
Answering == {"ask", "dsh", "propose"}
Doors == Required \cup OfCompany \cup Answering \cup {"ocr"}

Away == [stage |-> "away", door |-> "ocr", claim |-> Nil, firm |-> Nil,
         rows |-> [b \in Blocks |-> {}], whole |-> [b \in Blocks |-> {}],
         failed |-> {}, read |-> {}]
NoWindow == [start |-> 0, count |-> 0]
Nothing == [door |-> "none"]

---------------------------------------------------------------------------
(* rate-limit.mjs: a window opens with its first charge.                   *)

Lapsed(w, b) == w.count = 0 \/ tick - w.start >= SpanOf[b] \/ tick < w.start
\* Broken: the limit is off by one.
AdmitsOneMore(w, b) == Lapsed(w, b) \/ w.count <= LimitOf[b]
Admits(w, b) == Lapsed(w, b) \/ w.count < LimitOf[b]
Charged(w, b) == IF Lapsed(w, b) THEN [start |-> tick, count |-> 1]
                                 ELSE [w EXCEPT !.count = @ + 1]
Open(b) == Admits(windows[b], b)
Charge(B) == windows' = [b \in Buckets |-> IF b \in B THEN Charged(windows[b], b)
                                                      ELSE windows[b]]
LetThrough(B) == done' = [b \in Buckets |->
                            IF b \in B THEN done[b] \cup {[nth |-> Cardinality(done[b]) + 1, at |-> tick]}
                            ELSE done[b]]

---------------------------------------------------------------------------
(* authorization.mjs.                                                      *)

Pinned == IF who.firm # Nil THEN who.firm ELSE who.pin
Settles(d, asked) == IF d \notin Required THEN Nil
                     ELSE IF Pinned # Nil THEN Pinned ELSE asked
\* Broken: a pin is enforced, the list of companies is not.
ScopeUnlisted(d, asked) == d \in Required /\ Pinned # Nil /\ asked # Nil => asked = Pinned
ScopeAllows(d, asked) ==
    d \in Required =>
      /\ Pinned # Nil /\ asked # Nil => asked = Pinned
      /\ Settles(d, asked) = Nil => who.mode = "single"
      /\ Settles(d, asked) # Nil /\ who.firms # {} => Settles(d, asked) \in who.firms
MayDo(d) == d \in Writing => who.may
Authorized(d, asked) == MayDo(d) /\ ScopeAllows(d, asked)

---------------------------------------------------------------------------
(* A request arrives: up to the first await, in one step.                  *)

Begins(c, d, claim, firm, stage) ==
    calls' = [calls EXCEPT ![c] = [Away EXCEPT !.stage = stage, !.door = d,
                                               !.claim = claim, !.firm = firm]]
Still == UNCHANGED <<who, default, site, tick>>

\* Charged first; what is wrong with the request is found afterwards.
Arrive(c, d, asked, claim, good, stage) ==
    /\ calls[c] = Away /\ Open("read")
    /\ Charge({"read"}) /\ LetThrough({"read"})
    /\ IF good /\ Authorized(d, asked)
         THEN Begins(c, d, claim, Settles(d, asked), stage)
         ELSE UNCHANGED calls
    /\ shown' = Nothing /\ Still

\* Only /read/list and the two readers of documents tell authorize() which
\* company the client asked for.
OpenList(c, claim, good) == Arrive(c, "list", claim, claim, good, "client")
OpenAccounts(c, claim) == Arrive(c, "accounts", Nil, claim, TRUE, "client")
OpenSummary(c, claim) == Arrive(c, "summary", Nil, claim, TRUE, "client")
OpenDrill(c, d, claim) ==
    d \in {"day", "receipts", "debts", "shelf"} /\ Arrive(c, d, Nil, claim, TRUE, "client")
OpenOcr(c, good) == Arrive(c, "ocr", Nil, Nil, good, "provider")
OpenSlots(c, claim, good) == Arrive(c, "slots", claim, claim, good, "client")
OpenEinvoice(c, claim, good) == Arrive(c, "einvoice", claim, claim, good, "client")
OpenAsk(c) == Arrive(c, "ask", Nil, Nil, TRUE, "answer")
OpenDsh(c) == Arrive(c, "dsh", Nil, Nil, TRUE, "gate")
OpenPropose(c) == Arrive(c, "propose", Nil, Nil, TRUE, "answer")

\* POST /execute: a capability that is full still costs the user's charge.
Execute(c, claim) ==
    /\ calls[c] = Away /\ Open("write_execute")
    /\ LET full == ~Open("capability")
           runs == ~full /\ Authorized("execute", claim) /\ ~who.readOnly
       IN /\ Charge({"write_execute"} \cup IF full THEN {} ELSE {"capability"})
          /\ IF runs THEN LetThrough({"write_execute", "capability"}) ELSE UNCHANGED done
    /\ shown' = Nothing /\ Still /\ UNCHANGED calls

---------------------------------------------------------------------------
(* A request goes on.                                                      *)

Leave(c) == calls' = [calls EXCEPT ![c] = Away]
Move(c) == Still /\ UNCHANGED <<windows, done>>
Waits(c, s, D) == calls[c].stage = s /\ calls[c].door \in D
Gone(c) == /\ calls[c] # Away /\ Leave(c) /\ shown' = Nothing /\ Move(c)

\* The client does not open, a list does not answer, the provider fails.
GiveUp(c) == calls[c].stage \in {"client", "read", "provider"} /\ Gone(c)
ClientOpens(c) ==
    /\ calls[c].stage = "client"
    /\ calls' = [calls EXCEPT ![c].stage =
                    IF calls[c].door \in OfCompany THEN "company" ELSE "read"]
    /\ shown' = Nothing /\ Move(c)

\* resolveReadCompany(); the routes then refuse a claim that differs.
SessionFirm(d) == IF Settles(d, default) # Nil THEN Settles(d, default) ELSE default
ResolveReadCompany(c) ==
    /\ calls[c].stage = "company"
    /\ LET k == calls[c]
           asks == k.firm = Nil
           firm == IF asks THEN SessionFirm(k.door) ELSE k.firm
       IN IF /\ asks => default # Nil /\ ScopeAllows(k.door, default)
             /\ k.claim \in {Nil, firm}
          THEN calls' = [calls EXCEPT ![c].stage = "read", ![c].firm = firm]
          ELSE Leave(c)
    /\ shown' = Nothing /\ Move(c)

---------------------------------------------------------------------------
(* The figures.                                                            *)

OfKind(b) == {d \in site : KindOf[d] = b}
OwnRows(firm, S) == {d \in S : FirmOf[d] \in {firm, Nil}}
Own(firm, S) == {d \in S : FirmOf[d] = firm}
Fits(S) == Cardinality(S) <= PageSize
Cap(S) == IF Cardinality(S) <= ScreenCap THEN S
          ELSE CHOOSE T \in SUBSET S : Cardinality(T) = ScreenCap

Show(c, rows, whole, failed) ==
    /\ shown' = [door |-> calls[c].door, firm |-> calls[c].firm, claim |-> calls[c].claim,
                 rows |-> rows, whole |-> whole, failed |-> failed]
    /\ Leave(c) /\ Move(c)
\* One block: a list too long to be summed is a refusal.
AnswerDrill(c, d, b) ==
    /\ Waits(c, "read", {d}) /\ Fits(OfKind(b))
    /\ Show(c, [Away.rows EXCEPT ![b] = OwnRows(calls[c].firm, OfKind(b))],
               [Away.whole EXCEPT ![b] = Own(calls[c].firm, OfKind(b))], {})
AnswerDay(c) == AnswerDrill(c, "day", "sale")
AnswerReceipts(c) == AnswerDrill(c, "receipts", "receipt")
AnswerDebts(c) == AnswerDrill(c, "debts", "sale")
\* Its list is asked for exactly the number of rows it tests for exceeding.
AnswerShelf(c) ==
    /\ Waits(c, "read", {"shelf"})
    /\ Show(c, [Away.rows EXCEPT !["sale"] = Cap(OfKind("sale"))], Away.whole, {})
\* The documents, and in another read the debt they add up to.
ReadScreen(c) ==
    /\ Waits(c, "read", {"list"})
    /\ calls' = [calls EXCEPT ![c].stage = "balance",
                   ![c].rows["sale"] = Cap(Own(calls[c].firm, OfKind("sale")))]
    /\ shown' = Nothing /\ Move(c)
AnswerList(c) ==
    /\ Waits(c, "balance", {"list"})
    /\ Show(c, [calls[c].rows EXCEPT !["drawer"] = Cap(Own(calls[c].firm, OfKind("sale")))],
               Away.whole, {})
AnswerAccounts(c) == Waits(c, "read", {"accounts"}) /\ Show(c, Away.rows, Away.whole, {})
\* Slots and readings name no company; nothing is totalled.
AnswerReading(c) ==
    (Waits(c, "read", {"slots", "einvoice"}) \/ Waits(c, "provider", {"ocr"})) /\ Gone(c)

\* getDailySummary: every block reads at its own moment, and fails on its own.
Source(b) == IF b = "drawer" THEN "receipt" ELSE b
SummaryBlock(c, b) ==
    /\ Waits(c, "read", {"summary"}) /\ b \notin calls[c].read
    /\ calls' = [calls EXCEPT ![c].read = @ \cup {b},
         ![c].rows[b] = IF Fits(OfKind(Source(b))) THEN OwnRows(calls[c].firm, OfKind(Source(b))) ELSE {},
         ![c].whole[b] = IF Fits(OfKind(Source(b))) THEN Own(calls[c].firm, OfKind(Source(b))) ELSE {},
         ![c].failed = IF Fits(OfKind(Source(b))) THEN @ ELSE @ \cup {b}]
    /\ shown' = Nothing /\ Move(c)
SummaryBlockFails(c, b) ==
    /\ Waits(c, "read", {"summary"}) /\ b \notin calls[c].read
    /\ calls' = [calls EXCEPT ![c].read = @ \cup {b}, ![c].failed = @ \cup {b}]
    /\ shown' = Nothing /\ Move(c)
\* Without the receipts the drawer cannot be closed.
AnswerDaySummary(c) ==
    /\ Waits(c, "read", {"summary"}) /\ calls[c].read = Blocks
    /\ Show(c, calls[c].rows, calls[c].whole,
            calls[c].failed \cup IF "receipt" \in calls[c].failed THEN {"drawer"} ELSE {})

---------------------------------------------------------------------------
(* Answers that may be a card.                                             *)

\* proposalBucketFor: only a card that writes is metered, when it is shown.
AnswerCard(c, metered) ==
    /\ IF metered /\ Open("write_proposal")
         THEN Charge({"write_proposal"}) /\ LetThrough({"write_proposal"})
         ELSE UNCHANGED <<windows, done>>
    /\ Leave(c) /\ shown' = Nothing /\ Still
AnswerAsk(c, metered) == Waits(c, "answer", {"ask"}) /\ AnswerCard(c, metered)
AnswerPropose(c, metered) == Waits(c, "answer", {"propose"}) /\ AnswerCard(c, metered)
AnswerDsh(c, metered) == Waits(c, "answer", {"dsh"}) /\ AnswerCard(c, metered)
\* 120 s later the answer is given up; a late one is shown to nobody.
AskDeadline(c) == Waits(c, "answer", {"ask", "dsh"}) /\ Gone(c)
\* dshGatewayAsk answers itself, or hands a sentence that writes over.
DshAnswers(c) == Waits(c, "gate", {"dsh"}) /\ Gone(c)
DshHandsOver(c) ==
    /\ Waits(c, "gate", {"dsh"})
    /\ calls' = [calls EXCEPT ![c].stage = "answer"]
    /\ shown' = Nothing /\ Move(c)

---------------------------------------------------------------------------
EnterDoc(d) == /\ d \notin site /\ site' = site \cup {d}
               /\ shown' = Nothing /\ UNCHANGED <<who, default, tick, windows, done, calls>>
SetDefault(f) == /\ f # default /\ default' = f
                 /\ shown' = Nothing /\ UNCHANGED <<who, site, tick, windows, done, calls>>
Throw == /\ who' = [who EXCEPT !.readOnly = ~@]
         /\ shown' = Nothing /\ UNCHANGED <<default, site, tick, windows, done, calls>>
Tick == /\ tick < LastTick /\ tick' = tick + 1
        /\ shown' = Nothing /\ UNCHANGED <<who, default, site, windows, done, calls>>

\* parseUsers and resolvePrincipal: one company is the list of that company.
Principals ==
    {p \in [mode : {"single", "multi"}, firm : Firms \cup {Nil}, firms : SUBSET Firms,
            pin : Firms \cup {Nil}, may : BOOLEAN, readOnly : {FALSE}] :
       IF p.mode = "single" THEN p.firms = {} /\ p.firm = p.pin
       ELSE p.firm # Nil => p.firms # {}}

FrontdoorInit ==
    /\ who \in Principals
    /\ default \in Firms \cup {Nil}
    /\ site = {} /\ tick = 0
    /\ windows = [b \in Buckets |-> NoWindow]
    /\ done = [b \in Buckets |-> {}]
    /\ calls = [c \in Callers |-> Away]
    /\ shown = Nothing

FrontdoorNext ==
  \/ \E c \in Callers, claim \in Firms \cup {Nil}, good \in BOOLEAN :
        \/ OpenList(c, claim, good)
        \/ OpenSlots(c, claim, good)
        \/ OpenEinvoice(c, claim, good)
  \/ \E c \in Callers, claim \in Firms \cup {Nil} :
        \/ OpenAccounts(c, claim)
        \/ OpenSummary(c, claim)
        \/ \E d \in {"day", "receipts", "debts", "shelf"} : OpenDrill(c, d, claim)
        \/ Execute(c, claim)
  \/ \E c \in Callers :
        \/ \E good \in BOOLEAN : OpenOcr(c, good)
        \/ OpenAsk(c)
        \/ OpenDsh(c)
        \/ OpenPropose(c)
        \/ GiveUp(c)
        \/ ClientOpens(c)
        \/ ResolveReadCompany(c)
        \/ AnswerDay(c)
        \/ AnswerReceipts(c)
        \/ AnswerDebts(c)
        \/ AnswerShelf(c)
        \/ ReadScreen(c)
        \/ AnswerList(c)
        \/ AnswerAccounts(c)
        \/ AnswerReading(c)
        \/ AnswerDaySummary(c)
        \/ AskDeadline(c)
        \/ DshAnswers(c)
        \/ DshHandsOver(c)
  \/ \E c \in Callers, b \in Blocks : SummaryBlock(c, b) \/ SummaryBlockFails(c, b)
  \/ \E c \in Callers, metered \in BOOLEAN :
        \/ AnswerAsk(c, metered)
        \/ AnswerPropose(c, metered)
        \/ AnswerDsh(c, metered)
  \/ \E d \in Docs : EnterDoc(d)
  \/ \E f \in Firms \cup {Nil} : SetDefault(f)
  \/ Throw
  \/ Tick
FrontdoorSpec == FrontdoorInit /\ [][FrontdoorNext]_doorVars

---------------------------------------------------------------------------
FrontdoorTypeOK ==
    /\ who.firm \in Firms \cup {Nil} /\ who.firms \subseteq Firms
    /\ default \in Firms \cup {Nil} /\ site \subseteq Docs /\ tick \in 0..LastTick
    /\ windows \in [Buckets -> [start : 0..LastTick, count : Nat]]
    /\ \A b \in Buckets : done[b] \subseteq [nth : Nat, at : 0..LastTick]
    /\ \A c \in Callers : calls[c].door \in Doors /\ calls[c].failed \subseteq Blocks

\* The meter holds against its boundary and against every door that shares a
\* bucket: in any stretch as long as a window, fewer than twice the limit of
\* requests are let in, cards shown, executions begun (RateLimiter._hit; the
\* charge of a card comes long after the charge of its question).
NeverTwiceTheLimit ==
    \A b \in Buckets, t \in 0..LastTick :
      Cardinality({x \in done[b] : t <= x.at /\ x.at < t + SpanOf[b]}) < 2 * LimitOf[b]

\* A figure is of the company the account is held to, and of no company the
\* client claimed and the server did not settle on, although the default of
\* the site may change at any moment; and a total is over all the documents of
\* that company that the site had when it was read, or is marked as missing
\* (resolveReadCompany, the mismatch of every route, docList, branch).
\* Doors without a required company follow the default of the site whatever
\* the account is pinned to; the debt screen and the shelf are capped lists.
OwnBooksWhole ==
    shown # Nothing =>
      /\ shown.claim \in {Nil, shown.firm}
      /\ shown.door \in Required =>
           /\ Pinned # Nil => shown.firm = Pinned
           /\ who.firms # {} => shown.firm \in who.firms
      /\ shown.door \in {"summary", "day", "receipts", "debts"} =>
           \A b \in Blocks \ shown.failed :
             /\ shown.whole[b] \subseteq shown.rows[b]
             /\ \A d \in shown.rows[b] : FirmOf[d] \in {shown.firm, Nil}
=============================================================================
