----------------------------- MODULE Fulfilment -----------------------------
(***************************************************************************)
(* The four skills that draw goods from a document of the site:            *)
(*   delivery.create          Delivery Note    from a Sales Order          *)
(*   purchase_receipt.create  Purchase Receipt from a Purchase Order       *)
(*   sales_invoice.create     Sales Invoice    from a Sales Order          *)
(*   sales_return.create      return           from a Sales Invoice        *)
(* Each one proposes at most what is left of its source - the ordered      *)
(* quantity less what submitted notes took and less what DRAFT notes take  *)
(* when they are submitted - and, when the user confirms, reads it all     *)
(* again, one call after the other, before it inserts a draft note.        *)
(*                                                                         *)
(* `kind` is the skill of a behaviour.  An action is the code between two  *)
(* calls to the site; the desk (people working in ERPNext) acts between    *)
(* them.  The command store around the calls is SafetyGateway's subject.   *)
(***************************************************************************)
EXTENDS Integers, FiniteSets, Functions

CONSTANTS
    Kinds,      \* the skills considered
    Orders,     \* source documents of one party: orders, or invoices
    Items,      \* item codes; a source has one line per item
    Ordered,    \* [Orders -> [Items -> quantity]], 0: not a line of it
    Cards,      \* action ids of proposals (a bound)
    Handlers,   \* confirmations served at once (a bound)
    Names,      \* names of the notes (a bound)
    PageLimit,  \* DRAFT_NOTE_LOOKUP_LIMIT and its like (10 in the code)
    OpenLimit,  \* OPEN_ORDER_LOOKUP_LIMIT (5 in the code)
    MaxLines,   \* line_policy.max_lines of the capability contract
    None

ASSUME FulfilmentAssumption ==
    /\ Kinds \subseteq {"delivery", "receipt", "invoice", "return"}
    /\ Ordered \in [Orders -> [Items -> Nat]]
    /\ PageLimit \in Nat \ {0} /\ OpenLimit \in Nat \ {0} /\ MaxLines \in Nat
    /\ None \notin Orders \cup Cards

VARIABLES
    kind,
    source,   \* [Orders -> the state of the source document on the site]
    notes,    \* [Names -> the note of that name, or NoNote]
    cards,    \* [Cards -> the proposal the user sees, or NoCard]
    pc,       \* [Handlers -> the call the executor is at]
    serves,   \* [Handlers -> the card it executes]
    left,     \* [Handlers -> what its reads say is left, by item]
    price,    \* [Handlers -> the price it read on the source]
    alone,    \* [Handlers -> nobody wrote since its first read] (history)
    raced     \* notes inserted although somebody did (history)

site == <<source, notes>>
goodsVars == <<kind, source, notes, cards, pc, serves, left, price, alone, raced>>

Rates == 1..2
Quantities == UNION {1..Ordered[o][i] : o \in Orders, i \in Items}
Lines == UNION {[S -> Quantities] : S \in SUBSET Items}
NoLines == [i \in {} |-> 0]
Card == [order : Orders, rate : Rates, lines : Lines]
NoCard == [order |-> None, rate |-> 0, lines |-> NoLines]
Note == [status : {"draft", "submitted", "cancelled"}, order : Orders,
         rate : Rates, lines : Lines, card : Cards]
NoNote == [status |-> "none"]
Nothing == [i \in Items |-> 0]

GoodsTypeOK ==
    /\ kind \in Kinds
    /\ source \in [Orders -> [status : {"submitted", "cancelled"},
                              rate : Rates, known : BOOLEAN, back : 0..1]]
    /\ notes \in [Names -> Note \cup {NoNote}]
    /\ cards \in [Cards -> Card \cup {NoCard}]
    /\ pc \in [Handlers -> {"idle", "returns", "drafts", "create", "verify"}]
    /\ serves \in [Handlers -> Cards \cup {None}]
    /\ left \in [Handlers -> [Items -> Int]]
    /\ price \in [Handlers -> Rates \cup {0}]
    /\ alone \in [Handlers -> BOOLEAN]
    /\ raced \subseteq Names

\* `known`: the order's rows carry billed_amt (sales_invoice.create needs it);
\* `back`: what was sent back to the supplier of each line (returned_qty).
GoodsInit ==
    /\ kind \in Kinds
    /\ \E k \in BOOLEAN, b \in 0..1 :
          /\ kind # "invoice" => k
          /\ kind # "receipt" => b = 0
          /\ source = [o \in Orders |-> [status |-> "submitted", rate |-> 1,
                                         known |-> k, back |-> b]]
    /\ notes = [n \in Names |-> NoNote]
    /\ cards = [c \in Cards |-> NoCard]
    /\ pc = [h \in Handlers |-> "idle"]
    /\ serves = [h \in Handlers |-> None]
    /\ left = [h \in Handlers |-> Nothing]
    /\ price = [h \in Handlers |-> 0]
    /\ alone = [h \in Handlers |-> FALSE]
    /\ raced = {}

-----------------------------------------------------------------------------
\* What the site holds.
Qty(lines, i) == IF i \in DOMAIN lines THEN lines[i] ELSE 0
Takes(n, o, i) == IF notes[n].order = o THEN Qty(notes[n].lines, i) ELSE 0
Taken(S, o, i) == SumFunctionOnSet([n \in S |-> Takes(n, o, i)], S)
InStatus(s) == {n \in Names : notes[n].status = s}
Done(o, i) == Taken(InStatus("submitted"), o, i)
Drawn(o, i) == Taken(InStatus("draft"), o, i)
Goods(o) == {i \in Items : Ordered[o][i] > 0}

\* pendingLines: the rows of the source as the site counts them.
DeliveryPending(o) == [i \in Items |-> Ordered[o][i] - Done(o, i)]
ReceiptPending(o) ==
    [i \in Items |-> Ordered[o][i] - Done(o, i) - source[o].back]
\* billableOf: nothing is known to be billed of a row without billed_amt.
Billable(o, i) == IF source[o].known THEN Ordered[o][i] - Done(o, i)
                                     ELSE Ordered[o][i]
InvoicePending(o) == [i \in Items |-> Billable(o, i)]

\* listOpenDraft...: the drafts of the PARTY, one page of them; a full page
\* may hide one and refuses.  Returns are listed by the invoice they are of.
FirstPage(S) ==
    IF Cardinality(S) <= PageLimit THEN S
    ELSE CHOOSE T \in SUBSET S : Cardinality(T) = PageLimit
DeliveryPage(o) == FirstPage(InStatus("draft"))
ReceiptPage(o) == FirstPage(InStatus("draft"))
InvoicePage(o) == FirstPage(InStatus("draft"))
ReturnPage(o) == FirstPage({n \in InStatus("draft") : notes[n].order = o})
FullPage(page) == Cardinality(page) >= PageLimit

\* openDraftCover: what those drafts draw from this source.
DeliveryCover(o) == [i \in Items |-> Taken(DeliveryPage(o), o, i)]
ReceiptCover(o) == [i \in Items |-> Taken(ReceiptPage(o), o, i)]
InvoiceCover(o) == [i \in Items |-> Taken(InvoicePage(o), o, i)]
ReturnCover(o) == [i \in Items |-> Taken(ReturnPage(o), o, i)]

\* Broken: the executor re-checks against the raw pending quantity.
UncoveredLeft(p, cover) == [i \in Items |-> p[i]]
\* subtractDrawn
DeliveryLeft(p, cover) == [i \in Items |-> p[i] - cover[i]]
ReceiptLeft(p, cover) == [i \in Items |-> p[i] - cover[i]]
InvoiceLeft(p, cover) == [i \in Items |-> p[i] - cover[i]]

\* listSubmittedReturns, and what returnableCover leaves of the invoice.
SubmittedReturns(o) ==
    FirstPage({n \in InStatus("submitted") : notes[n].order = o})
Returnable(o) ==
    [i \in Items |-> Ordered[o][i] - Taken(SubmittedReturns(o), o, i)]

\* resolveOrder: the order the sentence names, else the only submitted one of
\* the party with something left, unless the page of them is full.
TheOnly(S) == IF Cardinality(S) = 1 THEN CHOOSE o \in S : TRUE ELSE None
Submitted == {o \in Orders : source[o].status = "submitted"}
OpenBy(Pending(_)) ==
    IF Cardinality(Submitted) >= OpenLimit THEN None
    ELSE TheOnly({o \in Submitted : \E i \in Goods(o) : Pending(o)[i] > 0})
DeliveryOrder(named) == IF named = None THEN OpenBy(DeliveryPending) ELSE named
ReceiptOrder(named) == IF named = None THEN OpenBy(ReceiptPending) ELSE named
InvoiceOrder(named) == IF named = None THEN OpenBy(InvoicePending) ELSE named
ReturnInvoice(named) == named

\* requestedLinesFromText: the goods and quantities the sentence pairs up; no
\* goods named means all that is left, except for a return.
DeliveryWants == Lines
ReceiptWants == Lines
InvoiceWants == Lines
ReturnWants == Lines \ {NoLines}
Chosen(remaining, want) ==
    IF want # NoLines THEN want
    ELSE [i \in {j \in Items : remaining[j] > 0} |-> remaining[i]]

\* What every builder demands of the chosen lines.
Proposable(o, remaining, lines) ==
    /\ DOMAIN lines \subseteq Goods(o)
    /\ lines # NoLines /\ Cardinality(DOMAIN lines) <= MaxLines
    /\ \A i \in DOMAIN lines : lines[i] <= remaining[i]

Show(c, o, lines) ==
    /\ cards' = [cards EXCEPT ![c] = [order |-> o, rate |-> source[o].rate,
                                      lines |-> lines]]
    /\ UNCHANGED <<kind, site, pc, serves, left, price, alone, raced>>

-----------------------------------------------------------------------------
\* build...Proposal.  A refusal shows no card and is no step.
BuildDeliveryProposal(c, named, want) ==
    LET o == DeliveryOrder(named)
        remaining == DeliveryLeft(DeliveryPending(o), DeliveryCover(o))
        lines == Chosen(remaining, want)
    IN /\ kind = "delivery" /\ cards[c] = NoCard
       /\ o # None /\ source[o].status = "submitted"
       /\ ~FullPage(DeliveryPage(o))
       /\ Proposable(o, remaining, lines)
       /\ Show(c, o, lines)

BuildPurchaseReceiptProposal(c, named, want) ==
    LET o == ReceiptOrder(named)
        remaining == ReceiptLeft(ReceiptPending(o), ReceiptCover(o))
        lines == Chosen(remaining, want)
    IN /\ kind = "receipt" /\ cards[c] = NoCard
       /\ o # None /\ source[o].status = "submitted"
       /\ ~FullPage(ReceiptPage(o))
       /\ Proposable(o, remaining, lines)
       /\ Show(c, o, lines)

\* A line whose billing is unknown is never on an invoice's card.
BuildSalesInvoiceProposal(c, named, want) ==
    LET o == InvoiceOrder(named)
        remaining == InvoiceLeft(InvoicePending(o), InvoiceCover(o))
        lines == Chosen(remaining, want)
    IN /\ kind = "invoice" /\ cards[c] = NoCard
       /\ o # None /\ source[o].status = "submitted" /\ source[o].known
       /\ ~FullPage(InvoicePage(o))
       /\ Proposable(o, remaining, lines)
       /\ Show(c, o, lines)

BuildSalesReturnProposal(c, named, want) ==
    LET o == ReturnInvoice(named)
        remaining == [i \in Items |-> Returnable(o)[i] - ReturnCover(o)[i]]
    IN /\ kind = "return" /\ cards[c] = NoCard
       /\ o # None /\ source[o].status = "submitted"
       /\ ~FullPage(SubmittedReturns(o)) /\ ~FullPage(ReturnPage(o))
       /\ want \in ReturnWants
       /\ Proposable(o, remaining, want)
       /\ Show(c, o, want)

\* The card is dismissed or outlives its ten minutes.
Dismiss(c) ==
    /\ cards[c] # NoCard
    /\ \A h \in Handlers : serves[h] # c
    /\ \A n \in Names : notes[n] # NoNote => notes[n].card # c
    /\ cards' = [cards EXCEPT ![c] = NoCard]
    /\ UNCHANGED <<kind, site, pc, serves, left, price, alone, raced>>

-----------------------------------------------------------------------------
\* The executor's steps.  reconcile...: the notes that carry the action id.
DeliveryOf(c) == {n \in Names : notes[n] # NoNote /\ notes[n].card = c}
ReceiptOf(c) == {n \in Names : notes[n] # NoNote /\ notes[n].card = c}
InvoiceOf(c) == {n \in Names : notes[n] # NoNote /\ notes[n].card = c}
ReturnOf(c) == {n \in Names : notes[n] # NoNote /\ notes[n].card = c}

Shown == {c \in Cards : cards[c] # NoCard}

\* The handler answers and is gone.
Leave(h) ==
    /\ pc' = [pc EXCEPT ![h] = "idle"]
    /\ serves' = [serves EXCEPT ![h] = None]
    /\ left' = [left EXCEPT ![h] = Nothing]
    /\ price' = [price EXCEPT ![h] = 0]
    /\ alone' = [alone EXCEPT ![h] = FALSE]
Reads(h, next, remaining) ==
    /\ pc' = [pc EXCEPT ![h] = next]
    /\ left' = [left EXCEPT ![h] = remaining]

\* The probe and the re-read of the source; the rest of the refusals wait for
\* the drafts, but what they compare is decided here.
Opens(h, c, next, remaining) ==
    /\ pc[h] = "idle"
    /\ source[cards[c].order].status = "submitted"
    /\ Reads(h, next, remaining)
    /\ serves' = [serves EXCEPT ![h] = c]
    /\ price' = [price EXCEPT ![h] = source[cards[c].order].rate]
    /\ alone' = [alone EXCEPT ![h] = TRUE]
    /\ UNCHANGED <<kind, site, cards, raced>>

ExecuteDelivery(h, c) ==
    /\ kind = "delivery" /\ DeliveryOf(c) = {}
    /\ Opens(h, c, "drafts", DeliveryPending(cards[c].order))

ExecutePurchaseReceipt(h, c) ==
    /\ kind = "receipt" /\ ReceiptOf(c) = {}
    /\ Opens(h, c, "drafts", ReceiptPending(cards[c].order))

\* Broken: the price of the order is not compared with the card's.
UnpricedSalesInvoice(h, c) ==
    /\ kind = "invoice" /\ InvoiceOf(c) = {}
    /\ source[cards[c].order].known
    /\ Opens(h, c, "drafts", InvoicePending(cards[c].order))
\* The live rate must be the one on the card.
ExecuteSalesInvoice(h, c) ==
    /\ kind = "invoice" /\ InvoiceOf(c) = {}
    /\ source[cards[c].order].known
    /\ source[cards[c].order].rate = cards[c].rate
    /\ Opens(h, c, "drafts", InvoicePending(cards[c].order))

ExecuteSalesReturn(h, c) ==
    /\ kind = "return" /\ ReturnOf(c) = {}
    /\ source[cards[c].order].rate = cards[c].rate
    /\ Opens(h, c, "returns", Nothing)

\* returnableCover first lists the submitted returns ...
ReadReturns(h) ==
    LET o == cards[serves[h]].order IN
    /\ pc[h] = "returns"
    /\ IF FullPage(SubmittedReturns(o))
         THEN Leave(h)
         ELSE Reads(h, "drafts", Returnable(o)) /\ UNCHANGED <<serves, price, alone>>
    /\ UNCHANGED <<kind, site, cards, raced>>

\* ... and every executor then lists the drafts and compares the card's lines
\* with what is left: drift is a refusal.
Compare(h, page, remaining) ==
    LET lines == cards[serves[h]].lines
        fits == /\ ~FullPage(page)
                /\ \A i \in DOMAIN lines : lines[i] <= remaining[i]
    IN /\ IF fits THEN Reads(h, "create", Nothing) /\ UNCHANGED <<serves, price, alone>>
                  ELSE Leave(h)
       /\ UNCHANGED <<kind, site, cards, raced>>

RecheckDelivery(h) ==
    LET o == cards[serves[h]].order IN
    /\ kind = "delivery" /\ pc[h] = "drafts"
    /\ Compare(h, DeliveryPage(o), DeliveryLeft(left[h], DeliveryCover(o)))

RecheckPurchaseReceipt(h) ==
    LET o == cards[serves[h]].order IN
    /\ kind = "receipt" /\ pc[h] = "drafts"
    /\ Compare(h, ReceiptPage(o), ReceiptLeft(left[h], ReceiptCover(o)))

RecheckSalesInvoice(h) ==
    LET o == cards[serves[h]].order IN
    /\ kind = "invoice" /\ pc[h] = "drafts"
    /\ Compare(h, InvoicePage(o), InvoiceLeft(left[h], InvoiceCover(o)))

RecheckSalesReturn(h) ==
    LET o == cards[serves[h]].order IN
    /\ kind = "return" /\ pc[h] = "drafts"
    /\ Compare(h, ReturnPage(o),
               [i \in Items |-> left[h][i] - ReturnCover(o)[i]])

-----------------------------------------------------------------------------
\* build...Data: the note the executor asks the site for.  The prices are the
\* ones it read; a delivery sends none and takes the order's.
DeliveryNoteData(h) == [status |-> "draft", card |-> serves[h],
    order |-> cards[serves[h]].order, lines |-> cards[serves[h]].lines,
    rate |-> source[cards[serves[h]].order].rate]
PurchaseReceiptData(h) == [status |-> "draft", card |-> serves[h],
    order |-> cards[serves[h]].order, lines |-> cards[serves[h]].lines,
    rate |-> price[h]]
SalesInvoiceData(h) == [status |-> "draft", card |-> serves[h],
    order |-> cards[serves[h]].order, lines |-> cards[serves[h]].lines,
    rate |-> price[h]]
SalesReturnData(h) == [status |-> "draft", card |-> serves[h],
    order |-> cards[serves[h]].order, lines |-> cards[serves[h]].lines,
    rate |-> price[h]]

\* create...: what the site accepts.  It counts submitted notes, not drafts.
Linked(d) == source[d.order].status = "submitted"
FitsIn(d, remaining) == \A i \in DOMAIN d.lines : d.lines[i] <= remaining[i]
AcceptsDeliveryNote(d) == Linked(d) /\ FitsIn(d, DeliveryPending(d.order))
AcceptsPurchaseReceipt(d) ==
    Linked(d) /\ d.rate = source[d.order].rate
              /\ FitsIn(d, ReceiptPending(d.order))
AcceptsSalesInvoice(d) ==
    Linked(d) /\ d.rate = source[d.order].rate
              /\ FitsIn(d, InvoicePending(d.order))
AcceptsSalesReturn(d) ==
    Linked(d) /\ d.rate = source[d.order].rate
              /\ FitsIn(d, Returnable(d.order))

Free == {n \in Names : notes[n] = NoNote}

\* From here on, whoever is between its reads and its insert is not alone.
Insert(h, accepted, data) ==
    /\ pc[h] = "create" /\ Free # {}
    /\ IF accepted
         THEN LET n == CHOOSE m \in Free : TRUE IN
              /\ notes' = [notes EXCEPT ![n] = data]
              /\ raced' = IF alone[h] THEN raced ELSE raced \cup {n}
              /\ pc' = [pc EXCEPT ![h] = "verify"]
              /\ UNCHANGED <<serves, left, price>>
              /\ alone' = [g \in Handlers |-> FALSE]
         ELSE Leave(h) /\ UNCHANGED <<notes, raced>>
    /\ UNCHANGED <<kind, source, cards>>

CreateDeliveryNote(h) ==
    LET d == DeliveryNoteData(h) IN
    kind = "delivery" /\ Insert(h, AcceptsDeliveryNote(d), d)
CreatePurchaseReceipt(h) ==
    LET d == PurchaseReceiptData(h) IN
    kind = "receipt" /\ Insert(h, AcceptsPurchaseReceipt(d), d)
CreateSalesInvoice(h) ==
    LET d == SalesInvoiceData(h) IN
    kind = "invoice" /\ Insert(h, AcceptsSalesInvoice(d), d)
CreateSalesReturn(h) ==
    LET d == SalesReturnData(h) IN
    kind = "return" /\ Insert(h, AcceptsSalesReturn(d), d)

\* verifyWritten...: the read-back, answered or refused as unverified.  Either
\* way the note stays on the site.
Finish(h, k) ==
    /\ kind = k /\ pc[h] = "verify"
    /\ Leave(h) /\ UNCHANGED <<kind, site, cards, raced>>
VerifyDeliveryNote(h) == Finish(h, "delivery")
VerifyPurchaseReceipt(h) == Finish(h, "receipt")
VerifySalesInvoice(h) == Finish(h, "invoice")
VerifySalesReturn(h) == Finish(h, "return")

-----------------------------------------------------------------------------
\* The desk, in ERPNext's own screens.
DeskChanges ==
    /\ alone' = [h \in Handlers |-> FALSE]
    /\ UNCHANGED <<kind, cards, pc, serves, left, price, raced>>

SubmitNote(n) ==
    /\ notes[n].status = "draft"
    /\ notes' = [notes EXCEPT ![n].status = "submitted"]
    /\ DeskChanges /\ UNCHANGED source
CancelNote(n) ==
    /\ notes[n].status = "submitted"
    /\ notes' = [notes EXCEPT ![n].status = "cancelled"]
    /\ DeskChanges /\ UNCHANGED source
\* A source with notes cannot be cancelled; its price can be changed as long
\* as nothing was taken at the old one.
Untouched(o) == \A n \in Names : notes[n] # NoNote => notes[n].order # o
CancelSource(o) ==
    /\ source[o].status = "submitted" /\ Untouched(o)
    /\ source' = [source EXCEPT ![o].status = "cancelled"]
    /\ DeskChanges /\ UNCHANGED notes
Reprice(o) ==
    /\ source[o].status = "submitted" /\ source[o].rate = 1 /\ Untouched(o)
    /\ kind # "return"
    /\ source' = [source EXCEPT ![o].rate = 2]
    /\ DeskChanges /\ UNCHANGED notes

Build(c, named, want) ==
    \/ BuildDeliveryProposal(c, named, want)
    \/ BuildPurchaseReceiptProposal(c, named, want)
    \/ BuildSalesInvoiceProposal(c, named, want)
    \/ BuildSalesReturnProposal(c, named, want)
Execute(h) ==
    \/ \E c \in Shown :
          \/ ExecuteDelivery(h, c) \/ ExecutePurchaseReceipt(h, c)
          \/ ExecuteSalesInvoice(h, c) \/ ExecuteSalesReturn(h, c)
    \/ ReadReturns(h)
    \/ RecheckDelivery(h) \/ RecheckPurchaseReceipt(h)
    \/ RecheckSalesInvoice(h) \/ RecheckSalesReturn(h)
    \/ CreateDeliveryNote(h) \/ CreatePurchaseReceipt(h)
    \/ CreateSalesInvoice(h) \/ CreateSalesReturn(h)
    \/ VerifyDeliveryNote(h) \/ VerifyPurchaseReceipt(h)
    \/ VerifySalesInvoice(h) \/ VerifySalesReturn(h)
GoodsNext ==
    \/ \E c \in Cards, named \in Orders \cup {None}, want \in Lines :
          Build(c, named, want)
    \/ \E c \in Cards : Dismiss(c)
    \/ \E h \in Handlers : Execute(h)
    \/ \E n \in Names : SubmitNote(n) \/ CancelNote(n)
    \/ \E o \in Orders : CancelSource(o) \/ Reprice(o)

GoodsSpec == GoodsInit /\ [][GoodsNext]_goodsVars

-----------------------------------------------------------------------------
\* What submitted notes and open drafts take of a source never exceeds it, as
\* long as no note was inserted between another writer's reads and insert:
\* however many cards are built, confirmed again, submitted or cancelled.
NothingDrawnTwice ==
    raced = {} => \A o \in Orders : \A i \in Goods(o) :
                     Done(o, i) + Drawn(o, i) <= Ordered[o][i] - source[o].back

\* A note holds the goods, the quantities and the source of the card the user
\* confirmed; an invoice and a return also its price.
WrittenAsConfirmed ==
    \A n \in Names : notes[n] # NoNote =>
        /\ notes[n].order = cards[notes[n].card].order
        /\ notes[n].lines = cards[notes[n].card].lines
        /\ kind \in {"invoice", "return"} =>
              notes[n].rate = cards[notes[n].card].rate
=============================================================================
