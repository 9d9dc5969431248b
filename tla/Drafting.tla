------------------------------ MODULE Drafting ------------------------------
(***************************************************************************)
(* The five skills that draft a document from price lists alone:           *)
(*   quotation.create         an offer                                     *)
(*   sales_order.create       a customer's order                           *)
(*   purchase_order.create    an order to a supplier, perhaps from a bill  *)
(*                            that was photographed or imported            *)
(*   sales.create             an invoice, with money taken in advance      *)
(*   purchase_invoice.create  a goods receipt, with money paid in advance  *)
(* The card shows the prices of the site; the executor reads them again    *)
(* and refuses when they moved.  An advance is a second document, written  *)
(* after the first by the same confirmation.                               *)
(*                                                                         *)
(* `trade` is the skill of a behaviour.  An action is the code between two *)
(* calls to the site; people change prices and units between them, and the *)
(* handler may die or be refused at any of them.                           *)
(***************************************************************************)
EXTENDS Integers, FiniteSets, FiniteSetsExt, Functions

CONSTANTS
    Trades,      \* the skills considered
    Wares,       \* item codes
    StartPrice,  \* [Wares -> price at first, on every list]
    TopPrice,    \* prices are 1..TopPrice (a bound)
    Lists,       \* price lists, numbered as the site returns their rows
    TopQty,      \* quantities are 1..TopQty (a bound)
    Slips,       \* action ids of proposals
    SlipsOf,     \* [Trades -> the ones a behaviour may use] (a bound)
    Clerks,      \* confirmations served at once (a bound)
    Sheets,      \* names of documents (a bound)
    Bills,       \* keys of imported bills: kind, seller, number, date
    LineLimit,   \* line_policy.max_lines
    MaxChanges,  \* [Trades -> changes people make to the market] (a bound)
    Nil

ASSUME DraftingAssumption ==
    /\ Trades \subseteq {"quotation", "sales_order", "purchase_order",
                         "sale", "purchase"}
    /\ IsFiniteSet(Wares) /\ TopPrice \in Nat /\ TopQty \in Nat
    /\ StartPrice \in [Wares -> 1..TopPrice]
    /\ Lists \subseteq Nat \ {0} /\ Lists # {} /\ LineLimit \in Nat
    /\ MaxChanges \in [Trades -> Nat]
    /\ SlipsOf \in [Trades -> SUBSET Slips]
    /\ Nil \notin Bills \cup Slips

VARIABLES
    trade,
    ownList,     \* the party's default price list, or 0
    tariff,      \* [Lists -> [Wares -> price, 0: no row]]
    unit,        \* [Wares -> the unit it is stocked in]
    changes,     \* how often people changed either (for the bound)
    papers,      \* [Sheets -> the document of that name, or NoPaper]
    slips,       \* [Slips -> the proposal, or NoSlip]
    step,        \* [Clerks -> the call the executor is at]
    holds,       \* [Clerks -> the slip it executes]
    reread,      \* [Clerks -> the prices it read again]
    fresh,       \* [Clerks -> nothing changed since its first read] (history)
    crossed      \* documents written although something did (history)

market == <<tariff, unit, changes>>
desks == <<step, holds, reread, fresh>>
draftVars == <<trade, ownList, market, papers, slips, desks, crossed>>

Baskets == UNION {[S -> 1..TopQty] : S \in SUBSET Wares \ {{}}}
PriceTags == UNION {[S -> 1..TopPrice] : S \in SUBSET Wares}
NoTags == [w \in {} |-> 0]
NoSlip == [lines |-> NoTags, rates |-> NoTags, lists |-> NoTags,
           units |-> NoTags, off |-> 0, due |-> 0, bill |-> Nil]
NoPaper == [is |-> "none"]

DraftingTypeOK ==
    /\ trade \in Trades
    /\ tariff \in [Lists -> [Wares -> 0..TopPrice]]
    /\ unit \in [Wares -> 1..2]
    /\ changes \in 0..MaxChanges[trade]
    /\ \A s \in Sheets : papers[s] # NoPaper =>
          /\ papers[s].is \in {"draft", "advance"} /\ papers[s].slip \in Slips
    /\ \A c \in Slips : slips[c] # NoSlip => slips[c].lines \in Baskets
    /\ step \in [Clerks -> {"idle", "reread", "create", "verify",
                            "advance", "check"}]
    /\ holds \in [Clerks -> Slips \cup {Nil}]
    /\ reread \in [Clerks -> PriceTags]
    /\ fresh \in [Clerks -> BOOLEAN]
    /\ crossed \subseteq Sheets

DraftingInit ==
    /\ trade \in Trades
    /\ ownList \in IF trade \in {"sale", "purchase"} THEN Lists \cup {0} ELSE {0}
    /\ tariff = [l \in Lists |-> StartPrice]
    /\ unit = [w \in Wares |-> 1]
    /\ changes = 0
    /\ papers = [s \in Sheets |-> NoPaper]
    /\ slips = [c \in Slips |-> NoSlip]
    /\ step = [h \in Clerks |-> "idle"]
    /\ holds = [h \in Clerks |-> Nil]
    /\ reread = [h \in Clerks |-> NoTags]
    /\ fresh = [h \in Clerks |-> FALSE]
    /\ crossed = {}

-----------------------------------------------------------------------------
\* priceForLine: the row of the preferred list, else the first row there is.
RowsOf(w) == {l \in Lists : tariff[l][w] > 0}
RowFor(preferred, w) ==
    IF preferred \in RowsOf(w) THEN preferred
    ELSE IF RowsOf(w) # {} THEN Min(RowsOf(w)) ELSE 0
PriceFor(preferred, w) ==
    IF RowFor(preferred, w) = 0 THEN 0 ELSE tariff[RowFor(preferred, w)][w]

\* resolvePriceList, resolveBuyingPriceList: the party's own list, else the
\* one of the Selling or Buying Settings, the first here.  An order names none.
SellingList(own) == IF own # 0 THEN own ELSE Min(Lists)
BuyingList(own) == IF own # 0 THEN own ELSE Min(Lists)

\* computeSalesTotals, computePurchaseTotals
Subtotal(lines, rates) == SumFunction([w \in DOMAIN lines |-> lines[w] * rates[w]])
SaleTotal(lines, rates, off) == Subtotal(lines, rates) - off
PurchaseTotal(lines, rates) == Subtotal(lines, rates)

Slip(lines, preferred, off, due, bill) ==
    [lines |-> lines, off |-> off, due |-> due, bill |-> bill,
     rates |-> [w \in DOMAIN lines |-> PriceFor(preferred, w)],
     lists |-> [w \in DOMAIN lines |-> RowFor(preferred, w)],
     units |-> [w \in DOMAIN lines |-> unit[w]]]
\* Every builder: some lines, not too many, each with a price.
Priced(lines, preferred) ==
    /\ Cardinality(DOMAIN lines) <= LineLimit
    /\ \A w \in DOMAIN lines : PriceFor(preferred, w) > 0
Offer(c, slip) ==
    /\ c \in SlipsOf[trade] /\ slips[c] = NoSlip
    /\ slips' = [slips EXCEPT ![c] = slip]
    /\ UNCHANGED <<trade, ownList, market, papers, desks, crossed>>

BuildQuotationProposal(c, lines) ==
    /\ trade = "quotation" /\ Priced(lines, 0)
    /\ Offer(c, Slip(lines, 0, 0, 0, Nil))
BuildSalesOrderProposal(c, lines) ==
    /\ trade = "sales_order" /\ Priced(lines, 0)
    /\ Offer(c, Slip(lines, 0, 0, 0, Nil))
BuildPurchaseOrderProposal(c, lines, bill) ==
    /\ trade = "purchase_order" /\ Priced(lines, 0)
    /\ Offer(c, Slip(lines, 0, 0, 0, bill))
\* An advance never exceeds the total; a discount never the subtotal.
BuildSalesProposal(c, lines, off, due) ==
    LET slip == Slip(lines, SellingList(ownList), off, due, Nil) IN
    /\ trade = "sale" /\ Priced(lines, SellingList(ownList))
    /\ off <= Subtotal(lines, slip.rates)
    /\ due <= SaleTotal(lines, slip.rates, off)
    /\ Offer(c, slip)
BuildPurchaseProposal(c, lines, due) ==
    LET slip == Slip(lines, BuyingList(ownList), 0, due, Nil) IN
    /\ trade = "purchase" /\ Priced(lines, BuyingList(ownList))
    /\ due <= PurchaseTotal(lines, slip.rates)
    /\ Offer(c, slip)

-----------------------------------------------------------------------------
\* reconcile...: the drafts that carry the action id.
DraftsOf(c) == {s \in Sheets : papers[s] # NoPaper /\ papers[s].slip = c
                               /\ papers[s].is = "draft"}
QuotationOf(c) == DraftsOf(c)
SalesOrderOf(c) == DraftsOf(c)
PurchaseOrderOf(c) == DraftsOf(c)
SaleOf(c) == DraftsOf(c)
PurchaseOf(c) == DraftsOf(c)

\* Broken: no lookup of the bill.
NeverBilled(bill) == FALSE
\* probeBusinessDocKey: an order already made from the same bill.
Billed(bill) == bill # Nil /\ \E s \in Sheets :
                    papers[s] # NoPaper /\ papers[s].bill = bill

Begin(h, c) ==
    /\ step[h] = "idle" /\ slips[c] # NoSlip
    /\ step' = [step EXCEPT ![h] = "reread"]
    /\ holds' = [holds EXCEPT ![h] = c]
    /\ fresh' = [fresh EXCEPT ![h] = TRUE]
    /\ UNCHANGED <<trade, ownList, market, papers, slips, reread, crossed>>

ExecuteQuotation(h, c) ==
    trade = "quotation" /\ QuotationOf(c) = {} /\ Begin(h, c)
ExecuteSalesOrder(h, c) ==
    trade = "sales_order" /\ SalesOrderOf(c) = {} /\ Begin(h, c)
ExecutePurchaseOrder(h, c) ==
    /\ trade = "purchase_order"
    /\ ~Billed(slips[c].bill) /\ PurchaseOrderOf(c) = {} /\ Begin(h, c)
ExecuteSale(h, c) == trade = "sale" /\ SaleOf(c) = {} /\ Begin(h, c)
ExecutePurchase(h, c) == trade = "purchase" /\ PurchaseOf(c) = {} /\ Begin(h, c)

Step(h, next) == step' = [step EXCEPT ![h] = next]
\* The handler is gone: answered, refused, or dead.
Quit(h) ==
    /\ Step(h, "idle")
    /\ holds' = [holds EXCEPT ![h] = Nil]
    /\ reread' = [reread EXCEPT ![h] = NoTags]
    /\ fresh' = [fresh EXCEPT ![h] = FALSE]

\* The prices again.  Whatever moved is a refusal, PROPOSAL_STALE.
Reread(h, Now(_), agrees) ==
    /\ step[h] = "reread"
    /\ IF agrees
         THEN /\ Step(h, "create")
              /\ reread' = [reread EXCEPT ![h] =
                    [w \in DOMAIN slips[holds[h]].lines |-> Now(w)]]
              /\ UNCHANGED <<holds, fresh>>
         ELSE Quit(h)
    /\ UNCHANGED <<trade, ownList, market, papers, slips, crossed>>

\* An order reads the row of the card's list, and the stock unit.
SameUnit(slip, w) == unit[w] = slip.units[w]
QuotationAgrees(slip) ==
    \A w \in DOMAIN slip.lines :
        SameUnit(slip, w) /\ PriceFor(slip.lists[w], w) = slip.rates[w]
SalesOrderAgrees(slip) ==
    \A w \in DOMAIN slip.lines :
        SameUnit(slip, w) /\ PriceFor(slip.lists[w], w) = slip.rates[w]
PurchaseOrderAgrees(slip) ==
    \A w \in DOMAIN slip.lines :
        SameUnit(slip, w) /\ PriceFor(slip.lists[w], w) = slip.rates[w]
\* Broken: only the totals are compared.
TotalAgrees(slip) ==
    SaleTotal(slip.lines, [w \in DOMAIN slip.lines |-> PriceFor(SellingList(0), w)],
              slip.off) = SaleTotal(slip.lines, slip.rates, slip.off)
\* An invoice reads the list of the Settings, whatever list the card used, and
\* compares every price before it compares the totals.
SaleAgrees(slip) ==
    /\ \A w \in DOMAIN slip.lines : PriceFor(SellingList(0), w) = slip.rates[w]
    /\ SaleTotal(slip.lines, [w \in DOMAIN slip.lines |-> PriceFor(SellingList(0), w)],
                 slip.off) = SaleTotal(slip.lines, slip.rates, slip.off)
PurchaseAgrees(slip) ==
    \A w \in DOMAIN slip.lines : PriceFor(BuyingList(0), w) = slip.rates[w]

\* Broken: the prices of the card are taken as they are.
TrustQuotation(h) ==
    LET slip == slips[holds[h]] IN
    trade = "quotation" /\ Reread(h, LAMBDA w : slip.rates[w], TRUE)
RereadQuotation(h) ==
    LET slip == slips[holds[h]] IN
    /\ trade = "quotation"
    /\ Reread(h, LAMBDA w : PriceFor(slip.lists[w], w), QuotationAgrees(slip))
RereadSalesOrder(h) ==
    LET slip == slips[holds[h]] IN
    /\ trade = "sales_order"
    /\ Reread(h, LAMBDA w : PriceFor(slip.lists[w], w), SalesOrderAgrees(slip))
RereadPurchaseOrder(h) ==
    LET slip == slips[holds[h]] IN
    /\ trade = "purchase_order"
    /\ Reread(h, LAMBDA w : PriceFor(slip.lists[w], w), PurchaseOrderAgrees(slip))
RereadSale(h) ==
    /\ trade = "sale"
    /\ Reread(h, LAMBDA w : PriceFor(SellingList(0), w), SaleAgrees(slips[holds[h]]))
RereadPurchase(h) ==
    /\ trade = "purchase"
    /\ Reread(h, LAMBDA w : PriceFor(BuyingList(0), w),
              PurchaseAgrees(slips[holds[h]]))

-----------------------------------------------------------------------------
\* build...Data: the lines of the card at the prices read again.
Draft(h) == [is |-> "draft", slip |-> holds[h], bill |-> Nil, due |-> 0,
             lines |-> slips[holds[h]].lines, rates |-> reread[h],
             units |-> slips[holds[h]].units, off |-> 0]
QuotationData(h) == Draft(h)
SalesOrderData(h) == Draft(h)
PurchaseOrderData(h) == [Draft(h) EXCEPT !.bill = slips[holds[h]].bill]
SaleData(h) == [Draft(h) EXCEPT !.off = slips[holds[h]].off]
PurchaseData(h) == Draft(h)
\* The advance: no reference to the invoice, all of it unallocated.
AdvanceData(h) == [Draft(h) EXCEPT !.is = "advance", !.due = slips[holds[h]].due]

Blank == {s \in Sheets : papers[s] = NoPaper}
File(h, paper, next) ==
    /\ Blank # {}
    /\ LET s == CHOOSE t \in Blank : TRUE IN
       /\ papers' = [papers EXCEPT ![s] = paper]
       /\ crossed' = IF fresh[h] THEN crossed ELSE crossed \cup {s}
    /\ Step(h, next)
    /\ fresh' = [g \in Clerks |-> g = h /\ fresh[h]]
    /\ UNCHANGED <<trade, ownList, market, slips, holds, reread>>

CreateQuotation(h) ==
    trade = "quotation" /\ step[h] = "create" /\ File(h, QuotationData(h), "verify")
CreateSalesOrder(h) ==
    trade = "sales_order" /\ step[h] = "create" /\ File(h, SalesOrderData(h), "verify")
CreatePurchaseOrder(h) ==
    trade = "purchase_order" /\ step[h] = "create"
    /\ File(h, PurchaseOrderData(h), "verify")
CreateSale(h) ==
    trade = "sale" /\ step[h] = "create" /\ File(h, SaleData(h), "verify")
CreatePurchase(h) ==
    trade = "purchase" /\ step[h] = "create" /\ File(h, PurchaseData(h), "verify")

\* verifyWritten...: the read-back.  A sale or purchase goes on to its advance.
Answered(h, of) ==
    /\ trade = of /\ step[h] = "verify" /\ slips[holds[h]].due = 0
    /\ Quit(h) /\ UNCHANGED <<trade, ownList, market, papers, slips, crossed>>
VerifyQuotation(h) == Answered(h, "quotation")
VerifySalesOrder(h) == Answered(h, "sales_order")
VerifyPurchaseOrder(h) == Answered(h, "purchase_order")
VerifySale(h) == Answered(h, "sale")
VerifyPurchase(h) == Answered(h, "purchase")

WriteAdvance(h, of) ==
    /\ trade = of /\ step[h] = "verify" /\ slips[holds[h]].due > 0
    /\ File(h, AdvanceData(h), "check")
WriteSaleAdvance(h) == WriteAdvance(h, "sale")
WritePurchaseAdvance(h) == WriteAdvance(h, "purchase")
CheckAdvance(h) ==
    /\ step[h] = "check"
    /\ Quit(h) /\ UNCHANGED <<trade, ownList, market, papers, slips, crossed>>

\* The site refuses, an answer is lost, a read-back differs, the process dies.
BreakOff(h) ==
    /\ step[h] # "idle"
    /\ Quit(h) /\ UNCHANGED <<trade, ownList, market, papers, slips, crossed>>

-----------------------------------------------------------------------------
PeopleChange ==
    /\ changes < MaxChanges[trade] /\ changes' = changes + 1
    /\ fresh' = [h \in Clerks |-> FALSE]
    /\ UNCHANGED <<trade, ownList, papers, slips, step, holds, reread, crossed>>
SetPrice(l, w, p) ==
    /\ tariff[l][w] # p
    /\ tariff' = [tariff EXCEPT ![l][w] = p]
    /\ PeopleChange /\ UNCHANGED unit
SetUnit(w) ==
    /\ unit[w] = 1 /\ unit' = [unit EXCEPT ![w] = 2]
    /\ PeopleChange /\ UNCHANGED tariff

Prepare(c, lines) ==
    \/ BuildQuotationProposal(c, lines)
    \/ BuildSalesOrderProposal(c, lines)
    \/ \E b \in Bills \cup {Nil} : BuildPurchaseOrderProposal(c, lines, b)
    \/ \E due \in 0..TopPrice : BuildPurchaseProposal(c, lines, due)
    \/ \E due \in 0..TopPrice, off \in 0..1 : BuildSalesProposal(c, lines, off, due)
Carry(h) ==
    \/ \E c \in Slips :
          \/ ExecuteQuotation(h, c) \/ ExecuteSalesOrder(h, c)
          \/ ExecutePurchaseOrder(h, c) \/ ExecuteSale(h, c)
          \/ ExecutePurchase(h, c)
    \/ RereadQuotation(h) \/ RereadSalesOrder(h) \/ RereadPurchaseOrder(h)
    \/ RereadSale(h) \/ RereadPurchase(h)
    \/ CreateQuotation(h) \/ CreateSalesOrder(h) \/ CreatePurchaseOrder(h)
    \/ CreateSale(h) \/ CreatePurchase(h)
    \/ VerifyQuotation(h) \/ VerifySalesOrder(h) \/ VerifyPurchaseOrder(h)
    \/ VerifySale(h) \/ VerifyPurchase(h)
    \/ WriteSaleAdvance(h) \/ WritePurchaseAdvance(h) \/ CheckAdvance(h)
    \/ BreakOff(h)
DraftingNext ==
    \/ \E c \in Slips, lines \in Baskets : Prepare(c, lines)
    \/ \E h \in Clerks : Carry(h)
    \/ \E l \in Lists, w \in Wares, p \in 0..TopPrice : SetPrice(l, w, p)
    \/ \E w \in Wares : SetUnit(w)

DraftingSpec == DraftingInit /\ [][DraftingNext]_draftVars

-----------------------------------------------------------------------------
\* A document holds the lines, prices and discount of the card the user
\* confirmed; an advance its money, and never more than its invoice is worth.
PricedAsShown ==
    \A s \in Sheets : papers[s] # NoPaper =>
        LET slip == slips[papers[s].slip] IN
        /\ papers[s].lines = slip.lines /\ papers[s].rates = slip.rates
        /\ papers[s].is = "draft" => papers[s].off = slip.off
        /\ papers[s].is = "advance" =>
              \E t \in DraftsOf(papers[s].slip) :
                 papers[s].due <= SaleTotal(papers[t].lines, papers[t].rates,
                                            papers[t].off)

\* No document is written at a price or in a stock unit the site no longer
\* has, unless it changed after the executor's reads had begun.
WrittenAtLivePrice ==
    [][\A s \in Sheets :
         /\ papers[s] = NoPaper /\ papers'[s] # NoPaper
         /\ papers'[s].is = "draft" /\ s \notin crossed'
         => LET slip == slips[papers'[s].slip] IN
            \A w \in DOMAIN slip.lines :
               /\ \E l \in Lists : tariff[l][w] = papers'[s].rates[w]
               /\ trade \notin {"sale", "purchase"} => unit[w] = slip.units[w]]_draftVars

\* One document and one advance per card, one order per imported bill, however
\* often they are confirmed, unless two confirmations overlap.
NothingDraftedTwice ==
    crossed = {} => \A s, t \in Sheets :
        /\ papers[s] # NoPaper /\ papers[t] # NoPaper /\ papers[s].is = papers[t].is
        /\ \/ papers[s].slip = papers[t].slip
           \/ papers[s].bill # Nil /\ papers[s].bill = papers[t].bill
        => s = t
=============================================================================
