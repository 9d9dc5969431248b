------------------------------- MODULE MCShop -------------------------------
(***************************************************************************)
(* The skills that write to the site, each on its own small instance.      *)
(* They share no state but the site, of which each one draws on documents  *)
(* of its own: `part` is the skill a behaviour runs, and the state of the  *)
(* others stays as it was.  Their state spaces add up instead of           *)
(* multiplying, and every action is a disjunct of its own.                 *)
(***************************************************************************)
EXTENDS Fulfilment, Payments, MoneyAccount, Drafting,
        StockIssue, NewCustomer, TLC

CONSTANT s1   \* the slip every trade uses; only a purchase order has a second

VARIABLE part
shopVars == <<part, goodsVars, payVars, moneyVars, draftVars, stockVars, customerVars>>

\* The instances.
ShopOrdered == [o \in Orders |-> [i \in Items |-> IF i = "a" THEN 2 ELSE 1]]
ShopOwed == [i \in Invoices |-> IF i = "i1" THEN 2 ELSE 1]
ShopOldest(S) == IF "i1" \in S THEN "i1" ELSE CHOOSE i \in S : TRUE
ShopMeaning == [m \in Modes |-> CASE m = "Cash" -> "cash" [] m = "Card" -> "none"
                                  [] OTHER -> "bank"]
ShopTypeOf == [a \in Accounts |-> IF a = "1111" THEN "cash" ELSE "bank"]
ShopStartPrice == [w \in Wares |-> IF w = "x" THEN 1 ELSE 2]
ShopSlips == [t \in Trades |-> IF t = "purchase_order" THEN Slips ELSE {s1}]
ShopChanges == [t \in Trades |-> IF t = "sale" THEN 2 ELSE 1]
ShopNames == {<<"Lan">>, <<"Thi", "Lan">>, <<"Hoa">>}
Symmetry == Permutations(Cards) \cup Permutations(Handlers)

\* A part that does not run stays in one state.
NoWish == [master |-> "pay", verb |-> "none", mode |-> "Cash", account |-> Nobody]
NoShop == [modes |-> <<>>, listed |-> FALSE, default |-> [c \in Channels |-> Nobody]]
NoPolicy == [env |-> Blankly, reqd |-> FALSE]
ShopInit ==
    /\ part \in {"goods", "payments", "money", "drafting", "stock", "customers"}
    /\ GoodsInit /\ (part # "goods" => kind = "delivery")
    /\ PaymentInit
    /\ IF part = "money" THEN MoneyInit
                         ELSE shop = NoShop /\ wish = NoWish /\ plan = NoPlan
    /\ DraftingInit /\ ownList = 0 /\ (part # "drafting" => trade = "quotation")
    /\ StockInit
    /\ CustomerInit /\ policy \in {NoPolicy} \cup
          IF part = "customers" THEN [env : Groups, reqd : {TRUE}] ELSE {}

InGoods(A) == part = "goods" /\ A
    /\ UNCHANGED <<part, payVars, moneyVars, draftVars, stockVars, customerVars>>
InPayments(A) == part = "payments" /\ A
    /\ UNCHANGED <<part, goodsVars, moneyVars, draftVars, stockVars, customerVars>>
InMoney(A) == part = "money" /\ A
    /\ UNCHANGED <<part, goodsVars, payVars, draftVars, stockVars, customerVars>>
InDrafting(A) == part = "drafting" /\ A
    /\ UNCHANGED <<part, goodsVars, payVars, moneyVars, stockVars, customerVars>>
InStock(A) == part = "stock" /\ A
    /\ UNCHANGED <<part, goodsVars, payVars, moneyVars, draftVars, customerVars>>
InCustomers(A) == part = "customers" /\ A
    /\ UNCHANGED <<part, goodsVars, payVars, moneyVars, draftVars, stockVars>>

\* What a part enumerates, and only while it runs.
In(p, S) == IF part = p THEN S ELSE {}

ShopNext ==
  \/ \E c \in In("goods", Cards), named \in Orders \cup {None}, want \in Lines :
        InGoods(BuildDeliveryProposal(c, named, want))
  \/ \E c \in In("goods", Cards), named \in Orders \cup {None}, want \in Lines :
        InGoods(BuildPurchaseReceiptProposal(c, named, want))
  \/ \E c \in In("goods", Cards), named \in Orders \cup {None}, want \in Lines :
        InGoods(BuildSalesInvoiceProposal(c, named, want))
  \/ \E c \in In("goods", Cards), named \in Orders \cup {None}, want \in Lines :
        InGoods(BuildSalesReturnProposal(c, named, want))
  \/ \E h \in Handlers, c \in Shown :
        \/ InGoods(ExecuteDelivery(h, c))
        \/ InGoods(ExecutePurchaseReceipt(h, c))
        \/ InGoods(ExecuteSalesInvoice(h, c))
        \/ InGoods(ExecuteSalesReturn(h, c))
  \/ \E h \in Handlers :
        \/ InGoods(ReadReturns(h))
        \/ InGoods(RecheckDelivery(h))
        \/ InGoods(RecheckPurchaseReceipt(h))
        \/ InGoods(RecheckSalesInvoice(h))
        \/ InGoods(RecheckSalesReturn(h))
        \/ InGoods(CreateDeliveryNote(h))
        \/ InGoods(CreatePurchaseReceipt(h))
        \/ InGoods(CreateSalesInvoice(h))
        \/ InGoods(CreateSalesReturn(h))
        \/ InGoods(VerifyDeliveryNote(h))
        \/ InGoods(VerifyPurchaseReceipt(h))
        \/ InGoods(VerifySalesInvoice(h))
        \/ InGoods(VerifySalesReturn(h))
  \/ \E c \in Cards : InGoods(Dismiss(c))
  \/ \E n \in Names : InGoods(SubmitNote(n)) \/ InGoods(CancelNote(n))
  \/ \E o \in Orders : InGoods(CancelSource(o)) \/ InGoods(Reprice(o))
  \/ \E c \in In("payments", PayCards), s \in BOOLEAN,
        i \in Invoices \cup {NoOne}, a \in {0} \cup Amounts :
        InPayments(BuildPaymentProposal(c, i, a, s))
  \/ \E c \in In("payments", PayCards), s \in BOOLEAN,
        alloc \in Allocations, a \in Amounts :
        InPayments(BuildCollectProposal(c, alloc, a, s))
  \/ \E c \in PayCards : InPayments(DismissPayment(c))
  \/ \E h \in PayHandlers :
        \/ InPayments(\E c \in PayCards : ReadDebts(h, c))
        \/ InPayments(ReadCover(h))
        \/ InPayments(ReadAdvanceCover(h))
        \/ InPayments(CreatePayment(h))
        \/ InPayments(VerifyPayment(h))
        \/ InPayments(SubmitPayment(h))
        \/ InPayments(CheckSubmitted(h))
  \/ \E e \in Entries : InPayments(DeskSubmits(e)) \/ InPayments(DeskCancels(e))
  \/ InMoney(ResolveMoney)
  \/ \E c \in In("drafting", Slips), lines \in Baskets :
        InDrafting(BuildQuotationProposal(c, lines))
  \/ \E c \in In("drafting", Slips), lines \in Baskets :
        InDrafting(BuildSalesOrderProposal(c, lines))
  \/ \E c \in In("drafting", Slips), lines \in Baskets, b \in Bills \cup {Nil} :
        InDrafting(BuildPurchaseOrderProposal(c, lines, b))
  \/ \E c \in In("drafting", Slips), lines \in Baskets, due \in 0..TopPrice :
        InDrafting(BuildPurchaseProposal(c, lines, due))
  \/ \E c \in In("drafting", Slips), lines \in Baskets, due \in 0..TopPrice,
        off \in 0..1 : InDrafting(BuildSalesProposal(c, lines, off, due))
  \/ \E h \in Clerks, c \in Slips :
        \/ InDrafting(ExecuteQuotation(h, c))
        \/ InDrafting(ExecuteSalesOrder(h, c))
        \/ InDrafting(ExecutePurchaseOrder(h, c))
        \/ InDrafting(ExecuteSale(h, c))
        \/ InDrafting(ExecutePurchase(h, c))
  \/ \E h \in Clerks :
        \/ InDrafting(RereadQuotation(h))
        \/ InDrafting(RereadSalesOrder(h))
        \/ InDrafting(RereadPurchaseOrder(h))
        \/ InDrafting(RereadSale(h))
        \/ InDrafting(RereadPurchase(h))
        \/ InDrafting(CreateQuotation(h))
        \/ InDrafting(CreateSalesOrder(h))
        \/ InDrafting(CreatePurchaseOrder(h))
        \/ InDrafting(CreateSale(h))
        \/ InDrafting(CreatePurchase(h))
        \/ InDrafting(VerifyQuotation(h))
        \/ InDrafting(VerifySalesOrder(h))
        \/ InDrafting(VerifyPurchaseOrder(h))
        \/ InDrafting(VerifySale(h))
        \/ InDrafting(VerifyPurchase(h))
        \/ InDrafting(WriteSaleAdvance(h))
        \/ InDrafting(WritePurchaseAdvance(h))
        \/ InDrafting(CheckAdvance(h))
        \/ InDrafting(BreakOff(h))
  \/ \E w \in Wares : InDrafting(SetUnit(w))
  \/ \E l \in Lists, w \in Wares, p \in 0..TopPrice : InDrafting(SetPrice(l, w, p))
  \/ \E f \in In("stock", Forms), qty \in 1..Shelf, factor \in Factors :
        InStock(BuildStockAdjustmentProposal(f, qty, factor))
  \/ \E k \in Keepers :
        \/ InStock(\E f \in Forms : ExecuteStockAdjustment(k, f))
        \/ InStock(ReadStock(k))
        \/ InStock(ReadDrafts(k))
        \/ InStock(CannotRead(k))
        \/ InStock(CreateStockEntry(k))
        \/ InStock(VerifyStockEntry(k))
  \/ \E n \in Issues : InStock(SubmitIssue(n))
  \/ \E a \in In("customers", Applicants), name \in FullNames, ids \in SUBSET Numbers :
        InCustomers(BuildCustomerCreate(a, name, ids))
  \/ \E t \in Tellers :
        \/ InCustomers(\E a \in Applicants : ProbeCustomer(t, a))
        \/ InCustomers(RereadCustomers(t))
        \/ InCustomers(RereadProfile(t))
        \/ InCustomers(CreateCustomer(t))
        \/ InCustomers(VerifyCustomer(t))
  \/ \E name \in FullNames : InCustomers(SomebodyEnters(name))
  \/ \E g \in Groups : InCustomers(RemoveGroup(g))

ShopSpec == ShopInit /\ [][ShopNext]_shopVars

\* Every variable has its type, in every part.
ShopTypeOK ==
    CASE part = "goods"     -> GoodsTypeOK
      [] part = "payments"  -> PaymentTypeOK
      [] part = "drafting"  -> DraftingTypeOK
      [] part = "stock"     -> StockTypeOK
      [] part = "customers" -> CustomerTypeOK
      [] OTHER              -> shop \in Shops /\ wish \in Wishes
=============================================================================
