------------------------------ MODULE Payments ------------------------------
(***************************************************************************)
(* payment.create (skills/payment-write.mjs): money received from a        *)
(* customer or paid to a supplier, against open invoices of that party.    *)
(* buildPaymentProposal settles one invoice, buildCollectProposal several  *)
(* (or none: an advance); executePaymentProposal reads the debts and then  *)
(* the party's DRAFT Payment Entries again before it inserts a draft, and  *)
(* submits it when the user asked for that.                                *)
(*                                                                         *)
(* One party and one direction: the two directions run the same code over  *)
(* Sales or Purchase Invoices.  An action is the code between two calls    *)
(* to the site; the desk acts between them.  The command store around the  *)
(* executor is SafetyGateway's subject.                                    *)
(***************************************************************************)
EXTENDS Integers, FiniteSets, Functions

CONSTANTS
    Invoices,     \* the party's invoices
    Owed,         \* [Invoices -> what each one starts with]
    PayCards,     \* action ids of payment proposals (a bound)
    PayHandlers,  \* confirmations served at once (a bound)
    Entries,      \* names of Payment Entries (a bound)
    DraftLimit,   \* DRAFT_PAYMENT_LOOKUP_LIMIT (10 in the code)
    Oldest(_),    \* the oldest posting date among some invoices
    NoOne

ASSUME PaymentAssumption ==
    /\ IsFiniteSet(Invoices) /\ Owed \in [Invoices -> Nat \ {0}]
    /\ DraftLimit \in Nat \ {0}
    /\ NoOne \notin PayCards \cup Invoices \cup Entries
    /\ \A S \in SUBSET Invoices \ {{}} : Oldest(S) \in S

VARIABLES
    outstanding,  \* [Invoices -> what the books say is still owed]
    entries,      \* [Entries -> the Payment Entry of that name, or NoEntry]
    payCards,     \* [PayCards -> the proposal, or NoPayCard]
    payPc,        \* [PayHandlers -> the call the executor is at]
    payServes,    \* [PayHandlers -> the card it executes]
    wrote,        \* [PayHandlers -> the entry its insert answered]
    gl,           \* [PayHandlers -> the outstanding amounts it read]
    payAlone,     \* [PayHandlers -> nobody wrote since its first read] (history)
    payRaced      \* the entries inserted although somebody did (history)

books == <<outstanding, entries>>
payVars == <<books, payCards, payPc, payServes, wrote, gl, payAlone, payRaced>>

MaxOwed == SumFunction(Owed)
Amounts == 1..MaxOwed
Allocations == UNION {[S -> Amounts] : S \in SUBSET Invoices}
NoAllocation == [i \in {} |-> 0]
\* `seen`: the snapshot of what was left to settle on the chosen invoices.
PayCard == [collect : BOOLEAN, amount : Amounts, alloc : Allocations,
            seen : Allocations, submit : BOOLEAN]
NoPayCard == [collect |-> FALSE, amount |-> 0, alloc |-> NoAllocation,
              seen |-> NoAllocation, submit |-> FALSE]
Entry == [status : {"draft", "submitted", "cancelled"}, paid : Nat,
          refs : Allocations, unallocated : Nat, card : PayCards]
NoEntry == [status |-> "none"]
NothingRead == [i \in Invoices |-> 0]

PaymentTypeOK ==
    /\ outstanding \in [Invoices -> Nat]
    /\ entries \in [Entries -> Entry \cup {NoEntry}]
    /\ payCards \in [PayCards -> PayCard \cup {NoPayCard}]
    /\ payPc \in [PayHandlers -> {"idle", "cover", "advance", "create",
                                  "verify", "submit", "check"}]
    /\ payServes \in [PayHandlers -> PayCards \cup {NoOne}]
    /\ wrote \in [PayHandlers -> Entries \cup {NoOne}]
    /\ gl \in [PayHandlers -> [Invoices -> Nat]]
    /\ payAlone \in [PayHandlers -> BOOLEAN]
    /\ payRaced \subseteq Entries

PaymentInit ==
    /\ outstanding = Owed
    /\ entries = [e \in Entries |-> NoEntry]
    /\ payCards = [c \in PayCards |-> NoPayCard]
    /\ payPc = [h \in PayHandlers |-> "idle"]
    /\ payServes = [h \in PayHandlers |-> NoOne]
    /\ wrote = [h \in PayHandlers |-> NoOne]
    /\ gl = [h \in PayHandlers |-> NothingRead]
    /\ payAlone = [h \in PayHandlers |-> FALSE]
    /\ payRaced = {}

-----------------------------------------------------------------------------
Part(f, i) == IF i \in DOMAIN f THEN f[i] ELSE 0
Total(f) == SumFunction(f)
Having(status) == {e \in Entries : entries[e].status = status}

\* listOpenDraftPaymentEntries: one page of the party's drafts; openDraftCover
\* refuses a full page and sums what the drafts allocate to each invoice.
DraftEntries ==
    LET drafts == Having("draft") IN
    IF Cardinality(drafts) <= DraftLimit THEN drafts
    ELSE CHOOSE T \in SUBSET drafts : Cardinality(T) = DraftLimit
FullDraftPage == Cardinality(DraftEntries) >= DraftLimit
PromisedIn(S, i) == SumFunctionOnSet([e \in S |-> Part(entries[e].refs, i)], S)
\* Broken: the drafts are not looked at.
NoCover == [i \in Invoices |-> 0]
DraftCover == [i \in Invoices |-> PromisedIn(DraftEntries, i)]

\* listOpenPurchaseInvoices, erpnext_sales_invoice_list
OpenInvoices == {i \in Invoices : outstanding[i] # 0}
Effective(i) == outstanding[i] - DraftCover[i]

ShowPayment(c, card) ==
    /\ payCards' = [payCards EXCEPT ![c] = card]
    /\ UNCHANGED <<books, payPc, payServes, wrote, gl, payAlone, payRaced>>

\* One invoice, the one named or the oldest with something left; what exceeds
\* the rest is cut down to it.  said = 0: no amount in the sentence.
BuildPaymentProposal(c, named, said, submit) ==
    LET candidates == {i \in OpenInvoices : Effective(i) # 0}
        i == IF named = NoOne THEN Oldest(candidates) ELSE named
        amount == IF said = 0 \/ said > Effective(i) THEN Effective(i) ELSE said
    IN /\ payCards[c] = NoPayCard
       /\ ~FullDraftPage /\ candidates # {} /\ i \in candidates
       /\ Effective(i) > 0
       /\ ShowPayment(c, [collect |-> FALSE, amount |-> amount,
                           alloc |-> [j \in {i} |-> amount],
                           seen |-> [j \in {i} |-> Effective(i)],
                           submit |-> submit])

\* The collect screen: allocations chosen by the user, their total the amount;
\* none at all only when nothing is left to settle.
BuildCollectProposal(c, alloc, amount, submit) ==
    /\ payCards[c] = NoPayCard
    /\ ~FullDraftPage
    /\ \A i \in DOMAIN alloc : i \in OpenInvoices /\ alloc[i] <= Effective(i)
    /\ IF alloc = NoAllocation
         THEN \A i \in OpenInvoices : Effective(i) <= 0
         ELSE amount = Total(alloc)
    /\ ShowPayment(c, [collect |-> TRUE, amount |-> amount, alloc |-> alloc,
                        seen |-> [i \in DOMAIN alloc |-> Effective(i)],
                        submit |-> submit])

DismissPayment(c) ==
    /\ payCards[c] # NoPayCard
    /\ \A h \in PayHandlers : payServes[h] # c
    /\ \A e \in Entries : entries[e] # NoEntry => entries[e].card # c
    /\ payCards' = [payCards EXCEPT ![c] = NoPayCard]
    /\ UNCHANGED <<books, payPc, payServes, wrote, gl, payAlone, payRaced>>

-----------------------------------------------------------------------------
LeavePayment(h) ==
    /\ payPc' = [payPc EXCEPT ![h] = "idle"]
    /\ payServes' = [payServes EXCEPT ![h] = NoOne]
    /\ wrote' = [wrote EXCEPT ![h] = NoOne]
    /\ gl' = [gl EXCEPT ![h] = NothingRead]
    /\ payAlone' = [payAlone EXCEPT ![h] = FALSE]
GoOn(h, next) ==
    /\ payPc' = [payPc EXCEPT ![h] = next]
    /\ UNCHANGED <<payServes, wrote, gl, payAlone>>

\* The open invoices, and the document of every allocation: each one must
\* still be owed.
ReadDebts(h, c) ==
    /\ payPc[h] = "idle" /\ payCards[c] # NoPayCard
    /\ DOMAIN payCards[c].alloc \subseteq OpenInvoices
    /\ payPc' = [payPc EXCEPT ![h] = IF payCards[c].alloc = NoAllocation
                                       THEN "advance" ELSE "cover"]
    /\ payServes' = [payServes EXCEPT ![h] = c]
    /\ gl' = [gl EXCEPT ![h] = outstanding]
    /\ payAlone' = [payAlone EXCEPT ![h] = TRUE]
    /\ UNCHANGED <<books, payCards, wrote, payRaced>>

\* What is left now must be what the card was built on, and cover the amounts.
LiveEffective(h, i) ==
    IF gl[h][i] > DraftCover[i] THEN gl[h][i] - DraftCover[i] ELSE 0
Drifted(h, card) == \E i \in DOMAIN card.seen : card.seen[i] # LiveEffective(h, i)

ReadCover(h) ==
    LET card == payCards[payServes[h]] IN
    /\ payPc[h] = "cover"
    /\ IF /\ ~FullDraftPage
          /\ ~Drifted(h, card)
          /\ \A i \in DOMAIN card.alloc : card.alloc[i] <= LiveEffective(h, i)
          /\ Total(card.alloc) <= card.amount
         THEN GoOn(h, "create") ELSE LeavePayment(h)
    /\ UNCHANGED <<books, payCards, payRaced>>

\* Broken: the executor trusts the builder's look at the debts.
NoneOpen(h) == {}
\* No invoice chosen: allowed only while nothing is left to settle.
StillOpen(h) == {i \in Invoices : gl[h][i] # 0 /\ gl[h][i] > DraftCover[i]}
ReadAdvanceCover(h) ==
    /\ payPc[h] = "advance"
    /\ IF ~FullDraftPage /\ StillOpen(h) = {} THEN GoOn(h, "create")
                                              ELSE LeavePayment(h)
    /\ UNCHANGED <<books, payCards, payRaced>>

\* buildPaymentEntryData: paid = allocated + unallocated.
PaymentEntryData(c) ==
    LET card == payCards[c]
        unallocated == card.amount - Total(card.alloc)
    IN [status |-> "draft", paid |-> Total(card.alloc) + unallocated,
        refs |-> card.alloc, unallocated |-> unallocated, card |-> c]

FreeEntries == {e \in Entries : entries[e] = NoEntry}
CreatePayment(h) ==
    /\ payPc[h] = "create" /\ FreeEntries # {}
    /\ LET e == CHOOSE x \in FreeEntries : TRUE IN
       /\ entries' = [entries EXCEPT ![e] = PaymentEntryData(payServes[h])]
       /\ payRaced' = IF payAlone[h] THEN payRaced ELSE payRaced \cup {e}
       /\ wrote' = [wrote EXCEPT ![h] = e]
    /\ payPc' = [payPc EXCEPT ![h] = "verify"]
    /\ payAlone' = [g \in PayHandlers |-> FALSE]
    /\ UNCHANGED <<outstanding, payCards, payServes, gl>>

\* verifyWrittenPayment does not look at docstatus.
VerifyPayment(h) ==
    /\ payPc[h] = "verify"
    /\ IF payCards[payServes[h]].submit THEN GoOn(h, "submit") ELSE LeavePayment(h)
    /\ UNCHANGED <<books, payCards, payRaced>>

\* What submitting does to the books; ERPNext refuses to settle more than is
\* owed, and to submit anything but a draft.
Settles(e) ==
    /\ entries[e].status = "draft"
    /\ \A i \in Invoices : Part(entries[e].refs, i) <= outstanding[i]
Settle(e) ==
    /\ entries' = [entries EXCEPT ![e].status = "submitted"]
    /\ outstanding' = [i \in Invoices |->
                          outstanding[i] - Part(entries[e].refs, i)]

\* A refused submit leaves the draft and answers "not verified".
SubmitPayment(h) ==
    \E e \in Entries :
        /\ payPc[h] = "submit" /\ e = wrote[h]
        /\ IF Settles(e)
             THEN /\ Settle(e)
                  /\ payPc' = [payPc EXCEPT ![h] = "check"]
                  /\ payAlone' = [g \in PayHandlers |-> FALSE]
                  /\ UNCHANGED <<payServes, wrote, gl>>
             ELSE LeavePayment(h) /\ UNCHANGED books
        /\ UNCHANGED <<payCards, payRaced>>
\* The read-back of docstatus: whatever it says, the executor is done.
CheckSubmitted(h) ==
    /\ payPc[h] = "check"
    /\ LeavePayment(h)
    /\ UNCHANGED <<books, payCards, payRaced>>

-----------------------------------------------------------------------------
DeskMoved ==
    /\ payAlone' = [h \in PayHandlers |-> FALSE]
    /\ UNCHANGED <<payCards, payPc, payServes, wrote, gl, payRaced>>
DeskSubmits(e) == Settles(e) /\ Settle(e) /\ DeskMoved
DeskCancels(e) ==
    /\ entries[e].status = "submitted"
    /\ entries' = [entries EXCEPT ![e].status = "cancelled"]
    /\ outstanding' = [i \in Invoices |->
                          outstanding[i] + Part(entries[e].refs, i)]
    /\ DeskMoved

ExecutePayment(h) ==
    \/ \E c \in PayCards : ReadDebts(h, c)
    \/ ReadCover(h) \/ ReadAdvanceCover(h)
    \/ CreatePayment(h) \/ VerifyPayment(h)
    \/ SubmitPayment(h) \/ CheckSubmitted(h)
PaymentNext ==
    \/ \E c \in PayCards, s \in BOOLEAN :
          \/ \E i \in Invoices \cup {NoOne}, a \in {0} \cup Amounts :
                BuildPaymentProposal(c, i, a, s)
          \/ \E alloc \in Allocations, a \in Amounts :
                BuildCollectProposal(c, alloc, a, s)
    \/ \E c \in PayCards : DismissPayment(c)
    \/ \E h \in PayHandlers : ExecutePayment(h)
    \/ \E e \in Entries : DeskSubmits(e) \/ DeskCancels(e)

PaymentSpec == PaymentInit /\ [][PaymentNext]_payVars

-----------------------------------------------------------------------------
\* "submitting both drafts would overpay the invoice": what the open drafts
\* allocate to an invoice never exceeds what is owed on it, unless an entry
\* was inserted between another writer's reads and insert.
NoDebtPromisedTwice ==
    payRaced = {} =>
        \A i \in Invoices : PromisedIn(Having("draft"), i) <= outstanding[i]

\* An advance is written only when nothing is left to settle - not while a
\* debt nobody promised to pay is open.
AdvanceAfterDebts ==
    [][\A e \in Entries :
         /\ entries[e] = NoEntry /\ entries'[e] # NoEntry
         /\ e \notin payRaced'
         /\ entries'[e].refs = NoAllocation
         => \A i \in Invoices : Effective(i) <= 0]_payVars
=============================================================================
