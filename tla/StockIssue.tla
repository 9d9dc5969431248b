----------------------------- MODULE StockIssue -----------------------------
(***************************************************************************)
(* stock.adjustment (skills/stock-adjustment-write.mjs): write damaged     *)
(* goods off, as a DRAFT Stock Entry.  The quantity may not exceed what is *)
(* on the shelf less what other draft entries will take; the builder and   *)
(* the executor both read the stock first and the drafts after it.         *)
(*                                                                         *)
(* One item in one warehouse; a line may be in a larger unit, converted    *)
(* with the factor of the card.                                            *)
(***************************************************************************)
EXTENDS Integers, FiniteSets, Functions

CONSTANTS
    Shelf,        \* actual_qty at first
    Factors,      \* conversion factors of the units a user may say
    Issues,       \* names of Stock Entries (a bound)
    Forms,        \* action ids of proposals (a bound)
    Keepers,      \* confirmations served at once (a bound)
    PageOfDrafts, \* DRAFT_LOOKUP_LIMIT (10 in the code)
    Nowhere

ASSUME StockAssumption ==
    /\ Shelf \in Nat /\ Factors \subseteq Nat \ {0} /\ 1 \in Factors
    /\ PageOfDrafts \in Nat \ {0} /\ Nowhere \notin Forms

VARIABLES
    onHand,    \* Bin.actual_qty of the item in the warehouse
    issues,    \* [Issues -> the entry of that name, or NoIssue]
    forms,     \* [Forms -> the proposal, or NoForm]
    at,        \* [Keepers -> the call the executor is at]
    form,      \* [Keepers -> the form it executes]
    counted,   \* [Keepers -> the stock it read]
    sure,      \* [Keepers -> nobody wrote since its first read] (history)
    guess,     \* [Keepers -> it found the drafts it could not count] (history)
    mixed,     \* entries inserted although somebody did write (history)
    blind      \* entries inserted on such a guess (history)

keepers == <<at, form, counted, sure, guess>>
stockVars == <<onHand, issues, forms, keepers, mixed, blind>>

NoForm == [qty |-> 0, factor |-> 1]
NoIssue == [status |-> "none"]

StockTypeOK ==
    /\ onHand \in 0..Shelf
    /\ \A n \in Issues : issues[n] # NoIssue =>
          issues[n].status \in {"draft", "submitted"} /\ issues[n].form \in Forms
    /\ forms \in [Forms -> [qty : 0..Shelf, factor : Factors]]
    /\ at \in [Keepers -> {"idle", "stock", "drafts", "create", "verify"}]
    /\ form \in [Keepers -> Forms \cup {Nowhere}]
    /\ counted \in [Keepers -> 0..Shelf]
    /\ sure \in [Keepers -> BOOLEAN] /\ guess \in [Keepers -> BOOLEAN]
    /\ mixed \subseteq Issues /\ blind \subseteq Issues

StockInit ==
    /\ onHand = Shelf
    /\ issues = [n \in Issues |-> NoIssue]
    /\ forms = [f \in Forms |-> NoForm]
    /\ at = [k \in Keepers |-> "idle"]
    /\ form = [k \in Keepers |-> Nowhere]
    /\ counted = [k \in Keepers |-> 0]
    /\ sure = [k \in Keepers |-> FALSE] /\ guess = [k \in Keepers |-> FALSE]
    /\ mixed = {} /\ blind = {}

-----------------------------------------------------------------------------
Drafts == {n \in Issues : issues[n].status = "draft"}
InStockUnit(x) == x.qty * x.factor
DrawnBy(S) == SumFunctionOnSet([n \in S |-> InStockUnit(issues[n])], S)

\* listOpenDraftStockEntries, openDraftCover: one page of the drafts, each read
\* by a call of its own, in the unit of the stock.  A full page may hide a
\* draft, and of the page some may be unreadable: then the cover is unknown.
DraftPage ==
    IF Cardinality(Drafts) <= PageOfDrafts THEN Drafts
    ELSE CHOOSE S \in SUBSET Drafts : Cardinality(S) = PageOfDrafts
Unknown(unread) == Cardinality(DraftPage) >= PageOfDrafts \/ unread # {}
Covered(unread) == DrawnBy(DraftPage \ unread)

\* The warehouse and the quantity must both be said (pickWarehouse).
BuildStockAdjustmentProposal(f, qty, factor) ==
    /\ forms[f] = NoForm
    /\ \E unread \in SUBSET DraftPage :
         ~Unknown(unread) /\ qty * factor <= onHand - Covered(unread)
    /\ forms' = [forms EXCEPT ![f] = [qty |-> qty, factor |-> factor]]
    /\ UNCHANGED <<onHand, issues, keepers, mixed, blind>>

\* reconcileStockEntry
IssueOf(f) == {n \in Issues : issues[n] # NoIssue /\ issues[n].form = f}

ExecuteStockAdjustment(k, f) ==
    /\ at[k] = "idle" /\ forms[f] # NoForm /\ IssueOf(f) = {}
    /\ at' = [at EXCEPT ![k] = "stock"]
    /\ form' = [form EXCEPT ![k] = f]
    /\ sure' = [sure EXCEPT ![k] = TRUE]
    /\ UNCHANGED <<onHand, issues, forms, counted, guess, mixed, blind>>

GoAway(k) ==
    /\ at' = [at EXCEPT ![k] = "idle"]
    /\ form' = [form EXCEPT ![k] = Nowhere]
    /\ counted' = [counted EXCEPT ![k] = 0]
    /\ sure' = [sure EXCEPT ![k] = FALSE]
    /\ guess' = [guess EXCEPT ![k] = FALSE]

\* ERP_UNAVAILABLE: the stock, or the list of the drafts, cannot be read.
CannotRead(k) ==
    /\ at[k] \in {"stock", "drafts"}
    /\ GoAway(k) /\ UNCHANGED <<onHand, issues, forms, mixed, blind>>

\* listStockRows, stockRowsFor
ReadStock(k) ==
    /\ at[k] = "stock"
    /\ at' = [at EXCEPT ![k] = "drafts"]
    /\ counted' = [counted EXCEPT ![k] = onHand]
    /\ UNCHANGED <<onHand, issues, forms, form, sure, guess, mixed, blind>>

\* What the executor compares the card with: an unknown cover counts as none.
Available(k, unread) ==
    counted[k] - (IF Unknown(unread) THEN 0 ELSE Covered(unread))
\* Broken: the quantity is compared in the unit of the line.
FitsUnconverted(k, unread) == forms[form[k]].qty <= Available(k, unread)
FitsShelf(k, unread) == InStockUnit(forms[form[k]]) <= Available(k, unread)

ReadDrafts(k) ==
    /\ at[k] = "drafts"
    /\ \E unread \in SUBSET DraftPage :
         IF FitsShelf(k, unread)
         THEN /\ at' = [at EXCEPT ![k] = "create"]
              /\ counted' = [counted EXCEPT ![k] = 0]
              /\ guess' = [guess EXCEPT ![k] = Unknown(unread)]
              /\ UNCHANGED <<form, sure>>
         ELSE GoAway(k)
    /\ UNCHANGED <<onHand, issues, forms, mixed, blind>>

\* buildStockEntryData, createStockEntry: the quantity and factor of the card.
StockEntryData(k) ==
    [status |-> "draft", form |-> form[k],
     qty |-> forms[form[k]].qty, factor |-> forms[form[k]].factor]
Unused == {n \in Issues : issues[n] = NoIssue}
CreateStockEntry(k) ==
    /\ at[k] = "create"
    /\ Unused # {}
    /\ LET n == CHOOSE m \in Unused : TRUE IN
       /\ issues' = [issues EXCEPT ![n] = StockEntryData(k)]
       /\ mixed' = IF sure[k] THEN mixed ELSE mixed \cup {n}
       /\ blind' = IF guess[k] THEN blind \cup {n} ELSE blind
    /\ at' = [at EXCEPT ![k] = "verify"]
    /\ sure' = [g \in Keepers |-> FALSE]
    /\ UNCHANGED <<onHand, forms, form, counted, guess>>
\* verifyWrittenStockEntry: either answer leaves the entry on the site.
VerifyStockEntry(k) ==
    /\ at[k] = "verify"
    /\ GoAway(k) /\ UNCHANGED <<onHand, issues, forms, mixed, blind>>

-----------------------------------------------------------------------------
\* People submit drafts; the site refuses a negative stock.
SubmitIssue(n) ==
    /\ issues[n].status = "draft" /\ InStockUnit(issues[n]) <= onHand
    /\ issues' = [issues EXCEPT ![n].status = "submitted"]
    /\ onHand' = onHand - InStockUnit(issues[n])
    /\ sure' = [k \in Keepers |-> FALSE]
    /\ UNCHANGED <<forms, at, form, counted, guess, mixed, blind>>

StockNext ==
    \/ \E f \in Forms, qty \in 1..Shelf, factor \in Factors :
          BuildStockAdjustmentProposal(f, qty, factor)
    \/ \E k \in Keepers :
          \/ \E f \in Forms : ExecuteStockAdjustment(k, f)
          \/ ReadStock(k) \/ ReadDrafts(k) \/ CannotRead(k)
          \/ CreateStockEntry(k) \/ VerifyStockEntry(k)
    \/ \E n \in Issues : SubmitIssue(n)

StockSpec == StockInit /\ [][StockNext]_stockVars

-----------------------------------------------------------------------------
\* Open drafts never promise away more than is on the shelf, in the unit of
\* the stock, unless an entry was inserted between another writer's reads and
\* insert, or by an executor that could not know all the drafts: the page was
\* full, or one of them could not be read.  There the executor (line 710) counts
\* no draft at all, against "never assumed empty" (177).
ShelfNotOverdrawn ==
    mixed = {} /\ blind = {} => DrawnBy(Drafts) <= onHand
=============================================================================
