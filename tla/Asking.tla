------------------------------- MODULE Asking -------------------------------
(***************************************************************************)
(* A sentence becomes an answer, a card or a screen: answerQuestion() of   *)
(* copilot-server.mjs, the resolution of the party a sentence names        *)
(* (entity-resolution.mjs), the tickets that open a mobile screen          *)
(* (business-handoff.mjs) and the cards those screens ask for.             *)
(*                                                                         *)
(* The site's lists change between the reads of one sentence.  A name is a *)
(* sequence of words and `includes` is containment of words.  What the     *)
(* builder of a card checks of its own is in the modules of the skills;    *)
(* here a builder makes its card or refuses.  One user asks: the principal *)
(* is fixed for the life of the server.                                    *)
(***************************************************************************)
EXTENDS Integers, Sequences, FiniteSets

CONSTANTS
  Rows,        \* customers, suppliers and items the site may list
  NameOf,      \* [Rows -> Seq(words)]
  BookOf,      \* [Rows -> {"customer", "supplier", "item"}]
  AskedFor,    \* the kinds of questions asked, of Groups
  Sayings,     \* what a sentence may say of a name, an amount after it included
  AmountsIn,   \* [Sayings -> the places of the words the extractors take for amounts]
  Talks,       \* conversations
  Passes,      \* handoff ids
  PassHours,   \* HANDOFF_TTL_MS, in ticks
  LastHour,    \* bound on the clock
  Askers,      \* requests in progress at a time
  Nemo         \* nobody: no row, no pick, no conversation, no ticket

ASSUME AskingAssumption ==
    /\ Nemo \notin Rows \cup Talks \cup Passes /\ IsFiniteSet(Rows)
    /\ PassHours \in Nat /\ LastHour \in Nat
    /\ \A s \in Sayings : Len(s) \in Nat
    /\ AmountsIn \in [Sayings -> SUBSET Nat]

VARIABLES
  listed,      \* the rows the site lists
  asks,        \* what each request has read so far
  passes,      \* HandoffStore.entries; an expired ticket is `gone`
  hour,
  reply        \* the card or the answer the last step showed
askVars == <<listed, asks, passes, hour, reply>>

OrderGroups == {"sales_order_write", "quotation_write", "purchase_order_write"}
DrawGroups == {"delivery_write", "purchase_receipt_write", "sales_invoice_write"}
OwnParty == {"customer_create_write", "stock_adjustment_write", "sales_return_write"}
ReadGroups == {"balance", "sales", "payment", "supplier", "inventory", "sales_summary"}
WriteGroups == OrderGroups \cup DrawGroups
                 \cup {"payment_write", "sales_write", "purchase_invoice_write"}
Groups == WriteGroups \cup OwnParty \cup ReadGroups
SupplierGroups == {"purchase_order_write", "purchase_receipt_write", "purchase_invoice_write"}
BothBooks == {"payment_write", "payment"}
PartyGroups == WriteGroups \cup {"balance", "sales", "payment"}

Screens == {"collect", "sales", "purchase"}
ASSUME GroupsAssumption == AskedFor \subseteq Groups /\ Nemo \notin Screens
ScreenOf(g) == CASE g = "payment_write" -> "collect"
                 [] g = "sales_write" -> "sales"
                 [] g = "purchase_invoice_write" -> "purchase"
                 [] OTHER -> Nemo

\* A question; a conversation, and a pick of a kind the picker offers, only
\* where the answer looks at it.
PicksOf(g) == CASE g = "inventory" -> {"item"}
                [] g = "supplier" -> {"supplier"}
                [] g \in BothBooks -> {"customer", "supplier"}
                [] g \in PartyGroups \ (SupplierGroups \cup BothBooks) -> {"customer"}
                [] OTHER -> {}
Questions ==
    {q \in [group : AskedFor, says : Sayings, pick : Rows \cup {Nemo}, talk : Talks \cup {Nemo}] :
       /\ q.pick # Nemo => BookOf[q.pick] \in PicksOf(q.group)
       /\ q.talk # Nemo <=> ScreenOf(q.group) # Nemo}

---------------------------------------------------------------------------
(* Finding the party in a list.                                            *)

Spans(s) == {p \in (1..Len(s)) \X (1..Len(s)) : p[1] <= p[2]}
Cut(s, p) == SubSeq(s, p[1], p[2])
Frags(s) == {Cut(s, p) : p \in Spans(s)}

\* nameCandidates walks the starts in order, and from each the longest first.
Foremost(P) == CHOOSE p \in P :
                 \A q \in P : p[1] < q[1] \/ (p[1] = q[1] /\ p[2] >= q[2])

Exact(list, f) == {r \in list : NameOf[r] = f}
Hits(list, f) == {r \in list : f \in Frags(NameOf[r])}

\* A lone hit whose name goes on where the sentence says another word is
\* another person: no shorter fragment from that word on is tried.
Contradicted(list, s, p) ==
    /\ p[2] < Len(s)
    /\ \E r \in Rows :
         /\ Hits(list, Cut(s, p)) = {r}
         /\ \E e \in Spans(NameOf[r]) :
              Cut(NameOf[r], e) = Cut(s, p) /\ e[2] < Len(NameOf[r])
         /\ <<s[p[2] + 1]>> \notin Frags(NameOf[r])
Tried(list, s) == {p \in Spans(s) :
                     ~\E q \in Spans(s) : /\ q[1] = p[1] /\ q[2] >= p[2]
                                          /\ Contradicted(list, s, q)}

\* The sentence with the words of its amounts and quantities blanked out: what
\* the payment routes look a party up with, and no other route.
TextWithoutAmounts(s) ==
    LET kept == {i \in 1..Len(s) : i \notin AmountsIn[s]} IN
    [n \in 1..Cardinality(kept) |->
        s[CHOOSE i \in kept : Cardinality({j \in kept : j <= i}) = n]]
PartyText(q) ==
    IF q.group \in BothBooks THEN TextWithoutAmounts(q.says) ELSE q.says

\* resolvePartyFromList: which of several equals comes first is the site's order.
Resolutions(list, s) ==
  LET alone == {p \in Spans(s) : Cardinality(Exact(list, Cut(s, p))) = 1}
      lone  == {p \in Tried(list, s) : Cardinality(Hits(list, Cut(s, p))) = 1}
      twins == {p \in Spans(s) : Cardinality(Exact(list, Cut(s, p))) > 1}
      many  == {p \in Tried(list, s) : Cardinality(Hits(list, Cut(s, p))) > 1}
      long  == {p \in many : p[1] < p[2]}
      Of(S, amb) == {[row |-> r, amb |-> amb] : r \in S}
  IN CASE alone # {} -> Of(Exact(list, Cut(s, Foremost(alone))), FALSE)
       [] alone = {} /\ lone # {} -> Of(Hits(list, Cut(s, Foremost(lone))), FALSE)
       [] alone = {} /\ lone = {} /\ twins # {} ->
            Of(Exact(list, Cut(s, Foremost(twins))), TRUE)
       [] alone = {} /\ lone = {} /\ twins = {} /\ long # {} ->
            Of(Hits(list, Cut(s, Foremost(long))), TRUE)
       [] OTHER -> Of({Nemo}, many # {})

\* resolveEntityByText, for a sentence that looks a supplier up.
LookedUp(list, s) ==
  LET pool == {r \in list : NameOf[r] \in Frags(s)}
      longest == {r \in pool : \A t \in pool : Len(NameOf[t]) <= Len(NameOf[r])}
      near == {r \in list : Frags(NameOf[r]) \cap Frags(s) # {}}
  IN IF pool # {} THEN longest ELSE near

\* The inventory branch: the items of which the sentence says most words.
Said(r, s) == {n \in 1..Len(NameOf[r]) : SubSeq(NameOf[r], 1, n) \in Frags(s)}
NamedItems(list, s) ==
    {r \in list : \E n \in Said(r, s) : \A t \in list : \A m \in Said(t, s) : m <= n}

\* Broken: a name that the sentence says in part is as good as a whole one.
MatchFuzzyIsExact(a) ==
    CASE a.row = Nemo -> IF a.amb THEN "AMBIGUOUS_MATCH" ELSE "NO_MATCH"
      [] a.row # Nemo /\ ~a.picked /\ a.amb -> "AMBIGUOUS_MATCH"
      [] OTHER -> "EXACT_MATCH"
\* classifyResolution: what was found, and how surely.  A name is exact when the
\* whole sentence says it, in a payment with the amounts still there.
Match(a) ==
    CASE a.row = Nemo -> IF a.amb THEN "AMBIGUOUS_MATCH" ELSE "NO_MATCH"
      [] a.row # Nemo /\ a.picked -> "EXACT_MATCH"
      [] a.row # Nemo /\ ~a.picked /\ a.amb -> "AMBIGUOUS_MATCH"
      [] OTHER -> IF NameOf[a.row] \in Frags(a.q.says) THEN "EXACT_MATCH"
                                                      ELSE "FUZZY_SINGLE_MATCH"

Book(b) == {r \in listed : BookOf[r] = b}
---------------------------------------------------------------------------
(* A request.                                                              *)

NoQuestion == [group |-> "balance", says |-> <<>>, pick |-> Nemo, talk |-> Nemo]
Idle == [stage |-> "idle", q |-> NoQuestion, row |-> Nemo, amb |-> FALSE,
         picked |-> FALSE, book |-> "customer", saw |-> {}, other |-> {},
         pass |-> Nemo, door |-> Nemo, at |-> 0]
NoReply == [kind |-> "none", ask |-> Idle]

AskingInit ==
    /\ listed \in SUBSET Rows
    /\ asks = [h \in Askers |-> Idle]
    /\ passes = [i \in Passes |-> [screen |-> Nemo, talk |-> Nemo, at |-> 0, gone |-> FALSE]]
    /\ hour = 0
    /\ reply = NoReply

At(h, stage) == asks[h].stage = stage
Done(h) == asks' = [asks EXCEPT ![h] = Idle]
Showing(h, kind) ==
    /\ reply' = [kind |-> kind, ask |-> asks[h]]
    /\ Done(h) /\ UNCHANGED <<listed, passes, hour>>
Silent(h) == Done(h) /\ reply' = NoReply /\ UNCHANGED <<listed, passes, hour>>

Ask(h, q) ==
    /\ At(h, "idle")
    /\ asks' = [asks EXCEPT ![h] = [Idle EXCEPT !.stage = "heard", !.q = q]]
    /\ reply' = NoReply
    /\ UNCHANGED <<listed, passes, hour>>

\* NLP down, a word that leaves the picker, no route or an unsure one, a
\* forbidden capability, one without a skill, or a user without the right.
TurnDown(h) == At(h, "heard") /\ Silent(h)

\* The revenue of a day is about a company and no party.
AnswerSummary(h) ==
    At(h, "heard") /\ asks[h].q.group = "sales_summary" /\ Showing(h, "answer")

\* A new customer, stock written off, goods returned: the builder finds its
\* own subject.
BuildOwnParty(h) ==
    /\ At(h, "heard") /\ asks[h].q.group \in OwnParty
    /\ Showing(h, "card") \/ Silent(h)

\* The item of a stock question; a pick that is no longer listed is refused.
AnswerInventory(h) ==
    LET q == asks[h].q
        named == NamedItems(Book("item"), q.says)
        row == IF q.pick # Nemo THEN q.pick ELSE CHOOSE r \in named : TRUE IN
    /\ At(h, "heard") /\ q.group = "inventory"
    /\ IF q.pick # Nemo /\ Book("item") # {} /\ q.pick \notin Book("item")
       THEN Silent(h)
       ELSE /\ reply' = [kind |-> "answer", ask |-> [asks[h] EXCEPT
                  !.row = IF q.pick \in Book("item") \/ Cardinality(named) = 1
                          THEN row ELSE Nemo,
                  !.picked = q.pick \in Book("item"),
                  !.book = "item", !.saw = Book("item")]]
            /\ Done(h) /\ UNCHANGED <<listed, passes, hour>>

\* The details of a supplier, picked or the only one the sentence may mean.
AnswerSupplier(h) ==
    LET q == asks[h].q
        found == LookedUp(Book("supplier"), q.says) IN
    /\ At(h, "heard") /\ q.group = "supplier"
    /\ \/ /\ q.pick \in Book("supplier") \/ (q.pick = Nemo /\ Cardinality(found) = 1)
          /\ reply' = [kind |-> "answer", ask |-> [asks[h] EXCEPT
                !.row = IF q.pick # Nemo THEN q.pick ELSE CHOOSE r \in found : TRUE,
                !.picked = q.pick # Nemo,
                !.book = "supplier", !.saw = Book("supplier")]]
          /\ Done(h) /\ UNCHANGED <<listed, passes, hour>>
       \/ /\ q.pick \notin Book("supplier")
          /\ q.pick = Nemo => Cardinality(found) # 1
          /\ Silent(h)

ReadCustomers(h) ==
    LET q == asks[h].q IN
    /\ At(h, "heard") /\ q.group \in PartyGroups /\ q.group \notin SupplierGroups
    /\ \E r \in Resolutions(Book("customer"), PartyText(q)) :
         asks' = [asks EXCEPT ![h] = [@ EXCEPT
            !.stage = IF q.group \in BothBooks THEN "both" ELSE "found",
            !.row = r.row, !.amb = r.amb, !.saw = Book("customer")]]
    /\ reply' = NoReply /\ UNCHANGED <<listed, passes, hour>>

\* A payment looks the name up in both books.  One that stands in both has no
\* direction; one that only suppliers bear is money going out.
TwoWay(a, r) == a.q.group = "payment_write" /\ a.row # Nemo /\ r.row # Nemo
Directed(a, r) == ~TwoWay(a, r)

ReadSuppliers(h) ==
    LET a == asks[h] IN
    /\ (At(h, "heard") /\ a.q.group \in SupplierGroups) \/ At(h, "both")
    /\ \E r \in Resolutions(Book("supplier"), PartyText(a.q)) :
         \/ /\ At(h, "both") /\ TwoWay(a, r) /\ Done(h)
         \/ /\ At(h, "both") => /\ Directed(a, r) /\ (r.row # Nemo /\ a.row = Nemo)
            /\ asks' = [asks EXCEPT ![h] = [@ EXCEPT !.stage = "ready",
                 !.book = "supplier", !.row = r.row, !.amb = r.amb,
                 !.saw = Book("supplier"), !.other = a.saw]]
         \/ /\ At(h, "both") /\ Directed(a, r) /\ ~(r.row # Nemo /\ a.row = Nemo)
            /\ asks' = [asks EXCEPT ![h] = [@ EXCEPT !.stage = "found",
                 !.other = Book("supplier")]]
    /\ reply' = NoReply /\ UNCHANGED <<listed, passes, hour>>

\* A tapped customer is looked up in a list of its own; a tap the list does
\* not hold is logged, and the sentence decides.
TakePick(a) ==
    IF a.q.pick \in Book("customer")
    THEN [a EXCEPT !.stage = "ready", !.row = a.q.pick, !.amb = FALSE, !.picked = TRUE]
    ELSE [a EXCEPT !.stage = "ready"]
ReadPicked(h) ==
    /\ At(h, "found")
    /\ asks' = [asks EXCEPT ![h] = IF @.q.pick = Nemo
                                   THEN [@ EXCEPT !.stage = "ready"] ELSE TakePick(@)]
    /\ reply' = NoReply /\ UNCHANGED <<listed, passes, hour>>
---------------------------------------------------------------------------
(* The ticket to a screen (HandoffStore).                                  *)

Fresh == {i \in Passes : passes[i].screen = Nemo}

\* handoffStore.put; a group without a screen gets no ticket.
Ticket(h) ==
    LET q == asks[h].q IN
    IF ScreenOf(q.group) = Nemo THEN UNCHANGED passes
    ELSE \E i \in Fresh : passes' = [passes EXCEPT ![i] =
            [screen |-> ScreenOf(q.group), talk |-> q.talk, at |-> hour, gone |-> FALSE]]

Ended(i) == hour - passes[i].at > PassHours
SameTalk(i, talk) == passes[i].talk = Nemo \/ talk = Nemo \/ passes[i].talk = talk
\* Broken: a ticket does not expire.
ValidForEver(i, talk) ==
    passes[i].screen # Nemo /\ ~passes[i].gone /\ SameTalk(i, talk)
Valid(i, talk) == /\ passes[i].screen # Nemo /\ ~passes[i].gone
                  /\ ~Ended(i) /\ SameTalk(i, talk)
Opens(i, talk, door) == Valid(i, talk) /\ passes[i].screen = door
---------------------------------------------------------------------------
(* What a resolved party leads to.                                         *)

Ready(h, G) == At(h, "ready") /\ asks[h].q.group \in G
IsWrite(h) == asks[h].q.group \in WriteGroups

\* No party at all: refused, before any ticket.
Decline(h) ==
    /\ At(h, "ready") /\ asks[h].row = Nemo
    /\ ~(IsWrite(h) /\ asks[h].book = "supplier")
    /\ Silent(h)

\* The policy of every write: a name that is not exact is never chosen for the
\* user, who gets the picker and, where there is one, the ticket to the screen.
MayWrite(a) == Match(a) = "EXACT_MATCH"
AskToPick(h) ==
    /\ At(h, "ready") /\ IsWrite(h) /\ ~MayWrite(asks[h])
    /\ asks[h].row = Nemo => asks[h].book = "supplier"
    /\ IF asks[h].book = "supplier" /\ asks[h].q.group = "payment_write"
       THEN UNCHANGED passes ELSE Ticket(h)
    /\ Done(h) /\ reply' = NoReply /\ UNCHANGED <<listed, hour>>

Settled(h, G) == Ready(h, G) /\ asks[h].row # Nemo /\ MayWrite(asks[h])

\* A sale and a bill have no card of their own in the chat: the screen opens.
OpenSales(h) ==
    /\ Settled(h, {"sales_write"})
    /\ Ticket(h) /\ Done(h) /\ reply' = NoReply /\ UNCHANGED <<listed, hour>>
OpenPurchase(h) ==
    /\ Settled(h, {"purchase_invoice_write"})
    /\ Ticket(h) /\ Done(h) /\ reply' = NoReply /\ UNCHANGED <<listed, hour>>

BuildDelivery(h) ==
    Settled(h, {"delivery_write"}) /\ (Showing(h, "card") \/ Silent(h))
BuildReceipt(h) ==
    Settled(h, {"purchase_receipt_write"}) /\ (Showing(h, "card") \/ Silent(h))
BuildInvoice(h) ==
    Settled(h, {"sales_invoice_write"}) /\ (Showing(h, "card") \/ Silent(h))
BuildOrder(h) ==
    Settled(h, OrderGroups) /\ (Showing(h, "card") \/ Silent(h))

\* A receipt comes with its ticket; one without an amount, or without a debt,
\* is refused with the ticket; any other refusal, and a payment out, has none.
BuildPayment(h) ==
    /\ Settled(h, {"payment_write"})
    /\ \/ /\ asks[h].book = "customer" /\ Ticket(h)
          /\ Done(h) /\ UNCHANGED <<listed, hour>>
          /\ \/ reply' = [kind |-> "card", ask |-> asks[h]]
             \/ reply' = NoReply
       \/ asks[h].book = "supplier" /\ Showing(h, "card")
       \/ Silent(h)

\* Reads take the first of several, with a note.
AnswerHistory(h) == Ready(h, {"payment"}) /\ asks[h].row # Nemo /\ Showing(h, "answer")
AnswerInvoices(h) == Ready(h, {"sales"}) /\ asks[h].row # Nemo /\ Showing(h, "answer")
AnswerBalance(h) == Ready(h, {"balance"}) /\ asks[h].row # Nemo /\ Showing(h, "answer")
---------------------------------------------------------------------------
(* The screens ask for their card: POST /collect, /sales, /purchase/propose. *)

Enter(h, i, talk, door) ==
    /\ At(h, "idle") /\ Opens(i, talk, door)
    /\ reply' = NoReply
    /\ \E row \in {r \in Rows : BookOf[r] # "item"} :
         asks' = [asks EXCEPT ![h] = [Idle EXCEPT !.stage = "entered",
            !.q = [NoQuestion EXCEPT !.talk = talk],
            !.row = row, !.pass = i, !.door = door, !.at = hour]]
    /\ UNCHANGED <<listed, passes, hour>>
EnterCollect(h, i, talk) == Enter(h, i, talk, "collect")
EnterSales(h, i, talk) == Enter(h, i, talk, "sales")
EnterPurchase(h, i, talk) == Enter(h, i, talk, "purchase")

\* HandoffStore.read forgets a ticket it finds expired.
TurnAway(h, i) ==
    /\ At(h, "idle") /\ passes[i].screen # Nemo /\ ~passes[i].gone /\ Ended(i)
    /\ passes' = [passes EXCEPT ![i].gone = TRUE]
    /\ reply' = NoReply /\ UNCHANGED <<listed, asks, hour>>

\* The row the screen sent must stand in the book read now.
BuildFromScreen(h, door, book) ==
    /\ At(h, "entered") /\ asks[h].door = door
    /\ \/ /\ asks[h].row \in Book(book)
          /\ reply' = [kind |-> "card", ask |-> [asks[h] EXCEPT
                          !.picked = TRUE, !.book = book, !.saw = Book(book)]]
          /\ Done(h) /\ UNCHANGED <<listed, passes, hour>>
       \/ Silent(h)
ProposeCollect(h) == BuildFromScreen(h, "collect", "customer")
ProposeSales(h) == BuildFromScreen(h, "sales", "customer")
ProposePurchase(h) == BuildFromScreen(h, "purchase", "supplier")

\* People keep the books; time goes by.
AddRow(r) == r \notin listed /\ listed' = listed \cup {r}
             /\ reply' = NoReply /\ UNCHANGED <<asks, passes, hour>>
DropRow(r) == r \in listed /\ listed' = listed \ {r}
              /\ reply' = NoReply /\ UNCHANGED <<asks, passes, hour>>
HourPasses == hour < LastHour /\ hour' = hour + 1
              /\ reply' = NoReply /\ UNCHANGED <<listed, asks, passes>>
AskingNext ==
    \/ \E h \in Askers :
         \/ \E q \in Questions : Ask(h, q)
         \/ TurnDown(h) \/ AnswerSummary(h) \/ BuildOwnParty(h)
         \/ AnswerInventory(h) \/ AnswerSupplier(h)
         \/ ReadCustomers(h) \/ ReadSuppliers(h) \/ ReadPicked(h)
         \/ Decline(h) \/ AskToPick(h) \/ OpenSales(h) \/ OpenPurchase(h)
         \/ BuildDelivery(h) \/ BuildReceipt(h) \/ BuildInvoice(h)
         \/ BuildOrder(h) \/ BuildPayment(h)
         \/ AnswerHistory(h) \/ AnswerInvoices(h) \/ AnswerBalance(h)
         \/ \E i \in Passes, talk \in Talks \cup {Nemo} :
              EnterCollect(h, i, talk) \/ EnterSales(h, i, talk)
                \/ EnterPurchase(h, i, talk)
         \/ \E i \in Passes : TurnAway(h, i)
         \/ ProposeCollect(h) \/ ProposeSales(h) \/ ProposePurchase(h)
    \/ \E r \in Rows : AddRow(r) \/ DropRow(r)
    \/ HourPasses
AskingSpec == AskingInit /\ [][AskingNext]_askVars
---------------------------------------------------------------------------
Asked == Questions \cup {[NoQuestion EXCEPT !.talk = t] : t \in Talks \cup {Nemo}}
Sitting == [stage : {"idle", "heard", "both", "found", "ready", "entered"}, q : Asked,
            row : Rows \cup {Nemo}, amb : BOOLEAN, picked : BOOLEAN,
            book : {"customer", "supplier", "item"}, saw : SUBSET Rows,
            other : SUBSET Rows, pass : Passes \cup {Nemo},
            door : Screens \cup {Nemo}, at : 0..LastHour]
AskingTypeOK ==
    /\ listed \subseteq Rows
    /\ DOMAIN asks = Askers /\ \A h \in Askers : asks[h] \in Sitting
    /\ DOMAIN passes = Passes
    /\ \A i \in Passes : passes[i] \in [screen : Screens \cup {Nemo},
          talk : Talks \cup {Nemo}, at : 0..LastHour, gone : BOOLEAN]
    /\ hour \in 0..LastHour
    /\ reply.kind \in {"none", "card", "answer"} /\ reply.ask \in Sitting

(* The party of a write card is the row the user tapped, on the chat or on *)
(* the screen, or one whose full name the sentence says and that alone, of *)
(* its book as it was read, fits a stretch of what the sentence says when  *)
(* the amounts of a payment are left out -- however the books change.  And *)
(* a payment knows its direction: the other book, when it was read, held   *)
(* nobody of a name those words say.  (plan2 4.3 in the comments at        *)
(* copilot-server.mjs:2205 and 2026.)  The amount may complete the full    *)
(* name: it is judged by the whole sentence (2165, 2170).                  *)
FitsAlone(saw, s, row) ==
    \E f \in Frags(s) : Hits(saw, f) = {row} \/ Exact(saw, f) = {row}
Meant(a) ==
    \/ a.picked /\ (a.pass = Nemo => a.row = a.q.pick)
    \/ NameOf[a.row] \in Frags(a.q.says) /\ FitsAlone(a.saw, PartyText(a.q), a.row)
CardPartyIsMeant ==
    LET a == reply.ask IN
    reply.kind = "card" /\ a.row # Nemo =>
        /\ Meant(a)
        /\ BookOf[a.row] = a.book
        /\ a.q.group = "payment_write" =>
              \A r \in a.other : NameOf[r] \notin Frags(PartyText(a.q))

(* A card that a screen asked for was made with a ticket of that screen,   *)
(* of the same conversation, and within its life: nobody can build a bill  *)
(* with the ticket of a receipt, or go on with one from before lunch.      *)
CardFromOwnHandoff ==
    LET a == reply.ask IN
    reply.kind = "card" /\ a.pass # Nemo =>
        /\ passes[a.pass].screen = a.door
        /\ a.at - passes[a.pass].at <= PassHours
        /\ SameTalk(a.pass, a.q.talk)
=============================================================================
