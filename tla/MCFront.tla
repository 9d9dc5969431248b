------------------------------- MODULE MCFront ------------------------------
(***************************************************************************)
(* What stands between a person and the skills, each part on its own small *)
(* instance, composed as in MCShop: `side` is the part a behaviour runs.   *)
(* The door is run twice: its books with the clock standing still, and its *)
(* meter with the site standing still.                                     *)
(***************************************************************************)
EXTENDS Asking, Frontdoor, DshGateway, McpClient, Phone, TLC

CONSTANTS k1, k2, k3, s1, m1, t1, t2, Sides

VARIABLE side
frontVars == <<side, askVars, doorVars, dshVars, clientVars, phoneVars>>

FrontNameOf == [r \in Rows |-> CASE r = k3 -> <<"lan", "anh", "tu">>
                                 [] r = m1 -> <<"anh">> [] OTHER -> <<"lan">>]
FrontBookOf == [r \in Rows |-> CASE r = s1 -> "supplier" [] r = m1 -> "item"
                                 [] OTHER -> "customer"]
\* "tu" is the third word of a name, and the amount of a payment.
FrontSayings == {<<"lan", "anh">>, <<"lan", "anh", "tu">>}
FrontAmounts == [s \in FrontSayings |-> {3}]
FrontFirmOf == [d \in Docs |-> CASE d = "sA" -> "A" [] d = "sB" -> "B" [] OTHER -> Nil]
FrontKindOf == [d \in Docs |-> IF d = "rN" THEN "receipt" ELSE "sale"]
FrontLimit == [b \in Buckets |-> IF b = "read" THEN 2 ELSE 1]
FrontSpan == [b \in Buckets |-> IF b = "capability" THEN 3 ELSE 2]
Symmetry == Permutations({k1, k2}) \cup Permutations({t1, t2})

Clerk == [mode |-> "single", firm |-> Nil, firms |-> {}, pin |-> Nil,
          may |-> TRUE, readOnly |-> FALSE]
FrontInit ==
    /\ side \in Sides
    /\ AskingInit /\ (IF side = "asking" THEN m1 \in listed ELSE listed = {})
    /\ FrontdoorInit /\ (side # "books" => who = Clerk /\ default = Nil)
    /\ DshInit /\ (side # "dsh" => runtime = "absent")
    /\ ClientInit
    /\ PhoneInit /\ (side # "phone" => screen = "chat" /\ storage)

\* The step after a reply takes it off the screen, and the item is missed only by
\* a question about items: what is left out reaches no other reply.  An amount is
\* said of payments alone, which are all that look for one.
AmountSaid ==
    \A h \in Askers : Len(asks'[h].q.says) = 3 => asks'[h].q.group \in BothBooks
ItemMissed == m1 \in listed' \/ \E h \in Askers : asks[h].q.group = "inventory"
InAsking(A) == /\ side = "asking" /\ A /\ ItemMissed /\ AmountSaid
               /\ (reply.kind = "none" \/ asks' = asks)
               /\ UNCHANGED <<side, doorVars, dshVars, clientVars, phoneVars>>
InDsh(A) == side = "dsh" /\ A /\ UNCHANGED <<side, askVars, doorVars, clientVars, phoneVars>>
InClient(A) == side = "client" /\ A /\ UNCHANGED <<side, askVars, doorVars, dshVars, phoneVars>>
InPhone(A) == side = "phone" /\ A /\ UNCHANGED <<side, askVars, doorVars, dshVars, clientVars>>
InDoor(A) == A /\ UNCHANGED <<side, askVars, dshVars, clientVars, phoneVars>>

\* What a part enumerates, and only while it runs.
In(S, X) == IF side \in S THEN X ELSE {}
Claims == IF side = "books" THEN Firms \cup {Nil} ELSE {Nil}
Good == IF side = "books" THEN BOOLEAN ELSE {TRUE}
One == {c \in Callers : c = CHOOSE d \in Callers : TRUE}
First == IF windows["read"].count = 0 THEN One ELSE {}

DoorNext ==
  \/ \E c \in In({"books"}, First), claim \in Claims, good \in Good :
        \/ InDoor(OpenSlots(c, claim, good))
        \/ InDoor(OpenEinvoice(c, claim, good))
        \/ InDoor(OpenList(c, claim, good))
        \/ InDoor(OpenOcr(c, good))
  \/ \E c \in In({"books"}, First), claim \in Claims :
        \/ InDoor(OpenAccounts(c, claim))
        \/ InDoor(OpenSummary(c, claim))
        \/ \E d \in {"day", "receipts", "debts", "shelf"} : InDoor(OpenDrill(c, d, claim))
  \/ \E c \in In({"books"}, One) :
        \/ InDoor(GiveUp(c))
        \/ InDoor(ClientOpens(c))
        \/ InDoor(ResolveReadCompany(c))
        \/ InDoor(AnswerDay(c))
        \/ InDoor(AnswerReceipts(c))
        \/ InDoor(AnswerDebts(c))
        \/ InDoor(AnswerShelf(c))
        \/ InDoor(ReadScreen(c))
        \/ InDoor(AnswerList(c))
        \/ InDoor(AnswerAccounts(c))
        \/ InDoor(AnswerReading(c))
        \/ InDoor(AnswerDaySummary(c))
  \/ \E c \in In({"books"}, One), b \in Blocks :
        \/ InDoor(SummaryBlock(c, b))
        \/ InDoor(SummaryBlockFails(c, b))
  \/ \E d \in In({"books"}, Docs) : InDoor(EnterDoc(d))
  \/ \E f \in In({"books"}, Firms \cup {Nil}) : InDoor(SetDefault(f))
  \/ \E c \in In({"meter"}, Callers), claim \in Claims : InDoor(Execute(c, claim))
  \/ \E c \in In({"meter"}, Callers) :
        \/ InDoor(OpenAsk(c))
        \/ InDoor(OpenDsh(c))
        \/ InDoor(OpenPropose(c))
        \/ InDoor(AskDeadline(c))
        \/ InDoor(DshAnswers(c))
        \/ InDoor(DshHandsOver(c))
        \/ \E metered \in BOOLEAN :
             \/ InDoor(AnswerAsk(c, metered))
             \/ InDoor(AnswerPropose(c, metered))
             \/ InDoor(AnswerDsh(c, metered))
  \/ \E x \in In({"meter"}, {"on"}) : InDoor(Tick) \/ InDoor(Throw)

FrontNext ==
  \/ InAsking(AskingNext)
  \/ DoorNext
  \/ InDsh(DshNext)
  \/ InClient(ClientNext)
  \/ InPhone(PhoneNext)
FrontSpec == FrontInit /\ [][FrontNext]_frontVars

FrontTypeOK == side \in Sides /\ AskingTypeOK /\ FrontdoorTypeOK
               /\ DshTypeOK /\ ClientTypeOK /\ PhoneTypeOK
=============================================================================
