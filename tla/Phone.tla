-------------------------------- MODULE Phone --------------------------------
(***************************************************************************)
(* The app: the chat (chat_controller.dart, chat_history_service.dart,     *)
(* conversation_id_service.dart), the card and its command id              *)
(* (proposal_card.dart, ActionProposal of chat_models.dart), and the       *)
(* sales, purchase and collect screens (their controllers).                *)
(*                                                                         *)
(* The screens share no state: `screen` is the one a behaviour is about.   *)
(* A reply that comes to a screen that is gone is dropped (ref.mounted).   *)
(***************************************************************************)
EXTENDS Integers, FiniteSets

CONSTANTS
  Parties,     \* customers or suppliers a form may be for
  MaxItems,    \* maxChatItems
  LastAsk,     \* bound on the questions asked and the edits made
  LastKey      \* bound on the command ids made

VARIABLES
  screen,      \* "chat", "sales", "purchase" or "collect"
  storage,     \* whether SharedPreferences opened
  turns,       \* ChatState.turns: a set, a turn is after those of smaller ids
  disk,        \* the stored history
  talk,        \* _dshConversationId; diskTalk is the stored one
  diskTalk,
  mode,
  loading,
  wiping,      \* clearHistory has cleared the storage
  fallback,    \* an answer is to be asked again of the AI
  flight,      \* requests whose answer is still to come
  pressed,     \* cards whose [Confirm] is waiting for /execute
  settled,     \* cards whose outcome this widget has shown
  form,        \* SalesUi, PurchaseUi or CollectUi, and its controller
  sent,        \* what went to /execute (history)
  asked,
  minted
chatVars == <<turns, disk, talk, diskTalk, mode, loading, wiping, fallback>>
phoneVars == <<screen, storage, chatVars, flight, pressed, settled, form, sent, asked, minted>>

ASSUME PhoneAssumption == MaxItems \in Nat \ {0} /\ LastAsk \in Nat /\ LastKey \in Nat

NoKey == 0
NoCard == [id |-> 0, key |-> NoKey, of |-> <<>>]
Screens3 == {"sales", "purchase", "collect"}
Blank == [party |-> "none", place |-> 0, lines |-> 0, money |-> 0, epoch |-> 0,
          mine |-> -1, busy |-> FALSE, accounts |-> FALSE, failed |-> FALSE,
          result |-> NoCard]

---------------------------------------------------------------------------
(* A turn of the chat and its card.                                        *)

Turn(n, card, key, seeded) == [id |-> n, card |-> card, key |-> key, seeded |-> seeded]
Pending(t) == t.card = "open"

\* trimTurns: the newest, and whatever still waits for the user.
Trim(s) == {t \in s : \/ Cardinality({u \in s : u.id > t.id}) < MaxItems
                       \/ Pending(t)}

\* Broken: a card that comes back from the storage is keyed anew.
KeyForgotten(t) == [t EXCEPT !.key = NoKey]
\* fromJson: a card that was stored has the id it was stored with.
FromJson(t) == [t EXCEPT !.seeded = t.card # "none"]
Restored(s) == {FromJson(t) : t \in s}
Store(s) == disk' = IF storage THEN s ELSE disk

\* toJson asks the card for its id, which makes one when there is none.
Append1(card) ==
    LET key == IF storage /\ card = "open" THEN minted + 1 ELSE NoKey
        next == Trim(turns \cup {Turn(asked + 1, card, key, FALSE)})
    IN /\ minted' = IF key = NoKey THEN minted ELSE key
       /\ turns' = next /\ Store(next)
       /\ asked' = asked + 1 /\ loading' = FALSE

InChat == screen = "chat"
Room == asked + Cardinality(flight) < LastAsk /\ minted < LastKey

---------------------------------------------------------------------------
(* Questions.                                                              *)

NewNumber == CHOOSE n \in 0..LastAsk : \A f \in flight : f.n # n
Ask1(kind) == /\ flight' = flight \cup {[n |-> NewNumber, kind |-> kind,
                                         talk |-> talk, of |-> <<>>]}
              /\ loading' = TRUE
Send ==
    /\ InChat /\ Room /\ ~loading
    /\ Ask1(mode) /\ fallback' = FALSE
    /\ UNCHANGED <<screen, storage, turns, disk, talk, diskTalk, mode, wiping,
                   pressed, settled, form, sent, asked, minted>>
SetMode ==
    /\ InChat /\ mode' = IF mode = "normal" THEN "dsh" ELSE "normal"
    /\ UNCHANGED <<screen, storage, turns, disk, talk, diskTalk, loading, wiping, fallback,
                   flight, pressed, settled, form, sent, asked, minted>>
Came(f, kind) == InChat /\ f \in flight /\ f.kind = kind /\ flight' = flight \ {f}

\* An answer that no skill took may be asked again of the AI at once.
AnswerCame(f, card, unrouted) ==
    /\ Came(f, "normal") /\ asked < LastAsk /\ minted < LastKey
    /\ (unrouted => card = "none") /\ Append1(card) /\ fallback' = unrouted
    /\ UNCHANGED <<screen, storage, talk, diskTalk, mode, wiping, pressed, settled, form, sent>>
AskAiFallback ==
    /\ InChat /\ fallback /\ fallback' = FALSE /\ Room
    /\ IF loading THEN UNCHANGED <<flight, loading, mode>>
                  ELSE Ask1("dsh") /\ mode' = "dsh"
    /\ UNCHANGED <<screen, storage, turns, disk, talk, diskTalk, wiping,
                   pressed, settled, form, sent, asked, minted>>
\* The conversation it was answered in becomes the conversation again.
DshCame(f, card) ==
    /\ Came(f, "dsh") /\ asked < LastAsk /\ minted < LastKey
    /\ talk' = f.talk /\ diskTalk' = IF storage /\ talk # f.talk THEN f.talk ELSE diskTalk
    /\ Append1(card)
    /\ UNCHANGED <<screen, storage, mode, wiping, fallback, pressed, settled, form, sent>>
\* Failed, refused, busy: nothing is added to the history.
AnswerFailed(f) ==
    /\ Came(f, f.kind) /\ f.kind \in {"normal", "dsh"} /\ loading' = FALSE
    /\ UNCHANGED <<screen, storage, turns, disk, talk, diskTalk, mode, wiping, fallback,
                   pressed, settled, form, sent, asked, minted>>
ClearStored ==
    /\ InChat /\ ~wiping /\ asked < LastAsk /\ wiping' = TRUE /\ Store({})
    /\ UNCHANGED <<screen, storage, turns, talk, diskTalk, mode, loading, fallback,
                   flight, pressed, settled, form, sent, asked, minted>>
ClearHistory ==
    /\ wiping /\ asked < LastAsk /\ wiping' = FALSE
    /\ talk' = asked + 1 /\ diskTalk' = (IF storage THEN talk' ELSE diskTalk)
    /\ asked' = asked + 1
    /\ turns' = {} /\ loading' = FALSE /\ mode' = "normal"
    /\ UNCHANGED <<screen, storage, disk, fallback, flight, pressed, settled, form, sent, minted>>

---------------------------------------------------------------------------
(* The card.                                                               *)

Sending(id, key, of, now) == sent' = sent \cup {[screen |-> screen, card |-> id, key |-> key,
                                                 of |-> of, now |-> now]}
Key(t) == IF t.key = NoKey THEN minted + 1 ELSE t.key
Confirm(t) ==
    /\ InChat /\ Pending(t) /\ minted < LastKey
    /\ t.id \notin settled /\ t.id \notin {p.id : p \in pressed}
    /\ turns' = (turns \ {t}) \cup {[t EXCEPT !.key = Key(t)]}
    /\ minted' = IF t.key = NoKey THEN minted + 1 ELSE minted
    /\ pressed' = pressed \cup {[id |-> t.id, key |-> Key(t)]}
    /\ Sending(t.id, Key(t), <<>>, <<>>)
    /\ UNCHANGED <<screen, storage, disk, talk, diskTalk, mode, loading, wiping, fallback,
                   flight, settled, form, asked>>
\* Written, or written before; the button is gone while the widget lives.
ConfirmDone(p) ==
    /\ p \in pressed /\ pressed' = pressed \ {p} /\ settled' = settled \cup {p.id}
    /\ UNCHANGED <<screen, storage, chatVars, flight, form, sent, asked, minted>>
\* No answer, or a refusal that leaves the button.
ConfirmFailed(p) ==
    /\ p \in pressed /\ pressed' = pressed \ {p}
    /\ UNCHANGED <<screen, storage, chatVars, flight, settled, form, sent, asked, minted>>
\* attachRejection builds the card again, with the id only if it was restored.
ConfirmRefused(p) ==
    /\ InChat /\ p \in pressed /\ pressed' = pressed \ {p} /\ minted < LastKey
    /\ LET hits == {t \in turns : Pending(t) /\ t.key = p.key}
           fresh == storage /\ \E t \in hits : ~t.seeded
           Refused(t) == [t EXCEPT !.card = "refused",
                            !.key = IF t.seeded THEN @
                                    ELSE IF fresh THEN minted + 1 ELSE NoKey]
           next == (turns \ hits) \cup {Refused(t) : t \in hits}
       IN /\ turns' = next
          /\ IF hits = {} THEN UNCHANGED disk ELSE Store(next)
          /\ minted' = IF fresh THEN minted + 1 ELSE minted
    /\ UNCHANGED <<screen, storage, talk, diskTalk, mode, loading, wiping, fallback,
                   flight, settled, form, sent, asked>>

\* The screen is left, or the app is stopped and started again.
ScreenGone ==
    /\ turns' = Restored(disk) /\ talk' = diskTalk /\ mode' = "normal" /\ loading' = FALSE
    /\ wiping' = FALSE /\ fallback' = FALSE
    /\ flight' = {} /\ pressed' = {} /\ settled' = {}
    /\ form' = Blank
    /\ UNCHANGED <<screen, storage, disk, diskTalk, sent, asked, minted>>

---------------------------------------------------------------------------
(* The sales and the purchase screen.                                      *)

Content == <<form.party, form.place, form.lines, form.money>>
UnlessChat == UNCHANGED <<screen, storage, chatVars, settled, minted>>
Edit(f) == /\ form' = f /\ asked < LastAsk /\ asked' = asked + 1
           /\ UnlessChat /\ UNCHANGED <<flight, pressed, sent>>
Changed(f) == [f EXCEPT !.epoch = @ + 1, !.result = NoCard]

\* Another party empties the form; the controller goes on counting.
SetParty(v) == v # form.party /\
    Edit([Blank EXCEPT !.party = v, !.epoch = form.epoch + 1, !.mine = form.mine])
SetCustomer(v) == screen = "sales" /\ SetParty(v)
SetSupplier(v) == screen = "purchase" /\ SetParty(v)
\* Emptying the field leaves the place as it was, and empties the lines.
SetWarehouse(v) ==
    /\ screen \in {"sales", "purchase"} /\ v # form.place
    /\ Edit([Changed(form) EXCEPT !.place = IF v = 0 THEN @ ELSE v, !.lines = 0, !.money = 0])
SetLine(v) == /\ screen \in {"sales", "purchase"} /\ v # form.lines
              /\ Edit([Changed(form) EXCEPT !.lines = v])
\* A discount and a method can be taken back; an amount whose field is emptied
\* stays as it was, and is an edit all the same.
SetMoney(v) ==
    /\ screen \in {"sales", "purchase"} /\ v # form.money
    /\ \E left \in {v} \cup (IF v = 0 THEN {form.money} ELSE {}) :
         Edit([Changed(form) EXCEPT !.money = left])
CanPropose == form.party # "none" /\ form.lines # 0 /\ ~form.busy
Propose1 ==
    /\ CanPropose /\ asked < LastAsk
    /\ form' = [form EXCEPT !.epoch = @ + 1, !.mine = form.epoch + 1, !.busy = TRUE,
                            !.result = NoCard]
    /\ flight' = flight \cup {[n |-> form.epoch + 1, kind |-> "propose", talk |-> 0, of |-> Content]}
    /\ asked' = asked + 1 /\ UnlessChat /\ UNCHANGED <<pressed, sent>>
ProposeSaleForm == screen = "sales" /\ Propose1
ProposePurchaseForm == screen = "purchase" /\ Propose1
\* A reply to a form that has changed since is dropped.
Heeds(f) == f.n = form.epoch
ReplyCame(f, good) ==
    /\ screen \in {"sales", "purchase"} /\ f \in flight /\ flight' = flight \ {f}
    /\ form' = IF Heeds(f)
                 THEN [form EXCEPT !.busy = FALSE,
                         !.result = IF good THEN [id |-> f.n, key |-> NoKey, of |-> f.of] ELSE @]
               ELSE IF form.mine = f.n THEN [form EXCEPT !.busy = FALSE]
               ELSE form
    /\ UnlessChat /\ UNCHANGED <<pressed, sent, asked>>

---------------------------------------------------------------------------
(* The collect screen: `place` is the search whose rows are shown, `lines` *)
(* the search whose rows were ticked.                                      *)

Fetch(kind, q) ==
    /\ asked < LastAsk /\ asked' = asked + 1
    /\ flight' = flight \cup {[n |-> form.epoch + 1, kind |-> kind, talk |-> q, of |-> <<>>]}
    /\ UnlessChat /\ UNCHANGED <<pressed, sent>>
\* When the screen opens, and from the button beside the error.
ResolveCustomer(v) ==
    /\ screen = "collect" /\ Fetch("first", 1)
    /\ form.party = "none" \/ (form.failed /\ form.party = v)
    /\ form' = [form EXCEPT !.epoch = @ + 1, !.party = v, !.lines = 0, !.failed = FALSE]
\* The search box is there once the first rows were, and not while there are none.
Search(q) ==
    /\ screen = "collect" /\ form.accounts /\ ~form.failed /\ Fetch("rows", q)
    /\ form.place # 0 \/ \A f \in flight : f.kind # "collect" => f.n # form.epoch
    /\ form' = [form EXCEPT !.epoch = @ + 1]
\* The money accounts come with the first rows only; the reload ends the
\* confirm that waits for it.
RowsCame(f, found, good) ==
    LET heeded == f.n = form.epoch
    IN /\ f \in flight /\ f.kind \in {"first", "rows", "reload"} /\ flight' = flight \ {f}
       /\ form' = [form EXCEPT !.place = IF ~(heeded /\ good) THEN @ ELSE IF found THEN f.talk ELSE 0,
                     !.accounts = @ \/ (heeded /\ good /\ f.kind = "first"),
                     !.failed = @ \/ (heeded /\ ~good),
                     !.busy = @ /\ f.kind # "reload"]
       /\ UnlessChat /\ UNCHANGED <<pressed, sent, asked>>
\* An edit rebuilds the card that is shown, and leaves it there.
Rebuilt(f) == [f EXCEPT !.result.key = NoKey]
SetAllocation(tick) ==
    /\ screen = "collect" /\ form.place # 0 /\ ~form.failed
    /\ Edit(Rebuilt([form EXCEPT !.lines = IF tick THEN form.place ELSE 0]))
SetAmount(v) ==
    /\ screen = "collect" /\ v # form.money
    /\ Edit(Rebuilt([form EXCEPT !.money = IF v = 0 THEN @ ELSE v]))
CanSubmit == /\ form.party # "none" /\ form.accounts /\ form.money # 0 /\ ~form.busy
             /\ form.lines = form.place
ConfirmCollect ==
    /\ screen = "collect" /\ CanSubmit /\ asked < LastAsk
    /\ form' = [form EXCEPT !.busy = TRUE, !.result = NoCard]
    /\ flight' = flight \cup {[n |-> asked, kind |-> "collect", talk |-> 0, of |-> Content]}
    /\ asked' = asked + 1 /\ UnlessChat /\ UNCHANGED <<pressed, sent>>
CollectCame(f, good) ==
    /\ f \in flight /\ f.kind = "collect" /\ flight' = flight \ {f}
    /\ form' = [form EXCEPT !.busy = FALSE,
                  !.result = IF good THEN [id |-> f.n + 1, key |-> NoKey, of |-> f.of] ELSE @]
    /\ UnlessChat /\ UNCHANGED <<pressed, sent, asked>>
\* INVOICE_ALREADY_PAID: the ticks go, the rows are read again.
AlreadyPaid(f, q) ==
    /\ f \in flight /\ f.kind = "collect" /\ asked < LastAsk /\ asked' = asked + 1
    /\ flight' = (flight \ {f}) \cup
          {[n |-> form.epoch + 1, kind |-> "reload", talk |-> q, of |-> <<>>]}
    /\ form' = [form EXCEPT !.epoch = @ + 1, !.lines = 0, !.failed = FALSE]
    /\ UnlessChat /\ UNCHANGED <<pressed, sent>>

---------------------------------------------------------------------------
(* The card under a form is parsed again whenever the screen is built.     *)

HasCard == screen \in Screens3 /\ form.result # NoCard
Rebuild ==
    /\ HasCard /\ form' = Rebuilt(form)
    /\ UNCHANGED <<screen, storage, chatVars, flight, pressed, settled, sent, asked, minted>>
ConfirmUnderForm ==
    /\ HasCard /\ minted < LastKey
    /\ form.result.id \notin settled \cup {p.id : p \in pressed}
    /\ form' = [form EXCEPT !.result.key = Key(form.result)]
    /\ minted' = IF form.result.key = NoKey THEN minted + 1 ELSE minted
    /\ pressed' = pressed \cup {[id |-> form.result.id, key |-> Key(form.result)]}
    /\ Sending(form.result.id, Key(form.result), form.result.of, Content)
    /\ UNCHANGED <<screen, storage, chatVars, flight, settled, asked>>

PhoneInit ==
    /\ screen \in {"chat"} \cup Screens3 /\ storage \in (IF screen = "chat" THEN BOOLEAN ELSE {TRUE})
    /\ turns = {} /\ disk = {} /\ talk = 0 /\ diskTalk = 0 /\ mode = "normal"
    /\ loading = FALSE /\ wiping = FALSE /\ fallback = FALSE
    /\ flight = {} /\ pressed = {} /\ settled = {} /\ form = Blank /\ sent = {}
    /\ asked = 0 /\ minted = 0
PhoneNext ==
  \/ Send
  \/ SetMode
  \/ \E f \in flight, card \in {"none", "open"}, unrouted \in BOOLEAN : AnswerCame(f, card, unrouted)
  \/ AskAiFallback
  \/ \E f \in flight, card \in {"none", "open"} : DshCame(f, card)
  \/ \E f \in flight : AnswerFailed(f)
  \/ ClearStored
  \/ ClearHistory
  \/ \E t \in turns : Confirm(t)
  \/ \E p \in pressed : ConfirmDone(p)
  \/ \E p \in pressed : ConfirmFailed(p)
  \/ \E p \in pressed : ConfirmRefused(p)
  \/ ScreenGone
  \/ \E v \in Parties : SetCustomer(v)
  \/ \E v \in Parties : SetSupplier(v)
  \/ \E v \in 0..1 : SetWarehouse(v)
  \/ \E v \in 0..2 : SetLine(v)
  \/ \E v \in 0..1 : SetMoney(v)
  \/ ProposeSaleForm
  \/ ProposePurchaseForm
  \/ \E f \in flight, good \in BOOLEAN : ReplyCame(f, good)
  \/ \E v \in Parties : ResolveCustomer(v)
  \/ \E q \in 1..2 : Search(q)
  \/ \E f \in flight, found, good \in BOOLEAN : RowsCame(f, found, good)
  \/ \E tick \in BOOLEAN : SetAllocation(tick)
  \/ \E v \in 0..1 : SetAmount(v)
  \/ ConfirmCollect
  \/ \E f \in flight, good \in BOOLEAN : CollectCame(f, good)
  \/ \E f \in flight, q \in 1..2 : AlreadyPaid(f, q)
  \/ Rebuild
  \/ ConfirmUnderForm
PhoneSpec == PhoneInit /\ [][PhoneNext]_phoneVars

---------------------------------------------------------------------------
PhoneTypeOK ==
    /\ screen \in {"chat"} \cup Screens3 /\ storage \in BOOLEAN
    /\ \A t \in turns \cup disk : t.card \in {"none", "open", "refused"}
    /\ \A t \in disk : t.id <= asked /\ loading \in BOOLEAN /\ mode \in {"normal", "dsh"}
    /\ form.epoch \in 0..LastAsk /\ minted \in 0..LastKey /\ asked \in 0..LastAsk

\* Whatever is left, restored, trimmed, refused or answered late: all presses
\* of a card of the chat go out under one command id, which no other card has,
\* so that the server replays instead of writing again; and the card under a
\* sales or a purchase form is of the form as it stands when it is confirmed
\* (ActionProposal.commandId and fromJson, SalesController.propose).
SentAsShown ==
    /\ \A p, q \in sent : p.key = q.key => p.card = q.card
    /\ \A p, q \in sent : p.screen = "chat" /\ p.card = q.card => p.key = q.key
    /\ \A p \in sent : p.screen \in {"sales", "purchase"} => p.of = p.now

\* The comment of ActionProposal.commandId (chat_models.dart:994-1014): the
\* key is kept for every later press on the same card, so a retry after a
\* network error sends the same key; a card is keyed once for its whole life.
OneKeyPerCard == \A p, q \in sent : p.card = q.card => p.key = q.key
=============================================================================
