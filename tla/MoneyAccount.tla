---------------------------- MODULE MoneyAccount ----------------------------
(***************************************************************************)
(* Where the money of a payment goes (skills/payment-write.mjs): the        *)
(* direction comes from the party's master data and must not contradict    *)
(* the sentence; the channel (cash or bank) from what the user said; the    *)
(* Mode of Payment and the ledger account must both agree with it.          *)
(*                                                                         *)
(* A pure computation over what the site declares: a behaviour picks a      *)
(* site and a request, and resolves it once.                                *)
(***************************************************************************)
EXTENDS FiniteSets

CONSTANTS
    Modes,      \* names of Modes of Payment, and labels a user may say
    Meaning,      \* [Modes -> "cash", "bank" or "none"]: what the name says
    Accounts,   \* leaf accounts of the company
    TypeOf,     \* [Accounts -> "cash", "bank" or "other"]: account_type
    Strangers,  \* accounts of other companies, or group accounts
    Anchor,     \* the receivable or payable account of the invoice
    Nobody      \* nothing declared, nothing chosen; also a refusal

ASSUME MoneyAssumption ==
    /\ Meaning \in [Modes -> {"cash", "bank", "none"}]
    /\ TypeOf \in [Accounts -> {"cash", "bank", "other"}]
    /\ Nobody \notin Modes \cup Accounts \cup Strangers

Channels == {"cash", "bank"}
Directions == {"receive", "pay"}

VARIABLES
    shop,    \* what the site declares
    wish,    \* what the user asked for
    plan     \* what was resolved
moneyVars == <<shop, wish, plan>>

\* A listed mode has a type; the modes of `shop` are the enabled ones.
Shops == [modes : UNION {[S -> Channels] : S \in SUBSET Modes},
          listed : BOOLEAN,
          default : [Channels -> Accounts \cup {Nobody}]]
Wishes == [master : Directions, verb : Directions \cup {"none"},
           mode : Modes, account : Accounts \cup Strangers \cup {Nobody}]

NoPlan == [status |-> "none"]
MoneyInit == shop \in Shops /\ wish \in Wishes /\ plan = NoPlan

\* directionOf: the party's master data.  verbDirection, and
\* assertDirectionNotContradicted: the sentence may not say the opposite.
DirectionOf(w) == w.master
Contradicts(w) == w.verb # "none" /\ w.verb # DirectionOf(w)

\* channelOfMode
ChannelOf(m) == IF m = Nobody THEN "none" ELSE Meaning[m]

\* Which Mode of Payment: with a known channel only a mode of that type, the
\* one with the said name first; a label of no channel takes the mode of that
\* name, else one that reads as cash, else one of type cash.
OfType(s, c) == {m \in DOMAIN s.modes : s.modes[m] = c}
Named(S, c) == {m \in S : Meaning[m] = c}
PickFirst(S, T) == IF S # {} THEN CHOOSE m \in S : TRUE
                   ELSE IF T # {} THEN CHOOSE m \in T : TRUE ELSE Nobody
\* Broken: the mode of that name, whatever the site says its type is.
ModeByName(s, m) ==
    IF ~s.listed \/ m \in DOMAIN s.modes THEN m
    ELSE PickFirst(OfType(s, ChannelOf(m)), {})
ModeOf(s, m) ==
    LET c == ChannelOf(m)
        same == OfType(s, c)
    IN IF ~s.listed THEN m
       ELSE IF c # "none"
         THEN IF m \in same THEN m ELSE PickFirst(Named(same, c), same)
         ELSE IF m \in DOMAIN s.modes THEN m
              ELSE PickFirst(Named(DOMAIN s.modes, "cash"), OfType(s, "cash"))

\* listCompanyAssetLeaves, and the account: the chosen one must be a leaf of
\* the company and of the channel's type; else the company's default, likewise.
Typed(a, c) == a \in Accounts /\ TypeOf[a] = c
AccountOf(s, chosen, c) ==
    IF chosen # Nobody THEN IF Typed(chosen, c) THEN chosen ELSE Nobody
    ELSE IF Typed(s.default[c], c) THEN s.default[c] ELSE Nobody

\* resolveAccountPlan
AccountPlan(s, w) ==
    LET mode == ModeOf(s, w.mode)
        said == ChannelOf(w.mode)
        channel == IF said # "none" THEN said ELSE ChannelOf(mode)
        account == IF channel = "none" THEN Nobody
                   ELSE AccountOf(s, w.account, channel)
    IN [mode |-> mode, channel |-> channel, account |-> account]
Refused(p) == Nobody \in {p.mode, p.account}

\* resolvePaymentAccounts, resolveAdvanceAccounts: the anchor account is on
\* the other side of the money.
Sides(d, account) ==
    IF d = "receive" THEN [from |-> Anchor, to |-> account]
                     ELSE [from |-> account, to |-> Anchor]

ResolveMoney ==
    /\ plan = NoPlan
    /\ LET p == AccountPlan(shop, wish) IN
       plan' = IF Contradicts(wish) \/ Refused(p) THEN [status |-> "refused"]
               ELSE [status |-> "planned", p |-> p, d |-> DirectionOf(wish),
                     sides |-> Sides(DirectionOf(wish), p.account)]
    /\ UNCHANGED <<shop, wish>>

MoneySpec == MoneyInit /\ [][ResolveMoney]_moneyVars

-----------------------------------------------------------------------------
Planned == plan.status = "planned"

\* Money said to be cash is never booked on a bank account, nor the reverse,
\* and the Mode of Payment written next to it has the type of the account;
\* an account the user chose is used or refused, never replaced.  Money received
\* ends on that account, money paid leaves it, never against the sentence.
MoneyInSaidChannel ==
    Planned =>
      /\ wish.verb \in {"none", plan.d}
      /\ plan.p.account = IF plan.d = "receive" THEN plan.sides.to ELSE plan.sides.from
      /\ TypeOf[plan.p.account] = plan.p.channel
      /\ wish.account \in {Nobody, plan.p.account}
      /\ ChannelOf(wish.mode) # "none" =>
            /\ plan.p.channel = ChannelOf(wish.mode)
            /\ shop.listed => shop.modes[plan.p.mode] = plan.p.channel
=============================================================================
