----------------------------- MODULE NewCustomer ----------------------------
(***************************************************************************)
(* customer.create (skills/customer-create.mjs): a new record of the       *)
(* customer master.  There is no draft: the record is real at once, and a  *)
(* second record of one customer splits what that customer owes.           *)
(*                                                                         *)
(* A name is a sequence of words.  `ids` holds the phone number and the    *)
(* tax number, each of which may be missing.  One classification field     *)
(* stands for the three of the code.                                       *)
(***************************************************************************)
EXTENDS Integers, FiniteSets, Sequences

CONSTANTS
    FullNames,   \* names a customer may have: sequences of words
    Numbers,     \* phone and tax numbers, of one customer
    Groups,      \* Customer Groups the site may have
    Applicants,  \* action ids of proposals (a bound)
    Tellers,     \* confirmations served at once (a bound)
    MaxRecords,  \* records of the master (a bound)
    Blankly      \* nothing chosen, nobody

ASSUME NewCustomerAssumption ==
    /\ MaxRecords \in Nat /\ Blankly \notin Applicants \cup Groups
    /\ \A n \in FullNames : Len(n) > 0

VARIABLES
    records,   \* the customer master, oldest first
    groups,    \* the Customer Groups of the site that are leaves
    policy,    \* [env: the operator's default group, reqd: the field is required]
    offers,    \* [Applicants -> the proposal, or NoOffer]
    doing,     \* [Tellers -> the call the executor is at]
    about,     \* [Tellers -> the proposal it executes]
    chosen,    \* [Tellers -> the group it will write]
    calm       \* [Tellers -> nobody wrote since it read the master] (history)

tellers == <<doing, about, chosen, calm>>
customerVars == <<records, groups, policy, offers, tellers>>

NoOffer == [name |-> <<>>, ids |-> {}, group |-> Blankly]
Group == Groups \cup {Blankly}

CustomerTypeOK ==
    /\ \A i \in DOMAIN records :
          records[i] \in [name : FullNames, ids : SUBSET Numbers, group : Group,
                          by : Applicants \cup {Blankly}, raced : BOOLEAN]
    /\ groups \subseteq Groups
    /\ policy \in [env : Group, reqd : BOOLEAN]
    /\ offers \in [Applicants -> [name : FullNames, ids : SUBSET Numbers,
                                  group : Group] \cup {NoOffer}]
    /\ doing \in [Tellers -> {"idle", "list", "profile", "create", "verify"}]
    /\ about \in [Tellers -> Applicants \cup {Blankly}]
    /\ chosen \in [Tellers -> Group]
    /\ calm \in [Tellers -> BOOLEAN]

CustomerInit ==
    /\ records = <<>> /\ groups = Groups
    /\ policy \in [env : Group, reqd : BOOLEAN]
    /\ offers = [a \in Applicants |-> NoOffer]
    /\ doing = [t \in Tellers |-> "idle"]
    /\ about = [t \in Tellers |-> Blankly]
    /\ chosen = [t \in Tellers |-> Blankly]
    /\ calm = [t \in Tellers |-> FALSE]

-----------------------------------------------------------------------------
\* findCustomerCollision: the same name, the same phone or tax number, or one
\* name inside the other as a run of whole words.
RunIn(n, m) == \E i \in 0..Len(m) - Len(n) :
                  \A j \in 1..Len(n) : n[j] = m[i + j]
Alike(r, s) == r.ids \cap s.ids # {} \/ RunIn(r.name, s.name) \/ RunIn(s.name, r.name)
\* Broken: only the new name is looked for in the old ones.
CollidesOneWay(new) ==
    \E i \in DOMAIN records : new.ids \cap records[i].ids # {}
                           \/ RunIn(new.name, records[i].name)
Collides(new) == \E i \in DOMAIN records : Alike(new, records[i])

\* resolveProfileValues, over readProfileMasters: what the user picked, else the
\* operator's default - each must exist -, else the only leaf; "refused" when
\* nothing safe is left for a required field.
ProfileOf(picked) ==
    LET said == IF picked # Blankly THEN picked ELSE policy.env IN
    IF said # Blankly THEN IF said \in groups THEN said ELSE "refused"
    ELSE IF Cardinality(groups) = 1 THEN CHOOSE g \in groups : TRUE
    ELSE IF policy.reqd THEN "refused" ELSE Blankly

\* buildCustomerCreateProposal
BuildCustomerCreate(a, name, ids) ==
    LET offer == [name |-> name, ids |-> ids, group |-> ProfileOf(Blankly)] IN
    /\ offers[a] = NoOffer
    /\ ~Collides(offer) /\ offer.group # "refused"
    /\ offers' = [offers EXCEPT ![a] = offer]
    /\ UNCHANGED <<records, groups, policy, tellers>>

\* reconcileCustomer: the records that carry the action id.
CustomerOf(a) == {i \in DOMAIN records : records[i].by = a}

ProbeCustomer(t, a) ==
    /\ doing[t] = "idle" /\ offers[a] # NoOffer /\ CustomerOf(a) = {}
    /\ doing' = [doing EXCEPT ![t] = "list"]
    /\ about' = [about EXCEPT ![t] = a]
    /\ UNCHANGED <<records, groups, policy, offers, chosen, calm>>

TurnAway(t) ==
    /\ doing' = [doing EXCEPT ![t] = "idle"]
    /\ about' = [about EXCEPT ![t] = Blankly]
    /\ chosen' = [chosen EXCEPT ![t] = Blankly]
    /\ calm' = [calm EXCEPT ![t] = FALSE]

\* The whole master again: the card's customer must still be new.
RereadCustomers(t) ==
    /\ doing[t] = "list"
    /\ IF Collides(offers[about[t]]) THEN TurnAway(t)
       ELSE /\ doing' = [doing EXCEPT ![t] = "profile"]
            /\ calm' = [calm EXCEPT ![t] = TRUE]
            /\ UNCHANGED <<about, chosen>>
    /\ UNCHANGED <<records, groups, policy, offers>>

\* Broken: the refusal of the profile is not looked at.
RereadProfileUnchecked(t) ==
    /\ doing[t] = "profile"
    /\ doing' = [doing EXCEPT ![t] = "create"]
    /\ chosen' = [chosen EXCEPT ![t] = ProfileOf(offers[about[t]].group)]
    /\ UNCHANGED <<records, groups, policy, offers, about, calm>>
\* The group of the card is a candidate, checked against the site of today.
RereadProfile(t) ==
    LET g == ProfileOf(offers[about[t]].group) IN
    /\ doing[t] = "profile"
    /\ IF g = "refused" THEN TurnAway(t)
       ELSE /\ doing' = [doing EXCEPT ![t] = "create"]
            /\ chosen' = [chosen EXCEPT ![t] = g]
            /\ UNCHANGED <<about, calm>>
    /\ UNCHANGED <<records, groups, policy, offers>>

\* buildCustomerCreateData
CustomerData(t) ==
    [name |-> offers[about[t]].name, ids |-> offers[about[t]].ids,
     group |-> chosen[t], by |-> about[t], raced |-> ~calm[t]]

Enter(record) ==
    /\ Len(records) < MaxRecords
    /\ records' = Append(records, record)
    /\ calm' = [t \in Tellers |-> FALSE]

\* createCustomer: the site wants the group to exist, and nothing else.
CreateCustomer(t) ==
    /\ doing[t] = "create"
    /\ IF chosen[t] \in groups \cup {Blankly}
         THEN /\ Enter(CustomerData(t))
              /\ doing' = [doing EXCEPT ![t] = "verify"]
              /\ UNCHANGED <<about, chosen>>
         ELSE TurnAway(t) /\ UNCHANGED records
    /\ UNCHANGED <<groups, policy, offers>>

\* verifyWrittenCustomer: whatever it answers, the record is there.
VerifyCustomer(t) ==
    /\ doing[t] = "verify"
    /\ TurnAway(t) /\ UNCHANGED <<records, groups, policy, offers>>

-----------------------------------------------------------------------------
\* People enter customers in ERPNext, where nobody looks for a likeness, and
\* rearrange the groups.
SomebodyEnters(name) ==
    /\ Enter([name |-> name, ids |-> {}, group |-> Blankly,
              by |-> Blankly, raced |-> FALSE])
    /\ UNCHANGED <<groups, policy, offers, doing, about, chosen>>
RemoveGroup(g) ==
    /\ g \in groups /\ groups' = groups \ {g}
    /\ UNCHANGED <<records, policy, offers, tellers>>

CustomerNext ==
    \/ \E a \in Applicants, name \in FullNames, ids \in SUBSET Numbers :
          BuildCustomerCreate(a, name, ids)
    \/ \E t \in Tellers, a \in Applicants : ProbeCustomer(t, a)
    \/ \E t \in Tellers :
          \/ RereadCustomers(t) \/ RereadProfile(t)
          \/ CreateCustomer(t) \/ VerifyCustomer(t)
    \/ \E name \in FullNames : SomebodyEnters(name)
    \/ \E g \in Groups : RemoveGroup(g)

CustomerSpec == CustomerInit /\ [][CustomerNext]_customerVars

-----------------------------------------------------------------------------
\* The assistant never enters a customer that looks like one already there -
\* same name, a name within the other, same phone or tax number - unless
\* somebody wrote between its look at the master and its insert.
OneRecordPerCustomer ==
    \A i, j \in DOMAIN records :
        i < j /\ records[j].by # Blankly /\ ~records[j].raced
            => ~Alike(records[i], records[j])
=============================================================================
