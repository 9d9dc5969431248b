---------------------------- MODULE Shop_proofs -----------------------------
(***************************************************************************)
(* What is proved of the skills that write to the site: the goods that     *)
(* notes draw (Fulfilment), the debts that entries promise to settle       *)
(* (Payments), where the money goes (MoneyAccount), the prices of a draft  *)
(* (Drafting), the shelf (StockIssue) and the customer master              *)
(* (NewCustomer).  They share no variable; each section is about one of    *)
(* them, the first one about what they all add up, and the last one about  *)
(* the composition of MCShop, which implements each of them.               *)
(***************************************************************************)
EXTENDS MCShop, FiniteSetTheorems, WellFoundedInduction, TLAPS

-----------------------------------------------------------------------------
(* Finite sets, and sums over them.                                        *)

\* A family of parts of a finite set that holds every part of which it holds all
\* parts with one element less, holds the whole set.
LEMMA PartsInduction ==
    ASSUME NEW S, IsFiniteSet(S), NEW P,
           \A T \in SUBSET S : (\A x \in T : T \ {x} \in P) => T \in P
    PROVE  S \in P
<1>. DEFINE R == OpToRel(<, Nat)
            Sizes == {n \in Nat : \E T \in SUBSET S : T \notin P /\ Cardinality(T) = n}
<1>1. IsWellFoundedOn(R, Nat)
  BY NatLessThanWellFounded
<1>2. \A m, n \in Nat : m < n => <<m, n>> \in R
  BY DEF OpToRel
<1>. HIDE DEF R
<1>. SUFFICES ASSUME S \notin P PROVE FALSE
  OBVIOUS
<1>3. Cardinality(S) \in Sizes
  BY FS_CardinalityType
<1>4. PICK n \in Sizes : \A m \in Sizes : ~(<<m, n>> \in R)
  <2>1. Sizes \subseteq Nat /\ Sizes # {}
    BY <1>3
  <2>. HIDE DEF Sizes
  <2>. QED  BY <1>1, <2>1, WFMin
<1>5. PICK T \in SUBSET S : T \notin P /\ Cardinality(T) = n
  BY <1>4
<1>6. ASSUME NEW x \in T PROVE T \ {x} \in P
  <2>1. IsFiniteSet(T)
    BY FS_Subset
  <2>2. IsFiniteSet(T \ {x}) /\ Cardinality(T \ {x}) = Cardinality(T) - 1
    BY <2>1, FS_RemoveElement
  <2>3. Cardinality(T \ {x}) \in Nat /\ Cardinality(T) \in Nat
    BY <2>1, <2>2, FS_CardinalityType
  <2>4. <<Cardinality(T \ {x}), n>> \in R
    BY <1>2, <1>5, <2>2, <2>3
  <2>5. Cardinality(T \ {x}) \notin Sizes
    BY <1>4, <2>4
  <2>. QED  BY <2>3, <2>5
<1>. QED  BY <1>5, <1>6

\* A set of naturals with 0 and every successor holds them all.
LEMMA NatByParts ==
    ASSUME NEW A, 0 \in A, \A n \in Nat : n \in A => n + 1 \in A
    PROVE  Nat \subseteq A
<1>. DEFINE R == OpToRel(<, Nat)
            Missing == {n \in Nat : n \notin A}
<1>1. IsWellFoundedOn(R, Nat)
  BY NatLessThanWellFounded
<1>2. \A m, n \in Nat : m < n => <<m, n>> \in R
  BY DEF OpToRel
<1>. HIDE DEF R
<1>. SUFFICES ASSUME Missing # {} PROVE FALSE
  OBVIOUS
<1>3. PICK n \in Missing : \A m \in Missing : ~(<<m, n>> \in R)
  <2>1. Missing \subseteq Nat
    OBVIOUS
  <2>. HIDE DEF Missing
  <2>. QED  BY <1>1, <2>1, WFMin
<1>4. n \in Nat /\ n # 0 /\ n - 1 \in Nat /\ n - 1 < n
  <2>1. n \in Nat /\ n # 0
    OBVIOUS
  <2>. QED  BY <2>1
<1>5. n - 1 \notin Missing
  BY <1>2, <1>3, <1>4
<1>6. (n - 1) + 1 \in A
  BY <1>4, <1>5
<1>. QED  BY <1>4, <1>6

\* One step of the recursion that a sum of f unfolds to.
Pick1(s) == CHOOSE x \in s : TRUE
Unfolded(f, g, s) == IF s = {} THEN 0 ELSE f[Pick1(s)] + g[s \ {Pick1(s)}]
Unfolds(f, g, S) == g = [s \in SUBSET S |-> Unfolded(f, g, s)]

\* The recursion that the sum is defined by has a solution.
LEMMA SumIsDefined ==
    ASSUME NEW f, NEW S, IsFiniteSet(S)
    PROVE  \E g : Unfolds(f, g, S)
<1>. DEFINE UpTo(g, n) == /\ g = [s \in SUBSET S |-> g[s]]
                          /\ \A s \in SUBSET S :
                                Cardinality(s) <= n => g[s] = Unfolded(f, g, s)
            A == {n \in Nat : \E g : UpTo(g, n)}
<1>0. \A s \in SUBSET S : IsFiniteSet(s) /\ Cardinality(s) \in Nat
  BY FS_Subset, FS_CardinalityType
<1>1. 0 \in A
  <2>1. UpTo([s \in SUBSET S |-> 0], 0)
    <3>1. ASSUME NEW s \in SUBSET S, Cardinality(s) <= 0 PROVE s = {}
      BY <1>0, <3>1, FS_EmptySet
    <3>. QED  BY <3>1 DEF Unfolded
  <2>. QED  BY <2>1
<1>2. ASSUME NEW n \in Nat, n \in A PROVE n + 1 \in A
  <2>1. PICK g : UpTo(g, n)
    BY <1>2
  <2>. DEFINE k == [s \in SUBSET S |-> Unfolded(f, g, s)]
  <2>2. ASSUME NEW s \in SUBSET S, Cardinality(s) <= n PROVE k[s] = g[s]
    BY <2>1, <2>2
  <2>3. ASSUME NEW s \in SUBSET S, Cardinality(s) <= n + 1
        PROVE  k[s] = Unfolded(f, k, s)
    <3>1. CASE s = {}
      BY <3>1 DEF Unfolded
    <3>2. CASE s # {}
      <4>1. Pick1(s) \in s
        BY <3>2 DEF Pick1
      <4>2. /\ s \ {Pick1(s)} \in SUBSET S
            /\ Cardinality(s \ {Pick1(s)}) = Cardinality(s) - 1
        BY <1>0, <4>1, FS_RemoveElement
      <4>3. Cardinality(s \ {Pick1(s)}) <= n
        BY <1>0, <2>3, <4>2
      <4>5. k[s \ {Pick1(s)}] = g[s \ {Pick1(s)}]
        <5>. HIDE DEF k, UpTo
        <5>. QED  BY <2>2, <4>2, <4>3
      <4>4. k[s] = f[Pick1(s)] + g[s \ {Pick1(s)}]
        BY <3>2 DEF Unfolded
      <4>. QED  BY <3>2, <4>4, <4>5 DEF Unfolded
    <3>. QED  BY <3>1, <3>2
  <2>4. k = [s \in SUBSET S |-> k[s]]
    OBVIOUS
  <2>. HIDE DEF k
  <2>5. UpTo(k, n + 1)
    BY <2>3, <2>4
  <2>. HIDE DEF UpTo
  <2>. QED  BY <2>5
<1>3. Cardinality(S) \in A
  <2>1. \A n \in Nat : n \in A => n + 1 \in A
    BY <1>2
  <2>. HIDE DEF A
  <2>2. Nat \subseteq A
    BY <1>1, <2>1, NatByParts
  <2>. QED  BY <1>0, <2>2
<1>4. PICK g : UpTo(g, Cardinality(S))
  BY <1>3
<1>5. \A s \in SUBSET S : Cardinality(s) <= Cardinality(S)
  BY FS_Subset
<1>6. \A s \in SUBSET S : g[s] = Unfolded(f, g, s)
  BY <1>4, <1>5
<1>7. g = [s \in SUBSET S |-> Unfolded(f, g, s)]
  <2>1. g = [s \in SUBSET S |-> g[s]]
    BY <1>4
  <2>2. [s \in SUBSET S |-> g[s]] = [s \in SUBSET S |-> Unfolded(f, g, s)]
    BY <1>6
  <2>. QED  BY <2>1, <2>2
<1>. QED  BY <1>7 DEF Unfolds

\* Two solutions agree on the sets that both are defined on.
LEMMA SumIsUnique ==
    ASSUME NEW f, NEW S, NEW T, IsFiniteSet(S), IsFiniteSet(T),
           NEW g, Unfolds(f, g, S), NEW k, Unfolds(f, k, T), S \subseteq T
    PROVE  g[S] = k[S]
<1>. DEFINE P == {s \in SUBSET S : g[s] = k[s]}
<1>1. ASSUME NEW s \in SUBSET S, \A x \in s : s \ {x} \in P PROVE s \in P
  <2>1. g[s] = Unfolded(f, g, s) /\ k[s] = Unfolded(f, k, s)
    BY DEF Unfolds
  <2>2. CASE s = {}
    BY <2>1, <2>2 DEF Unfolded
  <2>3. CASE s # {}
    <3>1. Pick1(s) \in s
      BY <2>3 DEF Pick1
    <3>2. g[s \ {Pick1(s)}] = k[s \ {Pick1(s)}]
      BY <1>1, <3>1
    <3>. QED  BY <2>1, <2>3, <3>2 DEF Unfolded
  <2>. QED  BY <2>2, <2>3
<1>2. S \in P
  <2>. HIDE DEF P
  <2>. QED  BY <1>1, PartsInduction
<1>. QED  BY <1>2

\* The sum of nothing is 0; any other one is the chosen element's value and the
\* sum of the rest.
LEMMA SumUnfolds ==
    ASSUME NEW f, NEW S, IsFiniteSet(S)
    PROVE  SumFunctionOnSet(f, S) =
             IF S = {} THEN 0 ELSE f[Pick1(S)] + SumFunctionOnSet(f, S \ {Pick1(S)})
<1>1. ASSUME NEW T, IsFiniteSet(T)
      PROVE  \E g : Unfolds(f, g, T) /\ SumFunctionOnSet(f, T) = g[T]
  <2>1. SumFunctionOnSet(f, T) =
           LET iter[s \in SUBSET T] ==
                 IF s = {} THEN 0 ELSE LET x == CHOOSE x \in s : TRUE IN f[x] + iter[s \ {x}]
           IN iter[T]
    BY DEF SumFunctionOnSet, FoldFunctionOnSet, MapThenFoldSet
  <2>. DEFINE g == CHOOSE g : Unfolds(f, g, T)
  <2>2. SumFunctionOnSet(f, T) = g[T]
    BY <2>1 DEF Unfolds, Unfolded, Pick1
  <2>3. Unfolds(f, g, T)
    BY <1>1, SumIsDefined
  <2>. QED  BY <2>2, <2>3
<1>2. PICK g : Unfolds(f, g, S) /\ SumFunctionOnSet(f, S) = g[S]
  BY <1>1
<1>3. g[S] = Unfolded(f, g, S)
  BY <1>2 DEF Unfolds
<1>4. CASE S = {}
  BY <1>2, <1>3, <1>4 DEF Unfolded
<1>5. CASE S # {}
  <2>. DEFINE T == S \ {Pick1(S)}
  <2>1. IsFiniteSet(T) /\ T \subseteq S
    BY FS_RemoveElement, FS_Subset
  <2>2. PICK k : Unfolds(f, k, T) /\ SumFunctionOnSet(f, T) = k[T]
    BY <1>1, <2>1
  <2>3. k[T] = g[T]
    BY <1>2, <2>1, <2>2, SumIsUnique
  <2>. QED  BY <1>2, <1>3, <1>5, <2>2, <2>3 DEF Unfolded
<1>. QED  BY <1>4, <1>5

LEMMA SumOfNothing ==
    ASSUME NEW f
    PROVE  SumFunctionOnSet(f, {}) = 0
<1>1. IsFiniteSet({})
  BY FS_EmptySet
<1>. QED  BY <1>1, SumUnfolds

\* What is added up are quantities and amounts: naturals.
LEMMA SumIsNat ==
    ASSUME NEW f, NEW S, IsFiniteSet(S), \A x \in S : f[x] \in Nat
    PROVE  SumFunctionOnSet(f, S) \in Nat
<1>. DEFINE P == {T \in SUBSET S : SumFunctionOnSet(f, T) \in Nat}
<1>1. ASSUME NEW T \in SUBSET S, \A x \in T : T \ {x} \in P PROVE T \in P
  <2>1. IsFiniteSet(T)
    BY FS_Subset
  <2>2. CASE T = {}
    BY <2>2, SumOfNothing
  <2>3. CASE T # {}
    <3>1. Pick1(T) \in T
      BY <2>3 DEF Pick1
    <3>2. SumFunctionOnSet(f, T \ {Pick1(T)}) \in Nat /\ f[Pick1(T)] \in Nat
      BY <1>1, <3>1
    <3>3. SumFunctionOnSet(f, T) = f[Pick1(T)] + SumFunctionOnSet(f, T \ {Pick1(T)})
      BY <2>1, <2>3, SumUnfolds
    <3>4. SumFunctionOnSet(f, T) \in Nat
      BY <3>2, <3>3
    <3>. QED  BY <3>4
  <2>. QED  BY <2>2, <2>3
<1>2. S \in P
  <2>. HIDE DEF P
  <2>. QED  BY <1>1, PartsInduction
<1>. QED  BY <1>2

\* A sum is the value of any one element and the sum of the rest.
LEMMA SumTakesOut ==
    ASSUME NEW f, NEW S, IsFiniteSet(S), \A x \in S : f[x] \in Nat, NEW y \in S
    PROVE  SumFunctionOnSet(f, S) = f[y] + SumFunctionOnSet(f, S \ {y})
<1>. DEFINE P == {T \in SUBSET S :
                    \A z \in T : SumFunctionOnSet(f, T)
                                    = f[z] + SumFunctionOnSet(f, T \ {z})}
<1>1. ASSUME NEW T \in SUBSET S, \A x \in T : T \ {x} \in P, NEW z \in T
      PROVE  SumFunctionOnSet(f, T) = f[z] + SumFunctionOnSet(f, T \ {z})
  <2>1. IsFiniteSet(T) /\ IsFiniteSet(T \ {z})
    BY FS_Subset
  <2>2. PICK p : p = Pick1(T)
    OBVIOUS
  <2>3. p \in T
    BY <2>2 DEF Pick1
  <2>4. SumFunctionOnSet(f, T) = f[p] + SumFunctionOnSet(f, T \ {p})
    BY <2>1, <2>2, SumUnfolds
  <2>5. CASE z = p
    BY <2>4, <2>5
  <2>6. CASE z # p
    <3>1. T \ {p} \in P /\ z \in T \ {p} /\ T \ {z} \in P /\ p \in T \ {z}
      BY <1>1, <2>3, <2>6
    <3>2. SumFunctionOnSet(f, T \ {p}) = f[z] + SumFunctionOnSet(f, (T \ {p}) \ {z})
      BY <3>1
    <3>3. SumFunctionOnSet(f, T \ {z}) = f[p] + SumFunctionOnSet(f, (T \ {z}) \ {p})
      BY <3>1
    <3>4. (T \ {p}) \ {z} = (T \ {z}) \ {p}
      OBVIOUS
    <3>5. /\ f[z] \in Nat /\ f[p] \in Nat
          /\ SumFunctionOnSet(f, (T \ {z}) \ {p}) \in Nat
      <4>1. IsFiniteSet((T \ {z}) \ {p})
        BY <2>1, FS_Subset
      <4>2. \A x \in (T \ {z}) \ {p} : f[x] \in Nat
        OBVIOUS
      <4>3. SumFunctionOnSet(f, (T \ {z}) \ {p}) \in Nat
        BY <4>1, <4>2, SumIsNat
      <4>. QED  BY <2>3, <4>3
    <3>. QED  BY <2>4, <3>2, <3>3, <3>4, <3>5
  <2>. QED  BY <2>5, <2>6
<1>2. S \in P
  <2>1. \A T \in SUBSET S : (\A x \in T : T \ {x} \in P) => T \in P
    BY <1>1
  <2>. HIDE DEF P
  <2>. QED  BY <2>1, PartsInduction
<1>. QED  BY <1>2

\* Sums of the same values are the same.
LEMMA SumSame ==
    ASSUME NEW f, NEW k, NEW S, IsFiniteSet(S), \A x \in S : f[x] = k[x]
    PROVE  SumFunctionOnSet(f, S) = SumFunctionOnSet(k, S)
<1>. DEFINE P == {T \in SUBSET S : SumFunctionOnSet(f, T) = SumFunctionOnSet(k, T)}
<1>1. ASSUME NEW T \in SUBSET S, \A x \in T : T \ {x} \in P PROVE T \in P
  <2>1. IsFiniteSet(T)
    BY FS_Subset
  <2>2. CASE T = {}
    BY <2>2, SumOfNothing
  <2>3. CASE T # {}
    <3>1. Pick1(T) \in T
      BY <2>3 DEF Pick1
    <3>2. /\ SumFunctionOnSet(f, T \ {Pick1(T)}) = SumFunctionOnSet(k, T \ {Pick1(T)})
          /\ f[Pick1(T)] = k[Pick1(T)]
      BY <1>1, <3>1
    <3>3. /\ SumFunctionOnSet(f, T) = f[Pick1(T)] + SumFunctionOnSet(f, T \ {Pick1(T)})
          /\ SumFunctionOnSet(k, T) = k[Pick1(T)] + SumFunctionOnSet(k, T \ {Pick1(T)})
      BY <2>1, <2>3, SumUnfolds
    <3>. QED  BY <3>2, <3>3
  <2>. QED  BY <2>2, <2>3
<1>2. S \in P
  <2>. HIDE DEF P
  <2>. QED  BY <1>1, PartsInduction
<1>. QED  BY <1>2

\* One more element: its value more.
LEMMA SumGrows ==
    ASSUME NEW f, NEW k, NEW S, IsFiniteSet(S), NEW y, y \notin S,
           \A x \in S : f[x] = k[x] /\ f[x] \in Nat, k[y] \in Nat
    PROVE  SumFunctionOnSet(k, S \cup {y}) = SumFunctionOnSet(f, S) + k[y]
<1>1. IsFiniteSet(S \cup {y})
  BY FS_AddElement
<1>2. SumFunctionOnSet(k, S \cup {y})
         = k[y] + SumFunctionOnSet(k, (S \cup {y}) \ {y})
  BY <1>1, SumTakesOut
<1>3. (S \cup {y}) \ {y} = S
  OBVIOUS
<1>4. SumFunctionOnSet(k, S) = SumFunctionOnSet(f, S)
  BY SumSame
<1>5. SumFunctionOnSet(f, S) \in Nat
  <2>1. \A x \in S : f[x] \in Nat
    OBVIOUS
  <2>. QED  BY <2>1, SumIsNat
<1>6. SumFunctionOnSet(k, S \cup {y}) = k[y] + SumFunctionOnSet(f, S)
  BY <1>2, <1>3, <1>4, Zenon
<1>. QED  BY <1>5, <1>6

\* Elements that count for nothing can be left out.
LEMMA SumOfRest ==
    ASSUME NEW f, NEW S, IsFiniteSet(S), NEW T \in SUBSET S,
           \A x \in S : f[x] \in Nat, \A x \in S \ T : f[x] = 0
    PROVE  SumFunctionOnSet(f, T) = SumFunctionOnSet(f, S)
<1>. DEFINE P == {U \in SUBSET S :
                    SumFunctionOnSet(f, U) = SumFunctionOnSet(f, U \cap T)}
<1>1. ASSUME NEW U \in SUBSET S, \A x \in U : U \ {x} \in P PROVE U \in P
  <2>1. CASE U \subseteq T
    <3>1. U \cap T = U
      BY <2>1
    <3>. QED  BY <3>1
  <2>2. CASE ~(U \subseteq T)
    <3>1. PICK z \in U : z \notin T
      BY <2>2
    <3>2. IsFiniteSet(U) /\ IsFiniteSet(U \ {z})
      BY FS_Subset
    <3>3. SumFunctionOnSet(f, U) = f[z] + SumFunctionOnSet(f, U \ {z})
      BY <3>2, SumTakesOut
    <3>4. SumFunctionOnSet(f, U \ {z}) \in Nat /\ f[z] = 0
      <4>1. \A x \in U \ {z} : f[x] \in Nat
        OBVIOUS
      <4>. QED  BY <3>1, <3>2, <4>1, SumIsNat
    <3>5. SumFunctionOnSet(f, U \ {z}) = SumFunctionOnSet(f, (U \ {z}) \cap T)
      BY <1>1, <3>1
    <3>6. (U \ {z}) \cap T = U \cap T
      BY <3>1
    <3>7. SumFunctionOnSet(f, U) = SumFunctionOnSet(f, U \ {z})
      BY <3>3, <3>4
    <3>. QED  BY <3>5, <3>6, <3>7
  <2>. QED  BY <2>1, <2>2
<1>2. S \in P
  <2>. HIDE DEF P
  <2>. QED  BY <1>1, PartsInduction
<1>3. S \cap T = T
  OBVIOUS
<1>. QED  BY <1>2, <1>3

-----------------------------------------------------------------------------
(* The customer master.                                                    *)

EnteredRecord == [name : FullNames, ids : SUBSET Numbers, group : Group,
                  by : Applicants \cup {Blankly}, raced : BOOLEAN]
OfferedRecord == [name : FullNames, ids : SUBSET Numbers, group : Group]

\* A teller is at work on a proposal that was made; while nobody wrote since it
\* read the master, the proposal is like no record there.  What is entered keeps
\* the property.
TellerInv(t) ==
    /\ doing[t] # "idle" => about[t] \in Applicants /\ offers[about[t]] # NoOffer
    /\ calm[t] /\ doing[t] \in {"profile", "create"} => ~Collides(offers[about[t]])
CustomerInv ==
    /\ records \in Seq(EnteredRecord)
    /\ groups \subseteq Groups
    /\ policy \in [env : Group, reqd : BOOLEAN]
    /\ offers \in [Applicants -> OfferedRecord \cup {NoOffer}]
    /\ doing \in [Tellers -> {"idle", "list", "profile", "create", "verify"}]
    /\ about \in [Tellers -> Applicants \cup {Blankly}]
    /\ chosen \in [Tellers -> Group] /\ calm \in [Tellers -> BOOLEAN]
    /\ \A t \in Tellers : TellerInv(t)
    /\ OneRecordPerCustomer

\* Being alike is mutual.
LEMMA AlikeMutual ==
    ASSUME NEW r, NEW s
    PROVE  Alike(r, s) <=> Alike(s, r)
<1>1. r.ids \cap s.ids = s.ids \cap r.ids
  OBVIOUS
<1>. QED  BY <1>1, Zenon DEF Alike

\* The group a customer would get is a leaf of today, or none, or a refusal.
LEMMA ProfileIsGroup ==
    ASSUME groups \subseteq Groups, NEW picked
    PROVE  ProfileOf(picked) \in Group \cup {"refused"}
<1>1. CASE Cardinality(groups) = 1
  <2>1. groups # {}
    BY <1>1, FS_EmptySet
  <2>2. (CHOOSE g \in groups : TRUE) \in groups
    BY <2>1
  <2>. QED  BY <1>1, <2>2 DEF ProfileOf, Group
<1>2. CASE Cardinality(groups) # 1
  BY <1>2 DEF ProfileOf, Group
<1>. QED  BY <1>1, <1>2

LEMMA CustomerInitially ==
    ASSUME CustomerInit
    PROVE  CustomerInv
<1>1. records \in Seq(EnteredRecord) /\ records = <<>>
  BY DEF CustomerInit
<1>3. \A t \in Tellers : TellerInv(t)
  BY DEF CustomerInit, TellerInv, Group
<1>4. OneRecordPerCustomer
  BY <1>1 DEF OneRecordPerCustomer
<1>5. offers \in [Applicants -> OfferedRecord \cup {NoOffer}]
  BY DEF CustomerInit
<1>. QED  BY <1>1, <1>3, <1>4, <1>5 DEF CustomerInit, CustomerInv, Group

\* A record more: nobody is calm, and the record is like none if it is entered
\* by a teller that was.
LEMMA EnterStep ==
    ASSUME CustomerInv, NEW record \in EnteredRecord, Enter(record),
           record.by # Blankly /\ ~record.raced =>
              \A i \in DOMAIN records : ~Alike(record, records[i])
    PROVE  /\ records' \in Seq(EnteredRecord)
           /\ OneRecordPerCustomer'
           /\ calm' = [t \in Tellers |-> FALSE]
<1>1. /\ records \in Seq(EnteredRecord) /\ records' = Append(records, record)
      /\ calm' = [t \in Tellers |-> FALSE] /\ OneRecordPerCustomer
  BY DEF CustomerInv, Enter
<1>2. /\ records' \in Seq(EnteredRecord) /\ Len(records) \in Nat
      /\ DOMAIN records = 1..Len(records) /\ DOMAIN records' = 1..Len(records) + 1
      /\ \A i \in DOMAIN records : records'[i] = records[i]
      /\ records'[Len(records) + 1] = record
  BY <1>1
<1>3. ASSUME NEW i \in DOMAIN records', NEW j \in DOMAIN records', i < j,
             records'[j].by # Blankly, ~records'[j].raced
      PROVE  ~Alike(records'[i], records'[j])
  <2>0. i \in DOMAIN records /\ records'[i] = records[i]
    BY <1>2, <1>3
  <2>1. CASE j \in DOMAIN records
    <3>1. records'[j] = records[j]
      BY <1>2, <2>1
    <3>2. ~Alike(records[i], records[j])
      BY <1>1, <1>3, <2>0, <2>1, <3>1 DEF OneRecordPerCustomer
    <3>. QED  BY <2>0, <3>1, <3>2
  <2>2. CASE j \notin DOMAIN records
    <3>1. j = Len(records) + 1
      BY <1>2, <2>2
    <3>2. records'[j] = record
      BY <1>2, <3>1
    <3>3. ~Alike(record, records[i])
      BY <1>3, <2>0, <3>2
    <3>. QED  BY <2>0, <3>2, <3>3, AlikeMutual
  <2>. QED  BY <2>1, <2>2
<1>4. OneRecordPerCustomer'
  BY <1>3 DEF OneRecordPerCustomer
<1>. QED  BY <1>1, <1>2, <1>4

\* A step of one teller that leaves the master, the site and the proposals alone.
LEMMA TellerStep ==
    ASSUME CustomerInv, NEW t \in Tellers,
           UNCHANGED <<records, groups, policy, offers>>,
           NEW d, doing' = [doing EXCEPT ![t] = d],
           NEW a, about' = [about EXCEPT ![t] = a],
           NEW g, chosen' = [chosen EXCEPT ![t] = g],
           NEW q, calm' = [calm EXCEPT ![t] = q],
           d \in {"idle", "list", "profile", "create", "verify"},
           a \in Applicants \cup {Blankly}, g \in Group, q \in BOOLEAN,
           d # "idle" => a \in Applicants /\ offers[a] # NoOffer,
           q /\ d \in {"profile", "create"} => ~Collides(offers[a])
    PROVE  CustomerInv'
<1>1. /\ doing' \in [Tellers -> {"idle", "list", "profile", "create", "verify"}]
      /\ about' \in [Tellers -> Applicants \cup {Blankly}]
      /\ chosen' \in [Tellers -> Group] /\ calm' \in [Tellers -> BOOLEAN]
  BY DEF CustomerInv
<1>2. ASSUME NEW u \in Tellers PROVE TellerInv(u)'
  <2>1. TellerInv(u)
    BY DEF CustomerInv
  <2>2. CASE u = t
    <3>1. doing'[u] = d /\ about'[u] = a /\ chosen'[u] = g /\ calm'[u] = q
      BY <2>2 DEF CustomerInv
    <3>2. Collides(offers[a])' <=> Collides(offers[a])
      BY DEF Collides
    <3>. QED  BY <3>1, <3>2 DEF TellerInv, Group, Collides
  <2>3. CASE u # t
    <3>1. /\ doing'[u] = doing[u] /\ about'[u] = about[u]
          /\ chosen'[u] = chosen[u] /\ calm'[u] = calm[u]
      BY <2>3 DEF CustomerInv
    <3>. QED  BY <2>1, <3>1 DEF TellerInv, Collides
  <2>. QED  BY <2>2, <2>3
<1>3. OneRecordPerCustomer'
  BY DEF CustomerInv, OneRecordPerCustomer
<1>. QED  BY <1>1, <1>2, <1>3 DEF CustomerInv, Group

LEMMA TurnAwayStep ==
    ASSUME CustomerInv, NEW t \in Tellers, TurnAway(t),
           UNCHANGED <<records, groups, policy, offers>>
    PROVE  CustomerInv'
<1>1. Blankly \in Group /\ Blankly \in Applicants \cup {Blankly}
  BY DEF Group
<1>. QED  BY <1>1, TellerStep DEF TurnAway

LEMMA BuildCustomerStep ==
    ASSUME CustomerInv, NEW a \in Applicants, NEW name \in FullNames,
           NEW ids \in SUBSET Numbers, BuildCustomerCreate(a, name, ids)
    PROVE  CustomerInv'
<1>1. PICK offer : offer = [name |-> name, ids |-> ids, group |-> ProfileOf(Blankly)]
  OBVIOUS
<1>2. /\ offers[a] = NoOffer /\ offer.group # "refused"
      /\ offers' = [offers EXCEPT ![a] = offer]
      /\ UNCHANGED <<records, groups, policy, doing, about, chosen, calm>>
  BY <1>1 DEF BuildCustomerCreate, tellers
<1>3. offer \in OfferedRecord
  <2>1. ProfileOf(Blankly) \in Group
    BY <1>1, <1>2, ProfileIsGroup DEF CustomerInv
  <2>. QED  BY <1>1, <2>1 DEF OfferedRecord
<1>4. /\ offers' \in [Applicants -> OfferedRecord \cup {NoOffer}]
      /\ \A b \in Applicants : offers[b] # NoOffer => offers'[b] = offers[b]
  BY <1>2, <1>3 DEF CustomerInv
<1>5. ASSUME NEW u \in Tellers PROVE TellerInv(u)'
  <2>1. TellerInv(u)
    BY DEF CustomerInv
  <2>2. doing[u] # "idle" => offers'[about[u]] = offers[about[u]]
    BY <1>4, <2>1 DEF TellerInv, CustomerInv
  <2>. QED  BY <1>2, <2>1, <2>2 DEF TellerInv, Collides
<1>6. OneRecordPerCustomer'
  BY <1>2 DEF CustomerInv, OneRecordPerCustomer
<1>. QED  BY <1>2, <1>4, <1>5, <1>6 DEF CustomerInv

\* Once a record is entered nobody is calm.
LEMMA AfterEntering ==
    ASSUME CustomerInv, records' \in Seq(EnteredRecord), OneRecordPerCustomer',
           calm' = [t \in Tellers |-> FALSE], UNCHANGED <<groups, policy, offers, about, chosen>>,
           \/ UNCHANGED doing
           \/ \E t \in Tellers : doing[t] # "idle" /\ doing' = [doing EXCEPT ![t] = "verify"]
    PROVE  CustomerInv'
<1>1. /\ doing' \in [Tellers -> {"idle", "list", "profile", "create", "verify"}]
      /\ calm' \in [Tellers -> BOOLEAN]
  BY DEF CustomerInv
<1>2. ASSUME NEW u \in Tellers PROVE TellerInv(u)'
  <2>1. TellerInv(u)
    BY DEF CustomerInv
  <2>2. calm'[u] = FALSE
    OBVIOUS
  <2>3. doing'[u] = doing[u] \/ (doing[u] # "idle" /\ doing'[u] = "verify")
    BY DEF CustomerInv
  <2>. QED  BY <2>1, <2>2, <2>3 DEF TellerInv
<1>. QED  BY <1>1, <1>2 DEF CustomerInv

LEMMA CreateCustomerStep ==
    ASSUME CustomerInv, NEW t \in Tellers, CreateCustomer(t)
    PROVE  CustomerInv'
<1>1. CASE chosen[t] \notin groups \cup {Blankly}
  BY <1>1, TurnAwayStep DEF CreateCustomer
<1>2. CASE chosen[t] \in groups \cup {Blankly}
  <2>1. PICK record : record = CustomerData(t)
    OBVIOUS
  <2>2. /\ doing[t] = "create" /\ Enter(record)
        /\ doing' = [doing EXCEPT ![t] = "verify"]
        /\ UNCHANGED <<groups, policy, offers, about, chosen>>
    BY <1>2, <2>1 DEF CreateCustomer
  <2>3. TellerInv(t)
    BY DEF CustomerInv
  <2>4. /\ about[t] \in Applicants /\ offers[about[t]] \in OfferedRecord
        /\ chosen[t] \in Group /\ calm[t] \in BOOLEAN
    BY <2>2, <2>3 DEF TellerInv, CustomerInv
  <2>5. /\ record.name = offers[about[t]].name /\ record.ids = offers[about[t]].ids
        /\ record.raced = ~calm[t] /\ record \in EnteredRecord
    <3>1. PICK raced1 \in BOOLEAN : raced1 = ~calm[t]
      OBVIOUS
    <3>. QED  BY <2>1, <2>4, <3>1 DEF CustomerData, EnteredRecord, OfferedRecord
  <2>6. ASSUME ~record.raced, NEW i \in DOMAIN records PROVE ~Alike(record, records[i])
    <3>1. calm[t]
      BY <2>4, <2>5, <2>6
    <3>2. ~Alike(offers[about[t]], records[i])
      BY <2>2, <2>3, <3>1 DEF TellerInv, Collides
    <3>. QED  BY <2>5, <3>2 DEF Alike
  <2>7. /\ records' \in Seq(EnteredRecord) /\ OneRecordPerCustomer'
        /\ calm' = [u \in Tellers |-> FALSE]
    BY <2>2, <2>5, <2>6, EnterStep
  <2>. QED  BY <2>2, <2>7, AfterEntering
<1>. QED  BY <1>1, <1>2

LEMMA CustomerInductive ==
    ASSUME CustomerInv, [CustomerNext]_customerVars
    PROVE  CustomerInv'
<1>1. ASSUME NEW t \in Tellers, NEW a \in Applicants, ProbeCustomer(t, a)
      PROVE  CustomerInv'
  <2>1. /\ chosen' = [chosen EXCEPT ![t] = chosen[t]]
        /\ calm' = [calm EXCEPT ![t] = calm[t]] /\ TellerInv(t)
    BY <1>1 DEF ProbeCustomer, CustomerInv
  <2>2. chosen[t] \in Group /\ calm[t] \in BOOLEAN /\ a # Blankly
    BY NewCustomerAssumption DEF CustomerInv
  <2>. QED  BY <1>1, <2>1, <2>2, TellerStep DEF ProbeCustomer
<1>2. ASSUME NEW t \in Tellers, RereadCustomers(t) PROVE CustomerInv'
  <2>1. CASE Collides(offers[about[t]])
    BY <1>2, <2>1, TurnAwayStep DEF RereadCustomers
  <2>2. CASE ~Collides(offers[about[t]])
    <3>1. /\ about' = [about EXCEPT ![t] = about[t]]
          /\ chosen' = [chosen EXCEPT ![t] = chosen[t]] /\ TellerInv(t)
      BY <1>2, <2>2 DEF RereadCustomers, CustomerInv
    <3>2. /\ chosen[t] \in Group /\ about[t] \in Applicants \cup {Blankly}
          /\ doing[t] = "list" /\ doing' = [doing EXCEPT ![t] = "profile"]
          /\ calm' = [calm EXCEPT ![t] = TRUE]
          /\ UNCHANGED <<records, groups, policy, offers>>
      BY <1>2, <2>2 DEF RereadCustomers, CustomerInv
    <3>. QED  BY <2>2, <3>1, <3>2, TellerStep DEF TellerInv
  <2>. QED  BY <2>1, <2>2
<1>3. ASSUME NEW t \in Tellers, RereadProfile(t) PROVE CustomerInv'
  <2>1. PICK g : g = ProfileOf(offers[about[t]].group)
    OBVIOUS
  <2>2. CASE g = "refused"
    BY <1>3, <2>1, <2>2, TurnAwayStep DEF RereadProfile
  <2>3. CASE g # "refused"
    <3>1. g \in Group
      BY <2>1, <2>3, ProfileIsGroup DEF CustomerInv
    <3>2. /\ doing[t] = "profile" /\ doing' = [doing EXCEPT ![t] = "create"]
          /\ chosen' = [chosen EXCEPT ![t] = g]
          /\ UNCHANGED <<about, calm, records, groups, policy, offers>>
      BY <1>3, <2>1, <2>3 DEF RereadProfile
    <3>3. /\ about' = [about EXCEPT ![t] = about[t]]
          /\ calm' = [calm EXCEPT ![t] = calm[t]] /\ TellerInv(t)
      BY <3>2 DEF CustomerInv
    <3>4. calm[t] \in BOOLEAN /\ about[t] \in Applicants \cup {Blankly}
      BY DEF CustomerInv
    <3>. QED  BY <3>1, <3>2, <3>3, <3>4, TellerStep DEF TellerInv
  <2>. QED  BY <2>2, <2>3
<1>4. ASSUME NEW t \in Tellers, VerifyCustomer(t) PROVE CustomerInv'
  BY <1>4, TurnAwayStep DEF VerifyCustomer
<1>5. ASSUME NEW name \in FullNames, SomebodyEnters(name) PROVE CustomerInv'
  <2>1. PICK record : record = [name |-> name, ids |-> {}, group |-> Blankly,
                                by |-> Blankly, raced |-> FALSE]
    OBVIOUS
  <2>2. Enter(record) /\ UNCHANGED <<groups, policy, offers, doing, about, chosen>>
    BY <1>5, <2>1 DEF SomebodyEnters
  <2>3. record \in EnteredRecord /\ record.by = Blankly
    BY <2>1 DEF EnteredRecord, Group
  <2>. QED  BY <2>2, <2>3, EnterStep, AfterEntering
<1>6. ASSUME NEW g \in Groups, RemoveGroup(g) PROVE CustomerInv'
  <2>1. UNCHANGED <<records, policy, offers, doing, about, chosen, calm>> /\ groups' \subseteq Groups
    BY <1>6 DEF RemoveGroup, tellers, CustomerInv
  <2>2. ASSUME NEW u \in Tellers PROVE TellerInv(u)'
    BY <2>1 DEF CustomerInv, TellerInv, Collides
  <2>3. OneRecordPerCustomer'
    BY <2>1 DEF CustomerInv, OneRecordPerCustomer
  <2>. QED  BY <2>1, <2>2, <2>3 DEF CustomerInv
<1>7. ASSUME UNCHANGED customerVars PROVE CustomerInv'
  <2>1. UNCHANGED <<records, groups, policy, offers, doing, about, chosen, calm>>
    BY <1>7 DEF customerVars, tellers
  <2>2. ASSUME NEW u \in Tellers PROVE TellerInv(u)'
    BY <2>1 DEF CustomerInv, TellerInv, Collides
  <2>3. OneRecordPerCustomer'
    BY <2>1 DEF CustomerInv, OneRecordPerCustomer
  <2>. QED  BY <2>1, <2>2, <2>3 DEF CustomerInv
<1>. QED  BY <1>1, <1>2, <1>3, <1>4, <1>5, <1>6, <1>7, BuildCustomerStep,
             CreateCustomerStep DEF CustomerNext

LEMMA CustomerInvHolds == CustomerSpec => []CustomerInv
<1>1. CustomerInit => CustomerInv
  BY CustomerInitially
<1>2. CustomerInv /\ [CustomerNext]_customerVars => CustomerInv'
  BY CustomerInductive
<1>. QED  BY <1>1, <1>2, PTL DEF CustomerSpec

\* customer-create.mjs: however the tellers and the people at the desk interleave,
\* the assistant enters no customer that is like one of the master, unless
\* somebody wrote between its look at the master and its insert.
THEOREM OneRecordPerCustomerHolds == CustomerSpec => []OneRecordPerCustomer
<1>1. CustomerInv => OneRecordPerCustomer
  BY DEF CustomerInv
<1>. QED  BY <1>1, CustomerInvHolds, PTL

\* Every variable of the customer master has its type.
THEOREM CustomerTypeOKHolds == CustomerSpec => []CustomerTypeOK
<1>1. CustomerInv => CustomerTypeOK
  <2>. SUFFICES ASSUME CustomerInv PROVE CustomerTypeOK
    OBVIOUS
  <2>1. \A i \in DOMAIN records : records[i] \in EnteredRecord
    BY DEF CustomerInv
  <2>. QED  BY <2>1, Zenon DEF CustomerInv, CustomerTypeOK, EnteredRecord, OfferedRecord
<1>. QED  BY <1>1, CustomerInvHolds, PTL

-----------------------------------------------------------------------------
(* Where the money goes.                                                   *)

MoneyInv ==
    /\ shop \in Shops /\ wish \in Wishes
    /\ MoneyInSaidChannel

\* The first of the candidates is one of them.
LEMMA PickFirstPicks ==
    ASSUME NEW S, NEW T
    PROVE  PickFirst(S, T) \in S \cup T \cup {Nobody}
BY DEF PickFirst

\* A mode picked for a known channel is of that channel, if the modes are listed.
LEMMA ModeHasType ==
    ASSUME NEW s, NEW m \in Modes, s.listed, ChannelOf(m) # "none",
           ModeOf(s, m) # Nobody
    PROVE  s.modes[ModeOf(s, m)] = ChannelOf(m)
<1>1. PICK c : c = ChannelOf(m)
  OBVIOUS
<1>2. PICK same : same = OfType(s, c)
  OBVIOUS
<1>3. Named(same, c) \subseteq same
  BY DEF Named
<1>4. PickFirst(Named(same, c), same) \in same \cup {Nobody}
  BY <1>3, PickFirstPicks
<1>5. ModeOf(s, m) = IF m \in same THEN m ELSE PickFirst(Named(same, c), same)
  BY <1>1, <1>2 DEF ModeOf
<1>6. ModeOf(s, m) \in same
  BY <1>4, <1>5
<1>. QED  BY <1>1, <1>2, <1>6 DEF OfType

\* An account that is not refused is a leaf of the company, of the channel's
\* type, and the one that was chosen if one was.
LEMMA AccountHasType ==
    ASSUME NEW s, NEW chosenAccount, NEW c, AccountOf(s, chosenAccount, c) # Nobody
    PROVE  /\ Typed(AccountOf(s, chosenAccount, c), c)
           /\ chosenAccount \in {Nobody, AccountOf(s, chosenAccount, c)}
BY DEF AccountOf

LEMMA ResolveMoneyStep ==
    ASSUME MoneyInv, ResolveMoney
    PROVE  MoneyInv'
<1>1. UNCHANGED <<shop, wish>> /\ shop \in Shops /\ wish \in Wishes
  BY DEF MoneyInv, ResolveMoney
<1>2. PICK p : p = AccountPlan(shop, wish)
  OBVIOUS
<1>3. PICK d : d = DirectionOf(wish)
  OBVIOUS
<1>4. PICK sides : sides = Sides(d, p.account)
  OBVIOUS
<1>5. CASE Contradicts(wish) \/ Refused(p)
  <2>1. plan' = [status |-> "refused"]
    BY <1>2, <1>5 DEF ResolveMoney
  <2>. QED  BY <1>1, <2>1 DEF MoneyInv, MoneyInSaidChannel, Planned
<1>6. CASE ~(Contradicts(wish) \/ Refused(p))
  <2>1. plan' = [status |-> "planned", p |-> p, d |-> d, sides |-> sides]
    BY <1>2, <1>3, <1>4, <1>6 DEF ResolveMoney
  <2>2. PICK mode : mode = ModeOf(shop, wish.mode)
    OBVIOUS
  <2>3. PICK said : said = ChannelOf(wish.mode)
    OBVIOUS
  <2>4. PICK channel : channel = IF said # "none" THEN said ELSE ChannelOf(mode)
    OBVIOUS
  <2>5. PICK account : account = IF channel = "none" THEN Nobody
                                 ELSE AccountOf(shop, wish.account, channel)
    OBVIOUS
  <2>6. p = [mode |-> mode, channel |-> channel, account |-> account]
    BY <1>2, <2>2, <2>3, <2>4, <2>5 DEF AccountPlan
  <2>7. mode # Nobody /\ account # Nobody
    BY <1>6, <2>6 DEF Refused
  <2>8. account = AccountOf(shop, wish.account, channel)
    BY <2>5, <2>7
  <2>9. TypeOf[account] = channel /\ wish.account \in {Nobody, account}
    BY <2>7, <2>8, AccountHasType DEF Typed
  <2>10. d \in Directions /\ wish.verb \in {"none", d}
    BY <1>1, <1>3, <1>6 DEF Contradicts, DirectionOf, Wishes
  <2>11. account = IF d = "receive" THEN sides.to ELSE sides.from
    BY <1>4, <2>6, <2>10 DEF Sides
  <2>12. said # "none" => channel = said /\ (shop.listed => shop.modes[mode] = channel)
    <3>1. wish.mode \in Modes
      BY <1>1 DEF Wishes
    <3>. QED  BY <2>2, <2>3, <2>4, <2>7, <3>1, ModeHasType
  <2>. QED  BY <1>1, <2>1, <2>3, <2>6, <2>9, <2>10, <2>11, <2>12
            DEF MoneyInv, MoneyInSaidChannel, Planned
<1>. QED  BY <1>5, <1>6

\* payment-write.mjs: money said to be cash is never booked on a bank account, nor
\* the reverse, an account that was chosen is used or refused, and money never
\* runs against the sentence - whatever the site declares and the user asks for.
THEOREM MoneyInSaidChannelHolds == MoneySpec => []MoneyInSaidChannel
<1>1. MoneyInit => MoneyInv
  BY DEF MoneyInit, MoneyInv, MoneyInSaidChannel, Planned, NoPlan
<1>2. MoneyInv /\ [ResolveMoney]_moneyVars => MoneyInv'
  <2>1. ASSUME MoneyInv, UNCHANGED moneyVars PROVE MoneyInv'
    BY <2>1 DEF moneyVars, MoneyInv, MoneyInSaidChannel, Planned
  <2>. QED  BY <2>1, ResolveMoneyStep
<1>3. MoneyInv => MoneyInSaidChannel
  BY DEF MoneyInv
<1>. QED  BY <1>1, <1>2, <1>3, PTL DEF MoneySpec

-----------------------------------------------------------------------------
(* One page of a list.                                                     *)

\* A finite set has a part of every size up to its own.
LEMMA PartOfSize ==
    ASSUME NEW S, IsFiniteSet(S), NEW n \in Nat, n <= Cardinality(S)
    PROVE  \E T \in SUBSET S : Cardinality(T) = n
<1>. DEFINE P == {U \in SUBSET S : n <= Cardinality(U) =>
                                      \E T \in SUBSET S : Cardinality(T) = n}
<1>1. ASSUME NEW U \in SUBSET S, \A x \in U : U \ {x} \in P PROVE U \in P
  <2>1. IsFiniteSet(U) /\ Cardinality(U) \in Nat
    BY FS_Subset, FS_CardinalityType
  <2>2. CASE n < Cardinality(U)
    <3>1. U # {}
      BY <2>2, FS_EmptySet
    <3>2. PICK x : x \in U
      BY <3>1
    <3>3. Cardinality(U \ {x}) = Cardinality(U) - 1
      BY <2>1, <3>2, FS_RemoveElement
    <3>4. n <= Cardinality(U \ {x})
      BY <2>1, <2>2, <3>3
    <3>. QED  BY <1>1, <3>2, <3>4
  <2>3. CASE ~(n < Cardinality(U))
    <3>1. n <= Cardinality(U) => Cardinality(U) = n
      BY <2>1, <2>3
    <3>. QED  BY <3>1
  <2>. QED  BY <2>2, <2>3
<1>2. S \in P
  <2>. HIDE DEF P
  <2>. QED  BY <1>1, PartsInduction
<1>. QED  BY <1>2

\* listOpenDraft...: a page that is not full is the whole list.
LEMMA ShortPageIsWhole ==
    ASSUME NEW S, IsFiniteSet(S), NEW limit \in Nat,
           NEW page, page = IF Cardinality(S) <= limit THEN S
                            ELSE CHOOSE T \in SUBSET S : Cardinality(T) = limit
    PROVE  /\ page \subseteq S /\ IsFiniteSet(page)
           /\ ~(Cardinality(page) >= limit) => page = S
<1>1. Cardinality(S) \in Nat
  BY FS_CardinalityType
<1>2. CASE Cardinality(S) <= limit
  BY <1>2
<1>3. CASE ~(Cardinality(S) <= limit)
  <2>1. \E T \in SUBSET S : Cardinality(T) = limit
    BY <1>1, <1>3, PartOfSize
  <2>2. page \in SUBSET S /\ Cardinality(page) = limit
    BY <1>3, <2>1
  <2>3. IsFiniteSet(page)
    BY <2>2, FS_Subset
  <2>. QED  BY <2>2, <2>3
<1>. QED  BY <1>2, <1>3

-----------------------------------------------------------------------------
(* The goods that notes draw.                                              *)

\* What the notes nts of a site take of a source: Done and Drawn, of any state.
TakesOf(nt, o, i) == IF nt.order = o THEN Qty(nt.lines, i) ELSE 0
CountsAs(s, nt, o, i) == IF nt.status = s THEN TakesOf(nt, o, i) ELSE 0
TakenIn(nts, S, o, i) == SumFunctionOnSet([n \in S |-> TakesOf(nts[n], o, i)], S)
StatusIn(nts, s) == {n \in Names : nts[n].status = s}
DoneIn(nts, o, i) == TakenIn(nts, StatusIn(nts, "submitted"), o, i)
DrawnIn(nts, o, i) == TakenIn(nts, StatusIn(nts, "draft"), o, i)
WrittenIn(nts) == {n \in Names : nts[n] # NoNote}

\* A handler at call p, for card c, with what its reads left and the price v it
\* read; `al`: nobody wrote since the first of them.
HandlerOK(kd, src, nts, crd, p, c, l, v, al) ==
    /\ p # "idle" => c \in Cards /\ crd[c] # NoCard /\ v \in Rates
    /\ p = "returns" => kd = "return"
    /\ p # "idle" /\ kd \in {"invoice", "return"} => v = crd[c].rate
    /\ al /\ p = "drafts" =>
          \A i \in Items : l[i] <= Ordered[crd[c].order][i] - src[crd[c].order].back
                                     - DoneIn(nts, crd[c].order, i)
    /\ al /\ p = "create" =>
          \A i \in DOMAIN crd[c].lines :
             crd[c].lines[i] <= Ordered[crd[c].order][i] - src[crd[c].order].back
                   - DoneIn(nts, crd[c].order, i) - DrawnIn(nts, crd[c].order, i)

\* NothingDrawnTwice and WrittenAsConfirmed, of any state.
DrawnOnce(src, nts) ==
    \A o \in Orders : \A i \in Goods(o) :
       DoneIn(nts, o, i) + DrawnIn(nts, o, i) <= Ordered[o][i] - src[o].back
AsConfirmed(kd, nts, crd) ==
    \A n \in Names : nts[n] # NoNote =>
        /\ crd[nts[n].card] # NoCard
        /\ nts[n].order = crd[nts[n].card].order
        /\ nts[n].lines = crd[nts[n].card].lines
        /\ kd \in {"invoice", "return"} => nts[n].rate = crd[nts[n].card].rate

\* What a kind of note needs of its source stays as it was; the notes of a site
\* are finitely many; no note is of a card that was dismissed.
GoodsInv ==
    /\ GoodsTypeOK
    /\ IsFiniteSet(WrittenIn(notes))
    /\ \A o \in Orders : /\ kind # "invoice" => source[o].known
                         /\ kind # "receipt" => source[o].back = 0
    /\ \A h \in Handlers : HandlerOK(kind, source, notes, cards, pc[h], serves[h],
                                     left[h], price[h], alone[h])
    /\ AsConfirmed(kind, notes, cards)
    /\ raced = {} => DrawnOnce(source, notes)

LEMMA CountsAre ==
    ASSUME NEW o, NEW i
    PROVE  /\ Done(o, i) = DoneIn(notes, o, i) /\ Done(o, i)' = DoneIn(notes', o, i)
           /\ Drawn(o, i) = DrawnIn(notes, o, i) /\ Drawn(o, i)' = DrawnIn(notes', o, i)
BY DEF Done, DoneIn, Drawn, DrawnIn, Taken, TakenIn, Takes, TakesOf, InStatus, StatusIn

\* The kinds of value, told apart.
LEMMA GoodsKinds ==
    /\ NoNote.status = "none" /\ NoNote \notin Note
    /\ NoCard.order = None /\ NoCard \notin Card
    /\ \A nt \in Note : nt.status # "none"
    /\ NoLines \in Lines
<1>1. NoNote.status = "none" /\ (\A nt \in Note : nt.status # "none")
  BY DEF NoNote, Note
<1>2. NoCard.order = None /\ (\A d \in Card : d.order \in Orders)
  BY DEF NoCard, Card
<1>3. NoLines \in Lines
  <2>1. NoLines \in [{} -> Quantities]
    BY DEF NoLines
  <2>. QED  BY <2>1 DEF Lines
<1>. QED  BY <1>1, <1>2, <1>3, FulfilmentAssumption

\* A card's or a note's quantities are naturals, and every line is of an item.
LEMMA LinesCount ==
    ASSUME NEW lines \in Lines
    PROVE  /\ DOMAIN lines \subseteq Items
           /\ \A i \in DOMAIN lines : lines[i] \in Nat
           /\ \A i : Qty(lines, i) \in Nat
<1>1. PICK S \in SUBSET Items : lines \in [S -> Quantities]
  BY DEF Lines
<1>2. Quantities \subseteq Nat
  BY FulfilmentAssumption DEF Quantities
<1>. QED  BY <1>1, <1>2 DEF Qty

LEMMA TakesIsNat ==
    ASSUME NEW nt \in Note, NEW o, NEW i
    PROVE  TakesOf(nt, o, i) \in Nat
<1>1. nt.lines \in Lines
  BY DEF Note
<1>. QED  BY <1>1, LinesCount DEF TakesOf

LEMMA StatusCounted ==
    ASSUME NEW nts \in [Names -> Note \cup {NoNote}], IsFiniteSet(WrittenIn(nts)),
           NEW s \in {"draft", "submitted"}
    PROVE  /\ IsFiniteSet(StatusIn(nts, s)) /\ StatusIn(nts, s) \subseteq Names
           /\ \A n \in StatusIn(nts, s) : nts[n] \in Note /\ nts[n].status = s
<1>1. StatusIn(nts, s) \subseteq WrittenIn(nts)
  BY GoodsKinds DEF StatusIn, WrittenIn
<1>2. IsFiniteSet(StatusIn(nts, s))
  BY <1>1, FS_Subset
<1>3. \A n \in StatusIn(nts, s) : nts[n] \in Note /\ nts[n].status = s
  BY GoodsKinds DEF StatusIn
<1>. QED  BY <1>2, <1>3 DEF StatusIn

LEMMA TakenIsNat ==
    ASSUME NEW nts, NEW S, IsFiniteSet(S), \A n \in S : nts[n] \in Note, NEW o, NEW i
    PROVE  TakenIn(nts, S, o, i) \in Nat
<1>. DEFINE f == [n \in S |-> TakesOf(nts[n], o, i)]
<1>1. \A n \in S : f[n] \in Nat
  BY TakesIsNat
<1>. HIDE DEF f
<1>2. SumFunctionOnSet(f, S) \in Nat
  BY <1>1, SumIsNat
<1>. QED  BY <1>2 DEF f, TakenIn

LEMMA CountsAreNat ==
    ASSUME NEW nts \in [Names -> Note \cup {NoNote}], IsFiniteSet(WrittenIn(nts)),
           NEW o, NEW i
    PROVE  DoneIn(nts, o, i) \in Nat /\ DrawnIn(nts, o, i) \in Nat
BY StatusCounted, TakenIsNat DEF DoneIn, DrawnIn

\* What a set of notes takes is what one note takes, if it is among them, and what
\* the others take.
LEMMA TakenBut ==
    ASSUME NEW nts, NEW S, IsFiniteSet(S), \A m \in S : nts[m] \in Note,
           NEW n, NEW o, NEW i
    PROVE  TakenIn(nts, S, o, i) = TakenIn(nts, S \ {n}, o, i)
                                    + (IF n \in S THEN TakesOf(nts[n], o, i) ELSE 0)
<1>. DEFINE f == [m \in S |-> TakesOf(nts[m], o, i)]
            k == [m \in S \ {n} |-> TakesOf(nts[m], o, i)]
<1>1. \A m \in S : f[m] \in Nat
  BY TakesIsNat
<1>2. \A m \in S \ {n} : f[m] = k[m]
  OBVIOUS
<1>3. n \in S => f[n] = TakesOf(nts[n], o, i)
  OBVIOUS
<1>4. TakenIn(nts, S, o, i) = SumFunctionOnSet(f, S)
  BY DEF TakenIn
<1>5. TakenIn(nts, S \ {n}, o, i) = SumFunctionOnSet(k, S \ {n})
  BY DEF TakenIn
<1>. HIDE DEF f, k
<1>6. IsFiniteSet(S \ {n})
  BY FS_Subset
<1>7. SumFunctionOnSet(f, S \ {n}) = SumFunctionOnSet(k, S \ {n})
  BY <1>2, <1>6, SumSame
<1>8. SumFunctionOnSet(f, S \ {n}) \in Nat
  <2>1. \A m \in S \ {n} : f[m] \in Nat
    BY <1>1
  <2>. QED  BY <1>6, <2>1, SumIsNat
<1>9. CASE n \in S
  <2>1. SumFunctionOnSet(f, S) = f[n] + SumFunctionOnSet(f, S \ {n}) /\ f[n] \in Nat
    BY <1>1, <1>9, SumTakesOut
  <2>2. SumFunctionOnSet(f, S) = SumFunctionOnSet(f, S \ {n}) + f[n]
    BY <1>8, <2>1
  <2>. QED  BY <1>3, <1>4, <1>5, <1>7, <1>9, <2>2
<1>10. CASE n \notin S
  <2>1. S \ {n} = S
    BY <1>10
  <2>2. SumFunctionOnSet(f, S) = SumFunctionOnSet(f, S \ {n}) + 0
    BY <1>8, <2>1
  <2>. QED  BY <1>4, <1>5, <1>7, <1>10, <2>2
<1>. QED  BY <1>9, <1>10

\* One note changes: what the notes in a status take changes by that note.
LEMMA OneNoteChanges ==
    ASSUME NEW nts \in [Names -> Note \cup {NoNote}], IsFiniteSet(WrittenIn(nts)),
           NEW n \in Names, NEW new \in [Names -> Note \cup {NoNote}],
           \A m \in Names : m # n => new[m] = nts[m], NEW o, NEW i,
           NEW s \in {"draft", "submitted"}
    PROVE  /\ IsFiniteSet(WrittenIn(new))
           /\ \E rest \in Nat :
                 /\ TakenIn(nts, StatusIn(nts, s), o, i) = rest + CountsAs(s, nts[n], o, i)
                 /\ TakenIn(new, StatusIn(new, s), o, i) = rest + CountsAs(s, new[n], o, i)
<1>. PICK was : was = CountsAs(s, nts[n], o, i)
  OBVIOUS
<1>. PICK is : is = CountsAs(s, new[n], o, i)
  OBVIOUS
<1>2. \A m \in Names : m # n => new[m] = nts[m]
  OBVIOUS
<1>3. IsFiniteSet(WrittenIn(new))
  <2>1. WrittenIn(new) \subseteq WrittenIn(nts) \cup {n}
    BY <1>2 DEF WrittenIn
  <2>2. IsFiniteSet(WrittenIn(nts) \cup {n})
    BY FS_AddElement
  <2>. QED  BY <2>1, <2>2, FS_Subset
<1>4. PICK S : S = StatusIn(nts, s)
  OBVIOUS
<1>5. PICK T : T = StatusIn(new, s)
  OBVIOUS
<1>6. S \ {n} = T \ {n}
  BY <1>2, <1>4, <1>5 DEF StatusIn
<1>7. /\ IsFiniteSet(S) /\ S \subseteq Names /\ (\A m \in S : nts[m] \in Note)
      /\ IsFiniteSet(T) /\ T \subseteq Names /\ (\A m \in T : new[m] \in Note)
  BY <1>3, <1>4, <1>5, StatusCounted
<1>8. (n \in S <=> nts[n].status = s) /\ (n \in T <=> new[n].status = s)
  BY <1>2, <1>4, <1>5 DEF StatusIn
<1>9. TakenIn(nts, S, o, i) = TakenIn(nts, S \ {n}, o, i) + was
  <2>1. was = IF n \in S THEN TakesOf(nts[n], o, i) ELSE 0
    BY <1>8 DEF CountsAs
  <2>. QED  BY <1>7, <2>1, TakenBut
<1>10. TakenIn(new, T, o, i) = TakenIn(new, T \ {n}, o, i) + is
  <2>1. is = IF n \in T THEN TakesOf(new[n], o, i) ELSE 0
    BY <1>8 DEF CountsAs
  <2>2. TakenIn(new, T, o, i) = TakenIn(new, T \ {n}, o, i)
                                 + (IF n \in T THEN TakesOf(new[n], o, i) ELSE 0)
    BY <1>7, TakenBut
  <2>. QED  BY <2>1, <2>2, Zenon
<1>11. TakenIn(nts, S \ {n}, o, i) \in Nat
  <2>1. IsFiniteSet(S \ {n}) /\ (\A m \in S \ {n} : nts[m] \in Note)
    BY <1>7, FS_Subset
  <2>. QED  BY <2>1, TakenIsNat
<1>12. TakenIn(new, T \ {n}, o, i) = TakenIn(nts, S \ {n}, o, i)
  <2>. DEFINE f == [m \in T \ {n} |-> TakesOf(new[m], o, i)]
              k == [m \in S \ {n} |-> TakesOf(nts[m], o, i)]
  <2>1. \A m \in S \ {n} : f[m] = k[m]
    BY <1>2, <1>6, <1>7
  <2>2. IsFiniteSet(S \ {n})
    BY <1>7, FS_Subset
  <2>3. TakenIn(new, T \ {n}, o, i) = SumFunctionOnSet(f, T \ {n})
    BY DEF TakenIn
  <2>4. TakenIn(nts, S \ {n}, o, i) = SumFunctionOnSet(k, S \ {n})
    BY DEF TakenIn
  <2>. HIDE DEF f, k
  <2>5. SumFunctionOnSet(f, S \ {n}) = SumFunctionOnSet(k, S \ {n})
    BY <2>1, <2>2, SumSame
  <2>. QED  BY <1>6, <2>3, <2>4, <2>5
<1>13. PICK rest \in Nat : rest = TakenIn(nts, S \ {n}, o, i)
  BY <1>11
<1>14. /\ TakenIn(nts, StatusIn(nts, s), o, i) = rest + was
       /\ TakenIn(new, StatusIn(new, s), o, i) = rest + is
  <2>1. TakenIn(nts, S, o, i) = rest + was
    BY <1>9, <1>13
  <2>2. TakenIn(new, T, o, i) = rest + is
    BY <1>10, <1>12, <1>13
  <2>. QED  BY <1>4, <1>5, <2>1, <2>2
<1>. QED  BY <1>3, <1>14

\* A draft is inserted; submitted; a submitted note is cancelled.
LEMMA InsertCounts ==
    ASSUME NEW nts \in [Names -> Note \cup {NoNote}], IsFiniteSet(WrittenIn(nts)),
           NEW n \in Names, nts[n] = NoNote,
           NEW new \in [Names -> Note \cup {NoNote}],
           \A m \in Names : m # n => new[m] = nts[m],
           new[n] \in Note, new[n].status = "draft", NEW o, NEW i
    PROVE  /\ DoneIn(new, o, i) = DoneIn(nts, o, i)
           /\ DrawnIn(new, o, i) = DrawnIn(nts, o, i) + TakesOf(new[n], o, i)
           /\ IsFiniteSet(WrittenIn(new))
<1>1. nts[n].status = "none" /\ TakesOf(new[n], o, i) \in Nat
  BY GoodsKinds, TakesIsNat
<1>2. \E rest \in Nat : DoneIn(nts, o, i) = rest + 0 /\ DoneIn(new, o, i) = rest + 0
  <2>1. PICK rest \in Nat :
             /\ DoneIn(nts, o, i) = rest + CountsAs("submitted", nts[n], o, i)
             /\ DoneIn(new, o, i) = rest + CountsAs("submitted", new[n], o, i)
    BY OneNoteChanges DEF DoneIn
  <2>. QED  BY <1>1, <2>1 DEF CountsAs
<1>3. /\ \E rest \in Nat : /\ DrawnIn(nts, o, i) = rest + 0
                           /\ DrawnIn(new, o, i) = rest + TakesOf(new[n], o, i)
      /\ IsFiniteSet(WrittenIn(new))
  <2>1. PICK rest \in Nat :
             /\ DrawnIn(nts, o, i) = rest + CountsAs("draft", nts[n], o, i)
             /\ DrawnIn(new, o, i) = rest + CountsAs("draft", new[n], o, i)
    BY OneNoteChanges DEF DrawnIn
  <2>2. IsFiniteSet(WrittenIn(new))
    BY OneNoteChanges
  <2>. QED  BY <1>1, <2>1, <2>2 DEF CountsAs
<1>. QED  BY <1>1, <1>2, <1>3

LEMMA SubmitCounts ==
    ASSUME NEW nts \in [Names -> Note \cup {NoNote}], IsFiniteSet(WrittenIn(nts)),
           NEW n \in Names, nts[n].status = "draft",
           NEW new \in [Names -> Note \cup {NoNote}],
           \A m \in Names : m # n => new[m] = nts[m],
           new[n] \in Note, new[n].status = "submitted",
           new[n].order = nts[n].order, new[n].lines = nts[n].lines, NEW o, NEW i
    PROVE  /\ DoneIn(new, o, i) + DrawnIn(new, o, i)
                 = DoneIn(nts, o, i) + DrawnIn(nts, o, i)
           /\ IsFiniteSet(WrittenIn(new))
<1>1. PICK x \in Nat : x = TakesOf(new[n], o, i) /\ x = TakesOf(nts[n], o, i)
  BY TakesIsNat DEF TakesOf
<1>2. \E rest \in Nat : DoneIn(nts, o, i) = rest + 0 /\ DoneIn(new, o, i) = rest + x
  <2>1. PICK rest \in Nat :
             /\ DoneIn(nts, o, i) = rest + CountsAs("submitted", nts[n], o, i)
             /\ DoneIn(new, o, i) = rest + CountsAs("submitted", new[n], o, i)
    BY OneNoteChanges DEF DoneIn
  <2>. QED  BY <1>1, <2>1 DEF CountsAs
<1>3. /\ \E rest \in Nat : DrawnIn(nts, o, i) = rest + x /\ DrawnIn(new, o, i) = rest + 0
      /\ IsFiniteSet(WrittenIn(new))
  <2>1. PICK rest \in Nat :
             /\ DrawnIn(nts, o, i) = rest + CountsAs("draft", nts[n], o, i)
             /\ DrawnIn(new, o, i) = rest + CountsAs("draft", new[n], o, i)
    BY OneNoteChanges DEF DrawnIn
  <2>2. IsFiniteSet(WrittenIn(new))
    BY OneNoteChanges
  <2>. QED  BY <1>1, <2>1, <2>2 DEF CountsAs
<1>. QED  BY <1>2, <1>3

LEMMA CancelCounts ==
    ASSUME NEW nts \in [Names -> Note \cup {NoNote}], IsFiniteSet(WrittenIn(nts)),
           NEW n \in Names, nts[n].status = "submitted",
           NEW new \in [Names -> Note \cup {NoNote}],
           \A m \in Names : m # n => new[m] = nts[m],
           new[n] \in Note, new[n].status = "cancelled", NEW o, NEW i
    PROVE  /\ DoneIn(new, o, i) <= DoneIn(nts, o, i)
           /\ DrawnIn(new, o, i) = DrawnIn(nts, o, i)
           /\ IsFiniteSet(WrittenIn(new))
<1>0. nts[n] \in Note
  BY GoodsKinds
<1>1. PICK x \in Nat : x = TakesOf(nts[n], o, i)
  BY <1>0, TakesIsNat
<1>2. \E rest \in Nat : DoneIn(nts, o, i) = rest + x /\ DoneIn(new, o, i) = rest + 0
  <2>1. PICK rest \in Nat :
             /\ DoneIn(nts, o, i) = rest + CountsAs("submitted", nts[n], o, i)
             /\ DoneIn(new, o, i) = rest + CountsAs("submitted", new[n], o, i)
    BY OneNoteChanges DEF DoneIn
  <2>. QED  BY <1>1, <2>1 DEF CountsAs
<1>3. /\ \E rest \in Nat : DrawnIn(nts, o, i) = rest + 0 /\ DrawnIn(new, o, i) = rest + 0
      /\ IsFiniteSet(WrittenIn(new))
  <2>1. PICK rest \in Nat :
             /\ DrawnIn(nts, o, i) = rest + CountsAs("draft", nts[n], o, i)
             /\ DrawnIn(new, o, i) = rest + CountsAs("draft", new[n], o, i)
    BY OneNoteChanges DEF DrawnIn
  <2>2. IsFiniteSet(WrittenIn(new))
    BY OneNoteChanges
  <2>. QED  BY <1>1, <2>1, <2>2 DEF CountsAs
<1>. QED  BY <1>2, <1>3

LEMMA GoodsInvSays ==
    ASSUME GoodsInv
    PROVE  NothingDrawnTwice /\ WrittenAsConfirmed
<1>1. NothingDrawnTwice
  BY CountsAre DEF GoodsInv, DrawnOnce, NothingDrawnTwice
<1>2. WrittenAsConfirmed
  BY DEF GoodsInv, AsConfirmed, WrittenAsConfirmed
<1>. QED  BY <1>1, <1>2

LEMMA GoodsInitially ==
    ASSUME GoodsInit
    PROVE  GoodsInv
<1>1. \A n \in Names : notes[n] = NoNote
  BY DEF GoodsInit
<1>2. notes \in [Names -> Note \cup {NoNote}]
  BY DEF GoodsInit
<1>3. WrittenIn(notes) = {}
  BY <1>1 DEF WrittenIn
<1>4. IsFiniteSet(WrittenIn(notes))
  BY <1>3, FS_EmptySet
<1>5. /\ \A o \in Orders : /\ source[o].status = "submitted" /\ source[o].rate = 1
                           /\ source[o].back \in 0..1
                           /\ kind # "invoice" => source[o].known
                           /\ kind # "receipt" => source[o].back = 0
      /\ source \in [Orders -> [status : {"submitted", "cancelled"},
                                rate : Rates, known : BOOLEAN, back : 0..1]]
  <2>1. PICK k \in BOOLEAN, b \in 0..1 :
             /\ kind # "invoice" => k
             /\ kind # "receipt" => b = 0
             /\ source = [o \in Orders |-> [status |-> "submitted", rate |-> 1,
                                            known |-> k, back |-> b]]
    BY DEF GoodsInit
  <2>2. 1 \in Rates
    BY DEF Rates
  <2>. QED  BY <2>1, <2>2
<1>6. GoodsTypeOK
  <2>1. left \in [Handlers -> [Items -> Int]]
    BY DEF GoodsInit, Nothing
  <2>. QED  BY <1>2, <1>5, <2>1 DEF GoodsInit, GoodsTypeOK
<1>7. \A h \in Handlers : HandlerOK(kind, source, notes, cards, pc[h], serves[h],
                                    left[h], price[h], alone[h])
  BY DEF GoodsInit, HandlerOK
<1>8. AsConfirmed(kind, notes, cards)
  BY <1>1 DEF AsConfirmed
<1>9. DrawnOnce(source, notes)
  <2>. SUFFICES ASSUME NEW o \in Orders, NEW i \in Goods(o)
                PROVE  DoneIn(notes, o, i) + DrawnIn(notes, o, i)
                          <= Ordered[o][i] - source[o].back
    BY DEF DrawnOnce
  <2>1. StatusIn(notes, "submitted") = {} /\ StatusIn(notes, "draft") = {}
    BY <1>1, GoodsKinds DEF StatusIn
  <2>2. DoneIn(notes, o, i) = 0 /\ DrawnIn(notes, o, i) = 0
    BY <2>1, SumOfNothing DEF DoneIn, DrawnIn, TakenIn
  <2>3. Ordered[o][i] \in Nat /\ Ordered[o][i] > 0 /\ source[o].back \in 0..1
    BY <1>5, FulfilmentAssumption DEF Goods
  <2>. QED  BY <2>2, <2>3
<1>. QED  BY <1>4, <1>5, <1>6, <1>7, <1>8, <1>9 DEF GoodsInv

\* A step of one handler that writes nothing.
LEMMA HandlerStep ==
    ASSUME GoodsInv, NEW h \in Handlers, UNCHANGED <<kind, source, notes, cards, raced>>,
           NEW p, pc' = [pc EXCEPT ![h] = p],
           NEW c, serves' = [serves EXCEPT ![h] = c],
           NEW l, left' = [left EXCEPT ![h] = l],
           NEW v, price' = [price EXCEPT ![h] = v],
           NEW al, alone' = [alone EXCEPT ![h] = al],
           p \in {"idle", "returns", "drafts", "create", "verify"},
           c \in Cards \cup {None}, l \in [Items -> Int], v \in Rates \cup {0},
           al \in BOOLEAN,
           HandlerOK(kind, source, notes, cards, p, c, l, v, al)
    PROVE  GoodsInv'
<1>1. GoodsTypeOK'
  BY DEF GoodsInv, GoodsTypeOK
<1>2. ASSUME NEW u \in Handlers
      PROVE  HandlerOK(kind, source, notes, cards, pc'[u], serves'[u], left'[u],
                       price'[u], alone'[u])
  <2>1. CASE u = h
    <3>1. /\ pc'[u] = p /\ serves'[u] = c /\ left'[u] = l
          /\ price'[u] = v /\ alone'[u] = al
      BY <2>1 DEF GoodsInv, GoodsTypeOK
    <3>. QED  BY <3>1
  <2>2. CASE u # h
    <3>1. /\ pc'[u] = pc[u] /\ serves'[u] = serves[u] /\ left'[u] = left[u]
          /\ price'[u] = price[u] /\ alone'[u] = alone[u]
      BY <2>2 DEF GoodsInv, GoodsTypeOK
    <3>. QED  BY <3>1 DEF GoodsInv
  <2>. QED  BY <2>1, <2>2
<1>. QED  BY <1>1, <1>2 DEF GoodsInv

LEMMA LeaveStep ==
    ASSUME GoodsInv, NEW h \in Handlers, Leave(h),
           UNCHANGED <<kind, source, notes, cards, raced>>
    PROVE  GoodsInv'
<1>1. Nothing \in [Items -> Int]
  BY DEF Nothing
<1>2. HandlerOK(kind, source, notes, cards, "idle", None, Nothing, 0, FALSE)
  BY DEF HandlerOK
<1>. QED  BY <1>1, <1>2, HandlerStep DEF Leave

\* A read of what is left: the handler goes on, or opens.
LEMMA ReadsStep ==
    ASSUME GoodsInv, NEW h \in Handlers, UNCHANGED <<kind, source, notes, cards, raced>>,
           NEW p \in {"returns", "drafts", "create", "verify"},
           NEW l \in [Items -> Int], Reads(h, p, l), UNCHANGED <<serves, price, alone>>,
           pc[h] # "idle", HandlerOK(kind, source, notes, cards, p, serves[h], l,
                                     price[h], alone[h])
    PROVE  GoodsInv'
<1>1. /\ pc' = [pc EXCEPT ![h] = p] /\ left' = [left EXCEPT ![h] = l]
      /\ serves' = [serves EXCEPT ![h] = serves[h]]
      /\ price' = [price EXCEPT ![h] = price[h]]
      /\ alone' = [alone EXCEPT ![h] = alone[h]]
  BY DEF Reads, GoodsInv, GoodsTypeOK
<1>2. /\ serves[h] \in Cards \cup {None} /\ price[h] \in Rates \cup {0}
      /\ alone[h] \in BOOLEAN
  BY DEF GoodsInv, GoodsTypeOK
<1>. QED  BY <1>1, <1>2, HandlerStep

\* What the reads of the site say is left of a source.
LEMMA GoodsFacts ==
    ASSUME GoodsInv, NEW o \in Orders
    PROVE  /\ Ordered[o] \in [Items -> Nat]
           /\ source[o].back \in 0..1 /\ source[o].rate \in Rates
           /\ kind # "invoice" => source[o].known
           /\ kind # "receipt" => source[o].back = 0
           /\ \A i : DoneIn(notes, o, i) \in Nat /\ DrawnIn(notes, o, i) \in Nat
<1>1. source[o] \in [status : {"submitted", "cancelled"},
                     rate : Rates, known : BOOLEAN, back : 0..1]
  BY DEF GoodsInv, GoodsTypeOK
<1>2. \A i : DoneIn(notes, o, i) \in Nat /\ DrawnIn(notes, o, i) \in Nat
  BY CountsAreNat DEF GoodsInv, GoodsTypeOK
<1>. QED  BY <1>1, <1>2, FulfilmentAssumption DEF GoodsInv

\* Notes of other sources take nothing of this one.
LEMMA OfOrder ==
    ASSUME NEW nts, NEW S, IsFiniteSet(S), \A n \in S : nts[n] \in Note,
           NEW o, NEW i, NEW T, T = {n \in S : nts[n].order = o}
    PROVE  TakenIn(nts, T, o, i) = TakenIn(nts, S, o, i)
<1>. DEFINE f == [n \in S |-> TakesOf(nts[n], o, i)]
            k == [n \in T |-> TakesOf(nts[n], o, i)]
<1>1. T \subseteq S /\ IsFiniteSet(T)
  BY FS_Subset
<1>2. \A n \in S : f[n] \in Nat
  BY TakesIsNat
<1>3. \A n \in S \ T : f[n] = 0
  BY DEF TakesOf
<1>4. \A n \in T : f[n] = k[n]
  BY <1>1
<1>5. TakenIn(nts, S, o, i) = SumFunctionOnSet(f, S)
  BY DEF TakenIn
<1>6. TakenIn(nts, T, o, i) = SumFunctionOnSet(k, T)
  BY DEF TakenIn
<1>. HIDE DEF f, k
<1>7. SumFunctionOnSet(f, T) = SumFunctionOnSet(k, T)
  BY <1>1, <1>4, SumSame
<1>8. SumFunctionOnSet(f, T) = SumFunctionOnSet(f, S)
  BY <1>1, <1>2, <1>3, SumOfRest
<1>. QED  BY <1>5, <1>6, <1>7, <1>8

LEMMA TakenAre ==
    ASSUME NEW S, NEW o, NEW i
    PROVE  Taken(S, o, i) = TakenIn(notes, S, o, i)
BY DEF Taken, TakenIn, Takes, TakesOf

\* openDraftCover, returnableCover: a page that is not full shows all that the
\* drafts, or the submitted returns, take of the source.
LEMMA PageCounted ==
    ASSUME GoodsInv, NEW s \in {"draft", "submitted"}, NEW o, NEW S,
           S \in {InStatus(s), {n \in InStatus(s) : notes[n].order = o}}
    PROVE  \A i : /\ Taken(FirstPage(S), o, i) \in Nat
                  /\ ~FullPage(FirstPage(S)) =>
                        Taken(FirstPage(S), o, i) = TakenIn(notes, StatusIn(notes, s), o, i)
<1>1. InStatus(s) = StatusIn(notes, s)
  BY DEF InStatus, StatusIn
<1>2. /\ IsFiniteSet(StatusIn(notes, s))
      /\ \A n \in StatusIn(notes, s) : notes[n] \in Note
  BY StatusCounted DEF GoodsInv, GoodsTypeOK
<1>3. S \subseteq StatusIn(notes, s) /\ IsFiniteSet(S)
  BY <1>1, <1>2, FS_Subset
<1>4. PICK page : page = FirstPage(S)
  OBVIOUS
<1>5. /\ page \subseteq S /\ IsFiniteSet(page)
      /\ ~(Cardinality(page) >= PageLimit) => page = S
  <2>1. page = IF Cardinality(S) <= PageLimit THEN S
               ELSE CHOOSE T \in SUBSET S : Cardinality(T) = PageLimit
    BY <1>4 DEF FirstPage
  <2>2. PageLimit \in Nat
    BY FulfilmentAssumption
  <2>. QED  BY <1>3, <2>1, <2>2, ShortPageIsWhole
<1>6. \A n \in page : notes[n] \in Note
  BY <1>2, <1>3, <1>5
<1>. SUFFICES ASSUME NEW i
              PROVE  /\ Taken(page, o, i) \in Nat
                     /\ ~FullPage(page) =>
                          Taken(page, o, i) = TakenIn(notes, StatusIn(notes, s), o, i)
  BY <1>4
<1>7. Taken(page, o, i) = TakenIn(notes, page, o, i)
  BY TakenAre
<1>8. TakenIn(notes, page, o, i) \in Nat
  BY <1>5, <1>6, TakenIsNat
<1>9. TakenIn(notes, S, o, i) = TakenIn(notes, StatusIn(notes, s), o, i)
  <2>1. CASE S = InStatus(s)
    BY <1>1, <2>1
  <2>2. CASE S = {n \in InStatus(s) : notes[n].order = o}
    <3>1. S = {n \in StatusIn(notes, s) : notes[n].order = o}
      BY <1>1, <2>2
    <3>. QED  BY <1>2, <3>1, OfOrder
  <2>. QED  BY <2>1, <2>2
<1>. QED  BY <1>5, <1>7, <1>8, <1>9 DEF FullPage

\* What is left of a source, of the kind of the skill, before the drafts.
LeftOf(o, i) == Ordered[o][i] - source[o].back - DoneIn(notes, o, i)

LEMMA PendingsAre ==
    ASSUME GoodsInv, NEW o \in Orders
    PROVE  /\ \A i \in Items : LeftOf(o, i) \in Int /\ LeftOf(o, i) <= Ordered[o][i]
           /\ DeliveryPending(o) \in [Items -> Int]
           /\ ReceiptPending(o) \in [Items -> Int]
           /\ InvoicePending(o) \in [Items -> Int]
           /\ kind = "delivery" => \A i \in Items : DeliveryPending(o)[i] = LeftOf(o, i)
           /\ \A i \in Items : ReceiptPending(o)[i] = LeftOf(o, i)
           /\ kind = "invoice" /\ source[o].known =>
                 \A i \in Items : InvoicePending(o)[i] = LeftOf(o, i)
<1>1. \A i \in Items : /\ Ordered[o][i] \in Nat /\ DoneIn(notes, o, i) \in Nat
                       /\ Done(o, i) = DoneIn(notes, o, i)
  BY GoodsFacts, CountsAre
<1>2. /\ source[o].back \in 0..1
      /\ kind = "delivery" \/ kind = "invoice" => source[o].back = 0
  BY GoodsFacts
<1>3. \A i \in Items : LeftOf(o, i) \in Int /\ LeftOf(o, i) <= Ordered[o][i]
  BY <1>1, <1>2 DEF LeftOf
<1>4. /\ \A i \in Items : DeliveryPending(o)[i] = Ordered[o][i] - DoneIn(notes, o, i)
      /\ DeliveryPending(o) \in [Items -> Int]
  BY <1>1 DEF DeliveryPending
<1>5. /\ \A i \in Items : ReceiptPending(o)[i]
                             = Ordered[o][i] - DoneIn(notes, o, i) - source[o].back
      /\ ReceiptPending(o) \in [Items -> Int]
  BY <1>1, <1>2 DEF ReceiptPending
<1>6. /\ source[o].known =>
            \A i \in Items : InvoicePending(o)[i] = Ordered[o][i] - DoneIn(notes, o, i)
      /\ InvoicePending(o) \in [Items -> Int]
  BY <1>1 DEF InvoicePending, Billable
<1>. QED  BY <1>1, <1>2, <1>3, <1>4, <1>5, <1>6 DEF LeftOf

\* listSubmittedReturns: with a page that is not full, what is left to return.
LEMMA ReturnableIs ==
    ASSUME GoodsInv, NEW o \in Orders
    PROVE  /\ Returnable(o) \in [Items -> Int]
           /\ \A i \in Items : Returnable(o)[i] <= Ordered[o][i]
           /\ ~FullPage(SubmittedReturns(o)) /\ kind = "return" =>
                 \A i \in Items : Returnable(o)[i] = LeftOf(o, i)
<1>1. PICK S : S = {n \in InStatus("submitted") : notes[n].order = o}
  OBVIOUS
<1>2. \A i : /\ Taken(FirstPage(S), o, i) \in Nat
             /\ ~FullPage(FirstPage(S)) =>
                   Taken(FirstPage(S), o, i) = DoneIn(notes, o, i)
  BY <1>1, PageCounted DEF DoneIn
<1>3. SubmittedReturns(o) = FirstPage(S)
  BY <1>1 DEF SubmittedReturns
<1>4. \A i \in Items : Ordered[o][i] \in Nat /\ DoneIn(notes, o, i) \in Nat
  BY GoodsFacts
<1>5. /\ \A i \in Items : Returnable(o)[i] = Ordered[o][i] - Taken(FirstPage(S), o, i)
      /\ Returnable(o) \in [Items -> Int]
  BY <1>2, <1>3, <1>4 DEF Returnable
<1>6. kind = "return" => source[o].back = 0
  BY GoodsFacts
<1>. QED  BY <1>2, <1>3, <1>4, <1>5, <1>6 DEF LeftOf

\* A handler reads its source for the first time.
LEMMA OpensStep ==
    ASSUME GoodsInv, NEW h \in Handlers, NEW c \in Shown,
           NEW p \in {"returns", "drafts"}, NEW l \in [Items -> Int], Opens(h, c, p, l),
           p = "drafts" => \A i \in Items : l[i] = LeftOf(cards[c].order, i),
           p = "returns" => kind = "return",
           kind \in {"invoice", "return"} => source[cards[c].order].rate = cards[c].rate
    PROVE  GoodsInv'
<1>1. c \in Cards /\ cards[c] # NoCard /\ cards[c] \in Card /\ cards[c].order \in Orders
  BY DEF Shown, GoodsInv, GoodsTypeOK, Card
<1>2. PICK v : v = source[cards[c].order].rate
  OBVIOUS
<1>3. v \in Rates
  BY <1>1, <1>2, GoodsFacts
<1>4. \A i \in Items : /\ LeftOf(cards[c].order, i) \in Int
                       /\ LeftOf(cards[c].order, i) <= LeftOf(cards[c].order, i)
  BY <1>1, PendingsAre
<1>5. HandlerOK(kind, source, notes, cards, p, c, l, v, TRUE)
  <2>1. kind \in {"invoice", "return"} => v = cards[c].rate
    BY <1>2
  <2>2. p = "drafts" => \A i \in Items :
           l[i] <= Ordered[cards[c].order][i] - source[cards[c].order].back
                     - DoneIn(notes, cards[c].order, i)
    BY <1>4 DEF LeftOf
  <2>3. p # "create"
    OBVIOUS
  <2>. QED  BY <1>1, <1>3, <2>1, <2>2, <2>3 DEF HandlerOK
<1>6. /\ pc' = [pc EXCEPT ![h] = p] /\ left' = [left EXCEPT ![h] = l]
      /\ serves' = [serves EXCEPT ![h] = c] /\ price' = [price EXCEPT ![h] = v]
      /\ alone' = [alone EXCEPT ![h] = TRUE]
      /\ UNCHANGED <<kind, source, notes, cards, raced>>
  BY <1>2 DEF Opens, Reads, site
<1>. QED  BY <1>1, <1>3, <1>5, <1>6, HandlerStep

LEMMA ExecuteStep ==
    ASSUME GoodsInv, NEW h \in Handlers, NEW c \in Shown,
           \/ ExecuteDelivery(h, c) \/ ExecutePurchaseReceipt(h, c)
           \/ ExecuteSalesInvoice(h, c) \/ ExecuteSalesReturn(h, c)
    PROVE  GoodsInv'
<1>1. PICK o \in Orders : o = cards[c].order
  BY DEF Shown, GoodsInv, GoodsTypeOK, Card
<1>2. CASE ExecuteDelivery(h, c)
  <2>1. kind = "delivery" /\ Opens(h, c, "drafts", DeliveryPending(o))
    BY <1>1, <1>2 DEF ExecuteDelivery
  <2>. QED  BY <1>1, <2>1, PendingsAre, OpensStep
<1>3. CASE ExecutePurchaseReceipt(h, c)
  <2>1. kind = "receipt" /\ Opens(h, c, "drafts", ReceiptPending(o))
    BY <1>1, <1>3 DEF ExecutePurchaseReceipt
  <2>. QED  BY <1>1, <2>1, PendingsAre, OpensStep
<1>4. CASE ExecuteSalesInvoice(h, c)
  <2>1. /\ kind = "invoice" /\ source[o].known /\ source[o].rate = cards[c].rate
        /\ Opens(h, c, "drafts", InvoicePending(o))
    BY <1>1, <1>4 DEF ExecuteSalesInvoice
  <2>. QED  BY <1>1, <2>1, PendingsAre, OpensStep
<1>5. CASE ExecuteSalesReturn(h, c)
  <2>1. /\ kind = "return" /\ source[o].rate = cards[c].rate
        /\ Opens(h, c, "returns", Nothing) /\ Nothing \in [Items -> Int]
    BY <1>1, <1>5 DEF ExecuteSalesReturn, Nothing
  <2>. QED  BY <1>1, <2>1, OpensStep
<1>. QED  BY <1>2, <1>3, <1>4, <1>5

\* Of a handler at work: its card was shown, and is of a source.
LEMMA ServedCard ==
    ASSUME GoodsInv, NEW h \in Handlers, pc[h] # "idle"
    PROVE  /\ serves[h] \in Cards /\ cards[serves[h]] # NoCard
           /\ cards[serves[h]] \in Card /\ cards[serves[h]].order \in Orders
           /\ cards[serves[h]].lines \in Lines /\ cards[serves[h]].rate \in Rates
<1>1. serves[h] \in Cards /\ cards[serves[h]] # NoCard
  BY DEF GoodsInv, HandlerOK
<1>2. cards[serves[h]] \in Card
  BY <1>1 DEF GoodsInv, GoodsTypeOK
<1>. QED  BY <1>1, <1>2 DEF Card

LEMMA ReadReturnsStep ==
    ASSUME GoodsInv, NEW h \in Handlers, ReadReturns(h)
    PROVE  GoodsInv'
<1>1. PICK o : o = cards[serves[h]].order
  OBVIOUS
<1>2. pc[h] = "returns" /\ UNCHANGED <<kind, source, notes, cards, raced>>
  BY DEF ReadReturns, site
<1>5. kind = "return" /\ pc[h] # "idle"
  BY <1>2 DEF GoodsInv, HandlerOK
<1>3. CASE FullPage(SubmittedReturns(o))
  <2>1. Leave(h)
    BY <1>1, <1>3 DEF ReadReturns
  <2>. QED  BY <1>2, <2>1, LeaveStep
<1>4. CASE ~FullPage(SubmittedReturns(o))
  <2>1. Reads(h, "drafts", Returnable(o)) /\ UNCHANGED <<serves, price, alone>>
    BY <1>1, <1>4 DEF ReadReturns
  <2>2. o \in Orders
    BY <1>1, <1>5, ServedCard
  <2>3. /\ Returnable(o) \in [Items -> Int]
        /\ \A i \in Items : Returnable(o)[i] = LeftOf(o, i)
    BY <1>4, <1>5, <2>2, ReturnableIs
  <2>4. HandlerOK(kind, source, notes, cards, pc[h], serves[h], left[h], price[h],
                  alone[h])
    BY DEF GoodsInv
  <2>5. \A i \in Items : LeftOf(o, i) \in Int
    BY <2>2, PendingsAre
  <2>6. \A i \in Items : Returnable(o)[i] <= Ordered[o][i] - source[o].back
                                               - DoneIn(notes, o, i)
    BY <2>3, <2>5 DEF LeftOf
  <2>7. HandlerOK(kind, source, notes, cards, "drafts", serves[h], Returnable(o),
                  price[h], alone[h])
    BY <1>1, <1>2, <1>5, <2>4, <2>6 DEF HandlerOK
  <2>. QED  BY <1>2, <1>5, <2>1, <2>3, <2>7, ReadsStep
<1>. QED  BY <1>3, <1>4

\* ... and then the drafts.  `drawn` is what their page shows: all of it, unless the
\* page is full.
LEMMA CompareStep ==
    ASSUME GoodsInv, NEW h \in Handlers, NEW page, NEW remaining, NEW drawn,
           pc[h] = "drafts", Compare(h, page, remaining),
           \A i \in Items : /\ drawn[i] \in Nat
                            /\ remaining[i] = left[h][i] - drawn[i],
           ~FullPage(page) => \A i \in Items :
              drawn[i] = DrawnIn(notes, cards[serves[h]].order, i)
    PROVE  GoodsInv'
<1>1. UNCHANGED <<kind, source, notes, cards, raced>>
  BY DEF Compare, site
<1>2. PICK o, lines : o = cards[serves[h]].order /\ lines = cards[serves[h]].lines
  OBVIOUS
<1>3. o \in Orders /\ lines \in Lines
  BY <1>2, ServedCard
<1>4. CASE Leave(h)
  BY <1>1, <1>4, LeaveStep
<1>5. CASE /\ ~FullPage(page) /\ \A i \in DOMAIN lines : lines[i] <= remaining[i]
           /\ Reads(h, "create", Nothing) /\ UNCHANGED <<serves, price, alone>>
  <2>1. HandlerOK(kind, source, notes, cards, pc[h], serves[h], left[h], price[h],
                  alone[h])
    BY DEF GoodsInv
  <2>2. ASSUME alone[h], NEW i \in DOMAIN lines
        PROVE  lines[i] <= Ordered[o][i] - source[o].back - DoneIn(notes, o, i)
                             - DrawnIn(notes, o, i)
    <3>1. i \in Items /\ lines[i] \in Nat
      BY <1>3, LinesCount
    <3>2. left[h][i] <= LeftOf(o, i)
      BY <1>2, <2>1, <2>2, <3>1 DEF HandlerOK, LeftOf
    <3>3. left[h][i] \in Int /\ LeftOf(o, i) \in Int
      BY <1>3, <3>1, PendingsAre DEF GoodsInv, GoodsTypeOK
    <3>4. lines[i] <= left[h][i] - drawn[i] /\ drawn[i] = DrawnIn(notes, o, i)
      BY <1>2, <1>5, <3>1
    <3>5. drawn[i] \in Nat
      BY <3>1
    <3>6. lines[i] <= LeftOf(o, i) - DrawnIn(notes, o, i)
      BY <3>1, <3>2, <3>3, <3>4, <3>5
    <3>. QED  BY <3>6 DEF LeftOf
  <2>3. HandlerOK(kind, source, notes, cards, "create", serves[h], Nothing, price[h],
                  alone[h])
    BY <1>2, <2>1, <2>2 DEF HandlerOK
  <2>4. Nothing \in [Items -> Int]
    BY DEF Nothing
  <2>. QED  BY <1>1, <1>5, <2>3, <2>4, ReadsStep
<1>. QED  BY <1>2, <1>4, <1>5 DEF Compare

LEMMA RecheckStep ==
    ASSUME GoodsInv, NEW h \in Handlers,
           \/ RecheckDelivery(h) \/ RecheckPurchaseReceipt(h)
           \/ RecheckSalesInvoice(h) \/ RecheckSalesReturn(h)
    PROVE  GoodsInv'
<1>1. PICK o : o = cards[serves[h]].order
  OBVIOUS
<1>2. pc[h] = "drafts"
  BY DEF RecheckDelivery, RecheckPurchaseReceipt, RecheckSalesInvoice,
         RecheckSalesReturn
<1>3. /\ \A i : /\ Taken(DeliveryPage(o), o, i) \in Nat
                /\ ~FullPage(DeliveryPage(o)) =>
                      Taken(DeliveryPage(o), o, i) = DrawnIn(notes, o, i)
      /\ ReceiptPage(o) = DeliveryPage(o) /\ InvoicePage(o) = DeliveryPage(o)
  BY PageCounted DEF DeliveryPage, ReceiptPage, InvoicePage, DrawnIn
<1>4. \A i : /\ Taken(ReturnPage(o), o, i) \in Nat
             /\ ~FullPage(ReturnPage(o)) =>
                   Taken(ReturnPage(o), o, i) = DrawnIn(notes, o, i)
  <2>1. PICK S : S = {n \in InStatus("draft") : notes[n].order = o}
    OBVIOUS
  <2>2. ReturnPage(o) = FirstPage(S)
    BY <2>1 DEF ReturnPage
  <2>. QED  BY <2>1, <2>2, PageCounted DEF DrawnIn
<1>5. CASE RecheckDelivery(h)
  <2>1. PICK drawn : drawn = DeliveryCover(o)
    OBVIOUS
  <2>2. PICK remaining : remaining = DeliveryLeft(left[h], drawn)
    OBVIOUS
  <2>3. \A i \in Items : /\ drawn[i] = Taken(DeliveryPage(o), o, i)
                         /\ remaining[i] = left[h][i] - drawn[i]
    BY <2>1, <2>2 DEF DeliveryCover, DeliveryLeft
  <2>4. Compare(h, DeliveryPage(o), remaining)
    BY <1>1, <1>5, <2>1, <2>2 DEF RecheckDelivery
  <2>. QED  BY <1>1, <1>2, <1>3, <2>3, <2>4, CompareStep
<1>6. CASE RecheckPurchaseReceipt(h)
  <2>1. PICK drawn : drawn = ReceiptCover(o)
    OBVIOUS
  <2>2. PICK remaining : remaining = ReceiptLeft(left[h], drawn)
    OBVIOUS
  <2>3. \A i \in Items : /\ drawn[i] = Taken(ReceiptPage(o), o, i)
                         /\ remaining[i] = left[h][i] - drawn[i]
    BY <2>1, <2>2 DEF ReceiptCover, ReceiptLeft
  <2>4. Compare(h, ReceiptPage(o), remaining)
    BY <1>1, <1>6, <2>1, <2>2 DEF RecheckPurchaseReceipt
  <2>. QED  BY <1>1, <1>2, <1>3, <2>3, <2>4, CompareStep
<1>7. CASE RecheckSalesInvoice(h)
  <2>1. PICK drawn : drawn = InvoiceCover(o)
    OBVIOUS
  <2>2. PICK remaining : remaining = InvoiceLeft(left[h], drawn)
    OBVIOUS
  <2>3. \A i \in Items : /\ drawn[i] = Taken(InvoicePage(o), o, i)
                         /\ remaining[i] = left[h][i] - drawn[i]
    BY <2>1, <2>2 DEF InvoiceCover, InvoiceLeft
  <2>4. Compare(h, InvoicePage(o), remaining)
    BY <1>1, <1>7, <2>1, <2>2 DEF RecheckSalesInvoice
  <2>. QED  BY <1>1, <1>2, <1>3, <2>3, <2>4, CompareStep
<1>8. CASE RecheckSalesReturn(h)
  <2>1. PICK drawn : drawn = ReturnCover(o)
    OBVIOUS
  <2>2. PICK remaining : remaining = [i \in Items |-> left[h][i] - drawn[i]]
    OBVIOUS
  <2>3. \A i \in Items : /\ drawn[i] = Taken(ReturnPage(o), o, i)
                         /\ remaining[i] = left[h][i] - drawn[i]
    BY <2>1, <2>2 DEF ReturnCover
  <2>4. Compare(h, ReturnPage(o), remaining)
    BY <1>1, <1>8, <2>1, <2>2 DEF RecheckSalesReturn
  <2>. QED  BY <1>1, <1>2, <1>4, <2>3, <2>4, CompareStep
<1>. QED  BY <1>5, <1>6, <1>7, <1>8

LEMMA VerifyStep ==
    ASSUME GoodsInv, NEW h \in Handlers,
           \/ VerifyDeliveryNote(h) \/ VerifyPurchaseReceipt(h)
           \/ VerifySalesInvoice(h) \/ VerifySalesReturn(h)
    PROVE  GoodsInv'
<1>1. Leave(h) /\ UNCHANGED <<kind, site, cards, raced>>
  BY DEF VerifyDeliveryNote, VerifyPurchaseReceipt, VerifySalesInvoice,
         VerifySalesReturn, Finish
<1>. QED  BY <1>1, LeaveStep DEF site

\* Somebody wrote: nobody is alone any more, so what the handlers read binds nobody.
LEMMA WroteStep ==
    ASSUME GoodsInv, GoodsTypeOK', UNCHANGED <<kind, cards, serves, price>>,
           IsFiniteSet(WrittenIn(notes')),
           \A o \in Orders : source'[o].known = source[o].known
                               /\ source'[o].back = source[o].back,
           \A u \in Handlers : ~alone'[u] /\ (pc'[u] # pc[u] => pc'[u] = "verify"
                                                                  /\ pc[u] # "idle"),
           AsConfirmed(kind, notes', cards),
           raced' = {} => DrawnOnce(source', notes')
    PROVE  GoodsInv'
<1>1. ASSUME NEW u \in Handlers
      PROVE  HandlerOK(kind, source', notes', cards, pc'[u], serves[u], left'[u],
                       price[u], alone'[u])
  <2>1. HandlerOK(kind, source, notes, cards, pc[u], serves[u], left[u], price[u],
                  alone[u])
    BY DEF GoodsInv
  <2>2. ~alone'[u] /\ (pc'[u] # pc[u] => pc'[u] = "verify" /\ pc[u] # "idle")
    OBVIOUS
  <2>. QED  BY <2>1, <2>2 DEF HandlerOK
<1>2. \A o \in Orders : /\ kind # "invoice" => source'[o].known
                        /\ kind # "receipt" => source'[o].back = 0
  BY DEF GoodsInv
<1>. QED  BY <1>1, <1>2 DEF GoodsInv

LEMMA InsertStep ==
    ASSUME GoodsInv, NEW h \in Handlers, NEW accepted, NEW d \in Note,
           Insert(h, accepted, d),
           d.status = "draft", d.card = serves[h], d.order = cards[serves[h]].order,
           d.lines = cards[serves[h]].lines,
           kind \in {"invoice", "return"} => d.rate = cards[serves[h]].rate
    PROVE  GoodsInv'
<1>1. UNCHANGED <<kind, source, cards>> /\ pc[h] = "create"
  BY DEF Insert
<1>2. CASE Leave(h) /\ UNCHANGED <<notes, raced>>
  BY <1>1, <1>2, LeaveStep
<1>3. ASSUME NEW n \in Free, notes' = [notes EXCEPT ![n] = d],
             raced' = IF alone[h] THEN raced ELSE raced \cup {n},
             pc' = [pc EXCEPT ![h] = "verify"], UNCHANGED <<serves, left, price>>,
             alone' = [g \in Handlers |-> FALSE]
      PROVE  GoodsInv'
  <2>1. n \in Names /\ notes[n] = NoNote /\ notes \in [Names -> Note \cup {NoNote}]
        /\ IsFiniteSet(WrittenIn(notes))
    BY <1>3 DEF Free, GoodsInv, GoodsTypeOK
  <2>2. PICK new \in [Names -> Note \cup {NoNote}] :
             /\ new = notes' /\ new[n] = d
             /\ \A m \in Names : m # n => new[m] = notes[m]
    BY <1>3, <2>1
  <2>3. GoodsTypeOK'
    <3>1. raced' \subseteq Names
      BY <1>3, <2>1 DEF GoodsInv, GoodsTypeOK
    <3>2. /\ pc' \in [Handlers -> {"idle", "returns", "drafts", "create", "verify"}]
          /\ alone' \in [Handlers -> BOOLEAN]
      BY <1>3 DEF GoodsInv, GoodsTypeOK
    <3>. QED  BY <1>1, <1>3, <2>2, <3>1, <3>2 DEF GoodsInv, GoodsTypeOK
  <2>4. /\ IsFiniteSet(WrittenIn(new))
        /\ \A o, i : /\ DoneIn(new, o, i) = DoneIn(notes, o, i)
                     /\ DrawnIn(new, o, i) = DrawnIn(notes, o, i) + TakesOf(d, o, i)
    <3>1. IsFiniteSet(WrittenIn(new))
      BY <2>1, <2>2, InsertCounts
    <3>. QED  BY <2>1, <2>2, <3>1, InsertCounts
  <2>5. AsConfirmed(kind, new, cards)
    <3>1. AsConfirmed(kind, notes, cards) /\ cards[serves[h]] # NoCard
      BY <1>1, ServedCard DEF GoodsInv
    <3>. QED  BY <2>2, <3>1 DEF AsConfirmed
  <2>6. ASSUME raced' = {}
        PROVE  DrawnOnce(source, new)
    <3>1. alone[h] /\ DrawnOnce(source, notes)
      BY <1>3, <2>6 DEF GoodsInv
    <3>. PICK c : c = cards[serves[h]]
      OBVIOUS
    <3>2. /\ c.order \in Orders /\ c.lines \in Lines
      BY <1>1, ServedCard
    <3>3. \A i \in DOMAIN c.lines :
             c.lines[i] <= Ordered[c.order][i] - source[c.order].back
                   - DoneIn(notes, c.order, i) - DrawnIn(notes, c.order, i)
      BY <1>1, <3>1 DEF GoodsInv, HandlerOK
    <3>. SUFFICES ASSUME NEW o \in Orders, NEW i \in Goods(o)
                  PROVE  DoneIn(new, o, i) + DrawnIn(new, o, i)
                            <= Ordered[o][i] - source[o].back
      BY DEF DrawnOnce
    <3>4. /\ DoneIn(notes, o, i) \in Nat /\ DrawnIn(notes, o, i) \in Nat
          /\ Ordered[o][i] \in Nat /\ source[o].back \in 0..1 /\ i \in Items
      BY GoodsFacts DEF Goods
    <3>5. DoneIn(notes, o, i) + DrawnIn(notes, o, i) <= Ordered[o][i] - source[o].back
      BY <3>1 DEF DrawnOnce
    <3>6. CASE o = c.order /\ i \in DOMAIN c.lines
      <4>1. TakesOf(d, o, i) = c.lines[i] /\ c.lines[i] \in Nat
        BY <3>2, <3>6, LinesCount DEF TakesOf, Qty
      <4>2. c.lines[i] <= Ordered[o][i] - source[o].back - DoneIn(notes, o, i)
                            - DrawnIn(notes, o, i)
        BY <3>3, <3>6
      <4>. QED  BY <2>4, <3>4, <4>1, <4>2
    <3>7. CASE o # c.order \/ i \notin DOMAIN c.lines
      <4>1. TakesOf(d, o, i) = 0
        BY <3>7 DEF TakesOf, Qty
      <4>. QED  BY <2>4, <3>4, <3>5, <4>1
    <3>. QED  BY <3>6, <3>7
  <2>7. \A u \in Handlers : ~alone'[u] /\ (pc'[u] # pc[u] => pc'[u] = "verify"
                                                               /\ pc[u] # "idle")
    BY <1>1, <1>3 DEF GoodsInv, GoodsTypeOK
  <2>. QED  BY <1>1, <1>3, <2>2, <2>3, <2>4, <2>5, <2>6, <2>7, WroteStep
<1>4. CASE accepted
  <2>1. Free # {}
    BY DEF Insert
  <2>2. PICK n : n = CHOOSE m \in Free : TRUE
    OBVIOUS
  <2>3. n \in Free
    BY <2>1, <2>2
  <2>4. /\ notes' = [notes EXCEPT ![n] = d]
        /\ raced' = IF alone[h] THEN raced ELSE raced \cup {n}
        /\ pc' = [pc EXCEPT ![h] = "verify"] /\ UNCHANGED <<serves, left, price>>
        /\ alone' = [g \in Handlers |-> FALSE]
    BY <1>4, <2>2 DEF Insert
  <2>. QED  BY <2>3, <2>4, <1>3
<1>. QED  BY <1>2, <1>4 DEF Insert

\* build...Data: with the price read, or the order's, the note is of the card.
LEMMA CreateStep ==
    ASSUME GoodsInv, NEW h \in Handlers,
           \/ CreateDeliveryNote(h) \/ CreatePurchaseReceipt(h)
           \/ CreateSalesInvoice(h) \/ CreateSalesReturn(h)
    PROVE  GoodsInv'
<1>1. PICK c, v, r : /\ c = cards[serves[h]] /\ v = price[h]
                     /\ r = source[cards[serves[h]].order].rate
  OBVIOUS
<1>2. PICK d, accepted : /\ Insert(h, accepted, d)
                         /\ \/ kind = "delivery" /\ d = DeliveryNoteData(h)
                            \/ kind = "receipt" /\ d = PurchaseReceiptData(h)
                            \/ kind = "invoice" /\ d = SalesInvoiceData(h)
                            \/ kind = "return" /\ d = SalesReturnData(h)
  BY Zenon DEF CreateDeliveryNote, CreatePurchaseReceipt, CreateSalesInvoice,
               CreateSalesReturn
<1>3. PICK q : /\ q = IF kind = "delivery" THEN r ELSE v
               /\ d = [status |-> "draft", card |-> serves[h], order |-> c.order,
                       lines |-> c.lines, rate |-> q]
  BY <1>1, <1>2 DEF DeliveryNoteData, PurchaseReceiptData, SalesInvoiceData,
                    SalesReturnData
<1>4. pc[h] = "create"
  BY <1>2 DEF Insert
<1>5. /\ serves[h] \in Cards /\ c \in Card /\ c.order \in Orders /\ c.lines \in Lines
      /\ r \in Rates
  BY <1>1, <1>4, ServedCard, GoodsFacts
<1>6. v \in Rates /\ (kind \in {"invoice", "return"} => v = c.rate)
  BY <1>1, <1>4 DEF GoodsInv, HandlerOK
<1>7. d \in Note
  BY <1>3, <1>5, <1>6 DEF Note
<1>8. /\ d.status = "draft" /\ d.card = serves[h] /\ d.order = c.order
      /\ d.lines = c.lines /\ d.rate = q
  BY <1>3
<1>9. kind \in {"invoice", "return"} => d.rate = c.rate
  BY <1>3, <1>6, <1>8
<1>. QED  BY <1>1, <1>2, <1>7, <1>8, <1>9, InsertStep

\* The desk changes a note ...
LEMMA NoteDeskStep ==
    ASSUME GoodsInv, NEW n \in Names, SubmitNote(n) \/ CancelNote(n)
    PROVE  GoodsInv'
<1>1. PICK st : /\ \/ st = "submitted" /\ notes[n].status = "draft"
                   \/ st = "cancelled" /\ notes[n].status = "submitted"
                /\ notes' = [notes EXCEPT ![n].status = st]
                /\ DeskChanges /\ UNCHANGED source
  BY DEF SubmitNote, CancelNote
<1>2. /\ UNCHANGED <<kind, cards, pc, serves, left, price, raced>>
      /\ alone' = [h \in Handlers |-> FALSE]
  BY <1>1 DEF DeskChanges
<1>3. /\ notes \in [Names -> Note \cup {NoNote}] /\ IsFiniteSet(WrittenIn(notes))
      /\ notes[n] \in Note
  BY <1>1, GoodsKinds DEF GoodsInv, GoodsTypeOK
<1>4. PICK d \in Note : d = [notes[n] EXCEPT !.status = st]
  <2>1. [notes[n] EXCEPT !.status = st] \in Note
    BY <1>1, <1>3 DEF Note
  <2>. QED  BY <2>1
<1>5. /\ d.status = st /\ d.order = notes[n].order /\ d.lines = notes[n].lines
      /\ d.card = notes[n].card /\ d.rate = notes[n].rate
  BY <1>3, <1>4 DEF Note
<1>6. notes' = [notes EXCEPT ![n] = d]
  BY <1>1, <1>4
<1>7. PICK new \in [Names -> Note \cup {NoNote}] :
             /\ new = notes' /\ new[n] = d
             /\ \A m \in Names : m # n => new[m] = notes[m]
  BY <1>3, <1>6
<1>8. GoodsTypeOK'
  <2>1. alone' \in [Handlers -> BOOLEAN]
    BY <1>2
  <2>. QED  BY <1>1, <1>2, <1>7, <2>1 DEF GoodsInv, GoodsTypeOK
<1>9. /\ IsFiniteSet(WrittenIn(new))
      /\ \A o, i : DoneIn(new, o, i) + DrawnIn(new, o, i)
                      <= DoneIn(notes, o, i) + DrawnIn(notes, o, i)
  <2>1. \A o, i : DoneIn(notes, o, i) \in Nat /\ DrawnIn(notes, o, i) \in Nat
    BY <1>3, CountsAreNat
  <2>2. CASE notes[n].status = "draft"
    <3>1. d.status = "submitted"
      BY <1>1, <1>5, <2>2
    <3>2. IsFiniteSet(WrittenIn(new))
      BY <1>3, <1>5, <1>7, <2>2, <3>1, SubmitCounts
    <3>3. \A o, i : DoneIn(new, o, i) + DrawnIn(new, o, i)
                      = DoneIn(notes, o, i) + DrawnIn(notes, o, i)
      BY <1>3, <1>5, <1>7, <2>2, <3>1, SubmitCounts
    <3>. QED  BY <2>1, <3>2, <3>3
  <2>3. CASE notes[n].status = "submitted"
    <3>1. d.status = "cancelled"
      BY <1>1, <1>5, <2>3
    <3>2. IsFiniteSet(WrittenIn(new))
      BY <1>3, <1>5, <1>7, <2>3, <3>1, CancelCounts
    <3>3. \A o, i : /\ DoneIn(new, o, i) <= DoneIn(notes, o, i)
                    /\ DrawnIn(new, o, i) = DrawnIn(notes, o, i)
      BY <1>3, <1>5, <1>7, <2>3, <3>1, CancelCounts
    <3>4. \A o, i : DoneIn(new, o, i) \in Nat
      BY <3>2, CountsAreNat
    <3>. QED  BY <2>1, <3>2, <3>3, <3>4
  <2>. QED  BY <1>1, <2>2, <2>3
<1>10. AsConfirmed(kind, new, cards)
  <2>1. AsConfirmed(kind, notes, cards) /\ notes[n] # NoNote
    BY <1>3, GoodsKinds DEF GoodsInv
  <2>. QED  BY <1>5, <1>7, <2>1 DEF AsConfirmed
<1>11. ASSUME raced' = {}
       PROVE  DrawnOnce(source, new)
  <2>1. DrawnOnce(source, notes)
    BY <1>2, <1>11 DEF GoodsInv
  <2>. SUFFICES ASSUME NEW o \in Orders, NEW i \in Goods(o)
                PROVE  DoneIn(new, o, i) + DrawnIn(new, o, i)
                          <= Ordered[o][i] - source[o].back
    BY DEF DrawnOnce
  <2>2. DoneIn(notes, o, i) + DrawnIn(notes, o, i) <= Ordered[o][i] - source[o].back
    BY <2>1 DEF DrawnOnce
  <2>3. /\ DoneIn(notes, o, i) \in Nat /\ DrawnIn(notes, o, i) \in Nat
        /\ DoneIn(new, o, i) \in Nat /\ DrawnIn(new, o, i) \in Nat
        /\ Ordered[o][i] \in Nat /\ source[o].back \in 0..1
    BY <1>9, CountsAreNat, GoodsFacts DEF Goods
  <2>4. DoneIn(new, o, i) + DrawnIn(new, o, i)
           <= DoneIn(notes, o, i) + DrawnIn(notes, o, i)
    BY <1>9
  <2>. QED  BY <2>2, <2>3, <2>4
<1>12. \A u \in Handlers : ~alone'[u] /\ pc'[u] = pc[u]
  BY <1>2
<1>. QED  BY <1>1, <1>2, <1>7, <1>8, <1>9, <1>10, <1>11, <1>12, WroteStep

\* ... or a source nothing was taken of.
LEMMA SourceDeskStep ==
    ASSUME GoodsInv, NEW o \in Orders, CancelSource(o) \/ Reprice(o)
    PROVE  GoodsInv'
<1>1. /\ UNCHANGED <<kind, notes, cards, pc, serves, left, price, raced>>
      /\ alone' = [h \in Handlers |-> FALSE]
  BY DEF CancelSource, Reprice, DeskChanges
<1>2. /\ \/ source' = [source EXCEPT ![o].status = "cancelled"]
         \/ source' = [source EXCEPT ![o].rate = 2]
      /\ source \in [Orders -> [status : {"submitted", "cancelled"},
                                rate : Rates, known : BOOLEAN, back : 0..1]]
  BY DEF CancelSource, Reprice, GoodsInv, GoodsTypeOK
<1>3. PICK src : /\ src = source'
                 /\ src \in [Orders -> [status : {"submitted", "cancelled"},
                                        rate : Rates, known : BOOLEAN, back : 0..1]]
                 /\ \A q \in Orders : /\ src[q].known = source[q].known
                                      /\ src[q].back = source[q].back
  BY <1>2 DEF Rates
<1>4. GoodsTypeOK'
  <2>1. alone' \in [Handlers -> BOOLEAN]
    BY <1>1
  <2>. QED  BY <1>1, <1>3, <2>1 DEF GoodsInv, GoodsTypeOK
<1>5. raced' = {} => DrawnOnce(src, notes)
  BY <1>1, <1>3 DEF GoodsInv, DrawnOnce
<1>6. \A u \in Handlers : ~alone'[u] /\ pc'[u] = pc[u]
  BY <1>1
<1>. QED  BY <1>1, <1>3, <1>4, <1>5, <1>6, WroteStep DEF GoodsInv

\* Cards come and go, but none that is served or was written from.
LEMMA CardsStep ==
    ASSUME GoodsInv, NEW c \in Cards, NEW d \in Card \cup {NoCard},
           cards' = [cards EXCEPT ![c] = d],
           UNCHANGED <<kind, site, pc, serves, left, price, alone, raced>>,
           \A h \in Handlers : pc[h] # "idle" => serves[h] # c,
           \A n \in Names : notes[n] # NoNote => notes[n].card # c
    PROVE  GoodsInv'
<1>1. PICK new \in [Cards -> Card \cup {NoCard}] :
             /\ new = cards'
             /\ \A e \in Cards : e # c => new[e] = cards[e]
  <2>1. cards \in [Cards -> Card \cup {NoCard}]
    BY DEF GoodsInv, GoodsTypeOK
  <2>2. cards' \in [Cards -> Card \cup {NoCard}]
    BY <2>1
  <2>3. \A e \in Cards : e # c => cards'[e] = cards[e]
    BY <2>1
  <2>. QED  BY <2>2, <2>3
<1>2. GoodsTypeOK'
  BY <1>1 DEF GoodsInv, GoodsTypeOK, site
<1>3. ASSUME NEW h \in Handlers
      PROVE  HandlerOK(kind, source, notes, new, pc[h], serves[h], left[h], price[h],
                       alone[h])
  <2>1. HandlerOK(kind, source, notes, cards, pc[h], serves[h], left[h], price[h],
                  alone[h])
    BY DEF GoodsInv
  <2>2. CASE pc[h] = "idle"
    BY <2>2 DEF HandlerOK
  <2>3. CASE pc[h] # "idle"
    <3>1. new[serves[h]] = cards[serves[h]]
      BY <1>1, <2>1, <2>3 DEF HandlerOK
    <3>. QED  BY <2>1, <3>1 DEF HandlerOK
  <2>. QED  BY <2>2, <2>3
<1>4. AsConfirmed(kind, notes, new)
  <2>1. AsConfirmed(kind, notes, cards) /\ notes \in [Names -> Note \cup {NoNote}]
    BY DEF GoodsInv, GoodsTypeOK
  <2>2. \A n \in Names : notes[n] # NoNote => new[notes[n].card] = cards[notes[n].card]
    BY <1>1, <2>1 DEF Note
  <2>. QED  BY <2>1, <2>2 DEF AsConfirmed
<1>. QED  BY <1>1, <1>2, <1>3, <1>4 DEF GoodsInv, site

LEMMA ShowStep ==
    ASSUME GoodsInv, NEW c \in Cards, cards[c] = NoCard, NEW o \in Orders,
           NEW lines \in Lines, Show(c, o, lines)
    PROVE  GoodsInv'
<1>1. PICK d : d = [order |-> o, rate |-> source[o].rate, lines |-> lines]
  OBVIOUS
<1>2. d \in Card
  BY <1>1, GoodsFacts DEF Card
<1>3. \A h \in Handlers : pc[h] # "idle" => serves[h] # c
  BY ServedCard
<1>4. \A n \in Names : notes[n] # NoNote => notes[n].card # c
  BY DEF GoodsInv, AsConfirmed
<1>5. /\ cards' = [cards EXCEPT ![c] = d]
      /\ UNCHANGED <<kind, site, pc, serves, left, price, alone, raced>>
  BY <1>1 DEF Show
<1>. QED  BY <1>2, <1>3, <1>4, <1>5, CardsStep

LEMMA DismissStep ==
    ASSUME GoodsInv, NEW c \in Cards, Dismiss(c)
    PROVE  GoodsInv'
BY CardsStep DEF Dismiss

\* requestedLinesFromText, or all that is left: lines of the source.
LEMMA ChosenAreLines ==
    ASSUME NEW o \in Orders, NEW want \in Lines, NEW remaining,
           \A i \in Items : remaining[i] \in Int /\ remaining[i] <= Ordered[o][i],
           NEW lines, lines = Chosen(remaining, want)
    PROVE  lines \in Lines
<1>1. CASE want # NoLines
  BY <1>1 DEF Chosen
<1>2. CASE want = NoLines
  <2>1. PICK S \in SUBSET Items : S = {j \in Items : remaining[j] > 0}
    OBVIOUS
  <2>2. lines = [i \in S |-> remaining[i]]
    BY <1>2, <2>1 DEF Chosen
  <2>3. ASSUME NEW i \in S
        PROVE  remaining[i] \in Quantities
    <3>1. i \in Items /\ Ordered[o][i] \in Nat
      BY <2>1, FulfilmentAssumption
    <3>2. remaining[i] \in 1..Ordered[o][i]
      BY <2>1, <3>1
    <3>. DEFINE C == {1..Ordered[q][j] : q \in Orders, j \in Items}
    <3>3. 1..Ordered[o][i] \in C
      BY <3>1
    <3>4. Quantities = UNION C
      BY DEF Quantities
    <3>. HIDE DEF C
    <3>. QED  BY <3>2, <3>3, <3>4
  <2>4. lines \in [S -> Quantities]
    BY <2>2, <2>3
  <2>. QED  BY <2>4 DEF Lines
<1>. QED  BY <1>1, <1>2

\* resolveOrder answers an order or none.
LEMMA TheOnlyIsOne ==
    ASSUME NEW S
    PROVE  TheOnly(S) \in S \cup {None}
<1>1. CASE S = {}
  <2>1. Cardinality(S) = 0
    BY <1>1, FS_EmptySet
  <2>. QED  BY <2>1 DEF TheOnly
<1>2. CASE S # {}
  BY <1>2 DEF TheOnly
<1>. QED  BY <1>1, <1>2

LEMMA OrdersAreOrders ==
    ASSUME NEW named \in Orders \cup {None}
    PROVE  /\ DeliveryOrder(named) \in Orders \cup {None}
           /\ ReceiptOrder(named) \in Orders \cup {None}
           /\ InvoiceOrder(named) \in Orders \cup {None}
<1>1. Submitted \subseteq Orders
  BY DEF Submitted
<1>2. DeliveryOrder(named) \in Orders \cup {None}
  <2>1. PICK S : S = {o \in Submitted : \E i \in Goods(o) : DeliveryPending(o)[i] > 0}
    OBVIOUS
  <2>2. DeliveryOrder(named) \in {named, None, TheOnly(S)}
    BY <2>1 DEF DeliveryOrder, OpenBy
  <2>. QED  BY <1>1, <2>1, <2>2, TheOnlyIsOne
<1>3. ReceiptOrder(named) \in Orders \cup {None}
  <2>1. PICK S : S = {o \in Submitted : \E i \in Goods(o) : ReceiptPending(o)[i] > 0}
    OBVIOUS
  <2>2. ReceiptOrder(named) \in {named, None, TheOnly(S)}
    BY <2>1 DEF ReceiptOrder, OpenBy
  <2>. QED  BY <1>1, <2>1, <2>2, TheOnlyIsOne
<1>4. InvoiceOrder(named) \in Orders \cup {None}
  <2>1. PICK S : S = {o \in Submitted : \E i \in Goods(o) : InvoicePending(o)[i] > 0}
    OBVIOUS
  <2>2. InvoiceOrder(named) \in {named, None, TheOnly(S)}
    BY <2>1 DEF InvoiceOrder, OpenBy
  <2>. QED  BY <1>1, <2>1, <2>2, TheOnlyIsOne
<1>. QED  BY <1>2, <1>3, <1>4

\* build...Proposal.
LEMMA ProposeStep ==
    ASSUME GoodsInv, NEW c \in Cards, cards[c] = NoCard, NEW o \in Orders,
           NEW want \in Lines, NEW pending, NEW drawn, NEW remaining,
           \A i \in Items : /\ pending[i] \in Int /\ pending[i] <= Ordered[o][i]
                            /\ drawn[i] \in Nat
                            /\ remaining[i] = pending[i] - drawn[i],
           Show(c, o, Chosen(remaining, want))
    PROVE  GoodsInv'
<1>1. PICK lines : lines = Chosen(remaining, want)
  OBVIOUS
<1>2. ASSUME NEW i \in Items
      PROVE  remaining[i] \in Int /\ remaining[i] <= Ordered[o][i]
  <2>1. /\ pending[i] \in Int /\ pending[i] <= Ordered[o][i] /\ drawn[i] \in Nat
        /\ remaining[i] = pending[i] - drawn[i]
    OBVIOUS
  <2>2. Ordered[o][i] \in Nat
    BY FulfilmentAssumption
  <2>. QED  BY <2>1, <2>2
<1>3. lines \in Lines
  BY <1>1, <1>2, ChosenAreLines
<1>4. Show(c, o, lines)
  BY <1>1
<1>. QED  BY <1>3, <1>4, ShowStep

LEMMA BuildStep ==
    ASSUME GoodsInv, NEW c \in Cards, NEW named \in Orders \cup {None},
           NEW want \in Lines, Build(c, named, want)
    PROVE  GoodsInv'
<1>1. \A o \in Orders : \A i \in Items :
         /\ Taken(DeliveryPage(o), o, i) \in Nat /\ Taken(ReceiptPage(o), o, i) \in Nat
         /\ Taken(InvoicePage(o), o, i) \in Nat
  BY PageCounted DEF DeliveryPage, ReceiptPage, InvoicePage
<1>2. \A o \in Orders : \A i \in Items :
         /\ LeftOf(o, i) \in Int /\ LeftOf(o, i) <= Ordered[o][i]
         /\ kind = "delivery" => DeliveryPending(o)[i] = LeftOf(o, i)
         /\ ReceiptPending(o)[i] = LeftOf(o, i)
         /\ kind = "invoice" /\ source[o].known => InvoicePending(o)[i] = LeftOf(o, i)
  BY PendingsAre
<1>3. CASE BuildDeliveryProposal(c, named, want)
  <2>1. PICK o : o = DeliveryOrder(named)
    OBVIOUS
  <2>2. PICK pending, drawn : pending = DeliveryPending(o) /\ drawn = DeliveryCover(o)
    OBVIOUS
  <2>3. PICK remaining : remaining = DeliveryLeft(pending, drawn)
    OBVIOUS
  <2>4. /\ kind = "delivery" /\ cards[c] = NoCard /\ o # None
        /\ Show(c, o, Chosen(remaining, want))
    BY <1>3, <2>1, <2>2, <2>3 DEF BuildDeliveryProposal
  <2>5. o \in Orders
    BY <2>1, <2>4, OrdersAreOrders
  <2>6. \A i \in Items : /\ drawn[i] = Taken(DeliveryPage(o), o, i)
                         /\ remaining[i] = pending[i] - drawn[i]
    BY <2>2, <2>3 DEF DeliveryCover, DeliveryLeft
  <2>7. \A i \in Items : /\ pending[i] \in Int /\ pending[i] <= Ordered[o][i]
                         /\ drawn[i] \in Nat /\ remaining[i] = pending[i] - drawn[i]
    BY <1>1, <1>2, <2>2, <2>4, <2>5, <2>6
  <2>. QED  BY <2>4, <2>5, <2>7, ProposeStep
<1>4. CASE BuildPurchaseReceiptProposal(c, named, want)
  <2>1. PICK o : o = ReceiptOrder(named)
    OBVIOUS
  <2>2. PICK pending, drawn : pending = ReceiptPending(o) /\ drawn = ReceiptCover(o)
    OBVIOUS
  <2>3. PICK remaining : remaining = ReceiptLeft(pending, drawn)
    OBVIOUS
  <2>4. /\ cards[c] = NoCard /\ o # None /\ Show(c, o, Chosen(remaining, want))
    BY <1>4, <2>1, <2>2, <2>3 DEF BuildPurchaseReceiptProposal
  <2>5. o \in Orders
    BY <2>1, <2>4, OrdersAreOrders
  <2>6. \A i \in Items : /\ drawn[i] = Taken(ReceiptPage(o), o, i)
                         /\ remaining[i] = pending[i] - drawn[i]
    BY <2>2, <2>3 DEF ReceiptCover, ReceiptLeft
  <2>7. \A i \in Items : /\ pending[i] \in Int /\ pending[i] <= Ordered[o][i]
                         /\ drawn[i] \in Nat /\ remaining[i] = pending[i] - drawn[i]
    BY <1>1, <1>2, <2>2, <2>5, <2>6
  <2>. QED  BY <2>4, <2>5, <2>7, ProposeStep
<1>5. CASE BuildSalesInvoiceProposal(c, named, want)
  <2>1. PICK o : o = InvoiceOrder(named)
    OBVIOUS
  <2>2. PICK pending, drawn : pending = InvoicePending(o) /\ drawn = InvoiceCover(o)
    OBVIOUS
  <2>3. PICK remaining : remaining = InvoiceLeft(pending, drawn)
    OBVIOUS
  <2>4. /\ kind = "invoice" /\ cards[c] = NoCard /\ o # None /\ source[o].known
        /\ Show(c, o, Chosen(remaining, want))
    BY <1>5, <2>1, <2>2, <2>3 DEF BuildSalesInvoiceProposal
  <2>5. o \in Orders
    BY <2>1, <2>4, OrdersAreOrders
  <2>6. \A i \in Items : /\ drawn[i] = Taken(InvoicePage(o), o, i)
                         /\ remaining[i] = pending[i] - drawn[i]
    BY <2>2, <2>3 DEF InvoiceCover, InvoiceLeft
  <2>7. \A i \in Items : /\ pending[i] \in Int /\ pending[i] <= Ordered[o][i]
                         /\ drawn[i] \in Nat /\ remaining[i] = pending[i] - drawn[i]
    BY <1>1, <1>2, <2>2, <2>4, <2>5, <2>6
  <2>. QED  BY <2>4, <2>5, <2>7, ProposeStep
<1>6. CASE BuildSalesReturnProposal(c, named, want)
  <2>1. /\ cards[c] = NoCard /\ named # None /\ Show(c, named, want)
    BY <1>6 DEF BuildSalesReturnProposal, ReturnInvoice
  <2>. QED  BY <2>1, ShowStep
<1>. QED  BY <1>3, <1>4, <1>5, <1>6 DEF Build

LEMMA GoodsInductive ==
    ASSUME GoodsInv, [GoodsNext]_goodsVars
    PROVE  GoodsInv'
<1>1. CASE \E c \in Cards, named \in Orders \cup {None}, want \in Lines :
              Build(c, named, want)
  BY <1>1, BuildStep
<1>2. CASE \E c \in Cards : Dismiss(c)
  BY <1>2, DismissStep
<1>3. ASSUME NEW h \in Handlers, Execute(h)
      PROVE  GoodsInv'
  BY <1>3, ExecuteStep, ReadReturnsStep, RecheckStep, CreateStep, VerifyStep
     DEF Execute
<1>4. CASE \E n \in Names : SubmitNote(n) \/ CancelNote(n)
  BY <1>4, NoteDeskStep
<1>5. CASE \E o \in Orders : CancelSource(o) \/ Reprice(o)
  BY <1>5, SourceDeskStep
<1>6. CASE UNCHANGED goodsVars
  BY <1>6 DEF goodsVars, GoodsInv, GoodsTypeOK
<1>. QED  BY <1>1, <1>2, <1>3, <1>4, <1>5, <1>6 DEF GoodsNext

LEMMA GoodsInvHolds == GoodsSpec => []GoodsInv
<1>1. GoodsInit => GoodsInv
  BY GoodsInitially
<1>2. GoodsInv /\ [GoodsNext]_goodsVars => GoodsInv'
  BY GoodsInductive
<1>. QED  BY <1>1, <1>2, PTL DEF GoodsSpec

\* NothingDrawnTwice (delivery-write.mjs and its three siblings): for any number of
\* cards, confirmations and desk actions, submitted notes and drafts together never
\* take more of a source than it has, unless some note was inserted after another
\* writer acted between its executor's reads and its insert.
THEOREM NothingDrawnTwiceHolds == GoodsSpec => []NothingDrawnTwice
<1>1. GoodsInv => NothingDrawnTwice
  BY GoodsInvSays
<1>. QED  BY <1>1, GoodsInvHolds, PTL

\* WrittenAsConfirmed (build...Data of the same skills): every note has the source,
\* goods and quantities of the card that was confirmed, and an invoice or a return
\* its price, whatever was repriced, cancelled or dismissed meanwhile.
THEOREM WrittenAsConfirmedHolds == GoodsSpec => []WrittenAsConfirmed
<1>1. GoodsInv => WrittenAsConfirmed
  BY GoodsInvSays
<1>. QED  BY <1>1, GoodsInvHolds, PTL

\* GoodsTypeOK: the variables of the four skills keep their types.
THEOREM GoodsTypeOKHolds == GoodsSpec => []GoodsTypeOK
<1>1. GoodsInv => GoodsTypeOK
  BY DEF GoodsInv
<1>. QED  BY <1>1, GoodsInvHolds, PTL

-----------------------------------------------------------------------------
(* The shelf.                                                              *)

\* One term of a sum changes: it is the term, if it is there, and the rest.
LEMMA OneTermChanges ==
    ASSUME NEW f, NEW S, IsFiniteSet(S), \A x \in S : f[x] \in Nat,
           NEW k, NEW T, IsFiniteSet(T), \A x \in T : k[x] \in Nat,
           NEW n, S \ {n} = T \ {n}, \A x \in S \ {n} : f[x] = k[x]
    PROVE  \E rest \in Nat :
              /\ n \in S => SumFunctionOnSet(f, S) = f[n] + rest
              /\ n \notin S => SumFunctionOnSet(f, S) = rest
              /\ n \in T => SumFunctionOnSet(k, T) = k[n] + rest
              /\ n \notin T => SumFunctionOnSet(k, T) = rest
<1>1. PICK rest : rest = SumFunctionOnSet(f, S \ {n})
  OBVIOUS
<1>2. IsFiniteSet(S \ {n})
  BY FS_Subset
<1>3. rest \in Nat
  <2>1. \A x \in S \ {n} : f[x] \in Nat
    OBVIOUS
  <2>. QED  BY <1>1, <1>2, <2>1, SumIsNat
<1>4. SumFunctionOnSet(k, T \ {n}) = rest
  <2>1. SumFunctionOnSet(f, S \ {n}) = SumFunctionOnSet(k, S \ {n})
    BY <1>2, SumSame
  <2>. QED  BY <1>1, <2>1
<1>5. n \in S => SumFunctionOnSet(f, S) = f[n] + rest
  BY <1>1, SumTakesOut
<1>6. n \in T => SumFunctionOnSet(k, T) = k[n] + rest
  BY <1>4, SumTakesOut
<1>7. n \notin S => S \ {n} = S
  OBVIOUS
<1>8. n \notin T => T \ {n} = T
  OBVIOUS
<1>. QED  BY <1>1, <1>3, <1>4, <1>5, <1>6, <1>7, <1>8

\* The drafts among the entries of a site, and what they draw.
Issue == [status : {"draft", "submitted"}, form : Forms, qty : 0..Shelf,
          factor : Factors]
DraftsIn(iss) == {n \in Issues : iss[n].status = "draft"}
PromisedBy(iss) ==
    SumFunctionOnSet([n \in DraftsIn(iss) |-> InStockUnit(iss[n])], DraftsIn(iss))
EnteredIn(iss) == {n \in Issues : iss[n] # NoIssue}

\* An executor at call p, for form f, with the stock cnt it read; `s`: nobody wrote
\* since its first read; `gs`: it could not know all the drafts.
KeeperOK(hand, iss, fs, p, f, cnt, s, gs) ==
    /\ p # "idle" => f \in Forms /\ fs[f] # NoForm
    /\ s /\ p = "drafts" => cnt = hand
    /\ s /\ p = "create" => gs \/ InStockUnit(fs[f]) <= hand - PromisedBy(iss)

StockInv ==
    /\ StockTypeOK
    /\ issues \in [Issues -> Issue \cup {NoIssue}]
    /\ IsFiniteSet(EnteredIn(issues))
    /\ \A k \in Keepers : KeeperOK(onHand, issues, forms, at[k], form[k],
                                   counted[k], sure[k], guess[k])
    /\ mixed = {} /\ blind = {} => PromisedBy(issues) <= onHand

LEMMA DrawnIsPromised == Drafts = DraftsIn(issues) /\ DrawnBy(Drafts) = PromisedBy(issues)
<1>1. Drafts = DraftsIn(issues)
  BY DEF Drafts, DraftsIn
<1>2. DrawnBy(DraftsIn(issues)) = PromisedBy(issues)
  BY DEF DrawnBy, PromisedBy
<1>. QED  BY <1>1, <1>2

LEMMA StockInvSays ==
    ASSUME StockInv
    PROVE  ShelfNotOverdrawn
BY DrawnIsPromised DEF StockInv, ShelfNotOverdrawn

\* An entry or a form is of no other kind, and says a quantity in the stock's unit.
LEMMA IssueKinds ==
    /\ NoIssue.status = "none" /\ NoIssue \notin Issue
    /\ \A e \in Issue : e.status # "none" /\ InStockUnit(e) \in Nat
    /\ \A d \in [qty : 0..Shelf, factor : Factors] : InStockUnit(d) \in Nat
<1>1. NoIssue.status = "none" /\ \A e \in Issue : e.status # "none"
  BY DEF NoIssue, Issue
<1>2. Shelf \in Nat /\ \A x \in Factors : x \in Nat
  BY StockAssumption
<1>3. ASSUME NEW q \in Nat, NEW x \in Nat
      PROVE  q * x \in Nat
  OBVIOUS
<1>4. ASSUME NEW e, e.qty \in 0..Shelf, e.factor \in Factors
      PROVE  InStockUnit(e) \in Nat
  <2>1. e.qty \in Nat /\ e.factor \in Nat
    BY <1>2, <1>4
  <2>. QED  BY <1>3, <2>1 DEF InStockUnit
<1>5. \A e \in Issue : e.qty \in 0..Shelf /\ e.factor \in Factors
  BY DEF Issue
<1>. QED  BY <1>1, <1>4, <1>5

LEMMA DraftsCounted ==
    ASSUME NEW iss \in [Issues -> Issue \cup {NoIssue}], IsFiniteSet(EnteredIn(iss))
    PROVE  /\ IsFiniteSet(DraftsIn(iss)) /\ PromisedBy(iss) \in Nat
           /\ \A n \in DraftsIn(iss) : InStockUnit(iss[n]) \in Nat
<1>1. DraftsIn(iss) \subseteq EnteredIn(iss)
  BY IssueKinds DEF DraftsIn, EnteredIn
<1>2. IsFiniteSet(DraftsIn(iss))
  BY <1>1, FS_Subset
<1>3. \A n \in DraftsIn(iss) : InStockUnit(iss[n]) \in Nat
  BY IssueKinds DEF DraftsIn
<1>. DEFINE w == [n \in DraftsIn(iss) |-> InStockUnit(iss[n])]
<1>4. \A n \in DraftsIn(iss) : w[n] \in Nat
  BY <1>3
<1>. HIDE DEF w
<1>5. SumFunctionOnSet(w, DraftsIn(iss)) \in Nat
  BY <1>2, <1>4, SumIsNat
<1>. QED  BY <1>2, <1>3, <1>5 DEF w, PromisedBy

\* An entry is inserted, or a draft submitted.
LEMMA DraftsChange ==
    ASSUME NEW iss \in [Issues -> Issue \cup {NoIssue}], IsFiniteSet(EnteredIn(iss)),
           NEW n \in Issues, NEW new \in [Issues -> Issue \cup {NoIssue}],
           \A m \in Issues : m # n => new[m] = iss[m]
    PROVE  /\ IsFiniteSet(EnteredIn(new))
           /\ iss[n] = NoIssue /\ new[n].status = "draft" =>
                 PromisedBy(new) = PromisedBy(iss) + InStockUnit(new[n])
           /\ iss[n].status = "draft" /\ new[n].status = "submitted" =>
                 PromisedBy(new) = PromisedBy(iss) - InStockUnit(iss[n])
<1>1. IsFiniteSet(EnteredIn(new))
  <2>1. EnteredIn(new) \subseteq EnteredIn(iss) \cup {n}
    BY DEF EnteredIn
  <2>2. IsFiniteSet(EnteredIn(iss) \cup {n})
    BY FS_AddElement
  <2>. QED  BY <2>1, <2>2, FS_Subset
<1>2. PICK S, T : S = DraftsIn(iss) /\ T = DraftsIn(new)
  OBVIOUS
<1>. DEFINE f == [m \in S |-> InStockUnit(iss[m])]
            k == [m \in T |-> InStockUnit(new[m])]
<1>3. /\ IsFiniteSet(S) /\ \A m \in S : f[m] \in Nat /\ f[m] = InStockUnit(iss[m])
      /\ IsFiniteSet(T) /\ \A m \in T : k[m] \in Nat /\ k[m] = InStockUnit(new[m])
  BY <1>1, <1>2, DraftsCounted
<1>4. S \ {n} = T \ {n}
  BY <1>2 DEF DraftsIn
<1>5. \A m \in S \ {n} : f[m] = k[m]
  <2>1. \A m \in S \ {n} : m \in T /\ new[m] = iss[m]
    BY <1>2, <1>4 DEF DraftsIn
  <2>. QED  BY <1>3, <2>1
<1>6. PromisedBy(iss) = SumFunctionOnSet(f, S) /\ PromisedBy(new) = SumFunctionOnSet(k, T)
  BY <1>2 DEF PromisedBy
<1>. HIDE DEF f, k
<1>7. PICK rest \in Nat :
           /\ n \in S => SumFunctionOnSet(f, S) = f[n] + rest
           /\ n \notin S => SumFunctionOnSet(f, S) = rest
           /\ n \in T => SumFunctionOnSet(k, T) = k[n] + rest
           /\ n \notin T => SumFunctionOnSet(k, T) = rest
  BY <1>3, <1>4, <1>5, OneTermChanges
<1>8. (n \in S <=> iss[n].status = "draft") /\ (n \in T <=> new[n].status = "draft")
  BY <1>2 DEF DraftsIn
<1>9. ASSUME iss[n] = NoIssue, new[n].status = "draft"
      PROVE  PromisedBy(new) = PromisedBy(iss) + InStockUnit(new[n])
  <2>1. n \notin S /\ n \in T
    BY <1>8, <1>9, IssueKinds
  <2>. QED  BY <1>3, <1>6, <1>7, <2>1
<1>10. ASSUME iss[n].status = "draft", new[n].status = "submitted"
       PROVE  PromisedBy(new) = PromisedBy(iss) - InStockUnit(iss[n])
  <2>1. n \in S /\ n \notin T
    BY <1>8, <1>10
  <2>. QED  BY <1>3, <1>6, <1>7, <2>1
<1>. QED  BY <1>1, <1>9, <1>10

LEMMA StockInitially ==
    ASSUME StockInit
    PROVE  StockInv
<1>1. \A n \in Issues : issues[n] = NoIssue
  BY DEF StockInit
<1>2. issues \in [Issues -> Issue \cup {NoIssue}]
  BY DEF StockInit
<1>3. EnteredIn(issues) = {} /\ DraftsIn(issues) = {}
  BY <1>1, IssueKinds DEF EnteredIn, DraftsIn
<1>4. IsFiniteSet(EnteredIn(issues))
  BY <1>3, FS_EmptySet
<1>5. PromisedBy(issues) = 0
  BY <1>3, SumOfNothing DEF PromisedBy
<1>6. Shelf \in Nat /\ NoForm \in [qty : 0..Shelf, factor : Factors]
  BY StockAssumption DEF NoForm
<1>7. StockTypeOK
  BY <1>1, <1>6 DEF StockInit, StockTypeOK
<1>8. \A k \in Keepers : KeeperOK(onHand, issues, forms, at[k], form[k],
                                  counted[k], sure[k], guess[k])
  BY DEF StockInit, KeeperOK
<1>9. onHand = Shelf
  BY DEF StockInit
<1>. QED  BY <1>2, <1>4, <1>5, <1>6, <1>7, <1>8, <1>9 DEF StockInv

\* A step of one executor that writes nothing.
LEMMA KeeperStep ==
    ASSUME StockInv, NEW k \in Keepers, UNCHANGED <<onHand, issues, forms, mixed, blind>>,
           StockTypeOK',
           \A u \in Keepers : u # k =>
              /\ at'[u] = at[u] /\ form'[u] = form[u] /\ counted'[u] = counted[u]
              /\ sure'[u] = sure[u] /\ guess'[u] = guess[u],
           KeeperOK(onHand, issues, forms, at'[k], form'[k], counted'[k], sure'[k],
                    guess'[k])
    PROVE  StockInv'
<1>1. ASSUME NEW u \in Keepers
      PROVE  KeeperOK(onHand, issues, forms, at'[u], form'[u], counted'[u],
                      sure'[u], guess'[u])
  <2>1. CASE u = k
    BY <2>1
  <2>2. CASE u # k
    BY <2>2 DEF StockInv
  <2>. QED  BY <2>1, <2>2
<1>. QED  BY <1>1 DEF StockInv

LEMMA GoAwayStep ==
    ASSUME StockInv, NEW k \in Keepers, GoAway(k),
           UNCHANGED <<onHand, issues, forms, mixed, blind>>
    PROVE  StockInv'
<1>1. 0 \in 0..Shelf
  BY StockAssumption
<1>2. StockTypeOK'
  BY <1>1 DEF GoAway, StockInv, StockTypeOK
<1>3. /\ at'[k] = "idle" /\ ~sure'[k]
      /\ \A u \in Keepers : u # k =>
            /\ at'[u] = at[u] /\ form'[u] = form[u] /\ counted'[u] = counted[u]
            /\ sure'[u] = sure[u] /\ guess'[u] = guess[u]
  BY DEF GoAway, StockInv, StockTypeOK
<1>4. KeeperOK(onHand, issues, forms, at'[k], form'[k], counted'[k], sure'[k], guess'[k])
  BY <1>3 DEF KeeperOK
<1>. QED  BY <1>2, <1>3, <1>4, KeeperStep

LEMMA ExecuteStockStep ==
    ASSUME StockInv, NEW k \in Keepers, NEW f \in Forms, ExecuteStockAdjustment(k, f)
    PROVE  StockInv'
<1>1. StockTypeOK'
  BY DEF ExecuteStockAdjustment, StockInv, StockTypeOK
<1>2. /\ at'[k] = "stock" /\ form'[k] = f /\ forms[f] # NoForm
      /\ UNCHANGED <<onHand, issues, forms, mixed, blind>>
      /\ \A u \in Keepers : u # k =>
            /\ at'[u] = at[u] /\ form'[u] = form[u] /\ counted'[u] = counted[u]
            /\ sure'[u] = sure[u] /\ guess'[u] = guess[u]
  BY DEF ExecuteStockAdjustment, StockInv, StockTypeOK
<1>3. KeeperOK(onHand, issues, forms, at'[k], form'[k], counted'[k], sure'[k], guess'[k])
  BY <1>2 DEF KeeperOK
<1>. QED  BY <1>1, <1>2, <1>3, KeeperStep

LEMMA ReadStockStep ==
    ASSUME StockInv, NEW k \in Keepers, ReadStock(k)
    PROVE  StockInv'
<1>1. StockTypeOK'
  BY DEF ReadStock, StockInv, StockTypeOK
<1>2. /\ at[k] = "stock" /\ at'[k] = "drafts" /\ form'[k] = form[k]
      /\ counted'[k] = onHand
      /\ UNCHANGED <<onHand, issues, forms, mixed, blind>>
      /\ \A u \in Keepers : u # k =>
            /\ at'[u] = at[u] /\ form'[u] = form[u] /\ counted'[u] = counted[u]
            /\ sure'[u] = sure[u] /\ guess'[u] = guess[u]
  BY DEF ReadStock, StockInv, StockTypeOK
<1>3. KeeperOK(onHand, issues, forms, at[k], form[k], counted[k], sure[k], guess[k])
  BY DEF StockInv
<1>4. KeeperOK(onHand, issues, forms, at'[k], form'[k], counted'[k], sure'[k], guess'[k])
  BY <1>2, <1>3 DEF KeeperOK
<1>. QED  BY <1>1, <1>2, <1>4, KeeperStep

\* openDraftCover: a page of drafts that is not full, each of them read, shows all
\* that they take.
LEMMA CoveredIs ==
    ASSUME StockInv, NEW unread, ~Unknown(unread)
    PROVE  Covered(unread) = PromisedBy(issues)
<1>1. IsFiniteSet(Drafts)
  BY DrawnIsPromised, DraftsCounted DEF StockInv
<1>2. PageOfDrafts \in Nat
  BY StockAssumption
<1>3. PICK page : page = DraftPage
  OBVIOUS
<1>4. ~(Cardinality(page) >= PageOfDrafts) /\ page \ unread = page
  BY <1>3 DEF Unknown
<1>5. page = IF Cardinality(Drafts) <= PageOfDrafts THEN Drafts
             ELSE CHOOSE S \in SUBSET Drafts : Cardinality(S) = PageOfDrafts
  BY <1>3 DEF DraftPage
<1>6. page = Drafts
  BY <1>1, <1>2, <1>4, <1>5, ShortPageIsWhole
<1>7. DraftPage \ unread = Drafts
  BY <1>3, <1>4, <1>6
<1>. QED  BY <1>7, DrawnIsPromised DEF Covered

LEMMA ReadDraftsStep ==
    ASSUME StockInv, NEW k \in Keepers, ReadDrafts(k)
    PROVE  StockInv'
<1>1. at[k] = "drafts" /\ UNCHANGED <<onHand, issues, forms, mixed, blind>>
  BY DEF ReadDrafts
<1>2. CASE GoAway(k)
  BY <1>1, <1>2, GoAwayStep
<1>3. ASSUME NEW unread \in SUBSET DraftPage, FitsShelf(k, unread),
             at' = [at EXCEPT ![k] = "create"], counted' = [counted EXCEPT ![k] = 0],
             guess' = [guess EXCEPT ![k] = Unknown(unread)], UNCHANGED <<form, sure>>
      PROVE  StockInv'
  <2>1. 0 \in 0..Shelf /\ Unknown(unread) \in BOOLEAN
    BY StockAssumption DEF Unknown
  <2>2. StockTypeOK'
    BY <1>1, <1>3, <2>1 DEF StockInv, StockTypeOK
  <2>3. /\ at'[k] = "create" /\ form'[k] = form[k] /\ sure'[k] = sure[k]
        /\ guess'[k] = Unknown(unread)
        /\ \A u \in Keepers : u # k =>
              /\ at'[u] = at[u] /\ form'[u] = form[u] /\ counted'[u] = counted[u]
              /\ sure'[u] = sure[u] /\ guess'[u] = guess[u]
    BY <1>3 DEF StockInv, StockTypeOK
  <2>4. KeeperOK(onHand, issues, forms, at[k], form[k], counted[k], sure[k], guess[k])
    BY DEF StockInv
  <2>5. ASSUME sure[k], ~Unknown(unread)
        PROVE  InStockUnit(forms[form[k]]) <= onHand - PromisedBy(issues)
    <3>1. counted[k] = onHand
      BY <1>1, <2>4, <2>5 DEF KeeperOK
    <3>2. Available(k, unread) = onHand - PromisedBy(issues)
      BY <2>5, <3>1, CoveredIs DEF Available
    <3>. QED  BY <1>3, <3>2 DEF FitsShelf
  <2>6. KeeperOK(onHand, issues, forms, at'[k], form'[k], counted'[k], sure'[k],
                 guess'[k])
    BY <1>1, <2>3, <2>4, <2>5 DEF KeeperOK
  <2>. QED  BY <1>1, <2>2, <2>3, <2>6, KeeperStep
<1>. QED  BY <1>2, <1>3 DEF ReadDrafts

LEMMA BuildStockStep ==
    ASSUME StockInv, NEW f \in Forms, NEW qty \in 1..Shelf, NEW factor \in Factors,
           BuildStockAdjustmentProposal(f, qty, factor)
    PROVE  StockInv'
<1>1. /\ forms[f] = NoForm /\ forms' = [forms EXCEPT ![f] = [qty |-> qty, factor |-> factor]]
      /\ UNCHANGED <<onHand, issues, at, form, counted, sure, guess, mixed, blind>>
  BY DEF BuildStockAdjustmentProposal, keepers
<1>2. forms \in [Forms -> [qty : 0..Shelf, factor : Factors]]
  BY DEF StockInv, StockTypeOK
<1>3. forms' \in [Forms -> [qty : 0..Shelf, factor : Factors]]
  <2>1. [qty |-> qty, factor |-> factor] \in [qty : 0..Shelf, factor : Factors]
    BY StockAssumption
  <2>. QED  BY <1>1, <1>2, <2>1
<1>4. \A g \in Forms : g # f => forms'[g] = forms[g]
  BY <1>1, <1>2
<1>5. ASSUME NEW u \in Keepers
      PROVE  KeeperOK(onHand, issues, forms', at[u], form[u], counted[u],
                      sure[u], guess[u])
  <2>1. KeeperOK(onHand, issues, forms, at[u], form[u], counted[u], sure[u], guess[u])
    BY DEF StockInv
  <2>2. CASE at[u] = "idle"
    BY <2>2 DEF KeeperOK
  <2>3. CASE at[u] # "idle"
    <3>1. forms'[form[u]] = forms[form[u]]
      BY <1>1, <1>4, <2>1, <2>3 DEF KeeperOK
    <3>. QED  BY <2>1, <3>1 DEF KeeperOK
  <2>. QED  BY <2>2, <2>3
<1>6. StockTypeOK'
  BY <1>1, <1>3 DEF StockInv, StockTypeOK
<1>. QED  BY <1>1, <1>5, <1>6 DEF StockInv

\* An entry was inserted or submitted: what the executors read binds nobody.
LEMMA StockWroteStep ==
    ASSUME StockInv, UNCHANGED <<forms, form, counted, guess>>,
           NEW new \in [Issues -> Issue \cup {NoIssue}], issues' = new,
           IsFiniteSet(EnteredIn(new)), onHand' \in 0..Shelf,
           at' \in [Keepers -> {"idle", "stock", "drafts", "create", "verify"}],
           sure' = [u \in Keepers |-> FALSE],
           \A u \in Keepers : at'[u] # at[u] => at[u] # "idle",
           mixed' \subseteq Issues, blind' \subseteq Issues,
           mixed' = {} /\ blind' = {} => PromisedBy(new) <= onHand'
    PROVE  StockInv'
<1>1. \A n \in Issues : new[n] # NoIssue =>
         new[n].status \in {"draft", "submitted"} /\ new[n].form \in Forms
  BY DEF Issue
<1>2. StockTypeOK'
  BY <1>1 DEF StockInv, StockTypeOK
<1>3. ASSUME NEW u \in Keepers
      PROVE  KeeperOK(onHand', new, forms, at'[u], form[u], counted[u],
                      sure'[u], guess[u])
  <2>1. KeeperOK(onHand, issues, forms, at[u], form[u], counted[u], sure[u], guess[u])
    BY DEF StockInv
  <2>2. ~sure'[u] /\ (at'[u] # at[u] => at[u] # "idle")
    OBVIOUS
  <2>. QED  BY <2>1, <2>2 DEF KeeperOK
<1>. QED  BY <1>2, <1>3 DEF StockInv

LEMMA CreateStockStep ==
    ASSUME StockInv, NEW k \in Keepers, CreateStockEntry(k)
    PROVE  StockInv'
<1>1. PICK n : n = CHOOSE m \in Unused : TRUE
  OBVIOUS
<1>2. PICK e : e = StockEntryData(k)
  OBVIOUS
<1>3. /\ at[k] = "create" /\ n \in Unused /\ issues' = [issues EXCEPT ![n] = e]
      /\ mixed' = IF sure[k] THEN mixed ELSE mixed \cup {n}
      /\ blind' = IF guess[k] THEN blind \cup {n} ELSE blind
      /\ at' = [at EXCEPT ![k] = "verify"] /\ sure' = [g \in Keepers |-> FALSE]
      /\ UNCHANGED <<onHand, forms, form, counted, guess>>
  BY <1>1, <1>2 DEF CreateStockEntry
<1>4. n \in Issues /\ issues[n] = NoIssue
  BY <1>3 DEF Unused
<1>5. PICK f \in Forms : f = form[k]
  BY <1>3 DEF StockInv, KeeperOK
<1>6. forms[f] \in [qty : 0..Shelf, factor : Factors]
  BY DEF StockInv, StockTypeOK
<1>7. /\ e \in Issue /\ e.status = "draft"
      /\ e.qty = forms[f].qty /\ e.factor = forms[f].factor
  BY <1>2, <1>5, <1>6 DEF StockEntryData, Issue
<1>8. issues \in [Issues -> Issue \cup {NoIssue}] /\ IsFiniteSet(EnteredIn(issues))
  BY DEF StockInv
<1>9. PICK new \in [Issues -> Issue \cup {NoIssue}] :
             /\ new = issues' /\ new[n] = e
             /\ \A m \in Issues : m # n => new[m] = issues[m]
  BY <1>3, <1>4, <1>7, <1>8
<1>10. /\ IsFiniteSet(EnteredIn(new))
       /\ PromisedBy(new) = PromisedBy(issues) + InStockUnit(new[n])
  BY <1>4, <1>7, <1>8, <1>9, DraftsChange
<1>11. mixed' \subseteq Issues /\ blind' \subseteq Issues
  BY <1>3, <1>4 DEF StockInv, StockTypeOK
<1>12. at' \in [Keepers -> {"idle", "stock", "drafts", "create", "verify"}]
  BY <1>3 DEF StockInv, StockTypeOK
<1>13. \A u \in Keepers : at'[u] # at[u] => at[u] # "idle"
  BY <1>3 DEF StockInv, StockTypeOK
<1>14. onHand \in 0..Shelf /\ onHand' = onHand /\ Shelf \in Nat
  BY <1>3, StockAssumption DEF StockInv, StockTypeOK
<1>15. ASSUME mixed' = {}, blind' = {}
       PROVE  PromisedBy(new) <= onHand'
  <2>1. sure[k] /\ ~guess[k]
    BY <1>3, <1>15
  <2>2. InStockUnit(forms[f]) <= onHand - PromisedBy(issues)
    BY <1>3, <1>5, <2>1 DEF StockInv, KeeperOK
  <2>3. InStockUnit(new[n]) = InStockUnit(forms[f])
    BY <1>7, <1>9 DEF InStockUnit
  <2>4. InStockUnit(forms[f]) \in Nat /\ PromisedBy(issues) \in Nat
    BY <1>6, <1>8, IssueKinds, DraftsCounted
  <2>5. PromisedBy(new) = PromisedBy(issues) + InStockUnit(forms[f])
    BY <1>10, <2>3
  <2>. QED  BY <1>14, <2>2, <2>4, <2>5
<1>. QED  BY <1>3, <1>9, <1>10, <1>11, <1>12, <1>13, <1>14, <1>15, StockWroteStep

LEMMA SubmitIssueStep ==
    ASSUME StockInv, NEW n \in Issues, SubmitIssue(n)
    PROVE  StockInv'
<1>1. /\ issues[n].status = "draft" /\ InStockUnit(issues[n]) <= onHand
      /\ issues' = [issues EXCEPT ![n].status = "submitted"]
      /\ onHand' = onHand - InStockUnit(issues[n])
      /\ sure' = [k \in Keepers |-> FALSE]
      /\ UNCHANGED <<forms, at, form, counted, guess, mixed, blind>>
  BY DEF SubmitIssue
<1>2. /\ issues \in [Issues -> Issue \cup {NoIssue}] /\ IsFiniteSet(EnteredIn(issues))
      /\ issues[n] \in Issue
  BY <1>1, IssueKinds DEF StockInv
<1>3. PICK e : e = [issues[n] EXCEPT !.status = "submitted"]
  OBVIOUS
<1>4. e \in Issue /\ e.status = "submitted"
  BY <1>2, <1>3 DEF Issue
<1>5. PICK new \in [Issues -> Issue \cup {NoIssue}] :
             /\ new = issues' /\ new[n] = e
             /\ \A m \in Issues : m # n => new[m] = issues[m]
  <2>1. issues' = [issues EXCEPT ![n] = e]
    BY <1>1, <1>3
  <2>2. issues \in [Issues -> Issue \cup {NoIssue}]
    BY <1>2
  <2>. QED  BY <1>4, <2>1, <2>2
<1>6. /\ IsFiniteSet(EnteredIn(new))
      /\ PromisedBy(new) = PromisedBy(issues) - InStockUnit(issues[n])
  <2>1. /\ issues[n].status = "draft" /\ new[n].status = "submitted"
        /\ \A m \in Issues : m # n => new[m] = issues[m]
    BY <1>1, <1>4, <1>5
  <2>2. issues \in [Issues -> Issue \cup {NoIssue}] /\ IsFiniteSet(EnteredIn(issues))
    BY <1>2
  <2>. QED  BY <2>1, <2>2, DraftsChange
<1>7. PICK u, p : u = InStockUnit(issues[n]) /\ p = PromisedBy(issues)
  OBVIOUS
<1>8. /\ onHand \in 0..Shelf /\ Shelf \in Nat /\ u \in Nat /\ p \in Nat
      /\ u <= onHand /\ onHand' = onHand - u /\ PromisedBy(new) = p - u
  BY <1>1, <1>2, <1>6, <1>7, IssueKinds, DraftsCounted, StockAssumption
     DEF StockInv, StockTypeOK
<1>9. onHand' \in 0..Shelf
  BY <1>8
<1>10. mixed' = {} /\ blind' = {} => PromisedBy(new) <= onHand'
  <2>1. mixed = {} /\ blind = {} => p <= onHand
    BY <1>7 DEF StockInv
  <2>2. p <= onHand => p - u <= onHand - u
    BY <1>8
  <2>. QED  BY <1>1, <1>8, <2>1, <2>2
<1>11. /\ at' \in [Keepers -> {"idle", "stock", "drafts", "create", "verify"}]
       /\ mixed' \subseteq Issues /\ blind' \subseteq Issues
       /\ \A k \in Keepers : at'[k] = at[k]
  BY <1>1 DEF StockInv, StockTypeOK
<1>. QED  BY <1>1, <1>5, <1>6, <1>9, <1>10, <1>11, StockWroteStep

LEMMA StockInductive ==
    ASSUME StockInv, [StockNext]_stockVars
    PROVE  StockInv'
<1>1. CASE \E f \in Forms, qty \in 1..Shelf, factor \in Factors :
              BuildStockAdjustmentProposal(f, qty, factor)
  BY <1>1, BuildStockStep
<1>2. ASSUME NEW k \in Keepers,
             \/ \E f \in Forms : ExecuteStockAdjustment(k, f)
             \/ ReadStock(k) \/ ReadDrafts(k) \/ CannotRead(k)
             \/ CreateStockEntry(k) \/ VerifyStockEntry(k)
      PROVE  StockInv'
  <2>1. CASE VerifyStockEntry(k)
    BY <2>1, GoAwayStep DEF VerifyStockEntry
  <2>2. CASE CannotRead(k)
    BY <2>2, GoAwayStep DEF CannotRead
  <2>. QED  BY <1>2, <2>1, <2>2, ExecuteStockStep, ReadStockStep, ReadDraftsStep,
               CreateStockStep
<1>3. CASE \E n \in Issues : SubmitIssue(n)
  BY <1>3, SubmitIssueStep
<1>4. CASE UNCHANGED stockVars
  BY <1>4 DEF stockVars, keepers, StockInv, StockTypeOK
<1>. QED  BY <1>1, <1>2, <1>3, <1>4 DEF StockNext

LEMMA StockInvHolds == StockSpec => []StockInv
<1>1. StockInit => StockInv
  BY StockInitially
<1>2. StockInv /\ [StockNext]_stockVars => StockInv'
  BY StockInductive
<1>. QED  BY <1>1, <1>2, PTL DEF StockSpec

\* ShelfNotOverdrawn (skills/stock-adjustment-write.mjs): with any number of forms,
\* executors and units, open draft entries never promise away more than is on the
\* shelf, unless one was inserted after another writer acted between its executor's
\* reads and its insert, or by an executor to which a full page or a draft that could
\* not be read left the cover unknown.
THEOREM ShelfNotOverdrawnHolds == StockSpec => []ShelfNotOverdrawn
<1>1. StockInv => ShelfNotOverdrawn
  BY StockInvSays
<1>. QED  BY <1>1, StockInvHolds, PTL

\* StockTypeOK: the variables of stock.adjustment keep their types.
THEOREM StockTypeOKHolds == StockSpec => []StockTypeOK
<1>1. StockInv => StockTypeOK
  BY DEF StockInv
<1>. QED  BY <1>1, StockInvHolds, PTL

-----------------------------------------------------------------------------
(* The debts that entries promise to settle.                               *)

\* The entries of a site in a status, and what they allocate to an invoice.
OfStatus(ents, s) == {e \in Entries : ents[e].status = s}
AllocatedIn(ents, s, i) ==
    SumFunctionOnSet([e \in OfStatus(ents, s) |-> Part(ents[e].refs, i)],
                     OfStatus(ents, s))
PartIf(s, e, i) == IF e.status = s THEN Part(e.refs, i) ELSE 0
MadeIn(ents) == {e \in Entries : ents[e] # NoEntry}

\* An executor at call p, for card c, with the debts g it read; `al`: nobody wrote
\* since its first read.  `full`: the page of drafts is.
PayHandlerOK(out, ents, crd, full, p, c, g, al) ==
    /\ p # "idle" => c \in PayCards /\ crd[c] # NoPayCard
    /\ p = "cover" => crd[c].alloc # NoAllocation
    /\ p = "advance" => crd[c].alloc = NoAllocation
    /\ p = "create" => Total(crd[c].alloc) <= crd[c].amount
    /\ al /\ p \in {"cover", "advance"} => g = out
    /\ al /\ p = "create" =>
          /\ ~full
          /\ \A i \in DOMAIN crd[c].alloc :
                crd[c].alloc[i] <= out[i] - AllocatedIn(ents, "draft", i)
          /\ crd[c].alloc = NoAllocation =>
                \A i \in Invoices : out[i] <= AllocatedIn(ents, "draft", i)

\* What is owed of an invoice and what submitted entries settled are what was owed
\* at first.
PayInv ==
    /\ PaymentTypeOK
    /\ IsFiniteSet(MadeIn(entries))
    /\ \A h \in PayHandlers : PayHandlerOK(outstanding, entries, payCards, FullDraftPage,
                                           payPc[h], payServes[h], gl[h], payAlone[h])
    /\ \A i \in Invoices :
          outstanding[i] + AllocatedIn(entries, "submitted", i) = Owed[i]
    /\ payRaced = {} => \A i \in Invoices :
          AllocatedIn(entries, "draft", i) <= outstanding[i]

LEMMA PromisesAre ==
    ASSUME NEW i
    PROVE  PromisedIn(Having("draft"), i) = AllocatedIn(entries, "draft", i)
<1>1. Having("draft") = OfStatus(entries, "draft")
  BY DEF Having, OfStatus
<1>2. PromisedIn(OfStatus(entries, "draft"), i) = AllocatedIn(entries, "draft", i)
  BY DEF PromisedIn, AllocatedIn
<1>. QED  BY <1>1, <1>2

LEMMA PayInvSays ==
    ASSUME PayInv
    PROVE  NoDebtPromisedTwice
BY PromisesAre DEF PayInv, NoDebtPromisedTwice

LEMMA MaxOwedIs ==
    /\ MaxOwed \in Nat
    /\ \A i \in Invoices : Owed[i] \in Nat /\ Owed[i] > 0 /\ Owed[i] <= MaxOwed
<1>1. /\ IsFiniteSet(Invoices) /\ DOMAIN Owed = Invoices
      /\ \A i \in Invoices : Owed[i] \in Nat /\ Owed[i] > 0
  BY PaymentAssumption
<1>2. MaxOwed = SumFunctionOnSet(Owed, Invoices)
  BY <1>1 DEF MaxOwed, SumFunction
<1>3. MaxOwed \in Nat
  BY <1>1, <1>2, SumIsNat
<1>4. ASSUME NEW i \in Invoices
      PROVE  Owed[i] <= MaxOwed
  <2>1. MaxOwed = Owed[i] + SumFunctionOnSet(Owed, Invoices \ {i})
    BY <1>1, <1>2, SumTakesOut
  <2>2. IsFiniteSet(Invoices \ {i}) /\ \A j \in Invoices \ {i} : Owed[j] \in Nat
    BY <1>1, FS_Subset
  <2>3. SumFunctionOnSet(Owed, Invoices \ {i}) \in Nat
    BY <2>2, SumIsNat
  <2>. QED  BY <1>1, <2>1, <2>3
<1>. QED  BY <1>1, <1>3, <1>4

\* An allocation is of invoices, finitely many, in amounts that can be added up.
LEMMA AllocationsAre ==
    ASSUME NEW f \in Allocations
    PROVE  /\ DOMAIN f \subseteq Invoices /\ IsFiniteSet(DOMAIN f)
           /\ \A i \in DOMAIN f : f[i] \in Nat /\ f[i] > 0
           /\ \A i : Part(f, i) \in Nat
           /\ Total(f) \in Nat
<1>1. PICK S \in SUBSET Invoices : f \in [S -> Amounts]
  BY DEF Allocations
<1>2. \A a \in Amounts : a \in Nat /\ a > 0
  BY MaxOwedIs DEF Amounts
<1>3. DOMAIN f \subseteq Invoices /\ \A i \in DOMAIN f : f[i] \in Nat /\ f[i] > 0
  BY <1>1, <1>2
<1>4. IsFiniteSet(DOMAIN f)
  BY <1>3, PaymentAssumption, FS_Subset
<1>5. Total(f) \in Nat
  BY <1>3, <1>4, SumIsNat DEF Total, SumFunction
<1>. QED  BY <1>3, <1>4, <1>5 DEF Part

LEMMA EntryKinds ==
    /\ NoEntry.status = "none" /\ NoEntry \notin Entry
    /\ \A e \in Entry : e.status # "none" /\ \A i : Part(e.refs, i) \in Nat
    /\ NoAllocation \in Allocations /\ DOMAIN NoAllocation = {}
    /\ Total(NoAllocation) = 0
    /\ NoPayCard \notin PayCard /\ NoPayCard.alloc = NoAllocation
<1>1. NoEntry.status = "none" /\ \A e \in Entry : e.status # "none"
  BY DEF NoEntry, Entry
<1>2. \A e \in Entry : \A i : Part(e.refs, i) \in Nat
  BY AllocationsAre DEF Entry
<1>3. DOMAIN NoAllocation = {} /\ NoAllocation \in [{} -> Amounts]
  BY DEF NoAllocation
<1>4. NoAllocation \in Allocations
  BY <1>3 DEF Allocations
<1>5. Total(NoAllocation) = 0
  BY <1>3, SumOfNothing DEF Total, SumFunction
<1>6. NoPayCard.amount = 0 /\ NoPayCard.alloc = NoAllocation
  BY DEF NoPayCard
<1>7. \A c \in PayCard : c.amount > 0 /\ c.amount \in Nat
  BY MaxOwedIs DEF PayCard, Amounts
<1>. QED  BY <1>1, <1>2, <1>3, <1>4, <1>5, <1>6, <1>7

LEMMA EntriesCounted ==
    ASSUME NEW ents \in [Entries -> Entry \cup {NoEntry}], IsFiniteSet(MadeIn(ents)),
           NEW s \in {"draft", "submitted"}, NEW i
    PROVE  /\ IsFiniteSet(OfStatus(ents, s)) /\ AllocatedIn(ents, s, i) \in Nat
           /\ \A e \in OfStatus(ents, s) : ents[e] \in Entry
<1>1. OfStatus(ents, s) \subseteq MadeIn(ents)
  BY EntryKinds DEF OfStatus, MadeIn
<1>2. IsFiniteSet(OfStatus(ents, s))
  BY <1>1, FS_Subset
<1>3. \A e \in OfStatus(ents, s) : ents[e] \in Entry
  BY EntryKinds DEF OfStatus
<1>. DEFINE w == [e \in OfStatus(ents, s) |-> Part(ents[e].refs, i)]
<1>4. \A e \in OfStatus(ents, s) : w[e] \in Nat
  BY <1>3, EntryKinds
<1>. HIDE DEF w
<1>5. SumFunctionOnSet(w, OfStatus(ents, s)) \in Nat
  BY <1>2, <1>4, SumIsNat
<1>. QED  BY <1>2, <1>3, <1>5 DEF w, AllocatedIn

\* One entry changes: what the entries in a status allocate changes by its part.
LEMMA OneEntryChanges ==
    ASSUME NEW ents \in [Entries -> Entry \cup {NoEntry}], IsFiniteSet(MadeIn(ents)),
           NEW n \in Entries, NEW new \in [Entries -> Entry \cup {NoEntry}],
           \A m \in Entries : m # n => new[m] = ents[m]
    PROVE  /\ IsFiniteSet(MadeIn(new))
           /\ \A i : \A s \in {"draft", "submitted"} : \E rest \in Nat :
                 /\ AllocatedIn(ents, s, i) = PartIf(s, ents[n], i) + rest
                 /\ AllocatedIn(new, s, i) = PartIf(s, new[n], i) + rest
<1>1. IsFiniteSet(MadeIn(new))
  <2>1. MadeIn(new) \subseteq MadeIn(ents) \cup {n}
    BY DEF MadeIn
  <2>2. IsFiniteSet(MadeIn(ents) \cup {n})
    BY FS_AddElement
  <2>. QED  BY <2>1, <2>2, FS_Subset
<1>2. ASSUME NEW i, NEW s \in {"draft", "submitted"}
      PROVE  \E rest \in Nat :
                /\ AllocatedIn(ents, s, i) = PartIf(s, ents[n], i) + rest
                /\ AllocatedIn(new, s, i) = PartIf(s, new[n], i) + rest
  <2>1. PICK S, T : S = OfStatus(ents, s) /\ T = OfStatus(new, s)
    OBVIOUS
  <2>. DEFINE f == [m \in S |-> Part(ents[m].refs, i)]
              k == [m \in T |-> Part(new[m].refs, i)]
  <2>2. /\ IsFiniteSet(S) /\ \A m \in S : ents[m] \in Entry
        /\ IsFiniteSet(T) /\ \A m \in T : new[m] \in Entry
    BY <1>1, <2>1, EntriesCounted
  <2>3. /\ \A m \in S : f[m] \in Nat /\ f[m] = Part(ents[m].refs, i)
        /\ \A m \in T : k[m] \in Nat /\ k[m] = Part(new[m].refs, i)
    BY <2>2, EntryKinds
  <2>4. S \ {n} = T \ {n}
    BY <2>1 DEF OfStatus
  <2>5. \A m \in S \ {n} : f[m] = k[m]
    <3>1. \A m \in S \ {n} : m \in T /\ new[m] = ents[m]
      BY <2>1, <2>4 DEF OfStatus
    <3>. QED  BY <2>3, <3>1
  <2>6. /\ AllocatedIn(ents, s, i) = SumFunctionOnSet(f, S)
        /\ AllocatedIn(new, s, i) = SumFunctionOnSet(k, T)
    BY <2>1 DEF AllocatedIn
  <2>. HIDE DEF f, k
  <2>7. PICK rest \in Nat :
           /\ n \in S => SumFunctionOnSet(f, S) = f[n] + rest
           /\ n \notin S => SumFunctionOnSet(f, S) = rest
           /\ n \in T => SumFunctionOnSet(k, T) = k[n] + rest
           /\ n \notin T => SumFunctionOnSet(k, T) = rest
    BY <2>2, <2>3, <2>4, <2>5, OneTermChanges
  <2>8. (n \in S <=> ents[n].status = s) /\ (n \in T <=> new[n].status = s)
    BY <2>1 DEF OfStatus
  <2>9. AllocatedIn(ents, s, i) = PartIf(s, ents[n], i) + rest
    BY <2>3, <2>6, <2>7, <2>8 DEF PartIf
  <2>10. AllocatedIn(new, s, i) = PartIf(s, new[n], i) + rest
    BY <2>3, <2>6, <2>7, <2>8 DEF PartIf
  <2>. QED  BY <2>9, <2>10
<1>. QED  BY <1>1, <1>2

\* A draft is inserted; submitted; a submitted entry is cancelled.
LEMMA AllocationsChange ==
    ASSUME NEW ents \in [Entries -> Entry \cup {NoEntry}], IsFiniteSet(MadeIn(ents)),
           NEW n \in Entries, NEW new \in [Entries -> Entry \cup {NoEntry}],
           \A m \in Entries : m # n => new[m] = ents[m], new[n] \in Entry, NEW i,
           NEW x, x = Part(new[n].refs, i)
    PROVE  /\ x \in Nat
           /\ AllocatedIn(ents, "draft", i) \in Nat
           /\ AllocatedIn(ents, "submitted", i) \in Nat
           /\ ents[n] = NoEntry /\ new[n].status = "draft" =>
                 /\ AllocatedIn(new, "draft", i) = AllocatedIn(ents, "draft", i) + x
                 /\ AllocatedIn(new, "submitted", i) = AllocatedIn(ents, "submitted", i)
           /\ ents[n].status = "draft" /\ new[n].status = "submitted"
              /\ ents[n].refs = new[n].refs =>
                 /\ AllocatedIn(new, "draft", i) = AllocatedIn(ents, "draft", i) - x
                 /\ AllocatedIn(new, "submitted", i)
                       = AllocatedIn(ents, "submitted", i) + x
           /\ ents[n].status = "submitted" /\ new[n].status = "cancelled"
              /\ ents[n].refs = new[n].refs =>
                 /\ AllocatedIn(new, "draft", i) = AllocatedIn(ents, "draft", i)
                 /\ AllocatedIn(new, "submitted", i)
                       = AllocatedIn(ents, "submitted", i) - x
<1>1. x \in Nat
  BY EntryKinds
<1>2. AllocatedIn(ents, "draft", i) \in Nat /\ AllocatedIn(ents, "submitted", i) \in Nat
  BY EntriesCounted
<1>3. PICK d0, d1, b0, b1 : /\ d0 = PartIf("draft", ents[n], i)
                            /\ d1 = PartIf("draft", new[n], i)
                            /\ b0 = PartIf("submitted", ents[n], i)
                            /\ b1 = PartIf("submitted", new[n], i)
  OBVIOUS
<1>4. PICK rest \in Nat : /\ AllocatedIn(ents, "draft", i) = d0 + rest
                          /\ AllocatedIn(new, "draft", i) = d1 + rest
  BY <1>3, OneEntryChanges
<1>5. PICK kept \in Nat : /\ AllocatedIn(ents, "submitted", i) = b0 + kept
                          /\ AllocatedIn(new, "submitted", i) = b1 + kept
  BY <1>3, OneEntryChanges
<1>6. ents[n] = NoEntry /\ new[n].status = "draft" =>
         d0 = 0 /\ d1 = x /\ b0 = 0 /\ b1 = 0
  BY <1>3, EntryKinds DEF PartIf
<1>7. ents[n].status = "draft" /\ new[n].status = "submitted"
      /\ ents[n].refs = new[n].refs => d0 = x /\ d1 = 0 /\ b0 = 0 /\ b1 = x
  BY <1>3 DEF PartIf
<1>8. ents[n].status = "submitted" /\ new[n].status = "cancelled"
      /\ ents[n].refs = new[n].refs => d0 = 0 /\ d1 = 0 /\ b0 = x /\ b1 = 0
  BY <1>3 DEF PartIf
<1>. QED  BY <1>1, <1>2, <1>4, <1>5, <1>6, <1>7, <1>8

LEMMA PayInitially ==
    ASSUME PaymentInit
    PROVE  PayInv
<1>1. \A e \in Entries : entries[e] = NoEntry
  BY DEF PaymentInit
<1>2. MadeIn(entries) = {} /\ OfStatus(entries, "draft") = {}
      /\ OfStatus(entries, "submitted") = {}
  BY <1>1, EntryKinds DEF MadeIn, OfStatus
<1>3. IsFiniteSet(MadeIn(entries))
  BY <1>2, FS_EmptySet
<1>4. \A i : AllocatedIn(entries, "draft", i) = 0 /\ AllocatedIn(entries, "submitted", i) = 0
  BY <1>2, SumOfNothing DEF AllocatedIn
<1>5. \A i \in Invoices : outstanding[i] = Owed[i] /\ Owed[i] \in Nat
  BY MaxOwedIs DEF PaymentInit
<1>6. NothingRead \in [Invoices -> Nat] /\ outstanding \in [Invoices -> Nat]
  BY PaymentAssumption DEF NothingRead, PaymentInit
<1>7. PaymentTypeOK
  BY <1>6 DEF PaymentInit, PaymentTypeOK
<1>8. \A h \in PayHandlers : PayHandlerOK(outstanding, entries, payCards, FullDraftPage,
                                          payPc[h], payServes[h], gl[h], payAlone[h])
  BY DEF PaymentInit, PayHandlerOK
<1>. QED  BY <1>3, <1>4, <1>5, <1>7, <1>8 DEF PayInv

LEMMA SameEntries ==
    ASSUME entries' = entries
    PROVE  FullDraftPage' = FullDraftPage
BY DEF FullDraftPage, DraftEntries, Having

\* A step of one executor that writes nothing.
LEMMA PayHandlerStep ==
    ASSUME PayInv, NEW h \in PayHandlers,
           UNCHANGED <<outstanding, entries, payCards, payRaced>>,
           NEW p \in {"idle", "cover", "advance", "create", "verify", "submit", "check"},
           payPc' = [payPc EXCEPT ![h] = p],
           NEW c \in PayCards \cup {NoOne}, payServes' = [payServes EXCEPT ![h] = c],
           NEW g \in [Invoices -> Nat], gl' = [gl EXCEPT ![h] = g],
           NEW al \in BOOLEAN, payAlone' = [payAlone EXCEPT ![h] = al],
           wrote' \in [PayHandlers -> Entries \cup {NoOne}],
           PayHandlerOK(outstanding, entries, payCards, FullDraftPage, p, c, g, al)
    PROVE  PayInv'
<1>1. PaymentTypeOK'
  BY DEF PayInv, PaymentTypeOK
<1>2. ASSUME NEW u \in PayHandlers
      PROVE  PayHandlerOK(outstanding, entries, payCards, FullDraftPage, payPc'[u],
                          payServes'[u], gl'[u], payAlone'[u])
  <2>1. CASE u = h
    <3>1. payPc'[u] = p /\ payServes'[u] = c /\ gl'[u] = g /\ payAlone'[u] = al
      BY <2>1 DEF PayInv, PaymentTypeOK
    <3>. QED  BY <3>1
  <2>2. CASE u # h
    <3>1. /\ payPc'[u] = payPc[u] /\ payServes'[u] = payServes[u]
          /\ gl'[u] = gl[u] /\ payAlone'[u] = payAlone[u]
      BY <2>2 DEF PayInv, PaymentTypeOK
    <3>. QED  BY <3>1 DEF PayInv
  <2>. QED  BY <2>1, <2>2
<1>3. FullDraftPage' = FullDraftPage
  BY SameEntries
<1>. QED  BY <1>1, <1>2, <1>3 DEF PayInv

LEMMA LeavePaymentStep ==
    ASSUME PayInv, NEW h \in PayHandlers, LeavePayment(h),
           UNCHANGED <<outstanding, entries, payCards, payRaced>>
    PROVE  PayInv'
<1>1. NothingRead \in [Invoices -> Nat]
  BY DEF NothingRead
<1>2. PayHandlerOK(outstanding, entries, payCards, FullDraftPage, "idle", NoOne,
                   NothingRead, FALSE)
  BY DEF PayHandlerOK
<1>3. wrote' \in [PayHandlers -> Entries \cup {NoOne}]
  BY DEF LeavePayment, PayInv, PaymentTypeOK
<1>. QED  BY <1>1, <1>2, <1>3, PayHandlerStep DEF LeavePayment

LEMMA GoOnStep ==
    ASSUME PayInv, NEW h \in PayHandlers, payPc[h] # "idle",
           NEW p \in {"create", "verify", "submit", "check"}, GoOn(h, p),
           UNCHANGED <<outstanding, entries, payCards, payRaced>>,
           PayHandlerOK(outstanding, entries, payCards, FullDraftPage, p, payServes[h],
                        gl[h], payAlone[h])
    PROVE  PayInv'
<1>1. PICK c \in PayCards \cup {NoOne}, g \in [Invoices -> Nat], al \in BOOLEAN :
           c = payServes[h] /\ g = gl[h] /\ al = payAlone[h]
  BY DEF PayInv, PaymentTypeOK
<1>2. /\ payPc' = [payPc EXCEPT ![h] = p] /\ payServes' = [payServes EXCEPT ![h] = c]
      /\ gl' = [gl EXCEPT ![h] = g] /\ payAlone' = [payAlone EXCEPT ![h] = al]
  BY <1>1 DEF GoOn, PayInv, PaymentTypeOK
<1>3. PayHandlerOK(outstanding, entries, payCards, FullDraftPage, p, c, g, al)
  BY <1>1
<1>4. wrote' \in [PayHandlers -> Entries \cup {NoOne}]
  BY DEF GoOn, PayInv, PaymentTypeOK
<1>. QED  BY <1>2, <1>3, <1>4, PayHandlerStep

\* openDraftCover: a page of drafts that is not full shows all that they allocate.
LEMMA DraftCoverIs ==
    ASSUME PayInv, NEW i \in Invoices
    PROVE  /\ DraftCover[i] \in Nat
           /\ ~FullDraftPage => DraftCover[i] = AllocatedIn(entries, "draft", i)
<1>1. PICK S : S = Having("draft")
  OBVIOUS
<1>2. S = OfStatus(entries, "draft")
  BY <1>1 DEF Having, OfStatus
<1>3. IsFiniteSet(S) /\ \A e \in S : entries[e] \in Entry
  BY <1>2, EntriesCounted DEF PayInv, PaymentTypeOK
<1>4. PICK page : page = DraftEntries
  OBVIOUS
<1>5. page = IF Cardinality(S) <= DraftLimit THEN S
             ELSE CHOOSE T \in SUBSET S : Cardinality(T) = DraftLimit
  BY <1>1, <1>4 DEF DraftEntries
<1>6. DraftLimit \in Nat
  BY PaymentAssumption
<1>7. /\ page \subseteq S /\ IsFiniteSet(page)
      /\ ~(Cardinality(page) >= DraftLimit) => page = S
  BY <1>3, <1>5, <1>6, ShortPageIsWhole
<1>8. ~FullDraftPage => page = S
  BY <1>4, <1>7 DEF FullDraftPage
<1>9. DraftCover[i] = PromisedIn(page, i)
  BY <1>4 DEF DraftCover
<1>. DEFINE w == [e \in page |-> Part(entries[e].refs, i)]
<1>10. \A e \in page : w[e] \in Nat
  BY <1>3, <1>7, EntryKinds
<1>11. PromisedIn(page, i) = SumFunctionOnSet(w, page)
  BY DEF PromisedIn
<1>. HIDE DEF w
<1>12. SumFunctionOnSet(w, page) \in Nat
  BY <1>7, <1>10, SumIsNat
<1>13. ~FullDraftPage => PromisedIn(page, i) = AllocatedIn(entries, "draft", i)
  BY <1>1, <1>8, PromisesAre
<1>. QED  BY <1>9, <1>11, <1>12, <1>13

\* Of an executor at work: its card was shown.
LEMMA PayCardServed ==
    ASSUME PayInv, NEW h \in PayHandlers, payPc[h] # "idle"
    PROVE  /\ payServes[h] \in PayCards /\ payCards[payServes[h]] # NoPayCard
           /\ payCards[payServes[h]] \in PayCard
           /\ payCards[payServes[h]].alloc \in Allocations
           /\ payCards[payServes[h]].amount \in Nat
<1>1. payServes[h] \in PayCards /\ payCards[payServes[h]] # NoPayCard
  BY DEF PayInv, PayHandlerOK
<1>2. payCards[payServes[h]] \in PayCard
  BY <1>1 DEF PayInv, PaymentTypeOK
<1>. QED  BY <1>1, <1>2, MaxOwedIs DEF PayCard, Amounts

LEMMA ReadDebtsStep ==
    ASSUME PayInv, NEW h \in PayHandlers, NEW c \in PayCards, ReadDebts(h, c)
    PROVE  PayInv'
<1>1. PICK p \in {"cover", "advance"} :
           p = IF payCards[c].alloc = NoAllocation THEN "advance" ELSE "cover"
  OBVIOUS
<1>2. PICK g \in [Invoices -> Nat] : g = outstanding
  BY DEF PayInv, PaymentTypeOK
<1>3. /\ payCards[c] # NoPayCard
      /\ payPc' = [payPc EXCEPT ![h] = p] /\ payServes' = [payServes EXCEPT ![h] = c]
      /\ gl' = [gl EXCEPT ![h] = g] /\ payAlone' = [payAlone EXCEPT ![h] = TRUE]
      /\ UNCHANGED <<outstanding, entries, payCards, payRaced>>
  BY <1>1, <1>2 DEF ReadDebts, books
<1>4. PayHandlerOK(outstanding, entries, payCards, FullDraftPage, p, c, g, TRUE)
  BY <1>1, <1>2, <1>3 DEF PayHandlerOK
<1>5. wrote' \in [PayHandlers -> Entries \cup {NoOne}]
  BY DEF ReadDebts, PayInv, PaymentTypeOK
<1>. QED  BY <1>3, <1>4, <1>5, PayHandlerStep

LEMMA ReadCoverStep ==
    ASSUME PayInv, NEW h \in PayHandlers, ReadCover(h)
    PROVE  PayInv'
<1>1. payPc[h] = "cover" /\ UNCHANGED <<outstanding, entries, payCards, payRaced>>
  BY DEF ReadCover, books
<1>2. CASE LeavePayment(h)
  BY <1>1, <1>2, LeavePaymentStep
<1>3. PICK card : card = payCards[payServes[h]]
  OBVIOUS
<1>4. CASE /\ ~FullDraftPage
           /\ \A i \in DOMAIN card.alloc : card.alloc[i] <= LiveEffective(h, i)
           /\ Total(card.alloc) <= card.amount
           /\ GoOn(h, "create")
  <2>1. PayHandlerOK(outstanding, entries, payCards, FullDraftPage, payPc[h],
                     payServes[h], gl[h], payAlone[h])
    BY DEF PayInv
  <2>2. card.alloc \in Allocations
    BY <1>1, <1>3, PayCardServed
  <2>3. ASSUME payAlone[h], NEW i \in DOMAIN card.alloc
        PROVE  card.alloc[i] <= outstanding[i] - AllocatedIn(entries, "draft", i)
    <3>1. gl[h] = outstanding
      BY <1>1, <2>1, <2>3 DEF PayHandlerOK
    <3>2. i \in Invoices /\ card.alloc[i] \in Nat /\ card.alloc[i] > 0
      BY <2>2, AllocationsAre
    <3>3. /\ DraftCover[i] \in Nat /\ DraftCover[i] = AllocatedIn(entries, "draft", i)
          /\ outstanding[i] \in Nat
      BY <1>4, <3>2, DraftCoverIs DEF PayInv, PaymentTypeOK
    <3>4. card.alloc[i] <= LiveEffective(h, i)
      BY <1>4
    <3>5. LiveEffective(h, i) = IF outstanding[i] > DraftCover[i]
                                THEN outstanding[i] - DraftCover[i] ELSE 0
      BY <3>1 DEF LiveEffective
    <3>6. card.alloc[i] <= outstanding[i] - DraftCover[i]
      BY <3>2, <3>3, <3>4, <3>5
    <3>. QED  BY <3>3, <3>6
  <2>4. card.alloc # NoAllocation
    BY <1>1, <1>3, <2>1 DEF PayHandlerOK
  <2>5. PayHandlerOK(outstanding, entries, payCards, FullDraftPage, "create",
                     payServes[h], gl[h], payAlone[h])
    BY <1>1, <1>3, <1>4, <2>1, <2>3, <2>4 DEF PayHandlerOK
  <2>. QED  BY <1>1, <1>4, <2>5, GoOnStep
<1>. QED  BY <1>2, <1>3, <1>4 DEF ReadCover

LEMMA ReadAdvanceCoverStep ==
    ASSUME PayInv, NEW h \in PayHandlers, ReadAdvanceCover(h)
    PROVE  PayInv'
<1>1. payPc[h] = "advance" /\ UNCHANGED <<outstanding, entries, payCards, payRaced>>
  BY DEF ReadAdvanceCover, books
<1>2. CASE LeavePayment(h)
  BY <1>1, <1>2, LeavePaymentStep
<1>3. CASE ~FullDraftPage /\ StillOpen(h) = {} /\ GoOn(h, "create")
  <2>1. PICK card : card = payCards[payServes[h]]
    OBVIOUS
  <2>2. PayHandlerOK(outstanding, entries, payCards, FullDraftPage, payPc[h],
                     payServes[h], gl[h], payAlone[h])
    BY DEF PayInv
  <2>3. card.alloc = NoAllocation
    BY <1>1, <2>1, <2>2 DEF PayHandlerOK
  <2>4. Total(card.alloc) <= card.amount
    <3>1. card.amount \in Nat
      BY <1>1, <2>1, PayCardServed
    <3>2. Total(card.alloc) = 0
      BY <2>3, EntryKinds
    <3>. QED  BY <3>1, <3>2
  <2>5. ASSUME payAlone[h], NEW i \in Invoices
        PROVE  outstanding[i] <= AllocatedIn(entries, "draft", i)
    <3>1. gl[h] = outstanding
      BY <1>1, <2>2, <2>5 DEF PayHandlerOK
    <3>2. /\ DraftCover[i] \in Nat /\ DraftCover[i] = AllocatedIn(entries, "draft", i)
          /\ outstanding[i] \in Nat
      BY <1>3, DraftCoverIs DEF PayInv, PaymentTypeOK
    <3>3. ~(outstanding[i] # 0 /\ outstanding[i] > DraftCover[i])
      BY <1>3, <3>1 DEF StillOpen
    <3>. QED  BY <3>2, <3>3
  <2>6. \A i \in DOMAIN card.alloc :
           card.alloc[i] <= outstanding[i] - AllocatedIn(entries, "draft", i)
    BY <2>3, EntryKinds
  <2>7. PayHandlerOK(outstanding, entries, payCards, FullDraftPage, "create",
                     payServes[h], gl[h], payAlone[h])
    BY <1>1, <1>3, <2>1, <2>2, <2>4, <2>5, <2>6 DEF PayHandlerOK
  <2>. QED  BY <1>1, <1>3, <2>7, GoOnStep
<1>. QED  BY <1>2, <1>3 DEF ReadAdvanceCover

LEMMA PayAnswerStep ==
    ASSUME PayInv, NEW h \in PayHandlers, VerifyPayment(h) \/ CheckSubmitted(h)
    PROVE  PayInv'
<1>1. payPc[h] # "idle" /\ UNCHANGED <<outstanding, entries, payCards, payRaced>>
  BY DEF VerifyPayment, CheckSubmitted, books
<1>2. CASE LeavePayment(h)
  BY <1>1, <1>2, LeavePaymentStep
<1>3. CASE GoOn(h, "submit")
  <2>1. PayHandlerOK(outstanding, entries, payCards, FullDraftPage, payPc[h],
                     payServes[h], gl[h], payAlone[h])
    BY DEF PayInv
  <2>2. PayHandlerOK(outstanding, entries, payCards, FullDraftPage, "submit",
                     payServes[h], gl[h], payAlone[h])
    BY <1>1, <2>1 DEF PayHandlerOK
  <2>. QED  BY <1>1, <1>3, <2>2, GoOnStep
<1>. QED  BY <1>2, <1>3 DEF VerifyPayment, CheckSubmitted

\* Somebody wrote: what the executors read binds nobody.
LEMMA PayWroteStep ==
    ASSUME PayInv, UNCHANGED <<payCards, payServes, gl>>,
           wrote' \in [PayHandlers -> Entries \cup {NoOne}],
           NEW out \in [Invoices -> Nat], outstanding' = out,
           NEW new \in [Entries -> Entry \cup {NoEntry}], entries' = new,
           IsFiniteSet(MadeIn(new)),
           payPc' \in [PayHandlers -> {"idle", "cover", "advance", "create",
                                       "verify", "submit", "check"}],
           payAlone' = [u \in PayHandlers |-> FALSE],
           \A u \in PayHandlers : payPc'[u] # payPc[u] =>
              payPc[u] # "idle" /\ payPc'[u] \in {"verify", "check"},
           payRaced' \subseteq Entries,
           \A i \in Invoices : out[i] + AllocatedIn(new, "submitted", i) = Owed[i],
           payRaced' = {} => \A i \in Invoices : AllocatedIn(new, "draft", i) <= out[i]
    PROVE  PayInv'
<1>1. PaymentTypeOK'
  BY DEF PayInv, PaymentTypeOK
<1>2. ASSUME NEW u \in PayHandlers
      PROVE  PayHandlerOK(out, new, payCards, FullDraftPage', payPc'[u], payServes[u],
                          gl[u], payAlone'[u])
  <2>1. PayHandlerOK(outstanding, entries, payCards, FullDraftPage, payPc[u],
                     payServes[u], gl[u], payAlone[u])
    BY DEF PayInv
  <2>2. /\ ~payAlone'[u]
        /\ payPc'[u] # payPc[u] => payPc[u] # "idle" /\ payPc'[u] \in {"verify", "check"}
    OBVIOUS
  <2>. QED  BY <2>1, <2>2 DEF PayHandlerOK
<1>. QED  BY <1>1, <1>2 DEF PayInv

\* buildPaymentEntryData: paid and allocated in full, by the card.
LEMMA EntryDataIs ==
    ASSUME PayInv, NEW h \in PayHandlers, payPc[h] = "create",
           NEW d, d = PaymentEntryData(payServes[h])
    PROVE  /\ d \in Entry /\ d.status = "draft"
           /\ d.refs = payCards[payServes[h]].alloc
<1>1. PICK card : card = payCards[payServes[h]]
  OBVIOUS
<1>2. /\ payServes[h] \in PayCards /\ card.alloc \in Allocations /\ card.amount \in Nat
      /\ Total(card.alloc) \in Nat
  BY <1>1, PayCardServed, AllocationsAre
<1>3. Total(card.alloc) <= card.amount
  BY <1>1 DEF PayInv, PayHandlerOK
<1>4. PICK rest : rest = card.amount - Total(card.alloc)
  OBVIOUS
<1>5. PICK paid : paid = Total(card.alloc) + rest
  OBVIOUS
<1>6. rest \in Nat /\ paid \in Nat
  BY <1>2, <1>3, <1>4, <1>5
<1>7. d = [status |-> "draft", paid |-> paid, refs |-> card.alloc,
           unallocated |-> rest, card |-> payServes[h]]
  BY <1>1, <1>4, <1>5 DEF PaymentEntryData
<1>8. d \in Entry
  BY <1>2, <1>6, <1>7 DEF Entry
<1>9. d.status = "draft" /\ d.refs = card.alloc
  BY <1>7
<1>. QED  BY <1>1, <1>8, <1>9

LEMMA CreatePaymentStep ==
    ASSUME PayInv, NEW h \in PayHandlers, CreatePayment(h)
    PROVE  PayInv'
<1>1. PICK n : n = CHOOSE x \in FreeEntries : TRUE
  OBVIOUS
<1>2. PICK d : d = PaymentEntryData(payServes[h])
  OBVIOUS
<1>3. /\ payPc[h] = "create" /\ n \in FreeEntries
      /\ entries' = [entries EXCEPT ![n] = d]
      /\ payRaced' = IF payAlone[h] THEN payRaced ELSE payRaced \cup {n}
      /\ payPc' = [payPc EXCEPT ![h] = "verify"]
      /\ payAlone' = [g \in PayHandlers |-> FALSE]
      /\ UNCHANGED <<outstanding, payCards, payServes, gl>>
  BY <1>1, <1>2 DEF CreatePayment
<1>4. n \in Entries /\ entries[n] = NoEntry
  BY <1>3 DEF FreeEntries
<1>5. PICK card : card = payCards[payServes[h]]
  OBVIOUS
<1>6. d \in Entry /\ d.status = "draft" /\ d.refs = card.alloc
  BY <1>2, <1>3, <1>5, EntryDataIs
<1>7. card.alloc \in Allocations
  BY <1>3, <1>5, PayCardServed
<1>8. entries \in [Entries -> Entry \cup {NoEntry}] /\ IsFiniteSet(MadeIn(entries))
  BY DEF PayInv, PaymentTypeOK
<1>9. PICK new \in [Entries -> Entry \cup {NoEntry}] :
             /\ new = entries' /\ new[n] = d
             /\ \A m \in Entries : m # n => new[m] = entries[m]
  BY <1>3, <1>4, <1>6, <1>8
<1>10. IsFiniteSet(MadeIn(new))
  BY <1>4, <1>8, <1>9, OneEntryChanges
<1>11. \A i : /\ Part(card.alloc, i) \in Nat
              /\ AllocatedIn(entries, "draft", i) \in Nat
              /\ AllocatedIn(new, "draft", i)
                    = AllocatedIn(entries, "draft", i) + Part(card.alloc, i)
              /\ AllocatedIn(new, "submitted", i) = AllocatedIn(entries, "submitted", i)
  BY <1>4, <1>6, <1>8, <1>9, AllocationsChange
<1>12. PICK out \in [Invoices -> Nat] : out = outstanding
  BY DEF PayInv, PaymentTypeOK
<1>13. \A i \in Invoices : out[i] + AllocatedIn(new, "submitted", i) = Owed[i]
  BY <1>11, <1>12 DEF PayInv
<1>14. ASSUME payRaced' = {}, NEW i \in Invoices
       PROVE  AllocatedIn(new, "draft", i) <= out[i]
  <2>1. payAlone[h] /\ payRaced = {}
    BY <1>3, <1>14
  <2>2. AllocatedIn(entries, "draft", i) <= out[i] /\ out[i] \in Nat
    BY <1>12, <2>1 DEF PayInv
  <2>3. CASE i \in DOMAIN card.alloc
    <3>1. card.alloc[i] <= out[i] - AllocatedIn(entries, "draft", i)
      BY <1>3, <1>5, <1>12, <2>1, <2>3 DEF PayInv, PayHandlerOK
    <3>2. Part(card.alloc, i) = card.alloc[i]
      BY <2>3 DEF Part
    <3>3. card.alloc[i] <= out[i] - AllocatedIn(entries, "draft", i)
          /\ card.alloc[i] \in Nat
      BY <1>7, <2>3, <3>1, AllocationsAre
    <3>. QED  BY <1>11, <2>2, <3>2, <3>3
  <2>4. CASE i \notin DOMAIN card.alloc
    <3>1. Part(card.alloc, i) = 0
      BY <2>4 DEF Part
    <3>. QED  BY <1>11, <2>2, <3>1
  <2>. QED  BY <2>3, <2>4
<1>15. payRaced' \subseteq Entries
  BY <1>3, <1>4 DEF PayInv, PaymentTypeOK
<1>16. /\ payPc' \in [PayHandlers -> {"idle", "cover", "advance", "create",
                                      "verify", "submit", "check"}]
       /\ \A u \in PayHandlers : payPc'[u] # payPc[u] =>
             payPc[u] # "idle" /\ payPc'[u] \in {"verify", "check"}
  BY <1>3 DEF PayInv, PaymentTypeOK
<1>17. /\ payAlone' = [g \in PayHandlers |-> FALSE] /\ outstanding' = out
       /\ UNCHANGED <<payCards, payServes, gl>>
  BY <1>3, <1>12
<1>18. wrote' \in [PayHandlers -> Entries \cup {NoOne}]
  <2>1. wrote' = [wrote EXCEPT ![h] = n]
    BY <1>1 DEF CreatePayment
  <2>. QED  BY <1>4, <2>1 DEF PayInv, PaymentTypeOK
<1>. QED  BY <1>9, <1>10, <1>13, <1>14, <1>15, <1>16, <1>17, <1>18, PayWroteStep

\* An entry is submitted, by the executor or at the desk ...
LEMMA SettleStep ==
    ASSUME PayInv, NEW n \in Entries, Settles(n), Settle(n),
           UNCHANGED <<payCards, payServes, wrote, gl, payRaced>>,
           payPc' \in [PayHandlers -> {"idle", "cover", "advance", "create",
                                       "verify", "submit", "check"}],
           payAlone' = [u \in PayHandlers |-> FALSE],
           \A u \in PayHandlers : payPc'[u] # payPc[u] =>
              payPc[u] # "idle" /\ payPc'[u] \in {"verify", "check"}
    PROVE  PayInv'
<1>1. /\ entries[n].status = "draft"
      /\ \A i \in Invoices : Part(entries[n].refs, i) <= outstanding[i]
      /\ entries' = [entries EXCEPT ![n].status = "submitted"]
      /\ outstanding' = [i \in Invoices |-> outstanding[i] - Part(entries[n].refs, i)]
  BY DEF Settles, Settle
<1>2. /\ entries \in [Entries -> Entry \cup {NoEntry}] /\ IsFiniteSet(MadeIn(entries))
      /\ entries[n] \in Entry
  BY <1>1, EntryKinds DEF PayInv, PaymentTypeOK
<1>3. PICK d : d = [entries[n] EXCEPT !.status = "submitted"]
  OBVIOUS
<1>4. d \in Entry /\ d.status = "submitted" /\ d.refs = entries[n].refs
  BY <1>2, <1>3 DEF Entry
<1>5. PICK new \in [Entries -> Entry \cup {NoEntry}] :
             /\ new = entries' /\ new[n] = d
             /\ \A m \in Entries : m # n => new[m] = entries[m]
  <2>1. entries' = [entries EXCEPT ![n] = d]
    BY <1>1, <1>3
  <2>. QED  BY <1>2, <1>4, <2>1
<1>6. IsFiniteSet(MadeIn(new))
  BY <1>2, <1>5, OneEntryChanges
<1>7. entries[n].status = "draft"
  BY <1>1
<1>8. \A i : /\ Part(d.refs, i) \in Nat
             /\ AllocatedIn(entries, "draft", i) \in Nat
             /\ AllocatedIn(entries, "submitted", i) \in Nat
             /\ AllocatedIn(new, "draft", i)
                   = AllocatedIn(entries, "draft", i) - Part(d.refs, i)
             /\ AllocatedIn(new, "submitted", i)
                   = AllocatedIn(entries, "submitted", i) + Part(d.refs, i)
  BY <1>2, <1>4, <1>5, <1>7, AllocationsChange
<1>9. PICK out : out = outstanding'
  OBVIOUS
<1>10. \A i \in Invoices : /\ outstanding[i] \in Nat /\ Part(d.refs, i) <= outstanding[i]
                           /\ out[i] = outstanding[i] - Part(d.refs, i)
  BY <1>1, <1>4, <1>9 DEF PayInv, PaymentTypeOK
<1>11. out \in [Invoices -> Nat]
  <2>1. \A i \in Invoices : out[i] \in Nat
    BY <1>8, <1>10
  <2>2. out = [i \in Invoices |-> out[i]]
    BY <1>1, <1>9
  <2>. QED  BY <2>1, <2>2
<1>12. \A i \in Invoices : out[i] + AllocatedIn(new, "submitted", i) = Owed[i]
  <2>1. \A i \in Invoices : outstanding[i] + AllocatedIn(entries, "submitted", i) = Owed[i]
    BY DEF PayInv
  <2>. QED  BY <1>8, <1>10, <2>1
<1>13. payRaced' = {} => \A i \in Invoices : AllocatedIn(new, "draft", i) <= out[i]
  <2>1. payRaced = {} => \A i \in Invoices : AllocatedIn(entries, "draft", i) <= outstanding[i]
    BY DEF PayInv
  <2>. QED  BY <1>8, <1>10, <2>1
<1>14. payRaced' \subseteq Entries /\ wrote' \in [PayHandlers -> Entries \cup {NoOne}]
  BY DEF PayInv, PaymentTypeOK
<1>15. UNCHANGED <<payCards, payServes, gl>> /\ outstanding' = out
  BY <1>9
<1>. QED  BY <1>5, <1>6, <1>11, <1>12, <1>13, <1>14, <1>15, PayWroteStep

LEMMA SubmitPaymentStep ==
    ASSUME PayInv, NEW h \in PayHandlers, SubmitPayment(h)
    PROVE  PayInv'
<1>1. PICK e \in Entries :
           /\ payPc[h] = "submit"
           /\ IF Settles(e)
                THEN /\ Settle(e)
                     /\ payPc' = [payPc EXCEPT ![h] = "check"]
                     /\ payAlone' = [g \in PayHandlers |-> FALSE]
                     /\ UNCHANGED <<payServes, wrote, gl>>
                ELSE LeavePayment(h) /\ UNCHANGED books
           /\ UNCHANGED <<payCards, payRaced>>
  BY DEF SubmitPayment
<1>2. CASE LeavePayment(h) /\ UNCHANGED books
  BY <1>1, <1>2, LeavePaymentStep DEF books
<1>3. CASE Settles(e)
  <2>1. /\ payPc' \in [PayHandlers -> {"idle", "cover", "advance", "create",
                                       "verify", "submit", "check"}]
        /\ \A u \in PayHandlers : payPc'[u] # payPc[u] =>
              payPc[u] # "idle" /\ payPc'[u] \in {"verify", "check"}
    BY <1>1, <1>3 DEF PayInv, PaymentTypeOK
  <2>2. Settle(e) /\ payAlone' = [g \in PayHandlers |-> FALSE]
        /\ UNCHANGED <<payCards, payServes, wrote, gl, payRaced>>
    BY <1>1, <1>3
  <2>. QED  BY <1>3, <2>1, <2>2, SettleStep
<1>. QED  BY <1>1, <1>2, <1>3

LEMMA DeskSubmitsStep ==
    ASSUME PayInv, NEW n \in Entries, DeskSubmits(n)
    PROVE  PayInv'
<1>1. /\ Settles(n) /\ Settle(n) /\ payAlone' = [u \in PayHandlers |-> FALSE]
      /\ UNCHANGED <<payCards, payPc, payServes, wrote, gl, payRaced>>
  BY DEF DeskSubmits, DeskMoved
<1>2. payPc' \in [PayHandlers -> {"idle", "cover", "advance", "create",
                                  "verify", "submit", "check"}]
  BY <1>1 DEF PayInv, PaymentTypeOK
<1>. QED  BY <1>1, <1>2, SettleStep

\* ... or a submitted one is cancelled.
LEMMA DeskCancelsStep ==
    ASSUME PayInv, NEW n \in Entries, DeskCancels(n)
    PROVE  PayInv'
<1>1. /\ entries[n].status = "submitted"
      /\ entries' = [entries EXCEPT ![n].status = "cancelled"]
      /\ outstanding' = [i \in Invoices |-> outstanding[i] + Part(entries[n].refs, i)]
      /\ payAlone' = [u \in PayHandlers |-> FALSE]
      /\ UNCHANGED <<payCards, payPc, payServes, wrote, gl, payRaced>>
  BY DEF DeskCancels, DeskMoved
<1>2. /\ entries \in [Entries -> Entry \cup {NoEntry}] /\ IsFiniteSet(MadeIn(entries))
      /\ entries[n] \in Entry
  BY <1>1, EntryKinds DEF PayInv, PaymentTypeOK
<1>3. PICK d : d = [entries[n] EXCEPT !.status = "cancelled"]
  OBVIOUS
<1>4. d \in Entry /\ d.status = "cancelled" /\ d.refs = entries[n].refs
  BY <1>2, <1>3 DEF Entry
<1>5. PICK new \in [Entries -> Entry \cup {NoEntry}] :
             /\ new = entries' /\ new[n] = d
             /\ \A m \in Entries : m # n => new[m] = entries[m]
  <2>1. entries' = [entries EXCEPT ![n] = d]
    BY <1>1, <1>3
  <2>. QED  BY <1>2, <1>4, <2>1
<1>6. IsFiniteSet(MadeIn(new))
  BY <1>2, <1>5, OneEntryChanges
<1>7. entries[n].status = "submitted"
  BY <1>1
<1>8. \A i : /\ Part(d.refs, i) \in Nat
             /\ AllocatedIn(entries, "draft", i) \in Nat
             /\ AllocatedIn(entries, "submitted", i) \in Nat
             /\ AllocatedIn(new, "draft", i) = AllocatedIn(entries, "draft", i)
             /\ AllocatedIn(new, "submitted", i)
                   = AllocatedIn(entries, "submitted", i) - Part(d.refs, i)
  BY <1>2, <1>4, <1>5, <1>7, AllocationsChange
<1>9. PICK out : out = outstanding'
  OBVIOUS
<1>10. \A i \in Invoices : /\ outstanding[i] \in Nat
                           /\ out[i] = outstanding[i] + Part(d.refs, i)
  BY <1>1, <1>4, <1>9 DEF PayInv, PaymentTypeOK
<1>11. out \in [Invoices -> Nat]
  <2>1. \A i \in Invoices : out[i] \in Nat
    BY <1>8, <1>10
  <2>2. out = [i \in Invoices |-> out[i]]
    BY <1>1, <1>9
  <2>. QED  BY <2>1, <2>2
<1>12. \A i \in Invoices : out[i] + AllocatedIn(new, "submitted", i) = Owed[i]
  <2>1. \A i \in Invoices : outstanding[i] + AllocatedIn(entries, "submitted", i) = Owed[i]
    BY DEF PayInv
  <2>. QED  BY <1>8, <1>10, <2>1
<1>13. payRaced' = {} => \A i \in Invoices : AllocatedIn(new, "draft", i) <= out[i]
  <2>1. payRaced = {} => \A i \in Invoices : AllocatedIn(entries, "draft", i) <= outstanding[i]
    BY DEF PayInv
  <2>. QED  BY <1>1, <1>8, <1>10, <2>1
<1>14. /\ payRaced' \subseteq Entries /\ UNCHANGED <<payCards, payServes, gl>>
       /\ payAlone' = [u \in PayHandlers |-> FALSE] /\ outstanding' = out
       /\ wrote' \in [PayHandlers -> Entries \cup {NoOne}]
       /\ \A u \in PayHandlers : payPc'[u] = payPc[u]
  BY <1>1, <1>9 DEF PayInv, PaymentTypeOK
<1>15. payPc' \in [PayHandlers -> {"idle", "cover", "advance", "create",
                                   "verify", "submit", "check"}]
  BY <1>1 DEF PayInv, PaymentTypeOK
<1>. QED  BY <1>5, <1>6, <1>11, <1>12, <1>13, <1>14, <1>15, PayWroteStep

\* Cards come and go, but none that is served.
LEMMA PayCardsStep ==
    ASSUME PayInv, NEW c \in PayCards, NEW d \in PayCard \cup {NoPayCard},
           payCards' = [payCards EXCEPT ![c] = d],
           UNCHANGED <<books, payPc, payServes, wrote, gl, payAlone, payRaced>>,
           \A h \in PayHandlers : payPc[h] # "idle" => payServes[h] # c
    PROVE  PayInv'
<1>1. PICK new \in [PayCards -> PayCard \cup {NoPayCard}] :
             new = payCards' /\ \A e \in PayCards : e # c => new[e] = payCards[e]
  <2>1. payCards \in [PayCards -> PayCard \cup {NoPayCard}]
    BY DEF PayInv, PaymentTypeOK
  <2>2. payCards' \in [PayCards -> PayCard \cup {NoPayCard}]
    BY <2>1
  <2>3. \A e \in PayCards : e # c => payCards'[e] = payCards[e]
    BY <2>1
  <2>. QED  BY <2>2, <2>3
<1>2. UNCHANGED <<outstanding, entries, payPc, payServes, wrote, gl, payAlone, payRaced>>
  BY DEF books
<1>3. PaymentTypeOK'
  BY <1>1, <1>2 DEF PayInv, PaymentTypeOK
<1>4. ASSUME NEW h \in PayHandlers
      PROVE  PayHandlerOK(outstanding, entries, new, FullDraftPage, payPc[h],
                          payServes[h], gl[h], payAlone[h])
  <2>1. PayHandlerOK(outstanding, entries, payCards, FullDraftPage, payPc[h],
                     payServes[h], gl[h], payAlone[h])
    BY DEF PayInv
  <2>2. CASE payPc[h] = "idle"
    BY <2>2 DEF PayHandlerOK
  <2>3. CASE payPc[h] # "idle"
    <3>1. new[payServes[h]] = payCards[payServes[h]]
      BY <1>1, <2>1, <2>3 DEF PayHandlerOK
    <3>. QED  BY <2>1, <3>1 DEF PayHandlerOK
  <2>. QED  BY <2>2, <2>3
<1>5. FullDraftPage' = FullDraftPage
  BY <1>2, SameEntries
<1>. QED  BY <1>1, <1>2, <1>3, <1>4, <1>5 DEF PayInv

LEMMA ShowPaymentStep ==
    ASSUME PayInv, NEW c \in PayCards, payCards[c] = NoPayCard, NEW card \in PayCard,
           ShowPayment(c, card)
    PROVE  PayInv'
<1>1. \A h \in PayHandlers : payPc[h] # "idle" => payServes[h] # c
  BY PayCardServed
<1>. QED  BY <1>1, PayCardsStep DEF ShowPayment

\* What is left of an invoice: at most what was owed at first.
LEMMA EffectiveIs ==
    ASSUME PayInv, NEW i \in Invoices
    PROVE  Effective(i) \in Int /\ Effective(i) <= MaxOwed
<1>1. /\ outstanding[i] \in Nat /\ AllocatedIn(entries, "submitted", i) \in Nat
      /\ outstanding[i] + AllocatedIn(entries, "submitted", i) = Owed[i]
  BY EntriesCounted DEF PayInv, PaymentTypeOK
<1>2. DraftCover[i] \in Nat
  BY DraftCoverIs
<1>3. Owed[i] <= MaxOwed /\ MaxOwed \in Nat /\ Owed[i] \in Nat
  BY MaxOwedIs
<1>. QED  BY <1>1, <1>2, <1>3 DEF Effective

LEMMA OneAllocation ==
    ASSUME NEW i \in Invoices, NEW a \in Amounts
    PROVE  [j \in {i} |-> a] \in Allocations
<1>1. [j \in {i} |-> a] \in [{i} -> Amounts]
  OBVIOUS
<1>2. {i} \in SUBSET Invoices
  OBVIOUS
<1>. QED  BY <1>1, <1>2, Zenon DEF Allocations

LEMMA BuildPaymentStep ==
    ASSUME PayInv, NEW c \in PayCards, NEW named \in Invoices \cup {NoOne},
           NEW said \in {0} \cup Amounts, NEW submit \in BOOLEAN,
           BuildPaymentProposal(c, named, said, submit)
    PROVE  PayInv'
<1>1. PICK candidates : candidates = {j \in OpenInvoices : Effective(j) # 0}
  OBVIOUS
<1>2. PICK i : i = IF named = NoOne THEN Oldest(candidates) ELSE named
  OBVIOUS
<1>3. PICK x : x = Effective(i)
  OBVIOUS
<1>4. PICK amount : amount = IF said = 0 \/ said > x THEN x ELSE said
  OBVIOUS
<1>5. PICK alloc, seen : alloc = [j \in {i} |-> amount] /\ seen = [j \in {i} |-> x]
  OBVIOUS
<1>6. PICK card : card = [collect |-> FALSE, amount |-> amount, alloc |-> alloc,
                          seen |-> seen, submit |-> submit]
  OBVIOUS
<1>7. payCards[c] = NoPayCard /\ i \in candidates /\ x > 0 /\ ShowPayment(c, card)
  BY <1>1, <1>2, <1>3, <1>4, <1>5, <1>6 DEF BuildPaymentProposal
<1>8. i \in Invoices
  BY <1>1, <1>7 DEF OpenInvoices
<1>9. x \in Amounts
  BY <1>3, <1>7, <1>8, EffectiveIs, MaxOwedIs DEF Amounts
<1>10. amount \in Amounts
  BY <1>4, <1>9
<1>11. alloc \in Allocations /\ seen \in Allocations
  BY <1>5, <1>8, <1>9, <1>10, OneAllocation
<1>12. card \in PayCard
  BY <1>6, <1>10, <1>11 DEF PayCard
<1>. QED  BY <1>7, <1>12, ShowPaymentStep

LEMMA BuildCollectStep ==
    ASSUME PayInv, NEW c \in PayCards, NEW alloc \in Allocations, NEW amount \in Amounts,
           NEW submit \in BOOLEAN, BuildCollectProposal(c, alloc, amount, submit)
    PROVE  PayInv'
<1>1. PICK seen : seen = [i \in DOMAIN alloc |-> Effective(i)]
  OBVIOUS
<1>2. PICK card : card = [collect |-> TRUE, amount |-> amount, alloc |-> alloc,
                          seen |-> seen, submit |-> submit]
  OBVIOUS
<1>3. /\ payCards[c] = NoPayCard /\ ShowPayment(c, card)
      /\ \A i \in DOMAIN alloc : alloc[i] <= Effective(i)
  BY <1>1, <1>2 DEF BuildCollectProposal
<1>4. ASSUME NEW i \in DOMAIN alloc
      PROVE  Effective(i) \in Amounts
  <2>1. i \in Invoices /\ alloc[i] \in Nat /\ alloc[i] > 0
    BY AllocationsAre
  <2>2. Effective(i) \in Int /\ Effective(i) <= MaxOwed /\ MaxOwed \in Nat
    BY <2>1, EffectiveIs, MaxOwedIs
  <2>3. alloc[i] <= Effective(i)
    BY <1>3
  <2>. QED  BY <2>1, <2>2, <2>3 DEF Amounts
<1>5. seen \in [DOMAIN alloc -> Amounts]
  BY <1>1, <1>4
<1>6. DOMAIN alloc \in SUBSET Invoices
  BY AllocationsAre
<1>7. seen \in Allocations
  BY <1>5, <1>6, Zenon DEF Allocations
<1>8. card \in PayCard
  BY <1>2, <1>7 DEF PayCard
<1>. QED  BY <1>3, <1>8, ShowPaymentStep

LEMMA PayInductive ==
    ASSUME PayInv, [PaymentNext]_payVars
    PROVE  PayInv'
<1>1. CASE \E c \in PayCards, s \in BOOLEAN :
              \/ \E i \in Invoices \cup {NoOne}, a \in {0} \cup Amounts :
                    BuildPaymentProposal(c, i, a, s)
              \/ \E alloc \in Allocations, a \in Amounts :
                    BuildCollectProposal(c, alloc, a, s)
  BY <1>1, BuildPaymentStep, BuildCollectStep
<1>2. CASE \E c \in PayCards : DismissPayment(c)
  <2>1. PICK c \in PayCards : DismissPayment(c)
    BY <1>2
  <2>2. /\ payCards' = [payCards EXCEPT ![c] = NoPayCard]
        /\ UNCHANGED <<books, payPc, payServes, wrote, gl, payAlone, payRaced>>
        /\ \A h \in PayHandlers : payServes[h] # c
    BY <2>1 DEF DismissPayment
  <2>. QED  BY <2>2, PayCardsStep
<1>3. ASSUME NEW h \in PayHandlers, ExecutePayment(h)
      PROVE  PayInv'
  BY <1>3, ReadDebtsStep, ReadCoverStep, ReadAdvanceCoverStep, CreatePaymentStep,
     PayAnswerStep, SubmitPaymentStep DEF ExecutePayment
<1>4. CASE \E e \in Entries : DeskSubmits(e) \/ DeskCancels(e)
  BY <1>4, DeskSubmitsStep, DeskCancelsStep
<1>5. CASE UNCHANGED payVars
  <2>1. FullDraftPage' = FullDraftPage
    BY <1>5, SameEntries DEF payVars, books
  <2>. QED  BY <1>5, <2>1 DEF payVars, books, PayInv, PaymentTypeOK
<1>. QED  BY <1>1, <1>2, <1>3, <1>4, <1>5 DEF PaymentNext

LEMMA PayInvHolds == PaymentSpec => []PayInv
<1>1. PaymentInit => PayInv
  BY PayInitially
<1>2. PayInv /\ [PaymentNext]_payVars => PayInv'
  BY PayInductive
<1>. QED  BY <1>1, <1>2, PTL DEF PaymentSpec

\* NoDebtPromisedTwice (openDraftCover and executePaymentProposal of
\* skills/payment-write.mjs): with any number of invoices, cards, executors and
\* entries, the open drafts never allocate more to an invoice than is owed on it,
\* unless an entry was inserted after another writer acted between its executor's
\* reads and its insert.
THEOREM NoDebtPromisedTwiceHolds == PaymentSpec => []NoDebtPromisedTwice
<1>1. PayInv => NoDebtPromisedTwice
  BY PayInvSays
<1>. QED  BY <1>1, PayInvHolds, PTL

\* PaymentTypeOK: the variables of payment.create keep their types; in particular
\* nothing owed ever becomes negative and every entry's parts add up.
THEOREM PaymentTypeOKHolds == PaymentSpec => []PaymentTypeOK
<1>1. PayInv => PaymentTypeOK
  BY DEF PayInv
<1>. QED  BY <1>1, PayInvHolds, PTL

\* Only CreatePayment makes an entry.
LEMMA OnlyCreateMakes ==
    ASSUME PayInv, [PaymentNext]_payVars, NEW e \in Entries,
           entries[e] = NoEntry, entries'[e] # NoEntry
    PROVE  \E h \in PayHandlers : CreatePayment(h)
<1>1. ASSUME NEW n \in Entries, NEW st,
             entries[n].status \in {"draft", "submitted"},
             entries' = [entries EXCEPT ![n].status = st]
      PROVE  entries'[e] = entries[e]
  <2>1. n # e
    BY <1>1, EntryKinds
  <2>. QED  BY <1>1, <2>1 DEF PayInv, PaymentTypeOK
<1>2. CASE UNCHANGED entries
  BY <1>2
<1>3. CASE \E n \in Entries : DeskSubmits(n) \/ DeskCancels(n)
  BY <1>1, <1>3 DEF DeskSubmits, DeskCancels, Settles, Settle
<1>4. ASSUME NEW h \in PayHandlers, SubmitPayment(h)
      PROVE  FALSE
  <2>1. PICK n \in Entries : UNCHANGED entries \/ (Settles(n) /\ Settle(n))
    BY <1>4 DEF SubmitPayment, books
  <2>. QED  BY <1>1, <2>1 DEF Settles, Settle
<1>5. ASSUME NEW h \in PayHandlers, ExecutePayment(h), ~CreatePayment(h)
      PROVE  FALSE
  <2>1. ~SubmitPayment(h)
    BY <1>4
  <2>2. UNCHANGED entries
    BY <1>5, <2>1 DEF ExecutePayment, ReadDebts, ReadCover, ReadAdvanceCover,
                      VerifyPayment, CheckSubmitted, books
  <2>. QED  BY <2>2
<1>6. CASE UNCHANGED payVars
  BY <1>6 DEF payVars, books
<1>7. CASE \E c \in PayCards, s \in BOOLEAN :
              \/ \E i \in Invoices \cup {NoOne}, a \in {0} \cup Amounts :
                    BuildPaymentProposal(c, i, a, s)
              \/ \E alloc \in Allocations, a \in Amounts :
                    BuildCollectProposal(c, alloc, a, s)
  <2>1. \E c, card : ShowPayment(c, card)
    BY <1>7 DEF BuildPaymentProposal, BuildCollectProposal
  <2>. QED  BY <2>1 DEF ShowPayment, books
<1>8. CASE \E c \in PayCards : DismissPayment(c)
  BY <1>8 DEF DismissPayment, books
<1>. QED  BY <1>3, <1>5, <1>6, <1>7, <1>8 DEF PaymentNext

LEMMA AdvanceStep ==
    ASSUME PayInv, [PaymentNext]_payVars, NEW e \in Entries,
           entries[e] = NoEntry, entries'[e] # NoEntry, e \notin payRaced',
           entries'[e].refs = NoAllocation, NEW i \in Invoices
    PROVE  Effective(i) <= 0
<1>1. PICK h \in PayHandlers : CreatePayment(h)
  BY OnlyCreateMakes
<1>2. PICK n : n = CHOOSE x \in FreeEntries : TRUE
  OBVIOUS
<1>3. PICK d : d = PaymentEntryData(payServes[h])
  OBVIOUS
<1>4. /\ payPc[h] = "create" /\ entries' = [entries EXCEPT ![n] = d]
      /\ payRaced' = IF payAlone[h] THEN payRaced ELSE payRaced \cup {n}
      /\ n \in FreeEntries
  BY <1>1, <1>2, <1>3 DEF CreatePayment
<1>5. entries \in [Entries -> Entry \cup {NoEntry}]
  BY DEF PayInv, PaymentTypeOK
<1>6. e = n /\ entries'[e] = d
  BY <1>4, <1>5 DEF FreeEntries
<1>7. payAlone[h]
  BY <1>4, <1>6
<1>8. payCards[payServes[h]].alloc = NoAllocation
  BY <1>3, <1>4, <1>6, EntryDataIs
<1>9. outstanding[i] <= AllocatedIn(entries, "draft", i) /\ ~FullDraftPage
  BY <1>4, <1>7, <1>8 DEF PayInv, PayHandlerOK
<1>10. DraftCover[i] \in Nat /\ DraftCover[i] = AllocatedIn(entries, "draft", i)
       /\ outstanding[i] \in Nat
  BY <1>9, DraftCoverIs DEF PayInv, PaymentTypeOK
<1>. QED  BY <1>9, <1>10 DEF Effective

\* AdvanceAfterDebts (executePaymentProposal without allocations): money is booked as
\* an advance only in a step at which nothing is left to settle, whatever happened
\* since the card was shown, unless somebody wrote between the reads and the insert.
THEOREM AdvanceAfterDebtsHolds == PaymentSpec => AdvanceAfterDebts
<1>1. PayInv /\ [PaymentNext]_payVars =>
        [\A e \in Entries :
           /\ entries[e] = NoEntry /\ entries'[e] # NoEntry
           /\ e \notin payRaced'
           /\ entries'[e].refs = NoAllocation
           => \A i \in Invoices : Effective(i) <= 0]_payVars
  BY AdvanceStep
<1>. QED  BY <1>1, PayInvHolds, PTL DEF PaymentSpec, AdvanceAfterDebts

-----------------------------------------------------------------------------
(* The prices of a draft.                                                  *)

\* A slip that was offered; a document on the site; the drafts of a slip; that
\* nothing was written from it; that its prices and units are the market's.
SlipOK(tr, slip) ==
    /\ slip.lines \in Baskets /\ slip.rates \in [DOMAIN slip.lines -> 1..TopPrice]
    /\ slip.due <= SaleTotal(slip.lines, slip.rates, slip.off)
    /\ tr # "purchase_order" => slip.bill = Nil
    /\ tr # "sale" => slip.off = 0
HasDraft(ppr, c) ==
    \E t \in Sheets : ppr[t] # NoPaper /\ ppr[t].slip = c /\ ppr[t].is = "draft"
PaperOK(ppr, slp, p) ==
    /\ p.is \in {"draft", "advance"} /\ p.slip \in Slips /\ slp[p.slip] # NoSlip
    /\ p.lines = slp[p.slip].lines /\ p.rates = slp[p.slip].rates
    /\ p.is = "draft" => p.off = slp[p.slip].off
    /\ p.is = "advance" => p.due = slp[p.slip].due /\ HasDraft(ppr, p.slip)
Unwritten(ppr, c, bill) ==
    \A s \in Sheets : ppr[s] # NoPaper =>
        ppr[s].slip # c /\ (bill # Nil => ppr[s].bill # bill)
NotAdvanced(ppr, c) ==
    \A s \in Sheets : ppr[s] # NoPaper /\ ppr[s].slip = c => ppr[s].is # "advance"
Live(tr, trf, unt, slip) ==
    \A w \in DOMAIN slip.lines :
        /\ \E l \in Lists : trf[l][w] = slip.rates[w]
        /\ tr \notin {"sale", "purchase"} => unt[w] = slip.units[w]
OnlyOnes(ppr) ==
    \A s, t \in Sheets :
        /\ ppr[s] # NoPaper /\ ppr[t] # NoPaper /\ ppr[s].is = ppr[t].is
        /\ \/ ppr[s].slip = ppr[t].slip
           \/ ppr[s].bill # Nil /\ ppr[s].bill = ppr[t].bill
        => s = t

\* An executor at call st, for slip c, with the prices rr it read again; `fr`:
\* nothing changed since its first read.
ClerkOK(tr, trf, unt, ppr, slp, st, c, rr, fr) ==
    /\ st # "idle" => c \in Slips /\ slp[c] # NoSlip
    /\ st \notin {"idle", "reread"} => rr = slp[c].rates
    /\ st \in {"verify", "check"} => HasDraft(ppr, c)
    /\ fr /\ st \in {"reread", "create"} => Unwritten(ppr, c, slp[c].bill)
    /\ fr /\ st = "create" => Live(tr, trf, unt, slp[c])
    /\ fr /\ st = "verify" => NotAdvanced(ppr, c)

DraftInv ==
    /\ DraftingTypeOK
    /\ DOMAIN papers = Sheets /\ DOMAIN slips = Slips
    /\ \A c \in Slips : slips[c] # NoSlip => SlipOK(trade, slips[c])
    /\ \A s \in Sheets : papers[s] # NoPaper => PaperOK(papers, slips, papers[s])
    /\ \A h \in Clerks : ClerkOK(trade, tariff, unit, papers, slips, step[h], holds[h],
                                 reread[h], fresh[h])
    /\ crossed = {} => OnlyOnes(papers)

LEMMA DraftInvSays ==
    ASSUME DraftInv
    PROVE  PricedAsShown /\ NothingDraftedTwice
<1>1. NothingDraftedTwice
  BY DEF DraftInv, OnlyOnes, NothingDraftedTwice
<1>2. ASSUME NEW s \in Sheets, papers[s] # NoPaper,
             NEW slip, slip = slips[papers[s].slip]
      PROVE  /\ papers[s].lines = slip.lines /\ papers[s].rates = slip.rates
             /\ papers[s].is = "draft" => papers[s].off = slip.off
             /\ papers[s].is = "advance" =>
                   \E t \in DraftsOf(papers[s].slip) :
                      papers[s].due <= SaleTotal(papers[t].lines, papers[t].rates,
                                                 papers[t].off)
  <2>1. PaperOK(papers, slips, papers[s])
    BY <1>2 DEF DraftInv
  <2>2. ASSUME papers[s].is = "advance"
        PROVE  \E t \in DraftsOf(papers[s].slip) :
                  papers[s].due <= SaleTotal(papers[t].lines, papers[t].rates,
                                             papers[t].off)
    <3>1. PICK t \in Sheets : /\ papers[t] # NoPaper /\ papers[t].slip = papers[s].slip
                              /\ papers[t].is = "draft"
      BY <2>1, <2>2 DEF PaperOK, HasDraft
    <3>2. t \in DraftsOf(papers[s].slip)
      BY <3>1 DEF DraftsOf
    <3>3. PaperOK(papers, slips, papers[t])
      BY <3>1 DEF DraftInv
    <3>4. /\ papers[t].lines = slip.lines /\ papers[t].rates = slip.rates
          /\ papers[t].off = slip.off
      BY <1>2, <3>1, <3>3 DEF PaperOK
    <3>5. papers[s].due = slip.due /\ papers[s].slip \in Slips /\ slip # NoSlip
      BY <1>2, <2>1, <2>2 DEF PaperOK
    <3>6. slip.due <= SaleTotal(slip.lines, slip.rates, slip.off)
      BY <1>2, <3>5 DEF DraftInv, SlipOK
    <3>. QED  BY <3>2, <3>4, <3>5, <3>6
  <2>. QED  BY <1>2, <2>1, <2>2 DEF PaperOK
<1>3. PricedAsShown
  BY <1>2 DEF PricedAsShown
<1>. QED  BY <1>1, <1>3

LEMMA PaperKinds ==
    NoPaper.is = "none" /\ \A p : p.is \in {"draft", "advance"} => p # NoPaper
BY DEF NoPaper

LEMMA DraftInitially ==
    ASSUME DraftingInit
    PROVE  DraftInv
<1>1. DraftingTypeOK
  <2>1. NoTags \in PriceTags
    <3>1. NoTags \in [{} -> 1..TopPrice]
      BY DEF NoTags
    <3>. QED  BY <3>1 DEF PriceTags
  <2>2. 0 \in 0..MaxChanges[trade]
    BY DraftingAssumption DEF DraftingInit
  <2>3. StartPrice \in [Wares -> 0..TopPrice]
    BY DraftingAssumption
  <2>. QED  BY <2>1, <2>2, <2>3 DEF DraftingInit, DraftingTypeOK
<1>2. /\ DOMAIN papers = Sheets /\ DOMAIN slips = Slips
      /\ \A s \in Sheets : papers[s] = NoPaper /\ \A c \in Slips : slips[c] = NoSlip
  BY DEF DraftingInit
<1>3. \A c \in Slips : slips[c] = NoSlip
  BY DEF DraftingInit
<1>4. \A h \in Clerks : ClerkOK(trade, tariff, unit, papers, slips, step[h], holds[h],
                                reread[h], fresh[h])
  BY DEF DraftingInit, ClerkOK
<1>5. OnlyOnes(papers)
  BY <1>2 DEF OnlyOnes
<1>. QED  BY <1>1, <1>2, <1>3, <1>4, <1>5 DEF DraftInv

\* The first row there is: lists are numbered.
LEMMA MinIsIn ==
    ASSUME NEW S \in SUBSET Nat, S # {}
    PROVE  Min(S) \in S
<1>. DEFINE R == OpToRel(<, Nat)
<1>1. IsWellFoundedOn(R, Nat)
  BY NatLessThanWellFounded
<1>2. \A m, n \in Nat : m < n => <<m, n>> \in R
  BY DEF OpToRel
<1>. HIDE DEF R
<1>3. PICK x \in S : \A y \in S : ~(<<y, x>> \in R)
  BY <1>1, WFMin
<1>4. ASSUME NEW y \in S
      PROVE  x <= y
  <2>1. x \in Nat /\ y \in Nat
    OBVIOUS
  <2>2. ~(y < x)
    BY <1>2, <1>3, <2>1, Zenon
  <2>. QED  BY <2>1, <2>2
<1>. QED  BY <1>4 DEF Min

\* priceForLine: a price that is found is in a row of the ware.
LEMMA PriceIsThere ==
    ASSUME DraftInv, NEW w \in Wares, NEW preferred, PriceFor(preferred, w) > 0
    PROVE  /\ PriceFor(preferred, w) \in 1..TopPrice
           /\ \E l \in Lists : tariff[l][w] = PriceFor(preferred, w)
<1>1. RowsOf(w) \subseteq Lists /\ RowsOf(w) \in SUBSET Nat
  BY DraftingAssumption DEF RowsOf
<1>2. RowsOf(w) # {} => Min(RowsOf(w)) \in RowsOf(w)
  BY <1>1, MinIsIn
<1>3. PICK r : r = RowFor(preferred, w)
  OBVIOUS
<1>4. r \in RowsOf(w) \cup {0}
  BY <1>2, <1>3 DEF RowFor
<1>5. r # 0 /\ PriceFor(preferred, w) = tariff[r][w]
  BY <1>3 DEF PriceFor
<1>6. r \in Lists
  BY <1>1, <1>4, <1>5
<1>7. tariff[r][w] \in 0..TopPrice
  BY <1>6 DEF DraftInv, DraftingTypeOK
<1>. QED  BY <1>5, <1>6, <1>7, DraftingAssumption

\* A clerk that writes nothing.
LEMMA ClerkStep ==
    ASSUME DraftInv, NEW h \in Clerks,
           UNCHANGED <<trade, ownList, market, papers, slips, crossed>>,
           NEW p, step' = [step EXCEPT ![h] = p],
           NEW c, holds' = [holds EXCEPT ![h] = c],
           NEW rr, reread' = [reread EXCEPT ![h] = rr],
           NEW fr, fresh' = [fresh EXCEPT ![h] = fr],
           p \in {"idle", "reread", "create", "verify", "advance", "check"},
           c \in Slips \cup {Nil}, rr \in PriceTags, fr \in BOOLEAN,
           ClerkOK(trade, tariff, unit, papers, slips, p, c, rr, fr)
    PROVE  DraftInv'
<1>1. DraftingTypeOK'
  BY DEF DraftInv, DraftingTypeOK, market
<1>2. ASSUME NEW u \in Clerks
      PROVE  ClerkOK(trade, tariff, unit, papers, slips, step'[u], holds'[u],
                     reread'[u], fresh'[u])
  <2>1. CASE u = h
    <3>1. step'[u] = p /\ holds'[u] = c /\ reread'[u] = rr /\ fresh'[u] = fr
      BY <2>1 DEF DraftInv, DraftingTypeOK
    <3>. QED  BY <3>1
  <2>2. CASE u # h
    <3>1. /\ step'[u] = step[u] /\ holds'[u] = holds[u] /\ reread'[u] = reread[u]
          /\ fresh'[u] = fresh[u]
      BY <2>2 DEF DraftInv, DraftingTypeOK
    <3>. QED  BY <3>1 DEF DraftInv
  <2>. QED  BY <2>1, <2>2
<1>. QED  BY <1>1, <1>2 DEF DraftInv, market

LEMMA QuitStep ==
    ASSUME DraftInv, NEW h \in Clerks, Quit(h),
           UNCHANGED <<trade, ownList, market, papers, slips, crossed>>
    PROVE  DraftInv'
<1>1. NoTags \in PriceTags
  <2>1. NoTags \in [{} -> 1..TopPrice]
    BY DEF NoTags
  <2>. QED  BY <2>1 DEF PriceTags
<1>2. ClerkOK(trade, tariff, unit, papers, slips, "idle", Nil, NoTags, FALSE)
  BY DEF ClerkOK
<1>. QED  BY <1>1, <1>2, ClerkStep DEF Quit, Step

\* A clerk that answers, or breaks off.
LEMMA ClerkQuits ==
    ASSUME DraftInv, NEW h \in Clerks,
           CheckAdvance(h) \/ BreakOff(h) \/ \E of : Answered(h, of)
    PROVE  DraftInv'
BY QuitStep DEF CheckAdvance, BreakOff, Answered

\* The ledger of drafts has nothing of slip c, nor of its bill: the clerk begins.
LEMMA BeginStep ==
    ASSUME DraftInv, NEW h \in Clerks, NEW c \in Slips, Begin(h, c), DraftsOf(c) = {},
           trade = "purchase_order" => ~Billed(slips[c].bill)
    PROVE  DraftInv'
<1>1. slips[c] # NoSlip
  BY DEF Begin
<1>2. ASSUME NEW s \in Sheets, papers[s] # NoPaper
      PROVE  /\ papers[s].slip # c
             /\ slips[c].bill # Nil => papers[s].bill # slips[c].bill
  <2>1. PaperOK(papers, slips, papers[s])
    BY <1>2 DEF DraftInv
  <2>2. papers[s].slip = c => HasDraft(papers, c)
    <3>1. CASE papers[s].is = "draft"
      BY <1>2, <3>1 DEF HasDraft
    <3>2. CASE papers[s].is = "advance"
      BY <2>1, <3>2 DEF PaperOK
    <3>. QED  BY <2>1, <3>1, <3>2 DEF PaperOK
  <2>3. ~HasDraft(papers, c)
    BY DEF HasDraft, DraftsOf
  <2>4. slips[c].bill # Nil => trade = "purchase_order"
    BY <1>1 DEF DraftInv, SlipOK
  <2>. QED  BY <1>2, <2>2, <2>3, <2>4 DEF Billed
<1>3. Unwritten(papers, c, slips[c].bill)
  BY <1>2 DEF Unwritten
<1>4. PICK rr : rr = reread[h]
  OBVIOUS
<1>5. rr \in PriceTags /\ reread' = [reread EXCEPT ![h] = rr]
  BY <1>4 DEF Begin, DraftInv, DraftingTypeOK
<1>6. ClerkOK(trade, tariff, unit, papers, slips, "reread", c, rr, TRUE)
  BY <1>1, <1>3 DEF ClerkOK
<1>7. /\ UNCHANGED <<trade, ownList, market, papers, slips, crossed>>
      /\ step' = [step EXCEPT ![h] = "reread"] /\ holds' = [holds EXCEPT ![h] = c]
      /\ fresh' = [fresh EXCEPT ![h] = TRUE]
  BY DEF Begin
<1>. QED  BY <1>5, <1>6, <1>7, ClerkStep

LEMMA ExecuteDraftStep ==
    ASSUME DraftInv, NEW h \in Clerks, NEW c \in Slips,
           \/ ExecuteQuotation(h, c) \/ ExecuteSalesOrder(h, c)
           \/ ExecutePurchaseOrder(h, c) \/ ExecuteSale(h, c)
           \/ ExecutePurchase(h, c)
    PROVE  DraftInv'
BY BeginStep DEF ExecuteQuotation, ExecuteSalesOrder, ExecutePurchaseOrder, ExecuteSale,
                 ExecutePurchase, QuotationOf, SalesOrderOf, PurchaseOrderOf, SaleOf,
                 PurchaseOf

LEMMA BasketsAre ==
    ASSUME NEW lines \in Baskets
    PROVE  /\ DOMAIN lines \in SUBSET Wares /\ IsFiniteSet(DOMAIN lines)
           /\ \A w \in DOMAIN lines : lines[w] \in Nat
<1>1. PICK S \in SUBSET Wares \ {{}} : lines \in [S -> 1..TopQty]
  BY DEF Baskets
<1>2. IsFiniteSet(S)
  BY DraftingAssumption, FS_Subset
<1>. QED  BY <1>1, <1>2, DraftingAssumption

\* The rates of a card are prices.
LEMMA RatesAreTags ==
    ASSUME NEW tr, NEW slip, SlipOK(tr, slip)
    PROVE  slip.rates \in PriceTags
<1>1. DOMAIN slip.lines \in SUBSET Wares
  BY BasketsAre DEF SlipOK
<1>2. slip.rates \in [DOMAIN slip.lines -> 1..TopPrice]
  BY DEF SlipOK
<1>. QED  BY <1>1, <1>2, Zenon DEF PriceTags

\* A rate of the card that is read again is in the tariff.
LEMMA RateIsThere ==
    ASSUME DraftInv, NEW slip, SlipOK(trade, slip), NEW w \in DOMAIN slip.lines,
           NEW preferred, PriceFor(preferred, w) = slip.rates[w]
    PROVE  \E l \in Lists : tariff[l][w] = slip.rates[w]
<1>1. w \in Wares
  BY BasketsAre DEF SlipOK
<1>2. slip.rates[w] > 0
  BY DraftingAssumption DEF SlipOK
<1>. QED  BY <1>1, <1>2, PriceIsThere

\* The prices again: the clerk goes on only with those of the card.
LEMMA RereadStep ==
    ASSUME DraftInv, NEW h \in Clerks, step[h] = "reread",
           UNCHANGED <<trade, ownList, market, papers, slips, crossed>>,
           NEW rr,
           \/ Quit(h)
           \/ /\ Step(h, "create") /\ reread' = [reread EXCEPT ![h] = rr]
              /\ UNCHANGED <<holds, fresh>>
              /\ rr = slips[holds[h]].rates
              /\ Live(trade, tariff, unit, slips[holds[h]])
    PROVE  DraftInv'
<1>1. CASE Quit(h)
  BY <1>1, QuitStep
<1>2. CASE /\ Step(h, "create") /\ reread' = [reread EXCEPT ![h] = rr]
           /\ UNCHANGED <<holds, fresh>>
           /\ rr = slips[holds[h]].rates
           /\ Live(trade, tariff, unit, slips[holds[h]])
  <2>1. PICK c, fr : c = holds[h] /\ fr = fresh[h]
    OBVIOUS
  <2>2. ClerkOK(trade, tariff, unit, papers, slips, "reread", c, reread[h], fr)
    BY <2>1 DEF DraftInv
  <2>3. c \in Slips /\ slips[c] # NoSlip
    BY <2>2 DEF ClerkOK
  <2>4. SlipOK(trade, slips[c])
    BY <2>3 DEF DraftInv
  <2>5. rr \in PriceTags
    BY <1>2, <2>1, <2>4, RatesAreTags
  <2>6. ClerkOK(trade, tariff, unit, papers, slips, "create", c, rr, fr)
    BY <1>2, <2>1, <2>2 DEF ClerkOK
  <2>7. fr \in BOOLEAN
    BY <2>1 DEF DraftInv, DraftingTypeOK
  <2>8. holds' = [holds EXCEPT ![h] = c] /\ fresh' = [fresh EXCEPT ![h] = fr]
    BY <1>2, <2>1 DEF DraftInv, DraftingTypeOK
  <2>9. step' = [step EXCEPT ![h] = "create"] /\ reread' = [reread EXCEPT ![h] = rr]
    BY <1>2 DEF Step
  <2>. QED  BY <2>3, <2>5, <2>6, <2>7, <2>8, <2>9, ClerkStep
<1>. QED  BY <1>1, <1>2

LEMMA ReadCardIsOK ==
    ASSUME DraftInv, NEW h \in Clerks, step[h] = "reread"
    PROVE  /\ SlipOK(trade, slips[holds[h]])
           /\ slips[holds[h]].rates =
                  [w \in DOMAIN slips[holds[h]].lines |-> slips[holds[h]].rates[w]]
<1>1. ClerkOK(trade, tariff, unit, papers, slips, "reread", holds[h], reread[h], fresh[h])
  BY DEF DraftInv
<1>2. holds[h] \in Slips /\ slips[holds[h]] # NoSlip
  BY <1>1 DEF ClerkOK
<1>3. SlipOK(trade, slips[holds[h]])
  BY <1>2 DEF DraftInv
<1>. QED  BY <1>3 DEF SlipOK

\* An order: the row of the card's list, and the stock unit.
LEMMA RereadOrderStep ==
    ASSUME DraftInv, NEW h \in Clerks,
           RereadQuotation(h) \/ RereadSalesOrder(h) \/ RereadPurchaseOrder(h)
    PROVE  DraftInv'
<1>1. PICK slip : slip = slips[holds[h]]
  OBVIOUS
<1>2. PICK now : now = [w \in DOMAIN slip.lines |-> PriceFor(slip.lists[w], w)]
  OBVIOUS
<1>3. /\ step[h] = "reread"
      /\ UNCHANGED <<trade, ownList, market, papers, slips, crossed>>
      /\ \/ Quit(h)
         \/ /\ Step(h, "create") /\ reread' = [reread EXCEPT ![h] = now]
            /\ UNCHANGED <<holds, fresh>>
            /\ \A w \in DOMAIN slip.lines :
                   SameUnit(slip, w) /\ PriceFor(slip.lists[w], w) = slip.rates[w]
  BY <1>1, <1>2 DEF RereadQuotation, RereadSalesOrder, RereadPurchaseOrder, Reread,
                    QuotationAgrees, SalesOrderAgrees, PurchaseOrderAgrees
<1>4. /\ SlipOK(trade, slip)
      /\ slip.rates = [w \in DOMAIN slip.lines |-> slip.rates[w]]
  BY <1>1, <1>3, ReadCardIsOK
<1>5. ASSUME \A w \in DOMAIN slip.lines :
                 SameUnit(slip, w) /\ PriceFor(slip.lists[w], w) = slip.rates[w]
      PROVE  now = slip.rates /\ Live(trade, tariff, unit, slip)
  <2>1. now = slip.rates
    BY <1>2, <1>4, <1>5
  <2>2. ASSUME NEW w \in DOMAIN slip.lines
        PROVE  /\ \E l \in Lists : tariff[l][w] = slip.rates[w]
               /\ unit[w] = slip.units[w]
    BY <1>4, <1>5, RateIsThere DEF SameUnit
  <2>. QED  BY <2>1, <2>2 DEF Live
<1>. QED  BY <1>1, <1>3, <1>5, RereadStep

\* An invoice: the list of the Settings.
LEMMA RereadInvoiceStep ==
    ASSUME DraftInv, NEW h \in Clerks, RereadSale(h) \/ RereadPurchase(h)
    PROVE  DraftInv'
<1>1. PICK slip : slip = slips[holds[h]]
  OBVIOUS
<1>2. PICK l : l = SellingList(0) /\ l = BuyingList(0)
  BY DEF SellingList, BuyingList
<1>3. PICK now : now = [w \in DOMAIN slip.lines |-> PriceFor(l, w)]
  OBVIOUS
<1>4. /\ step[h] = "reread" /\ trade \in {"sale", "purchase"}
      /\ UNCHANGED <<trade, ownList, market, papers, slips, crossed>>
      /\ \/ Quit(h)
         \/ /\ Step(h, "create") /\ reread' = [reread EXCEPT ![h] = now]
            /\ UNCHANGED <<holds, fresh>>
            /\ \A w \in DOMAIN slip.lines : PriceFor(l, w) = slip.rates[w]
  BY <1>1, <1>2, <1>3 DEF RereadSale, RereadPurchase, Reread, SaleAgrees, PurchaseAgrees
<1>5. /\ SlipOK(trade, slip)
      /\ slip.rates = [w \in DOMAIN slip.lines |-> slip.rates[w]]
  BY <1>1, <1>4, ReadCardIsOK
<1>6. ASSUME \A w \in DOMAIN slip.lines : PriceFor(l, w) = slip.rates[w]
      PROVE  now = slip.rates /\ Live(trade, tariff, unit, slip)
  <2>1. now = slip.rates
    BY <1>3, <1>5, <1>6
  <2>2. ASSUME NEW w \in DOMAIN slip.lines
        PROVE  \E m \in Lists : tariff[m][w] = slip.rates[w]
    BY <1>5, <1>6, RateIsThere
  <2>. QED  BY <1>4, <2>1, <2>2 DEF Live
<1>. QED  BY <1>1, <1>4, <1>6, RereadStep

\* A document is filed.  Everybody else has seen something change.
LEMMA FileStep ==
    ASSUME DraftInv, NEW h \in Clerks, NEW c, c = holds[h],
           NEW paper, NEW next, File(h, paper, next), slips[c] # NoSlip, c \in Slips,
           reread[h] = slips[c].rates,
           paper.slip = c, paper.lines = slips[c].lines, paper.rates = slips[c].rates,
           \/ /\ paper.is = "draft" /\ next = "verify"
              /\ paper.off = slips[c].off
              /\ fresh[h] => Unwritten(papers, c, paper.bill)
           \/ /\ paper.is = "advance" /\ next = "check"
              /\ paper.due = slips[c].due /\ paper.bill = Nil
              /\ HasDraft(papers, c)
              /\ fresh[h] => NotAdvanced(papers, c)
    PROVE  DraftInv'
<1>1. PICK s : s = CHOOSE t \in Blank : TRUE
  OBVIOUS
<1>2. /\ s \in Sheets /\ papers[s] = NoPaper
      /\ papers' = [papers EXCEPT ![s] = paper]
      /\ crossed' = IF fresh[h] THEN crossed ELSE crossed \cup {s}
      /\ step' = [step EXCEPT ![h] = next]
      /\ fresh' = [g \in Clerks |-> g = h /\ fresh[h]]
      /\ UNCHANGED <<trade, ownList, market, slips, holds, reread>>
  BY <1>1 DEF File, Blank, Step
<1>3. DOMAIN papers = Sheets
  BY DEF DraftInv
<1>4. /\ papers'[s] = paper /\ DOMAIN papers' = Sheets
      /\ \A t \in Sheets : t # s => papers'[t] = papers[t]
  BY <1>2, <1>3
<1>5. paper # NoPaper /\ paper.is \in {"draft", "advance"}
  BY PaperKinds
<1>6. ASSUME NEW d, HasDraft(papers, d)
      PROVE  HasDraft(papers', d)
  BY <1>2, <1>4, <1>6 DEF HasDraft
<1>7. paper.is = "draft" => HasDraft(papers', c)
  BY <1>2, <1>4, <1>5 DEF HasDraft
<1>8. ASSUME NEW t \in Sheets, papers'[t] # NoPaper
      PROVE  PaperOK(papers', slips, papers'[t])
  <2>1. CASE t = s
    <3>1. PaperOK(papers', slips, paper)
      BY <1>5, <1>6, <1>7 DEF PaperOK
    <3>. QED  BY <1>4, <2>1, <3>1
  <2>2. CASE t # s
    <3>1. PaperOK(papers, slips, papers[t]) /\ papers'[t] = papers[t]
      BY <1>4, <1>8, <2>2 DEF DraftInv
    <3>. QED  BY <1>6, <3>1 DEF PaperOK
  <2>. QED  BY <2>1, <2>2
<1>9. ASSUME NEW u \in Clerks
      PROVE  ClerkOK(trade, tariff, unit, papers', slips, step'[u], holds[u],
                     reread[u], fresh'[u])
  <2>1. ClerkOK(trade, tariff, unit, papers, slips, step[u], holds[u], reread[u], fresh[u])
    BY DEF DraftInv
  <2>2. CASE u # h
    <3>1. step'[u] = step[u] /\ ~fresh'[u]
      BY <1>2, <2>2 DEF DraftInv, DraftingTypeOK
    <3>. QED  BY <1>6, <2>1, <3>1 DEF ClerkOK
  <2>3. CASE u = h
    <3>1. step'[u] = next /\ fresh'[u] = fresh[h]
      BY <1>2, <2>3 DEF DraftInv, DraftingTypeOK
    <3>2. ASSUME fresh[h], next = "verify"
          PROVE  NotAdvanced(papers', c)
      <4>1. paper.is = "draft" /\ Unwritten(papers, c, paper.bill)
        BY <3>2
      <4>. QED  BY <1>4, <4>1 DEF Unwritten, NotAdvanced
    <3>3. HasDraft(papers', c)
      BY <1>6, <1>7
    <3>. QED  BY <2>3, <3>1, <3>2, <3>3 DEF ClerkOK
  <2>. QED  BY <2>2, <2>3
<1>10. ASSUME crossed' = {}
       PROVE  OnlyOnes(papers')
  <2>1. fresh[h] /\ OnlyOnes(papers)
    BY <1>2, <1>10 DEF DraftInv
  <2>2. ASSUME NEW t \in Sheets, papers[t] # NoPaper, papers[t].is = paper.is
        PROVE  /\ papers[t].slip # paper.slip
               /\ paper.bill # Nil => papers[t].bill # paper.bill
    <3>1. CASE Unwritten(papers, c, paper.bill)
      BY <2>2, <3>1 DEF Unwritten
    <3>2. CASE NotAdvanced(papers, c) /\ paper.is = "advance" /\ paper.bill = Nil
      BY <2>2, <3>2 DEF NotAdvanced
    <3>. QED  BY <2>1, <3>1, <3>2
  <2>3. ASSUME NEW t \in Sheets, NEW v \in Sheets,
               papers'[t] # NoPaper, papers'[v] # NoPaper, papers'[t].is = papers'[v].is,
               \/ papers'[t].slip = papers'[v].slip
               \/ papers'[t].bill # Nil /\ papers'[t].bill = papers'[v].bill
        PROVE  t = v
    <3>1. CASE t # s /\ v # s
      <4>1. papers'[t] = papers[t] /\ papers'[v] = papers[v]
        BY <1>4, <3>1
      <4>. QED  BY <2>1, <2>3, <4>1 DEF OnlyOnes
    <3>2. CASE t = s /\ v # s
      <4>1. papers'[t] = paper /\ papers'[v] = papers[v]
        BY <1>4, <3>2
      <4>. QED  BY <2>2, <2>3, <4>1
    <3>3. CASE t # s /\ v = s
      <4>1. papers'[t] = papers[t] /\ papers'[v] = paper
        BY <1>4, <3>3
      <4>. QED  BY <2>2, <2>3, <4>1
    <3>. QED  BY <3>1, <3>2, <3>3
  <2>. QED  BY <2>3 DEF OnlyOnes
<1>11. DraftingTypeOK'
  <2>1. step' \in [Clerks -> {"idle", "reread", "create", "verify", "advance", "check"}]
    BY <1>2 DEF DraftInv, DraftingTypeOK
  <2>2. fresh' \in [Clerks -> BOOLEAN]
    BY <1>2 DEF DraftInv, DraftingTypeOK
  <2>3. crossed' \in SUBSET Sheets
    BY <1>2 DEF DraftInv, DraftingTypeOK
  <2>4. ASSUME NEW t \in Sheets, papers'[t] # NoPaper
        PROVE  papers'[t].is \in {"draft", "advance"} /\ papers'[t].slip \in Slips
    BY <1>8, <2>4 DEF PaperOK
  <2>. QED  BY <1>2, <2>1, <2>2, <2>3, <2>4 DEF DraftInv, DraftingTypeOK, market
<1>12. /\ UNCHANGED <<trade, tariff, unit, slips, holds, reread>>
       /\ DOMAIN papers' = Sheets
  BY <1>2, <1>4 DEF market
<1>13. /\ DOMAIN slips' = Slips
       /\ \A d \in Slips : slips'[d] # NoSlip => SlipOK(trade', slips'[d])
  BY <1>12 DEF DraftInv
<1>. QED  BY <1>8, <1>9, <1>10, <1>11, <1>12, <1>13 DEF DraftInv

\* The card that an executor past its reads has.
LEMMA ClerkCard ==
    ASSUME DraftInv, NEW h \in Clerks, step[h] \in {"create", "verify"}
    PROVE  /\ holds[h] \in Slips /\ slips[holds[h]] # NoSlip
           /\ reread[h] = slips[holds[h]].rates
           /\ SlipOK(trade, slips[holds[h]])
           /\ step[h] = "verify" => HasDraft(papers, holds[h])
           /\ fresh[h] /\ step[h] = "create" =>
                 /\ Unwritten(papers, holds[h], slips[holds[h]].bill)
                 /\ Live(trade, tariff, unit, slips[holds[h]])
           /\ fresh[h] /\ step[h] = "verify" => NotAdvanced(papers, holds[h])
<1>1. ClerkOK(trade, tariff, unit, papers, slips, step[h], holds[h], reread[h], fresh[h])
  BY DEF DraftInv
<1>2. holds[h] \in Slips /\ slips[holds[h]] # NoSlip
  BY <1>1 DEF ClerkOK
<1>3. SlipOK(trade, slips[holds[h]])
  BY <1>2 DEF DraftInv
<1>. QED  BY <1>1, <1>2, <1>3 DEF ClerkOK

LEMMA DraftIs ==
    ASSUME NEW h
    PROVE  /\ Draft(h).is = "draft" /\ Draft(h).slip = holds[h] /\ Draft(h).bill = Nil
           /\ Draft(h).lines = slips[holds[h]].lines /\ Draft(h).rates = reread[h]
           /\ Draft(h).off = 0
           /\ PurchaseOrderData(h).is = "draft" /\ PurchaseOrderData(h).slip = holds[h]
           /\ PurchaseOrderData(h).lines = slips[holds[h]].lines
           /\ PurchaseOrderData(h).rates = reread[h] /\ PurchaseOrderData(h).off = 0
           /\ PurchaseOrderData(h).bill = slips[holds[h]].bill
           /\ SaleData(h).is = "draft" /\ SaleData(h).slip = holds[h]
           /\ SaleData(h).lines = slips[holds[h]].lines /\ SaleData(h).bill = Nil
           /\ SaleData(h).rates = reread[h] /\ SaleData(h).off = slips[holds[h]].off
           /\ AdvanceData(h).is = "advance" /\ AdvanceData(h).slip = holds[h]
           /\ AdvanceData(h).lines = slips[holds[h]].lines /\ AdvanceData(h).bill = Nil
           /\ AdvanceData(h).rates = reread[h]
           /\ AdvanceData(h).due = slips[holds[h]].due
BY DEF Draft, PurchaseOrderData, SaleData, AdvanceData

\* build...Data files the lines of the card, at its rates.
LEMMA CreateDraftStep ==
    ASSUME DraftInv, NEW h \in Clerks,
           \/ CreateQuotation(h) \/ CreateSalesOrder(h) \/ CreatePurchaseOrder(h)
           \/ CreateSale(h) \/ CreatePurchase(h)
    PROVE  DraftInv'
<1>1. PICK paper : /\ step[h] = "create" /\ File(h, paper, "verify")
                   /\ \/ paper = Draft(h) /\ trade # "sale"
                      \/ paper = PurchaseOrderData(h) /\ trade # "sale"
                      \/ paper = SaleData(h)
  BY DEF CreateQuotation, CreateSalesOrder, CreatePurchaseOrder, CreateSale, CreatePurchase,
         QuotationData, SalesOrderData, PurchaseData
<1>2. PICK c : c = holds[h]
  OBVIOUS
<1>3. /\ c \in Slips /\ slips[c] # NoSlip /\ reread[h] = slips[c].rates
      /\ SlipOK(trade, slips[c])
      /\ fresh[h] => Unwritten(papers, c, slips[c].bill)
  BY <1>1, <1>2, ClerkCard
<1>4. /\ paper.is = "draft" /\ paper.slip = c
      /\ paper.lines = slips[c].lines /\ paper.rates = slips[c].rates
      /\ paper.bill \in {Nil, slips[c].bill}
      /\ (paper.off = 0 /\ trade # "sale") \/ paper.off = slips[c].off
  BY <1>1, <1>2, <1>3, DraftIs
<1>5. paper.off = slips[c].off
  BY <1>3, <1>4 DEF SlipOK
<1>6. fresh[h] => Unwritten(papers, c, paper.bill)
  BY <1>3, <1>4 DEF Unwritten
<1>. QED  BY <1>1, <1>2, <1>3, <1>4, <1>5, <1>6, FileStep

\* The advance: one, of the amount on the card.
LEMMA WriteAdvanceStep ==
    ASSUME DraftInv, NEW h \in Clerks, WriteSaleAdvance(h) \/ WritePurchaseAdvance(h)
    PROVE  DraftInv'
<1>1. PICK paper : /\ step[h] = "verify" /\ File(h, paper, "check")
                   /\ paper = AdvanceData(h)
  BY DEF WriteSaleAdvance, WritePurchaseAdvance, WriteAdvance
<1>2. PICK c : c = holds[h]
  OBVIOUS
<1>3. /\ c \in Slips /\ slips[c] # NoSlip /\ reread[h] = slips[c].rates
      /\ HasDraft(papers, c) /\ (fresh[h] => NotAdvanced(papers, c))
  BY <1>1, <1>2, ClerkCard
<1>4. /\ paper.is = "advance" /\ paper.slip = c /\ paper.bill = Nil
      /\ paper.lines = slips[c].lines /\ paper.rates = slips[c].rates
      /\ paper.due = slips[c].due
  BY <1>1, <1>2, <1>3, DraftIs
<1>. QED  BY <1>1, <1>2, <1>3, <1>4, FileStep

LEMMA OfferStep ==
    ASSUME DraftInv, NEW c \in Slips, NEW slip, Offer(c, slip), SlipOK(trade, slip)
    PROVE  DraftInv'
<1>1. /\ slips[c] = NoSlip /\ slips' = [slips EXCEPT ![c] = slip]
      /\ UNCHANGED <<trade, ownList, market, papers, desks, crossed>>
  BY DEF Offer
<1>2. DOMAIN slips = Slips
  BY DEF DraftInv
<1>3. /\ slips'[c] = slip /\ DOMAIN slips' = Slips
      /\ \A d \in Slips : d # c => slips'[d] = slips[d]
  BY <1>1, <1>2
<1>4. /\ UNCHANGED <<trade, tariff, unit, changes, papers, step, holds, reread, fresh>>
      /\ UNCHANGED crossed
  BY <1>1 DEF market, desks
<1>5. ASSUME NEW d \in Slips, slips'[d] # NoSlip
      PROVE  SlipOK(trade, slips'[d]) /\ slips'[d].lines \in Baskets
  <2>1. CASE d = c
    BY <1>3, <2>1 DEF SlipOK
  <2>2. CASE d # c
    BY <1>3, <1>5, <2>2 DEF DraftInv, SlipOK
  <2>. QED  BY <2>1, <2>2
<1>6. ASSUME NEW d \in Slips, slips[d] # NoSlip
      PROVE  slips'[d] = slips[d]
  BY <1>1, <1>3, <1>6
<1>7. ASSUME NEW s \in Sheets, papers[s] # NoPaper
      PROVE  PaperOK(papers, slips', papers[s])
  <2>1. PaperOK(papers, slips, papers[s])
    BY <1>7 DEF DraftInv
  <2>. QED  BY <1>6, <2>1 DEF PaperOK
<1>8. ASSUME NEW h \in Clerks
      PROVE  ClerkOK(trade, tariff, unit, papers, slips', step[h], holds[h],
                     reread[h], fresh[h])
  <2>1. ClerkOK(trade, tariff, unit, papers, slips, step[h], holds[h], reread[h], fresh[h])
    BY DEF DraftInv
  <2>2. CASE step[h] = "idle"
    BY <2>2 DEF ClerkOK
  <2>3. CASE step[h] # "idle"
    <3>1. slips'[holds[h]] = slips[holds[h]]
      BY <1>6, <2>1, <2>3 DEF ClerkOK
    <3>. QED  BY <2>1, <3>1 DEF ClerkOK
  <2>. QED  BY <2>2, <2>3
<1>9. DraftingTypeOK'
  BY <1>4, <1>5 DEF DraftInv, DraftingTypeOK
<1>. QED  BY <1>3, <1>4, <1>5, <1>7, <1>8, <1>9 DEF DraftInv

LEMMA SubtotalIsNat ==
    ASSUME NEW lines \in Baskets, NEW rates \in [DOMAIN lines -> 1..TopPrice]
    PROVE  Subtotal(lines, rates) \in Nat
<1>1. PICK f : f = [w \in DOMAIN lines |-> lines[w] * rates[w]]
  OBVIOUS
<1>2. IsFiniteSet(DOMAIN lines) /\ \A w \in DOMAIN lines : lines[w] \in Nat
  BY BasketsAre
<1>3. ASSUME NEW w \in DOMAIN lines
      PROVE  f[w] \in Nat
  <2>1. lines[w] \in Nat /\ rates[w] \in Nat
    BY <1>2, DraftingAssumption
  <2>2. f[w] = lines[w] * rates[w]
    BY <1>1
  <2>. QED  BY <2>1, <2>2
<1>4. DOMAIN f = DOMAIN lines
  BY <1>1
<1>5. SumFunctionOnSet(f, DOMAIN f) \in Nat
  BY <1>2, <1>3, <1>4, SumIsNat
<1>. QED  BY <1>1, <1>5 DEF Subtotal, SumFunction

LEMMA SlipIs ==
    ASSUME NEW lines, NEW preferred, NEW off, NEW due, NEW bill
    PROVE  /\ Slip(lines, preferred, off, due, bill).lines = lines
           /\ Slip(lines, preferred, off, due, bill).off = off
           /\ Slip(lines, preferred, off, due, bill).due = due
           /\ Slip(lines, preferred, off, due, bill).bill = bill
           /\ Slip(lines, preferred, off, due, bill).rates =
                  [w \in DOMAIN lines |-> PriceFor(preferred, w)]
BY DEF Slip

\* Every builder: the rates of a card are prices, and nothing due exceeds its total.
LEMMA SlipIsOK ==
    ASSUME DraftInv, NEW lines \in Baskets, NEW preferred, NEW off, NEW due, NEW bill,
           Priced(lines, preferred),
           NEW slip, slip = Slip(lines, preferred, off, due, bill),
           \/ due = 0 /\ off = 0
           \/ off = 0 /\ due <= PurchaseTotal(lines, slip.rates)
           \/ trade = "sale" /\ due <= SaleTotal(lines, slip.rates, off),
           bill = Nil \/ trade = "purchase_order"
    PROVE  SlipOK(trade, slip)
<1>1. /\ slip.lines = lines /\ slip.off = off /\ slip.due = due /\ slip.bill = bill
      /\ slip.rates = [w \in DOMAIN lines |-> PriceFor(preferred, w)]
  BY SlipIs
<1>2. ASSUME NEW w \in DOMAIN lines
      PROVE  PriceFor(preferred, w) \in 1..TopPrice
  <2>1. w \in Wares /\ PriceFor(preferred, w) > 0
    BY BasketsAre DEF Priced
  <2>. QED  BY <2>1, PriceIsThere
<1>3. slip.rates \in [DOMAIN lines -> 1..TopPrice]
  BY <1>1, <1>2
<1>4. PICK total : total = Subtotal(lines, slip.rates)
  OBVIOUS
<1>5. total \in Nat
  BY <1>3, <1>4, SubtotalIsNat
<1>6. due <= SaleTotal(lines, slip.rates, off)
  <2>1. off = 0 => SaleTotal(lines, slip.rates, off) = total
    BY <1>4, <1>5 DEF SaleTotal
  <2>2. PurchaseTotal(lines, slip.rates) = total
    BY <1>4 DEF PurchaseTotal
  <2>. QED  BY <1>5, <2>1, <2>2
<1>7. trade # "sale" => off = 0
  OBVIOUS
<1>. QED  BY <1>1, <1>3, <1>6, <1>7 DEF SlipOK

LEMMA PrepareStep ==
    ASSUME DraftInv, NEW c \in Slips, NEW lines \in Baskets, Prepare(c, lines)
    PROVE  DraftInv'
<1>1. ASSUME NEW b, b = Nil \/ trade = "purchase_order", Priced(lines, 0),
             Offer(c, Slip(lines, 0, 0, 0, b))
      PROVE  DraftInv'
  BY <1>1, SlipIsOK, OfferStep
<1>2. ASSUME NEW due, BuildPurchaseProposal(c, lines, due)
      PROVE  DraftInv'
  <2>1. PICK slip : slip = Slip(lines, BuyingList(ownList), 0, due, Nil)
    OBVIOUS
  <2>. QED  BY <1>2, <2>1, SlipIsOK, OfferStep DEF BuildPurchaseProposal
<1>3. ASSUME NEW due, NEW off, BuildSalesProposal(c, lines, off, due)
      PROVE  DraftInv'
  <2>1. PICK slip : slip = Slip(lines, SellingList(ownList), off, due, Nil)
    OBVIOUS
  <2>. QED  BY <1>3, <2>1, SlipIsOK, OfferStep DEF BuildSalesProposal
<1>4. CASE BuildQuotationProposal(c, lines) \/ BuildSalesOrderProposal(c, lines)
  BY <1>1, <1>4 DEF BuildQuotationProposal, BuildSalesOrderProposal
<1>5. CASE \E b \in Bills \cup {Nil} : BuildPurchaseOrderProposal(c, lines, b)
  BY <1>1, <1>5 DEF BuildPurchaseOrderProposal
<1>. QED  BY <1>2, <1>3, <1>4, <1>5 DEF Prepare

\* People change a price or a unit.
LEMMA MarketStep ==
    ASSUME DraftInv, PeopleChange,
           tariff' \in [Lists -> [Wares -> 0..TopPrice]], unit' \in [Wares -> 1..2]
    PROVE  DraftInv'
<1>1. /\ changes < MaxChanges[trade] /\ changes' = changes + 1
      /\ UNCHANGED <<trade, papers, slips, step, holds, reread, crossed>>
      /\ fresh' = [h \in Clerks |-> FALSE]
  BY DEF PeopleChange
<1>2. changes' \in 0..MaxChanges[trade]
  <2>1. MaxChanges[trade] \in Nat /\ changes \in 0..MaxChanges[trade]
    BY DraftingAssumption DEF DraftInv, DraftingTypeOK
  <2>. QED  BY <1>1, <2>1
<1>3. fresh' \in [Clerks -> BOOLEAN] /\ \A h \in Clerks : ~fresh'[h]
  BY <1>1
<1>4. UNCHANGED <<trade, papers, slips, step, holds, reread, crossed>>
  BY <1>1
<1>5. DraftingTypeOK'
  BY <1>2, <1>3, <1>4 DEF DraftInv, DraftingTypeOK
<1>6. ASSUME NEW h \in Clerks
      PROVE  ClerkOK(trade, tariff', unit', papers, slips, step[h], holds[h],
                     reread[h], fresh'[h])
  BY <1>3 DEF DraftInv, ClerkOK
<1>. QED  BY <1>4, <1>5, <1>6 DEF DraftInv

LEMMA SetPriceStep ==
    ASSUME DraftInv, NEW l \in Lists, NEW w \in Wares, NEW p \in 0..TopPrice,
           SetPrice(l, w, p)
    PROVE  DraftInv'
<1>1. PICK row : row = [tariff[l] EXCEPT ![w] = p]
  OBVIOUS
<1>2. tariff[l] \in [Wares -> 0..TopPrice]
  BY DEF DraftInv, DraftingTypeOK
<1>3. row \in [Wares -> 0..TopPrice]
  BY <1>1, <1>2
<1>4. tariff' = [tariff EXCEPT ![l] = row]
  BY <1>1 DEF SetPrice
<1>5. tariff' \in [Lists -> [Wares -> 0..TopPrice]]
  BY <1>3, <1>4 DEF DraftInv, DraftingTypeOK
<1>6. unit' \in [Wares -> 1..2] /\ PeopleChange
  BY DEF SetPrice, DraftInv, DraftingTypeOK
<1>. QED  BY <1>5, <1>6, MarketStep

LEMMA SetUnitStep ==
    ASSUME DraftInv, NEW w \in Wares, SetUnit(w)
    PROVE  DraftInv'
<1>1. unit' \in [Wares -> 1..2]
  BY DEF SetUnit, DraftInv, DraftingTypeOK
<1>2. tariff' \in [Lists -> [Wares -> 0..TopPrice]] /\ PeopleChange
  BY DEF SetUnit, DraftInv, DraftingTypeOK
<1>. QED  BY <1>1, <1>2, MarketStep

LEMMA DraftInductive ==
    ASSUME DraftInv, [DraftingNext]_draftVars
    PROVE  DraftInv'
<1>1. CASE \E c \in Slips, lines \in Baskets : Prepare(c, lines)
  BY <1>1, PrepareStep
<1>2. ASSUME NEW h \in Clerks, Carry(h)
      PROVE  DraftInv'
  <2>1. CASE \E of : Answered(h, of)
    BY <2>1, ClerkQuits
  <2>2. VerifyQuotation(h) \/ VerifySalesOrder(h) \/ VerifyPurchaseOrder(h)
        \/ VerifySale(h) \/ VerifyPurchase(h) => \E of : Answered(h, of)
    BY DEF VerifyQuotation, VerifySalesOrder, VerifyPurchaseOrder, VerifySale,
           VerifyPurchase
  <2>. QED  BY <1>2, <2>1, <2>2, ClerkQuits, ExecuteDraftStep, RereadOrderStep,
               RereadInvoiceStep, CreateDraftStep, WriteAdvanceStep DEF Carry
<1>3. CASE \E l \in Lists, w \in Wares, p \in 0..TopPrice : SetPrice(l, w, p)
  BY <1>3, SetPriceStep
<1>4. CASE \E w \in Wares : SetUnit(w)
  BY <1>4, SetUnitStep
<1>5. CASE UNCHANGED draftVars
  <2>1. UNCHANGED <<trade, tariff, unit, changes, papers, slips, step, holds, reread,
                    fresh, crossed>>
    BY <1>5 DEF draftVars, market, desks
  <2>. QED  BY <2>1 DEF DraftInv, DraftingTypeOK
<1>. QED  BY <1>1, <1>2, <1>3, <1>4, <1>5 DEF DraftingNext

LEMMA DraftInvHolds == DraftingSpec => []DraftInv
<1>1. DraftingInit => DraftInv
  BY DraftInitially
<1>2. DraftInv /\ [DraftingNext]_draftVars => DraftInv'
  BY DraftInductive
<1>. QED  BY <1>1, <1>2, PTL DEF DraftingSpec

\* PricedAsShown (the builders and executors of the five drafting skills): with any
\* number of price lists, wares, cards and executors, a document holds the lines,
\* prices and discount of the card that was confirmed, and an advance no more than
\* the total of an invoice that is there.
THEOREM PricedAsShownHolds == DraftingSpec => []PricedAsShown
<1>1. DraftInv => PricedAsShown
  BY DraftInvSays
<1>. QED  BY <1>1, DraftInvHolds, PTL

\* NothingDraftedTwice (reconcile... and probeBusinessDocKey): one document and one
\* advance per card, and one order per imported bill, however often they are
\* confirmed, as long as nothing happened between an executor's reads and its write.
THEOREM NothingDraftedTwiceHolds == DraftingSpec => []NothingDraftedTwice
<1>1. DraftInv => NothingDraftedTwice
  BY DraftInvSays
<1>. QED  BY <1>1, DraftInvHolds, PTL

\* DraftingTypeOK: the variables of the five drafting skills keep their types.
THEOREM DraftingTypeOKHolds == DraftingSpec => []DraftingTypeOK
<1>1. DraftInv => DraftingTypeOK
  BY DEF DraftInv
<1>. QED  BY <1>1, DraftInvHolds, PTL

\* Only the Create actions file a draft.
LEMMA OnlyCreateDrafts ==
    ASSUME DraftInv, [DraftingNext]_draftVars, NEW s \in Sheets,
           papers[s] = NoPaper, papers'[s] # NoPaper, papers'[s].is = "draft"
    PROVE  \E h \in Clerks : \E paper :
               /\ step[h] = "create" /\ File(h, paper, "verify")
               /\ paper.slip = holds[h] /\ paper.rates = reread[h]
<1>1. ASSUME NEW h \in Clerks, NEW paper, NEW next, File(h, paper, next)
      PROVE  papers'[s] = paper
  <2>1. PICK t : papers' = [papers EXCEPT ![t] = paper]
    BY <1>1 DEF File
  <2>2. papers'[s] = IF s = t THEN paper ELSE papers[s]
    BY <2>1 DEF DraftInv
  <2>. QED  BY <2>2
<1>2. CASE \E c \in Slips, lines \in Baskets : Prepare(c, lines)
  <2>1. UNCHANGED papers
    BY <1>2 DEF Prepare, BuildQuotationProposal, BuildSalesOrderProposal,
                BuildPurchaseOrderProposal, BuildPurchaseProposal, BuildSalesProposal,
                Offer
  <2>. QED  BY <2>1
<1>3. ASSUME NEW h \in Clerks, Carry(h),
             ~(CreateQuotation(h) \/ CreateSalesOrder(h) \/ CreatePurchaseOrder(h)
               \/ CreateSale(h) \/ CreatePurchase(h)),
             ~(WriteSaleAdvance(h) \/ WritePurchaseAdvance(h))
      PROVE  FALSE
  <2>1. UNCHANGED papers
    BY <1>3 DEF Carry, ExecuteQuotation, ExecuteSalesOrder, ExecutePurchaseOrder,
                ExecuteSale, ExecutePurchase, Begin, RereadQuotation, RereadSalesOrder,
                RereadPurchaseOrder, RereadSale, RereadPurchase, Reread,
                VerifyQuotation, VerifySalesOrder, VerifyPurchaseOrder, VerifySale,
                VerifyPurchase, Answered, CheckAdvance, BreakOff
  <2>. QED  BY <2>1
<1>4. ASSUME NEW h \in Clerks, WriteSaleAdvance(h) \/ WritePurchaseAdvance(h)
      PROVE  FALSE
  <2>1. papers'[s] = AdvanceData(h)
    BY <1>1, <1>4 DEF WriteSaleAdvance, WritePurchaseAdvance, WriteAdvance
  <2>. QED  BY <2>1, DraftIs
<1>5. ASSUME NEW h \in Clerks,
             \/ CreateQuotation(h) \/ CreateSalesOrder(h) \/ CreatePurchaseOrder(h)
             \/ CreateSale(h) \/ CreatePurchase(h)
      PROVE  \E paper : /\ step[h] = "create" /\ File(h, paper, "verify")
                        /\ paper.slip = holds[h] /\ paper.rates = reread[h]
  <2>1. PICK paper : /\ step[h] = "create" /\ File(h, paper, "verify")
                     /\ \/ paper = Draft(h) \/ paper = PurchaseOrderData(h)
                        \/ paper = SaleData(h)
    BY <1>5 DEF CreateQuotation, CreateSalesOrder, CreatePurchaseOrder, CreateSale,
                CreatePurchase, QuotationData, SalesOrderData, PurchaseData
  <2>. QED  BY <2>1, DraftIs
<1>6. CASE UNCHANGED draftVars
  BY <1>6 DEF draftVars
<1>7. CASE \E l \in Lists, w \in Wares, p \in 0..TopPrice : SetPrice(l, w, p)
  BY <1>7 DEF SetPrice, PeopleChange
<1>8. CASE \E w \in Wares : SetUnit(w)
  BY <1>8 DEF SetUnit, PeopleChange
<1>. QED  BY <1>2, <1>3, <1>4, <1>5, <1>6, <1>7, <1>8 DEF DraftingNext

LEMMA LivePriceStep ==
    ASSUME DraftInv, [DraftingNext]_draftVars, NEW s \in Sheets,
           papers[s] = NoPaper, papers'[s] # NoPaper, papers'[s].is = "draft",
           s \notin crossed',
           NEW w \in DOMAIN slips[papers'[s].slip].lines
    PROVE  /\ \E l \in Lists : tariff[l][w] = papers'[s].rates[w]
           /\ trade \notin {"sale", "purchase"} =>
                  unit[w] = slips[papers'[s].slip].units[w]
<1>0. PICK h \in Clerks : \E paper :
          /\ step[h] = "create" /\ File(h, paper, "verify")
          /\ paper.slip = holds[h] /\ paper.rates = reread[h]
  BY OnlyCreateDrafts
<1>1. PICK paper : /\ step[h] = "create" /\ File(h, paper, "verify")
                   /\ paper.slip = holds[h] /\ paper.rates = reread[h]
  BY <1>0
<1>2. PICK t : /\ papers' = [papers EXCEPT ![t] = paper]
               /\ crossed' = IF fresh[h] THEN crossed ELSE crossed \cup {t}
  BY <1>1 DEF File
<1>3. s = t /\ papers'[s] = paper
  BY <1>2 DEF DraftInv
<1>4. fresh[h]
  BY <1>2, <1>3
<1>5. Live(trade, tariff, unit, slips[holds[h]]) /\ reread[h] = slips[holds[h]].rates
  BY <1>1, <1>4, ClerkCard
<1>. QED  BY <1>1, <1>3, <1>5 DEF Live

\* WrittenAtLivePrice (execute... of the five drafting skills): a document is written
\* in no step at which a price of it is in no row of the site, nor an order in a stock
\* unit that is not the ware's, unless that changed after the executor's reads began.
THEOREM WrittenAtLivePriceHolds == DraftingSpec => WrittenAtLivePrice
<1>1. DraftInv /\ [DraftingNext]_draftVars =>
        [\A s \in Sheets :
           /\ papers[s] = NoPaper /\ papers'[s] # NoPaper
           /\ papers'[s].is = "draft" /\ s \notin crossed'
           => LET slip == slips[papers'[s].slip] IN
              \A w \in DOMAIN slip.lines :
                 /\ \E l \in Lists : tariff[l][w] = papers'[s].rates[w]
                 /\ trade \notin {"sale", "purchase"} => unit[w] = slip.units[w]]_draftVars
  BY LivePriceStep
<1>. QED  BY <1>1, DraftInvHolds, PTL DEF DraftingSpec, WrittenAtLivePrice

-----------------------------------------------------------------------------
(* The skills together, as the run of MCShop composes them: a behaviour of *)
(* the composition is a behaviour of every skill, of which all but one     *)
(* stutter.                                                                *)

LEMMA ShopInitially ==
    ShopInit => GoodsInit /\ PaymentInit /\ DraftingInit /\ StockInit /\ CustomerInit
BY DEF ShopInit

\* A step of the composition is a step of the skill that runs.
LEMMA ShopGoodsStep == [ShopNext]_shopVars => [GoodsNext]_goodsVars
<1>1. UNCHANGED shopVars => UNCHANGED goodsVars
  BY DEF shopVars
<1>2. ShopNext => GoodsNext \/ UNCHANGED goodsVars
  BY Zenon DEF ShopNext, InGoods, InPayments, InMoney, InDrafting, InStock,
               InCustomers, In, GoodsNext, Build, Execute
<1>. QED  BY <1>1, <1>2

LEMMA ShopPaymentStep == [ShopNext]_shopVars => [PaymentNext]_payVars
<1>1. UNCHANGED shopVars => UNCHANGED payVars
  BY DEF shopVars
<1>2. ShopNext => PaymentNext \/ UNCHANGED payVars
  BY Zenon DEF ShopNext, InGoods, InPayments, InMoney, InDrafting, InStock,
               InCustomers, In, PaymentNext, ExecutePayment
<1>. QED  BY <1>1, <1>2

LEMMA ShopDraftingStep == [ShopNext]_shopVars => [DraftingNext]_draftVars
<1>1. UNCHANGED shopVars => UNCHANGED draftVars
  BY DEF shopVars
<1>2. ShopNext => DraftingNext \/ UNCHANGED draftVars
  BY Zenon DEF ShopNext, InGoods, InPayments, InMoney, InDrafting, InStock,
               InCustomers, In, DraftingNext, Prepare, Carry
<1>. QED  BY <1>1, <1>2

LEMMA ShopStockStep == [ShopNext]_shopVars => [StockNext]_stockVars
<1>1. UNCHANGED shopVars => UNCHANGED stockVars
  BY DEF shopVars
<1>2. ShopNext => StockNext \/ UNCHANGED stockVars
  BY Zenon DEF ShopNext, InGoods, InPayments, InMoney, InDrafting, InStock,
               InCustomers, In, StockNext
<1>. QED  BY <1>1, <1>2

LEMMA ShopCustomerStep == [ShopNext]_shopVars => [CustomerNext]_customerVars
<1>1. UNCHANGED shopVars => UNCHANGED customerVars
  BY DEF shopVars
<1>2. ShopNext => CustomerNext \/ UNCHANGED customerVars
  BY Zenon DEF ShopNext, InGoods, InPayments, InMoney, InDrafting, InStock,
               InCustomers, In, CustomerNext
<1>. QED  BY <1>1, <1>2

LEMMA ShopMoneyStep == [ShopNext]_shopVars =>
    part' = part /\ ((part = "money" /\ ResolveMoney) \/ UNCHANGED moneyVars)
<1>1. UNCHANGED shopVars => part' = part /\ UNCHANGED moneyVars
  BY DEF shopVars
<1>2. ShopNext => part' = part /\ ((part = "money" /\ ResolveMoney) \/ UNCHANGED moneyVars)
  BY Zenon DEF ShopNext, InGoods, InPayments, InMoney, InDrafting, InStock,
               InCustomers, In
<1>. QED  BY <1>1, <1>2

\* What the run of MCShop checks, it checks of the specifications of the skills: each
\* one is implemented by the composition, with every skill's variables mapped to
\* themselves.
THEOREM ShopImplementsItsSkills ==
    ShopSpec => /\ GoodsSpec /\ PaymentSpec /\ DraftingSpec
                /\ StockSpec /\ CustomerSpec
BY ShopInitially, ShopGoodsStep, ShopPaymentStep, ShopDraftingStep, ShopStockStep,
   ShopCustomerStep, PTL
   DEF ShopSpec, GoodsSpec, PaymentSpec, DraftingSpec, StockSpec, CustomerSpec

\* The money is resolved in one part only.
ShopMoneyInv ==
    IF part = "money" THEN MoneyInv
    ELSE plan = NoPlan
         /\ part \in {"goods", "payments", "drafting", "stock", "customers"}

LEMMA ShopMoneyInvHolds == ShopSpec => []ShopMoneyInv
<1>1. ShopInit => ShopMoneyInv
  BY DEF ShopInit, ShopMoneyInv, MoneyInit, MoneyInv, MoneyInSaidChannel, Planned, NoPlan
<1>2. ShopMoneyInv /\ [ShopNext]_shopVars => ShopMoneyInv'
  <2>1. ASSUME ShopMoneyInv, part' = part, UNCHANGED moneyVars PROVE ShopMoneyInv'
    BY <2>1 DEF ShopMoneyInv, moneyVars, MoneyInv, MoneyInSaidChannel, Planned
  <2>2. ASSUME ShopMoneyInv, part' = part, part = "money", ResolveMoney
        PROVE  ShopMoneyInv'
    BY <2>2, ResolveMoneyStep DEF ShopMoneyInv
  <2>. QED  BY <2>1, <2>2, ShopMoneyStep
<1>. QED  BY <1>1, <1>2, PTL DEF ShopSpec

\* Every variable of the running skill has its type in every state of the composition.
THEOREM ShopTypeOKHolds == ShopSpec => []ShopTypeOK
<1>1. (/\ ShopMoneyInv /\ GoodsTypeOK /\ PaymentTypeOK /\ DraftingTypeOK
       /\ StockTypeOK /\ CustomerTypeOK) => ShopTypeOK
  <2>. SUFFICES ASSUME ShopMoneyInv, GoodsTypeOK, PaymentTypeOK, DraftingTypeOK,
                       StockTypeOK, CustomerTypeOK
                PROVE  ShopTypeOK
    OBVIOUS
  <2>1. CASE part = "money"
    BY <2>1 DEF ShopTypeOK, ShopMoneyInv, MoneyInv
  <2>2. CASE part # "money"
    <3>1. part \in {"goods", "payments", "drafting", "stock", "customers"}
      BY <2>2 DEF ShopMoneyInv
    <3>. QED  BY <3>1 DEF ShopTypeOK
  <2>. QED  BY <2>1, <2>2
<1>. QED  BY <1>1, ShopMoneyInvHolds, ShopImplementsItsSkills, GoodsTypeOKHolds,
             PaymentTypeOKHolds, DraftingTypeOKHolds, StockTypeOKHolds,
             CustomerTypeOKHolds, PTL

\* Whichever skill writes, nothing is drawn, promised, drafted, issued or entered
\* beyond what was there and confirmed, and the money stays in its channel: all that
\* the run of MCShop checks, of any number of cards, handlers and documents.
THEOREM ShopKeepsItsWord ==
    ShopSpec => /\ [](NothingDrawnTwice /\ WrittenAsConfirmed /\ NoDebtPromisedTwice)
                /\ [](MoneyInSaidChannel /\ PricedAsShown /\ NothingDraftedTwice)
                /\ [](ShelfNotOverdrawn /\ OneRecordPerCustomer)
                /\ AdvanceAfterDebts /\ WrittenAtLivePrice
<1>1. ShopMoneyInv => MoneyInSaidChannel
  BY DEF ShopMoneyInv, MoneyInv, MoneyInSaidChannel, Planned, NoPlan
<1>2. ShopSpec => []MoneyInSaidChannel
  BY <1>1, ShopMoneyInvHolds, PTL
<1>. QED  BY <1>2, ShopImplementsItsSkills, NothingDrawnTwiceHolds,
             WrittenAsConfirmedHolds, NoDebtPromisedTwiceHolds, PricedAsShownHolds,
             NothingDraftedTwiceHolds, ShelfNotOverdrawnHolds,
             OneRecordPerCustomerHolds, AdvanceAfterDebtsHolds,
             WrittenAtLivePriceHolds, PTL
=============================================================================
