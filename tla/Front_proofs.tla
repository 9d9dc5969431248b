---------------------------- MODULE Front_proofs ----------------------------
(***************************************************************************)
(* What is proved of the parts that stand between a person and the skills: *)
(* the meter and the figures of the routes (Frontdoor), the party and the  *)
(* ticket of a card (Asking), the command id a card is sent under (Phone). *)
(* They share no variable; each section is about one of them, the last one *)
(* about the composition of MCFront, which implements them and the two     *)
(* modules that DshGateway_proofs and McpClient_proofs are about.          *)
(***************************************************************************)
EXTENDS MCFront, DshGateway_proofs, McpClient_proofs, FiniteSetTheorems,
        WellFoundedInduction, TLAPS

-----------------------------------------------------------------------------
(* The meter.                                                              *)

\* Of the charges D, those from t on, and those from t on before u.
From(D, t) == {x \in D : t <= x.at}
Within(D, t, u) == {x \in D : t <= x.at /\ x.at < u}

\* A bucket of limit L and windows of S ticks, at time now: w is its window and D
\* what was let through.  The charges of the window are at most its count, one
\* fewer if the first tick is left out; and the S - 1 ticks before the window
\* hold less than a limit of charges, because an older window opened before them.
Metered(D, w, now, L, S) ==
    /\ IsFiniteSet(D)
    /\ w \in [start : 0..now, count : 0..L]
    /\ \A x \in D : x.at \in 0..now /\ x.nth \in 1..Cardinality(D)
    /\ w.count = 0 => D = {}
    /\ w.count # 0 =>
          /\ \A x \in D : x.at < w.start + S
          /\ Cardinality(From(D, w.start)) <= w.count
          /\ Cardinality(From(D, w.start + 1)) < w.count
          /\ Cardinality(Within(D, w.start - S + 1, w.start)) < L
    /\ \A t \in Nat : Cardinality(Within(D, t, t + S)) < 2 * L

\* Parts of a finite set of charges are finite and counted.
LEMMA PartsCounted ==
    ASSUME NEW D, IsFiniteSet(D), NEW t, NEW u
    PROVE  /\ IsFiniteSet(From(D, t)) /\ Cardinality(From(D, t)) \in Nat
           /\ IsFiniteSet(Within(D, t, u)) /\ Cardinality(Within(D, t, u)) \in Nat
           /\ Cardinality(D) \in Nat
<1>1. From(D, t) \subseteq D /\ Within(D, t, u) \subseteq D
  BY DEF From, Within
<1>2. IsFiniteSet(From(D, t)) /\ IsFiniteSet(Within(D, t, u))
  BY <1>1, FS_Subset
<1>. QED  BY <1>2, FS_CardinalityType

\* One more charge is at most one more in every part.
LEMMA OneMore ==
    ASSUME NEW D, IsFiniteSet(D), NEW x, NEW t, NEW u
    PROVE  /\ Cardinality(From(D \cup {x}, t)) <= Cardinality(From(D, t)) + 1
           /\ IsFiniteSet(D \cup {x})
           /\ Cardinality(D \cup {x}) >= Cardinality(D)
<1>1. From(D \cup {x}, t) \subseteq From(D, t) \cup {x}
  BY DEF From
<1>2. IsFiniteSet(From(D, t)) /\ Cardinality(From(D, t)) \in Nat
  BY PartsCounted
<1>3. /\ IsFiniteSet(From(D, t) \cup {x})
      /\ Cardinality(From(D, t) \cup {x}) <= Cardinality(From(D, t)) + 1
  <2>1. /\ IsFiniteSet(From(D, t) \cup {x})
        /\ Cardinality(From(D, t) \cup {x}) \in
              {Cardinality(From(D, t)), Cardinality(From(D, t)) + 1}
    BY <1>2, FS_AddElement
  <2>. QED  BY <1>2, <2>1
<1>4. /\ Cardinality(From(D \cup {x}, t)) <= Cardinality(From(D, t) \cup {x})
      /\ Cardinality(From(D \cup {x}, t)) \in Nat
      /\ Cardinality(From(D, t) \cup {x}) \in Nat
  BY <1>1, <1>3, FS_Subset, FS_CardinalityType
<1>5. IsFiniteSet(D \cup {x}) /\ Cardinality(D \cup {x}) >= Cardinality(D)
  <2>1. /\ IsFiniteSet(D \cup {x})
        /\ Cardinality(D \cup {x}) \in {Cardinality(D), Cardinality(D) + 1}
    BY FS_AddElement
  <2>2. Cardinality(D) \in Nat
    BY FS_CardinalityType
  <2>. QED  BY <2>1, <2>2
<1>. QED  BY <1>2, <1>3, <1>4, <1>5

\* What the window and the ticks before it hold bounds every stretch that
\* reaches the present.
LEMMA StretchBound ==
    ASSUME NEW D, IsFiniteSet(D), NEW now \in Nat, NEW s \in 0..now,
           NEW L \in Nat \ {0}, NEW S \in Nat \ {0}, NEW t \in Nat, now < t + S,
           \A x \in D : x.at \in Nat,
           Cardinality(From(D, s)) <= L,
           Cardinality(Within(D, s - S + 1, s)) < L
    PROVE  Cardinality(Within(D, t, t + S)) < 2 * L
<1>. DEFINE A == Within(D, s - S + 1, s)
            B == From(D, s)
            C == Within(D, t, t + S)
<1>1. C \subseteq A \cup B
  BY DEF Within, From
<1>2. /\ IsFiniteSet(A) /\ IsFiniteSet(B) /\ IsFiniteSet(C)
      /\ Cardinality(A) \in Nat /\ Cardinality(B) \in Nat /\ Cardinality(C) \in Nat
  BY PartsCounted
<1>. HIDE DEF A, B, C
<1>3. /\ IsFiniteSet(A \cup B)
      /\ Cardinality(A \cup B) = Cardinality(A) + Cardinality(B) - Cardinality(A \cap B)
  BY <1>2, FS_Union
<1>4. Cardinality(A \cap B) \in Nat
  BY <1>2, FS_Intersection, FS_CardinalityType
<1>5. Cardinality(C) <= Cardinality(A \cup B)
  BY <1>1, <1>3, FS_Subset
<1>6. Cardinality(A) < L /\ Cardinality(B) <= L
  BY DEF A, B
<1>7. Cardinality(C) < 2 * L
  BY <1>2, <1>3, <1>4, <1>5, <1>6
<1>. QED  BY <1>7 DEF C

\* RateLimiter._hit: a charge that the meter admits keeps the bucket metered,
\* whether or not the request is let through afterwards.
LEMMA ChargeMetered ==
    ASSUME NEW D, NEW w, NEW now \in Nat, NEW L \in Nat \ {0}, NEW S \in Nat \ {0},
           Metered(D, w, now, L, S),
           NEW lapsed \in BOOLEAN, lapsed <=> (w.count = 0 \/ now - w.start >= S),
           lapsed \/ w.count < L,
           NEW v, v = IF lapsed THEN [start |-> now, count |-> 1]
                                ELSE [start |-> w.start, count |-> w.count + 1],
           NEW x, x = [nth |-> Cardinality(D) + 1, at |-> now],
           NEW E, E \in {D, D \cup {x}}
    PROVE  Metered(E, v, now, L, S)
<1>1. /\ IsFiniteSet(D) /\ w.start \in 0..now /\ w.count \in 0..L
      /\ \A y \in D : y.at \in 0..now /\ y.nth \in 1..Cardinality(D)
      /\ w.count = 0 => D = {}
      /\ w.count # 0 =>
          /\ \A y \in D : y.at < w.start + S
          /\ Cardinality(From(D, w.start)) <= w.count
          /\ Cardinality(From(D, w.start + 1)) < w.count
          /\ Cardinality(Within(D, w.start - S + 1, w.start)) < L
      /\ \A t \in Nat : Cardinality(Within(D, t, t + S)) < 2 * L
  BY DEF Metered
<1>2. x.at = now /\ x.nth = Cardinality(D) + 1
  OBVIOUS
<1>3. /\ IsFiniteSet(E) /\ IsFiniteSet(D \cup {x})
      /\ D \subseteq E /\ E \subseteq D \cup {x}
      /\ Cardinality(D) \in Nat /\ Cardinality(E) \in Nat
      /\ Cardinality(D) <= Cardinality(E)
      /\ \A t : /\ Cardinality(From(E, t)) <= Cardinality(From(D, t)) + 1
                /\ Cardinality(From(E, t)) \in Nat /\ Cardinality(From(D, t)) \in Nat
  <2>1. IsFiniteSet(D \cup {x}) /\ Cardinality(D \cup {x}) >= Cardinality(D)
    BY <1>1, OneMore
  <2>2. IsFiniteSet(E)
    BY <1>1, <2>1
  <2>3. Cardinality(D) \in Nat /\ Cardinality(E) \in Nat
    BY <1>1, <2>2, FS_CardinalityType
  <2>4. ASSUME NEW t
        PROVE  /\ Cardinality(From(E, t)) <= Cardinality(From(D, t)) + 1
               /\ Cardinality(From(E, t)) \in Nat /\ Cardinality(From(D, t)) \in Nat
    <3>1. Cardinality(From(E, t)) \in Nat /\ Cardinality(From(D, t)) \in Nat
      BY <1>1, <2>2, PartsCounted
    <3>2. Cardinality(From(D \cup {x}, t)) <= Cardinality(From(D, t)) + 1
      BY <1>1, OneMore
    <3>3. CASE E = D
      <4>1. Cardinality(From(D, t)) <= Cardinality(From(D, t)) + 1
        BY <3>1
      <4>. QED  BY <3>1, <3>3, <4>1
    <3>4. CASE E = D \cup {x}
      BY <3>1, <3>2, <3>4
    <3>. QED  BY <3>3, <3>4
  <2>5. /\ D \subseteq E /\ E \subseteq D \cup {x}
        /\ Cardinality(D) <= Cardinality(E)
    <3>1. CASE E = D
      BY <2>3, <3>1
    <3>2. CASE E = D \cup {x}
      BY <2>1, <3>2
    <3>. QED  BY <3>1, <3>2
  <2>. QED  BY <2>1, <2>2, <2>3, <2>4, <2>5
<1>4. \A y \in E : y.at \in 0..now /\ y.nth \in 1..Cardinality(E)
  <2>1. CASE E = D
    BY <1>1, <2>1
  <2>2. CASE E = D \cup {x} /\ x \notin D
    <3>1. Cardinality(E) = Cardinality(D) + 1
      BY <1>1, <2>2, FS_AddElement
    <3>2. ASSUME NEW y \in D PROVE y.at \in 0..now /\ y.nth \in 1..Cardinality(E)
      BY <1>1, <1>3, <3>1, <3>2
    <3>3. x.at \in 0..now /\ x.nth \in 1..Cardinality(E)
      BY <1>2, <1>3, <3>1
    <3>. QED  BY <2>2, <3>2, <3>3
  <2>3. x \notin D
    BY <1>1, <1>2, <1>3
  <2>. QED  BY <2>1, <2>2, <2>3
<1>5. /\ v \in [start : 0..now, count : 1..L]
      /\ \A y \in E : y.at < v.start + S
      /\ Cardinality(From(E, v.start)) <= v.count
      /\ Cardinality(From(E, v.start + 1)) < v.count
      /\ Cardinality(Within(E, v.start - S + 1, v.start)) < L
  <2>1. CASE lapsed
    <3>1. v.start = now /\ v.count = 1 /\ v \in [start : 0..now, count : 1..L]
      BY <2>1
    <3>2. \A y \in D : y.at < now
      BY <1>1, <2>1
    <3>3. From(E, now) \subseteq {x}
      BY <1>1, <1>3, <3>2 DEF From
    <3>4. From(E, now + 1) = {}
      BY <1>2, <1>4 DEF From
    <3>5. Cardinality(From(E, now)) <= 1 /\ Cardinality(From(E, now + 1)) = 0
      <4>1. Cardinality(From(E, now + 1)) = 0
        BY <3>4, FS_EmptySet
      <4>2. IsFiniteSet({x}) /\ Cardinality({x}) = 1
        BY FS_Singleton
      <4>3. Cardinality(From(E, now)) <= Cardinality({x})
        BY <3>3, <4>2, FS_Subset
      <4>. QED  BY <4>1, <4>2, <4>3
    <3>6. Cardinality(Within(E, now - S + 1, now)) < L
      <4>1. CASE w.count = 0
        <5>1. Within(E, now - S + 1, now) = {}
          BY <1>1, <1>2, <1>3, <4>1 DEF Within
        <5>. QED  BY <5>1, FS_EmptySet
      <4>2. CASE w.count # 0
        <5>1. Within(E, now - S + 1, now) \subseteq From(D, w.start + 1)
          BY <1>1, <1>2, <1>3, <2>1, <4>2 DEF Within, From
        <5>2. IsFiniteSet(From(D, w.start + 1)) /\ Cardinality(From(D, w.start + 1)) \in Nat
          BY <1>1, PartsCounted
        <5>3. /\ Cardinality(Within(E, now - S + 1, now)) <= Cardinality(From(D, w.start + 1))
              /\ Cardinality(Within(E, now - S + 1, now)) \in Nat
          BY <1>3, <5>1, <5>2, FS_Subset, PartsCounted
        <5>. QED  BY <1>1, <4>2, <5>2, <5>3
      <4>. QED  BY <4>1, <4>2
    <3>7. \A y \in E : y.at < now + S
      BY <1>4
    <3>. QED  BY <3>1, <3>5, <3>6, <3>7
  <2>2. CASE ~lapsed
    <3>1. /\ v.start = w.start /\ v.count = w.count + 1
          /\ v \in [start : 0..now, count : 1..L]
      BY <1>1, <2>2
    <3>2. now < w.start + S /\ w.count # 0
      BY <1>1, <2>2
    <3>3. Within(E, w.start - S + 1, w.start) = Within(D, w.start - S + 1, w.start)
      BY <1>1, <1>2, <1>3 DEF Within
    <3>4. \A y \in E : y.at < w.start + S
      BY <1>4, <3>2, <1>1
    <3>5. /\ Cardinality(From(E, w.start)) <= w.count + 1
          /\ Cardinality(From(E, w.start + 1)) < w.count + 1
      BY <1>1, <1>3, <3>2
    <3>. QED  BY <1>1, <3>1, <3>2, <3>3, <3>4, <3>5
  <2>. QED  BY <2>1, <2>2
<1>6. ASSUME NEW t \in Nat PROVE Cardinality(Within(E, t, t + S)) < 2 * L
  <2>1. CASE now < t + S
    <3>1. Cardinality(From(E, v.start)) <= L /\ v.start \in 0..now
      BY <1>3, <1>5
    <3>2. \A y \in E : y.at \in Nat
      BY <1>4
    <3>. QED  BY <1>3, <1>5, <2>1, <3>1, <3>2, StretchBound
  <2>2. CASE ~(now < t + S)
    <3>1. Within(E, t, t + S) = Within(D, t, t + S)
      BY <1>2, <1>3, <2>2 DEF Within
    <3>. QED  BY <1>1, <3>1
  <2>. QED  BY <2>1, <2>2
<1>7. v.count # 0 /\ v \in [start : 0..now, count : 0..L]
  BY <1>5
<1>. QED  BY <1>3, <1>4, <1>5, <1>6, <1>7 DEF Metered

LEMMA TimePasses ==
    ASSUME NEW D, NEW w, NEW now \in Nat, NEW L \in Nat \ {0}, NEW S \in Nat \ {0},
           Metered(D, w, now, L, S)
    PROVE  Metered(D, w, now + 1, L, S)
<1>1. w.start \in 0..now /\ w \in [start : 0..now + 1, count : 0..L]
  BY DEF Metered
<1>2. \A x \in D : x.at \in 0..now + 1
  BY DEF Metered
<1>. QED  BY <1>1, <1>2 DEF Metered

MeterInv ==
    /\ tick \in Nat
    /\ \A b \in Buckets : Metered(done[b], windows[b], tick, LimitOf[b], SpanOf[b])

\* Every step leaves the meter alone, lets time pass, or charges open buckets.
LEMMA DoorCharges ==
    ASSUME [FrontdoorNext]_doorVars
    PROVE  \/ /\ UNCHANGED <<windows, done>>
              /\ tick' = tick \/ (tick < LastTick /\ tick' = tick + 1)
           \/ /\ UNCHANGED tick
              /\ \E B \in SUBSET Buckets : /\ \A b \in B : Open(b)
                                           /\ Charge(B)
                                           /\ LetThrough(B) \/ UNCHANGED done
<1>. DEFINE Calm == /\ UNCHANGED <<windows, done>>
                    /\ tick' = tick \/ (tick < LastTick /\ tick' = tick + 1)
            Charged1 == /\ UNCHANGED tick
                        /\ \E B \in SUBSET Buckets : /\ \A b \in B : Open(b)
                                                     /\ Charge(B)
                                                     /\ LetThrough(B) \/ UNCHANGED done
<1>1. ASSUME NEW c, NEW d, NEW wanted, NEW claim, NEW good, NEW stage,
             Arrive(c, d, wanted, claim, good, stage)
      PROVE  Charged1
  <2>1. {"read"} \in SUBSET Buckets
    BY DEF Buckets
  <2>. QED  BY <1>1, <2>1 DEF Arrive, Still
<1>2. ASSUME NEW c, NEW claim, Execute(c, claim)
      PROVE  Charged1
  <2>1. CASE Open("capability")
    <3>. DEFINE B == {"write_execute", "capability"}
    <3>1. Charge(B) /\ (LetThrough(B) \/ UNCHANGED done)
      <4>1. {"write_execute"} \cup {"capability"} = B
        OBVIOUS
      <4>. QED  BY <1>2, <2>1, <4>1 DEF Execute
    <3>2. B \in SUBSET Buckets /\ (\A b \in B : Open(b)) /\ UNCHANGED tick
      BY <1>2, <2>1 DEF Execute, Buckets, Still
    <3>. QED  BY <3>1, <3>2
  <2>2. CASE ~Open("capability")
    <3>1. Charge({"write_execute"}) /\ UNCHANGED done
      <4>1. {"write_execute"} \cup {} = {"write_execute"}
        OBVIOUS
      <4>. QED  BY <1>2, <2>2, <4>1 DEF Execute
    <3>2. {"write_execute"} \in SUBSET Buckets /\ Open("write_execute") /\ UNCHANGED tick
      BY <1>2 DEF Execute, Buckets, Still
    <3>. QED  BY <3>1, <3>2
  <2>. QED  BY <2>1, <2>2
<1>3. ASSUME NEW c, NEW metered, AnswerCard(c, metered)
      PROVE  Calm \/ Charged1
  <2>1. {"write_proposal"} \in SUBSET Buckets
    BY DEF Buckets
  <2>. QED  BY <1>3, <2>1 DEF AnswerCard, Still
<1>4. ASSUME NEW c, Move(c) PROVE Calm
  BY <1>4 DEF Move, Still
<1>5. ASSUME UNCHANGED doorVars PROVE Calm
  BY <1>5 DEF doorVars
<1>6. ASSUME FrontdoorNext
      PROVE  \/ \E c, d, wanted, claim, good, stage : Arrive(c, d, wanted, claim, good, stage)
             \/ \E c, claim : Execute(c, claim)
             \/ \E c, metered : AnswerCard(c, metered)
             \/ \E c : Move(c)
             \/ Calm
  <2>. DEFINE Arrives == \E c, d, wanted, claim, good, stage :
                            Arrive(c, d, wanted, claim, good, stage)
              Cards == \E c, metered : AnswerCard(c, metered)
              Moves == \E c : Move(c)
  <2>1. ASSUME NEW c, NEW claim, NEW good,
               OpenList(c, claim, good) \/ OpenSlots(c, claim, good)
                  \/ OpenEinvoice(c, claim, good)
        PROVE  Arrives
    BY <2>1 DEF OpenList, OpenSlots, OpenEinvoice
  <2>2. ASSUME NEW c, NEW d, NEW claim,
               OpenAccounts(c, claim) \/ OpenSummary(c, claim) \/ OpenDrill(c, d, claim)
        PROVE  Arrives
    BY <2>2 DEF OpenAccounts, OpenSummary, OpenDrill
  <2>3. ASSUME NEW c, NEW good,
               OpenOcr(c, good) \/ OpenAsk(c) \/ OpenDsh(c) \/ OpenPropose(c)
        PROVE  Arrives
    BY <2>3 DEF OpenOcr, OpenAsk, OpenDsh, OpenPropose
  <2>4. ASSUME NEW c, NEW metered,
               AnswerAsk(c, metered) \/ AnswerPropose(c, metered) \/ AnswerDsh(c, metered)
        PROVE  Cards
    BY <2>4 DEF AnswerAsk, AnswerPropose, AnswerDsh
  <2>5. ASSUME NEW c,
               \/ GiveUp(c) \/ ClientOpens(c) \/ ResolveReadCompany(c) \/ ReadScreen(c)
               \/ AnswerList(c) \/ AnswerAccounts(c) \/ AnswerReading(c)
               \/ AnswerDaySummary(c) \/ AskDeadline(c) \/ DshAnswers(c)
               \/ DshHandsOver(c)
        PROVE  Move(c)
    BY <2>5 DEF GiveUp, ClientOpens, ResolveReadCompany, ReadScreen, AnswerList,
       AnswerAccounts, AnswerReading, AnswerDaySummary, AskDeadline, DshAnswers,
       DshHandsOver, Gone, Show
  <2>6. ASSUME NEW c,
               AnswerDay(c) \/ AnswerReceipts(c) \/ AnswerDebts(c) \/ AnswerShelf(c)
        PROVE  Move(c)
    BY <2>6 DEF AnswerDay, AnswerReceipts, AnswerDebts, AnswerShelf, AnswerDrill, Show
  <2>7. ASSUME NEW c, NEW b, SummaryBlock(c, b) \/ SummaryBlockFails(c, b)
        PROVE  Move(c)
    BY <2>7 DEF SummaryBlock, SummaryBlockFails
  <2>8. ASSUME NEW d, EnterDoc(d) \/ SetDefault(d) \/ Throw \/ Tick
        PROVE  Calm
    BY <2>8 DEF EnterDoc, SetDefault, Throw, Tick
  <2>. HIDE DEF Arrives, Cards, Moves, Calm
  <2>9. ASSUME NEW c, Move(c) PROVE Moves
    BY <2>9 DEF Moves
  <2>10. Arrives \/ (\E c, claim : Execute(c, claim)) \/ Cards \/ Moves \/ Calm
    BY <1>6, <2>1, <2>2, <2>3, <2>4, <2>5, <2>6, <2>7, <2>8, <2>9 DEF FrontdoorNext
  <2>. QED  BY <2>10 DEF Arrives, Cards, Moves
<1>. QED  BY <1>1, <1>2, <1>3, <1>4, <1>5, <1>6

LEMMA MeterInductive ==
    ASSUME MeterInv, [FrontdoorNext]_doorVars
    PROVE  MeterInv'
<1>0. \A b \in Buckets : LimitOf[b] \in Nat \ {0} /\ SpanOf[b] \in Nat \ {0}
  BY FrontdoorAssumption DEF FrontdoorAssumption
<1>1. CASE UNCHANGED <<windows, done>> /\ tick' \in {tick, tick + 1}
  <2>1. ASSUME NEW b \in Buckets
        PROVE  Metered(done[b], windows[b], tick', LimitOf[b], SpanOf[b])
    BY <1>0, <1>1, TimePasses DEF MeterInv
  <2>. QED  BY <1>1, <2>1 DEF MeterInv
<1>2. ASSUME UNCHANGED tick, NEW B \in SUBSET Buckets, \A b \in B : Open(b),
             Charge(B), LetThrough(B) \/ UNCHANGED done
      PROVE  MeterInv'
  <2>1. ASSUME NEW b \in Buckets
        PROVE  Metered(done'[b], windows'[b], tick, LimitOf[b], SpanOf[b])
    <3>1. Metered(done[b], windows[b], tick, LimitOf[b], SpanOf[b]) /\ tick \in Nat
      BY DEF MeterInv
    <3>2. CASE b \notin B
      BY <1>2, <3>1, <3>2 DEF Charge, LetThrough
    <3>3. CASE b \in B
      <4>1. windows[b] \in [start : 0..tick, count : 0..LimitOf[b]]
        BY <3>1 DEF Metered
      <4>. PICK w : w = windows[b]
        OBVIOUS
      <4>. PICK lapsed \in BOOLEAN :
                  lapsed <=> (w.count = 0 \/ tick - w.start >= SpanOf[b])
        OBVIOUS
      <4>. PICK x : x = [nth |-> Cardinality(done[b]) + 1, at |-> tick]
        OBVIOUS
      <4>2. lapsed <=> Lapsed(w, b)
        BY <1>0, <3>1, <4>1 DEF Lapsed
      <4>3. lapsed \/ w.count < LimitOf[b]
        BY <1>2, <3>3, <4>2 DEF Open, Admits
      <4>4. windows'[b] = IF lapsed THEN [start |-> tick, count |-> 1]
                                    ELSE [start |-> w.start, count |-> w.count + 1]
        BY <1>2, <3>3, <4>1, <4>2 DEF Charge, Charged
      <4>5. done'[b] \in {done[b], done[b] \cup {x}}
        BY <1>2, <3>3 DEF LetThrough
      <4>6. PICK v : v = windows'[b]
        OBVIOUS
      <4>7. PICK E : E = done'[b]
        OBVIOUS
      <4>8. Metered(done[b], w, tick, LimitOf[b], SpanOf[b])
        BY <3>1
      <4>9. PICK L \in Nat \ {0}, S \in Nat \ {0}, now \in Nat :
               L = LimitOf[b] /\ S = SpanOf[b] /\ now = tick
        BY <1>0, <3>1
      <4>10. Metered(E, v, now, L, S)
        BY <4>3, <4>4, <4>5, <4>6, <4>7, <4>8, <4>9, ChargeMetered
      <4>. QED  BY <4>6, <4>7, <4>9, <4>10
    <3>. QED  BY <3>2, <3>3
  <2>. QED  BY <1>2, <2>1 DEF MeterInv
<1>. QED  BY <1>1, <1>2, DoorCharges

\* Nothing has been let through yet.
LEMMA MeterInitially == FrontdoorInit => MeterInv
<1>. SUFFICES ASSUME FrontdoorInit, NEW b \in Buckets
              PROVE  tick \in Nat /\ Metered(done[b], windows[b], tick, LimitOf[b], SpanOf[b])
  BY FrontdoorAssumption DEF MeterInv, FrontdoorInit
<1>0. LimitOf[b] \in Nat \ {0} /\ SpanOf[b] \in Nat \ {0}
  BY FrontdoorAssumption DEF FrontdoorAssumption
<1>1. tick = 0 /\ done[b] = {} /\ windows[b] = [start |-> 0, count |-> 0]
  BY DEF FrontdoorInit, NoWindow
<1>2. \A t, u : Within({}, t, u) = {}
  BY DEF Within
<1>3. IsFiniteSet({}) /\ Cardinality({}) = 0
  BY FS_EmptySet
<1>4. Metered({}, [start |-> 0, count |-> 0], 0, LimitOf[b], SpanOf[b])
  BY <1>0, <1>2, <1>3 DEF Metered
<1>. QED  BY <1>1, <1>4

\* In any stretch as long as a window, fewer than twice the limit of a bucket is let
\* through: for any limits and spans, and whichever doors share the bucket.
THEOREM NeverTwiceTheLimitHolds == FrontdoorSpec => []NeverTwiceTheLimit
<1>1. FrontdoorInit => MeterInv
  BY MeterInitially
<1>2. MeterInv /\ [FrontdoorNext]_doorVars => MeterInv'
  BY MeterInductive
<1>3. MeterInv => NeverTwiceTheLimit
  <2>. SUFFICES ASSUME MeterInv, NEW b \in Buckets, NEW t \in 0..LastTick
                PROVE  Cardinality(Within(done[b], t, t + SpanOf[b])) < 2 * LimitOf[b]
    BY DEF NeverTwiceTheLimit, Within
  <2>1. t \in Nat
    BY FrontdoorAssumption DEF FrontdoorAssumption
  <2>. QED  BY <2>1 DEF MeterInv, Metered
<1>. QED  BY <1>1, <1>2, <1>3, PTL DEF FrontdoorSpec

-----------------------------------------------------------------------------
(* The figures.                                                            *)

DoorStages == {"away", "client", "company", "read", "balance", "provider", "answer", "gate"}
Call == [stage : DoorStages, door : Doors, claim : Firms \cup {Nil}, firm : Firms \cup {Nil},
         rows : [Blocks -> SUBSET Docs], whole : [Blocks -> SUBSET Docs],
         failed : SUBSET Blocks, read : SUBSET Blocks]
Principal == [mode : {"single", "multi"}, firm : Firms \cup {Nil}, firms : SUBSET Firms,
              pin : Firms \cup {Nil}, may : BOOLEAN, readOnly : BOOLEAN]

\* A company the account may be shown.
Scoped(firm) ==
    /\ Pinned # Nil => firm = Pinned
    /\ who.firms # {} => firm \in who.firms

RowsOwn(k) ==
    \A b \in Blocks : /\ k.whole[b] \subseteq k.rows[b]
                      /\ \A d \in k.rows[b] : FirmOf[d] \in {k.firm, Nil}

\* A request in progress: the company it settled on is one the account may be
\* shown; it reads only when it has one, and then the client claimed no other.
CallOK(k) ==
    /\ k.door \in Required /\ k.firm # Nil => Scoped(k.firm)
    /\ k.stage \in {"client", "company"} => k.rows = Away.rows /\ k.whole = Away.whole
    /\ k.stage \in {"read", "balance"} /\ k.door \in OfCompany
          => k.firm # Nil /\ k.claim \in {Nil, k.firm}
    /\ k.stage = "read" /\ k.door = "summary" => RowsOwn(k)

BooksInv ==
    /\ who \in Principal
    /\ default \in Firms \cup {Nil}
    /\ site \subseteq Docs /\ IsFiniteSet(site)
    /\ calls \in [Callers -> Call]
    /\ \A c \in Callers : CallOK(calls[c])
    /\ OwnBooksWhole

\* A capped list is part of the list.
LEMMA CapPart ==
    ASSUME NEW S, IsFiniteSet(S)
    PROVE  Cap(S) \subseteq S
<1>1. CASE Cardinality(S) <= ScreenCap
  BY <1>1 DEF Cap
<1>2. CASE ~(Cardinality(S) <= ScreenCap)
  <2>1. Cardinality(S) \in Nat /\ ScreenCap \in Nat
    BY FS_CardinalityType, FrontdoorAssumption DEF FrontdoorAssumption
  <2>2. PICK f \in Bijection(1..Cardinality(S), S) : TRUE
    BY FS_CardinalityType DEF ExistsBijection
  <2>. DEFINE T == {f[i] : i \in 1..ScreenCap}
              g == [i \in 1..ScreenCap |-> f[i]]
  <2>3. 1..ScreenCap \subseteq 1..Cardinality(S)
    BY <1>2, <2>1
  <2>4. f \in [1..Cardinality(S) -> S]
        /\ \A i, j \in 1..Cardinality(S) : f[i] = f[j] => i = j
    BY <2>2 DEF Bijection, Injection, IsInjective
  <2>5. T \in SUBSET S
    BY <2>3, <2>4
  <2>6. g \in Bijection(1..ScreenCap, T)
    <3>1. g \in [1..ScreenCap -> T] /\ \A t \in T : \E i \in 1..ScreenCap : g[i] = t
      OBVIOUS
    <3>2. \A i, j \in 1..ScreenCap : g[i] = g[j] => i = j
      BY <2>3, <2>4
    <3>. HIDE DEF g, T
    <3>. QED  BY <3>1, <3>2 DEF Bijection, Injection, Surjection, IsInjective
  <2>7. IsFiniteSet(1..ScreenCap) /\ Cardinality(1..ScreenCap) = ScreenCap
    BY <2>1, FS_Interval
  <2>8. Cardinality(T) = ScreenCap
    BY <2>6, <2>7, FS_Bijection DEF ExistsBijection
  <2>. QED  BY <1>2, <2>5, <2>8 DEF Cap
<1>. QED  BY <1>1, <1>2

\* What a step of one request must establish.
LEMMA CallStep ==
    ASSUME BooksInv, NEW c \in Callers, NEW new \in Call, CallOK(new),
           calls' = [calls EXCEPT ![c] = new], UNCHANGED <<who, default, site>>,
           OwnBooksWhole'
    PROVE  BooksInv'
<1>1. calls' \in [Callers -> Call]
  BY DEF BooksInv
<1>2. ASSUME NEW k \in Callers PROVE CallOK(calls[k])'
  <2>1. CallOK(calls'[k])
    BY DEF BooksInv
  <2>. QED  BY <2>1 DEF CallOK, Scoped, Pinned, RowsOwn
<1>. QED  BY <1>1, <1>2 DEF BooksInv

LEMMA AwayOK == Away \in Call /\ CallOK(Away) /\ Away.rows = [b \in Blocks |-> {}]
                  /\ Away.whole = [b \in Blocks |-> {}]
BY DEF Away, Call, CallOK, Doors, DoorStages, Required, OfCompany, Answering

LEMMA NothingShown == ASSUME shown' = Nothing PROVE OwnBooksWhole'
BY DEF OwnBooksWhole

\* A request ends, and shows nothing.
LEMMA LeaveStep ==
    ASSUME BooksInv, NEW c \in Callers, Leave(c), UNCHANGED <<who, default, site>>,
           OwnBooksWhole'
    PROVE  BooksInv'
BY AwayOK, CallStep DEF Leave

\* authorize() with the company the request was told to look at.
LEMMA SettledScoped ==
    ASSUME who \in Principal, NEW d \in Required, NEW wanted, ScopeAllows(d, wanted),
           Settles(d, wanted) # Nil
    PROVE  Scoped(Settles(d, wanted))
BY DEF ScopeAllows, Settles, Scoped

LEMMA ArriveStep ==
    ASSUME BooksInv, NEW c \in Callers, NEW d \in Doors, NEW wanted \in Firms \cup {Nil},
           NEW claim \in Firms \cup {Nil}, NEW good \in BOOLEAN,
           NEW stage \in {"client", "provider", "answer", "gate"},
           Arrive(c, d, wanted, claim, good, stage)
    PROVE  BooksInv'
<1>1. UNCHANGED <<who, default, site>> /\ OwnBooksWhole'
  BY NothingShown DEF Arrive, Still
<1>2. CASE UNCHANGED calls
  <2>1. calls' = [calls EXCEPT ![c] = calls[c]] /\ calls[c] \in Call /\ CallOK(calls[c])
    BY <1>2 DEF BooksInv
  <2>. QED  BY <1>1, <2>1, CallStep
<1>3. CASE Authorized(d, wanted) /\ Begins(c, d, claim, Settles(d, wanted), stage)
  <2>. DEFINE f == Settles(d, wanted)
              new == [Away EXCEPT !.stage = stage, !.door = d, !.claim = claim, !.firm = f]
  <2>1. calls' = [calls EXCEPT ![c] = new]
    BY <1>3 DEF Begins
  <2>2. f \in Firms \cup {Nil}
    BY DEF BooksInv, Principal, Settles, Pinned
  <2>3. d \in Required /\ f # Nil => Scoped(f)
    BY <1>3, SettledScoped DEF Authorized, BooksInv
  <2>. HIDE DEF f
  <2>4. /\ new.stage = stage /\ new.door = d /\ new.claim = claim /\ new.firm = f
        /\ new.rows = Away.rows /\ new.whole = Away.whole /\ new \in Call
    BY <2>2, AwayOK DEF Call, DoorStages
  <2>. HIDE DEF new
  <2>5. CallOK(new)
    BY <2>3, <2>4 DEF CallOK
  <2>. QED  BY <1>1, <2>1, <2>4, <2>5, CallStep
<1>. QED  BY <1>2, <1>3 DEF Arrive

\* POST /execute keeps nothing between its two charges; a stutter keeps everything.
LEMMA CallsKept ==
    ASSUME BooksInv, UNCHANGED <<calls, default>>, who' \in Principal,
           who'.firm = who.firm, who'.firms = who.firms, who'.pin = who.pin,
           site' \subseteq Docs, IsFiniteSet(site'), OwnBooksWhole'
    PROVE  BooksInv'
<1>1. ASSUME NEW k \in Callers PROVE CallOK(calls[k])'
  <2>1. CallOK(calls[k]) /\ calls'[k] = calls[k]
    BY DEF BooksInv
  <2>. QED  BY <2>1 DEF CallOK, Scoped, Pinned, RowsOwn
<1>. QED  BY <1>1 DEF BooksInv

\* A route shows a figure of the company its request was settled on.
LEMMA ShowStep ==
    ASSUME BooksInv, NEW c \in Callers, NEW rows, NEW whole, NEW failed,
           calls[c].stage \in {"read", "balance"}, calls[c].door \in OfCompany,
           Show(c, rows, whole, failed),
           calls[c].door \in {"summary", "day", "receipts", "debts"} =>
              \A b \in Blocks \ failed :
                 /\ whole[b] \subseteq rows[b]
                 /\ \A d \in rows[b] : FirmOf[d] \in {calls[c].firm, Nil}
    PROVE  BooksInv'
<1>1. UNCHANGED <<who, default, site>> /\ Leave(c)
  BY DEF Show, Move, Still
<1>2. CallOK(calls[c])
  BY DEF BooksInv
<1>3. /\ calls[c].firm # Nil /\ calls[c].claim \in {Nil, calls[c].firm}
      /\ calls[c].door \in Required => Scoped(calls[c].firm)
  BY <1>2 DEF CallOK
<1>4. /\ shown'.door = calls[c].door /\ shown'.firm = calls[c].firm
      /\ shown'.claim = calls[c].claim /\ shown'.rows = rows
      /\ shown'.whole = whole /\ shown'.failed = failed
  BY DEF Show
<1>5. OwnBooksWhole'
  BY <1>1, <1>3, <1>4 DEF OwnBooksWhole, Scoped, Pinned
<1>. QED  BY <1>1, <1>5, LeaveStep

\* The rows of a company, and the rows that name none, contain all it has.
LEMMA OwnPart ==
    ASSUME NEW firm, NEW S \in SUBSET Docs
    PROVE  /\ Own(firm, S) \subseteq OwnRows(firm, S) /\ OwnRows(firm, S) \subseteq Docs
           /\ \A d \in OwnRows(firm, S) : FirmOf[d] \in {firm, Nil}
BY DEF Own, OwnRows

LEMMA DrillStep ==
    ASSUME BooksInv, NEW c \in Callers, NEW d \in {"day", "receipts", "debts"},
           NEW b \in Blocks, AnswerDrill(c, d, b)
    PROVE  BooksInv'
<1>. DEFINE firm == calls[c].firm
            S == OfKind(b)
            rows == [Away.rows EXCEPT ![b] = OwnRows(firm, S)]
            whole == [Away.whole EXCEPT ![b] = Own(firm, S)]
<1>1. /\ calls[c].stage = "read" /\ calls[c].door = d /\ d \in OfCompany
      /\ Show(c, rows, whole, {})
  BY DEF AnswerDrill, Waits, OfCompany
<1>2. S \in SUBSET Docs
  BY DEF BooksInv, OfKind
<1>3. ASSUME NEW e \in Blocks
      PROVE  /\ whole[e] \subseteq rows[e]
             /\ \A x \in rows[e] : FirmOf[x] \in {firm, Nil}
  <2>1. CASE e = b
    BY <1>2, <2>1, OwnPart, AwayOK
  <2>2. CASE e # b
    BY <2>2, AwayOK
  <2>. QED  BY <2>1, <2>2
<1>. HIDE DEF rows, whole
<1>4. /\ calls[c].stage \in {"read", "balance"} /\ calls[c].door \in OfCompany
      /\ Show(c, rows, whole, {})
      /\ calls[c].door \in {"summary", "day", "receipts", "debts"} =>
            \A e \in Blocks \ {} : /\ whole[e] \subseteq rows[e]
                                   /\ \A x \in rows[e] : FirmOf[x] \in {calls[c].firm, Nil}
  BY <1>1, <1>3
<1>. QED  BY <1>4, ShowStep

\* The capped screens and the list of accounts total nothing.
LEMMA ListsStep ==
    ASSUME BooksInv, NEW c \in Callers,
           AnswerShelf(c) \/ AnswerList(c) \/ AnswerAccounts(c)
    PROVE  BooksInv'
<1>1. ASSUME NEW rows, NEW whole, NEW failed, Show(c, rows, whole, failed),
             calls[c].stage \in {"read", "balance"},
             calls[c].door \in {"shelf", "list", "accounts"}
      PROVE  BooksInv'
  BY <1>1, ShowStep DEF OfCompany
<1>. QED  BY <1>1 DEF AnswerShelf, AnswerList, AnswerAccounts, Waits

LEMMA DaySummaryStep ==
    ASSUME BooksInv, NEW c \in Callers, AnswerDaySummary(c)
    PROVE  BooksInv'
<1>. DEFINE failed == calls[c].failed \cup IF "receipt" \in calls[c].failed THEN {"drawer"} ELSE {}
<1>1. /\ calls[c].stage = "read" /\ calls[c].door = "summary"
      /\ Show(c, calls[c].rows, calls[c].whole, failed)
  BY DEF AnswerDaySummary, Waits
<1>2. RowsOwn(calls[c])
  BY <1>1 DEF BooksInv, CallOK
<1>. HIDE DEF failed
<1>3. \A b \in Blocks \ failed :
         /\ calls[c].whole[b] \subseteq calls[c].rows[b]
         /\ \A d \in calls[c].rows[b] : FirmOf[d] \in {calls[c].firm, Nil}
  BY <1>2 DEF RowsOwn
<1>4. calls[c].stage \in {"read", "balance"} /\ calls[c].door \in OfCompany
  BY <1>1 DEF OfCompany
<1>. QED  BY <1>1, <1>3, <1>4, ShowStep

LEMMA OpensStep ==
    ASSUME BooksInv, NEW c \in Callers, ClientOpens(c)
    PROVE  BooksInv'
<1>. PICK k \in Call : k = calls[c]
  BY DEF BooksInv
<1>. PICK s \in {"company", "read"} :
        s = IF k.door \in OfCompany THEN "company" ELSE "read"
  OBVIOUS
<1>. DEFINE new == [k EXCEPT !.stage = s]
<1>1. CallOK(k) /\ k.stage = "client"
  BY DEF BooksInv, ClientOpens
<1>2. /\ new \in Call /\ new.stage = s /\ new.door = k.door /\ new.claim = k.claim
      /\ new.firm = k.firm /\ new.rows = k.rows /\ new.whole = k.whole
  BY DEF Call, DoorStages
<1>3. calls' = [calls EXCEPT ![c] = new]
  BY DEF ClientOpens
<1>4. UNCHANGED <<who, default, site>> /\ OwnBooksWhole'
  BY NothingShown DEF ClientOpens, Move, Still
<1>. HIDE DEF new
<1>5. CallOK(new)
  BY <1>1, <1>2 DEF CallOK, OfCompany
<1>. QED  BY <1>2, <1>3, <1>4, <1>5, CallStep

\* resolveReadCompany(): the company is settled, allowed, and the one claimed.
LEMMA ResolveStep ==
    ASSUME BooksInv, NEW c \in Callers, ResolveReadCompany(c)
    PROVE  BooksInv'
<1>. PICK k \in Call : k = calls[c]
  BY DEF BooksInv
<1>. PICK asks1 \in BOOLEAN : asks1 <=> k.firm = Nil
  OBVIOUS
<1>. PICK firm : firm = IF asks1 THEN SessionFirm(k.door) ELSE k.firm
  OBVIOUS
<1>1. CallOK(k) /\ k.stage = "company"
  BY DEF BooksInv, ResolveReadCompany
<1>2. UNCHANGED <<who, default, site>> /\ OwnBooksWhole'
  BY NothingShown DEF ResolveReadCompany, Move, Still
<1>3. CASE Leave(c)
  BY <1>2, <1>3, LeaveStep
<1>4. CASE /\ asks1 => default # Nil /\ ScopeAllows(k.door, default)
           /\ k.claim \in {Nil, firm}
           /\ calls' = [calls EXCEPT ![c].stage = "read", ![c].firm = firm]
  <2>. DEFINE new == [k EXCEPT !.stage = "read", !.firm = firm]
  <2>1. firm \in Firms \cup {Nil}
    BY DEF BooksInv, Call, Principal, SessionFirm, Settles, Pinned
  <2>2. firm # Nil
    BY <1>4 DEF SessionFirm
  <2>3. k.door \in Required => Scoped(firm)
    <3>1. CASE asks1
      <4>1. SUFFICES ASSUME k.door \in Required PROVE Scoped(firm)
        OBVIOUS
      <4>2. Settles(k.door, default) # Nil
        BY <1>4, <3>1, <4>1 DEF Settles
      <4>. QED  BY <1>4, <3>1, <4>1, <4>2, SettledScoped DEF SessionFirm, BooksInv
    <3>2. CASE ~asks1
      BY <1>1, <3>2 DEF CallOK
    <3>. QED  BY <3>1, <3>2
  <2>4. /\ new \in Call /\ new.stage = "read" /\ new.door = k.door /\ new.claim = k.claim
        /\ new.firm = firm /\ new.rows = Away.rows /\ new.whole = Away.whole
    BY <1>1, <2>1 DEF Call, DoorStages, CallOK
  <2>5. calls' = [calls EXCEPT ![c] = new]
    BY <1>4
  <2>. HIDE DEF new
  <2>6. CallOK(new)
    <3>1. RowsOwn(new)
      BY <2>4, AwayOK DEF RowsOwn
    <3>. QED  BY <1>4, <2>2, <2>3, <2>4, <3>1 DEF CallOK
  <2>. QED  BY <1>2, <2>4, <2>5, <2>6, CallStep
<1>. QED  BY <1>3, <1>4 DEF ResolveReadCompany

LEMMA ScreenStep ==
    ASSUME BooksInv, NEW c \in Callers, ReadScreen(c)
    PROVE  BooksInv'
<1>. PICK k \in Call : k = calls[c]
  BY DEF BooksInv
<1>. PICK S : S = Cap(Own(k.firm, OfKind("sale")))
  OBVIOUS
<1>. DEFINE new == [k EXCEPT !.stage = "balance", !.rows["sale"] = S]
<1>1. CallOK(k) /\ k.stage = "read" /\ k.door = "list"
  BY DEF BooksInv, ReadScreen, Waits
<1>2. S \subseteq Docs
  <2>1. IsFiniteSet(Own(k.firm, OfKind("sale"))) /\ Own(k.firm, OfKind("sale")) \subseteq Docs
    BY FS_Subset DEF BooksInv, Own, OfKind
  <2>. QED  BY <2>1, CapPart
<1>3. UNCHANGED <<who, default, site>> /\ OwnBooksWhole'
  BY NothingShown DEF ReadScreen, Move, Still
<1>4. [k.rows EXCEPT !["sale"] = S] \in [Blocks -> SUBSET Docs]
  BY <1>2 DEF Call
<1>5. /\ new \in Call /\ new.stage = "balance" /\ new.door = k.door
      /\ new.claim = k.claim /\ new.firm = k.firm
  BY <1>4 DEF Call, DoorStages
<1>6. calls' = [calls EXCEPT ![c] = new]
  BY DEF ReadScreen
<1>. HIDE DEF new
<1>7. CallOK(new)
  BY <1>1, <1>5 DEF CallOK, Required
<1>. QED  BY <1>3, <1>5, <1>6, <1>7, CallStep

Same(new, k) == /\ new.stage = k.stage /\ new.door = k.door
                /\ new.claim = k.claim /\ new.firm = k.firm

\* A block of the day is read over, at one moment, with what it is the total of.
LEMMA BlockStep ==
    ASSUME BooksInv, NEW c \in Callers, NEW b \in Blocks,
           SummaryBlock(c, b) \/ SummaryBlockFails(c, b)
    PROVE  BooksInv'
<1>. PICK k \in Call : k = calls[c]
  BY DEF BooksInv
<1>. PICK S : S = OfKind(Source(b))
  OBVIOUS
<1>1. CallOK(k) /\ k.stage = "read" /\ k.door = "summary" /\ RowsOwn(k)
  BY DEF BooksInv, SummaryBlock, SummaryBlockFails, Waits, CallOK
<1>2. S \in SUBSET Docs
  BY DEF BooksInv, OfKind
<1>3. UNCHANGED <<who, default, site>> /\ OwnBooksWhole'
  BY NothingShown DEF SummaryBlock, SummaryBlockFails, Move, Still
<1>. PICK new : new = calls'[c]
  OBVIOUS
<1>4. ASSUME calls' = [calls EXCEPT ![c] = new], new \in Call,
             new.stage = k.stage, new.door = k.door, new.claim = k.claim,
             new.firm = k.firm, RowsOwn(new)
      PROVE  BooksInv'
  <2>1. CallOK(new)
    BY <1>1, <1>4 DEF CallOK
  <2>. QED  BY <1>3, <1>4, <2>1, CallStep
<1>5. calls \in [Callers -> Call]
  BY DEF BooksInv
<1>6. /\ k.rows \in [Blocks -> SUBSET Docs] /\ k.whole \in [Blocks -> SUBSET Docs]
      /\ k.failed \in SUBSET Blocks /\ k.read \in SUBSET Blocks
  BY DEF Call
<1>. PICK read \in SUBSET Blocks : read = k.read \cup {b}
  BY <1>6
<1>7. /\ calls' = [x \in Callers |-> calls'[x]]
      /\ \A x \in Callers : x # c => calls'[x] = calls[x]
  BY <1>5 DEF SummaryBlock, SummaryBlockFails
<1>8. calls' = [calls EXCEPT ![c] = new]
  BY <1>5, <1>7
<1>9. CASE SummaryBlock(c, b)
  <2>1. PICK R : R = IF Fits(S) THEN OwnRows(k.firm, S) ELSE {}
    OBVIOUS
  <2>2. PICK W : W = IF Fits(S) THEN Own(k.firm, S) ELSE {}
    OBVIOUS
  <2>3. PICK failed \in SUBSET Blocks : failed = IF Fits(S) THEN k.failed ELSE k.failed \cup {b}
    BY <1>6
  <2>4. R \subseteq Docs /\ W \subseteq R /\ \A d \in R : FirmOf[d] \in {k.firm, Nil}
    BY <1>2, <2>1, <2>2, OwnPart
  <2>5. PICK rows \in [Blocks -> SUBSET Docs] : rows = [k.rows EXCEPT ![b] = R]
    BY <1>6, <2>4
  <2>6. PICK whole \in [Blocks -> SUBSET Docs] : whole = [k.whole EXCEPT ![b] = W]
    BY <1>6, <2>4
  <2>. DEFINE m == [k EXCEPT !.read = read, !.rows = rows, !.whole = whole, !.failed = failed]
  <2>7. new = m
    <3>1. CASE Fits(S)
      BY <1>5, <1>9, <2>1, <2>2, <2>3, <2>5, <2>6, <3>1 DEF SummaryBlock
    <3>2. CASE ~Fits(S)
      BY <1>5, <1>9, <2>1, <2>2, <2>3, <2>5, <2>6, <3>2 DEF SummaryBlock
    <3>. QED  BY <3>1, <3>2
  <2>8. m \in Call /\ Same(m, k) /\ m.rows = rows /\ m.whole = whole
    BY DEF Call, Same
  <2>. HIDE DEF m
  <2>9. new \in Call /\ Same(new, k) /\ new.rows = rows /\ new.whole = whole
    BY <2>7, <2>8
  <2>10. \A e \in Blocks : /\ whole[e] \subseteq rows[e]
                           /\ \A d \in rows[e] : FirmOf[d] \in {k.firm, Nil}
    BY <1>1, <1>6, <2>4, <2>5, <2>6 DEF RowsOwn
  <2>11. RowsOwn(new)
    BY <2>9, <2>10 DEF RowsOwn, Same
  <2>. QED  BY <1>4, <1>8, <2>9, <2>11 DEF Same
<1>10. CASE SummaryBlockFails(c, b)
  <2>. PICK failed \in SUBSET Blocks : failed = k.failed \cup {b}
    BY <1>6
  <2>1. new = [k EXCEPT !.read = read, !.failed = failed]
    BY <1>5, <1>10 DEF SummaryBlockFails
  <2>2. new \in Call /\ Same(new, k) /\ new.rows = k.rows /\ new.whole = k.whole
    <3>. DEFINE m == [k EXCEPT !.read = read, !.failed = failed]
    <3>1. m \in Call /\ Same(m, k) /\ m.rows = k.rows /\ m.whole = k.whole
      BY <1>6 DEF Call, Same
    <3>2. new = m
      BY <2>1
    <3>. HIDE DEF m
    <3>. QED  BY <3>1, <3>2
  <2>3. RowsOwn(new)
    BY <1>1, <2>2 DEF RowsOwn, Same
  <2>. QED  BY <1>4, <1>8, <2>2, <2>3 DEF Same
<1>. QED  BY <1>9, <1>10

LEMMA AnswerCardStep ==
    ASSUME BooksInv, NEW c \in Callers, NEW metered, AnswerCard(c, metered)
    PROVE  BooksInv'
BY NothingShown, LeaveStep DEF AnswerCard, Still

LEMMA GoneStep ==
    ASSUME BooksInv, NEW c \in Callers, Gone(c)
    PROVE  BooksInv'
BY NothingShown, LeaveStep DEF Gone, Move, Still

LEMMA HandsOverStep ==
    ASSUME BooksInv, NEW c \in Callers, DshHandsOver(c)
    PROVE  BooksInv'
<1>. PICK k \in Call : k = calls[c]
  BY DEF BooksInv
<1>. DEFINE new == [k EXCEPT !.stage = "answer"]
<1>1. CallOK(k) /\ calls' = [calls EXCEPT ![c] = new]
  BY DEF BooksInv, DshHandsOver
<1>2. /\ new \in Call /\ new.stage = "answer" /\ new.door = k.door /\ new.firm = k.firm
  BY DEF Call, DoorStages
<1>3. UNCHANGED <<who, default, site>> /\ OwnBooksWhole'
  BY NothingShown DEF DshHandsOver, Move, Still
<1>. HIDE DEF new
<1>4. CallOK(new)
  BY <1>1, <1>2 DEF CallOK
<1>. QED  BY <1>1, <1>2, <1>3, <1>4, CallStep

LEMMA BooksInductive ==
    ASSUME BooksInv, [FrontdoorNext]_doorVars
    PROVE  BooksInv'
<1>1. CASE UNCHANGED doorVars
  BY <1>1 DEF doorVars, BooksInv, CallOK, Scoped, Pinned, RowsOwn, OwnBooksWhole
<1>2. ASSUME NEW c \in Callers, NEW claim \in Firms \cup {Nil}, NEW good \in BOOLEAN,
             \/ OpenList(c, claim, good) \/ OpenSlots(c, claim, good)
             \/ OpenEinvoice(c, claim, good) \/ OpenAccounts(c, claim)
             \/ OpenSummary(c, claim)
             \/ \E d \in {"day", "receipts", "debts", "shelf"} : OpenDrill(c, d, claim)
             \/ OpenOcr(c, good) \/ OpenAsk(c) \/ OpenDsh(c) \/ OpenPropose(c)
      PROVE  BooksInv'
  <2>1. /\ {"list", "accounts", "summary", "slots", "einvoice", "ocr", "ask", "dsh",
           "propose", "day", "receipts", "debts", "shelf"} \subseteq Doors
        /\ Nil \in Firms \cup {Nil} /\ TRUE \in BOOLEAN
    BY DEF Doors, Required, OfCompany, Answering
  <2>2. PICK d \in Doors, wanted \in Firms \cup {Nil}, told \in Firms \cup {Nil},
             fine \in BOOLEAN, stage \in {"client", "provider", "answer", "gate"} :
             Arrive(c, d, wanted, told, fine, stage)
    <3>1. CASE OpenList(c, claim, good) \/ OpenSlots(c, claim, good) \/ OpenEinvoice(c, claim, good)
      BY <3>1, <2>1 DEF OpenList, OpenSlots, OpenEinvoice
    <3>2. CASE OpenAccounts(c, claim) \/ OpenSummary(c, claim)
      BY <3>2, <2>1 DEF OpenAccounts, OpenSummary
    <3>3. CASE \E d \in {"day", "receipts", "debts", "shelf"} : OpenDrill(c, d, claim)
      BY <3>3, <2>1 DEF OpenDrill
    <3>4. CASE OpenOcr(c, good) \/ OpenAsk(c) \/ OpenDsh(c) \/ OpenPropose(c)
      BY <3>4, <2>1 DEF OpenOcr, OpenAsk, OpenDsh, OpenPropose
    <3>. QED  BY <1>2, <3>1, <3>2, <3>3, <3>4
  <2>. QED  BY <2>2, ArriveStep
<1>3. ASSUME NEW c \in Callers, NEW claim \in Firms \cup {Nil}, Execute(c, claim)
      PROVE  BooksInv'
  <2>1. UNCHANGED <<who, default, site, calls>> /\ OwnBooksWhole'
    BY <1>3, NothingShown DEF Execute, Still
  <2>. QED  BY <2>1, CallsKept DEF BooksInv
<1>4. ASSUME NEW c \in Callers,
             GiveUp(c) \/ AnswerReading(c) \/ AskDeadline(c) \/ DshAnswers(c)
      PROVE  BooksInv'
  BY <1>4, GoneStep DEF GiveUp, AnswerReading, AskDeadline, DshAnswers
<1>5. ASSUME NEW c \in Callers,
             AnswerDay(c) \/ AnswerReceipts(c) \/ AnswerDebts(c)
      PROVE  BooksInv'
  BY <1>5, DrillStep DEF AnswerDay, AnswerReceipts, AnswerDebts, Blocks
<1>6. ASSUME NEW c \in Callers, NEW metered \in BOOLEAN,
             AnswerAsk(c, metered) \/ AnswerPropose(c, metered) \/ AnswerDsh(c, metered)
      PROVE  BooksInv'
  BY <1>6, AnswerCardStep DEF AnswerAsk, AnswerPropose, AnswerDsh
<1>7. ASSUME NEW d \in Docs, EnterDoc(d) PROVE BooksInv'
  <2>1. UNCHANGED <<who, default, calls>> /\ OwnBooksWhole'
    BY <1>7, NothingShown DEF EnterDoc
  <2>2. site' \subseteq Docs /\ IsFiniteSet(site')
    BY <1>7, FS_AddElement DEF EnterDoc, BooksInv
  <2>. QED  BY <2>1, <2>2, CallsKept DEF BooksInv
<1>8. ASSUME NEW f \in Firms \cup {Nil}, SetDefault(f) PROVE BooksInv'
  <2>1. UNCHANGED <<who, site, calls>> /\ OwnBooksWhole' /\ default' \in Firms \cup {Nil}
    BY <1>8, NothingShown DEF SetDefault
  <2>. QED  BY <2>1 DEF BooksInv, CallOK, Scoped, Pinned, RowsOwn
<1>9. CASE Throw
  <2>1. UNCHANGED <<default, site, calls>> /\ OwnBooksWhole'
    BY <1>9, NothingShown DEF Throw
  <2>2. /\ who' \in Principal /\ who'.firm = who.firm /\ who'.firms = who.firms
        /\ who'.pin = who.pin
    BY <1>9 DEF Throw, BooksInv, Principal
  <2>. QED  BY <2>1, <2>2, CallsKept DEF BooksInv
<1>10. CASE Tick
  <2>1. UNCHANGED <<who, default, site, calls>> /\ OwnBooksWhole'
    BY <1>10, NothingShown DEF Tick
  <2>. QED  BY <2>1, CallsKept DEF BooksInv
<1>11. ASSUME FrontdoorNext PROVE BooksInv'
  BY <1>11, <1>2, <1>3, <1>4, <1>5, <1>6, <1>7, <1>8, <1>9, <1>10, OpensStep, ResolveStep,
     ListsStep, ScreenStep, DaySummaryStep, BlockStep, HandsOverStep DEF FrontdoorNext
<1>. QED  BY <1>1, <1>11

\* Nobody has asked yet.
LEMMA BooksInitially == FrontdoorInit => BooksInv
<1>. SUFFICES ASSUME FrontdoorInit PROVE BooksInv
  OBVIOUS
<1>1. who \in Principal
  BY DEF FrontdoorInit, Principals, Principal
<1>2. IsFiniteSet(site) /\ site \subseteq Docs
  BY FS_EmptySet DEF FrontdoorInit
<1>3. OwnBooksWhole
  BY DEF FrontdoorInit, OwnBooksWhole
<1>. QED  BY <1>1, <1>2, <1>3, AwayOK DEF FrontdoorInit, BooksInv

\* A figure is of a company the account may be shown, of none the client claimed and
\* the server did not settle on, and a total covers what the site had when it was
\* read: for any companies, documents, users and number of requests in progress.
THEOREM OwnBooksWholeHolds == FrontdoorSpec => []OwnBooksWhole
<1>1. FrontdoorInit => BooksInv
  BY BooksInitially
<1>2. BooksInv /\ [FrontdoorNext]_doorVars => BooksInv'
  BY BooksInductive
<1>3. BooksInv => OwnBooksWhole
  BY DEF BooksInv
<1>. QED  BY <1>1, <1>2, <1>3, PTL DEF FrontdoorSpec

\* The clock, the windows and what was let through, by type.
DoorTypes ==
    /\ tick \in 0..LastTick
    /\ windows \in [Buckets -> [start : 0..LastTick, count : Nat]]
    /\ \A b \in Buckets : done[b] \subseteq [nth : Nat, at : 0..LastTick]

LEMMA DoorTypesInductive ==
    ASSUME DoorTypes, MeterInv, [FrontdoorNext]_doorVars
    PROVE  DoorTypes'
<1>0. LastTick \in Nat
  BY FrontdoorAssumption DEF FrontdoorAssumption
<1>1. CASE /\ UNCHANGED <<windows, done>>
           /\ tick' = tick \/ (tick < LastTick /\ tick' = tick + 1)
  BY <1>0, <1>1 DEF DoorTypes
<1>2. ASSUME UNCHANGED tick, NEW B \in SUBSET Buckets,
             Charge(B), LetThrough(B) \/ UNCHANGED done
      PROVE  DoorTypes'
  <2>1. ASSUME NEW b \in Buckets
        PROVE  windows'[b] \in [start : 0..LastTick, count : Nat]
    <3>1. windows[b] \in [start : 0..LastTick, count : Nat] /\ tick \in 0..LastTick
      BY DEF DoorTypes
    <3>2. windows'[b] = windows[b] \/ windows'[b] = Charged(windows[b], b)
      BY <1>2 DEF Charge
    <3>. QED  BY <3>1, <3>2 DEF Charged
  <2>2. windows' = [b \in Buckets |-> windows'[b]]
    BY <1>2 DEF Charge
  <2>3. ASSUME NEW b \in Buckets
        PROVE  done'[b] \subseteq [nth : Nat, at : 0..LastTick]
    <3>1. Cardinality(done[b]) \in Nat
      BY FS_CardinalityType DEF MeterInv, Metered
    <3>2. PICK x : x = [nth |-> Cardinality(done[b]) + 1, at |-> tick]
      OBVIOUS
    <3>3. x \in [nth : Nat, at : 0..LastTick]
      BY <3>1, <3>2 DEF DoorTypes
    <3>4. done'[b] \in {done[b], done[b] \cup {x}}
      BY <1>2, <3>2 DEF LetThrough
    <3>. QED  BY <3>3, <3>4 DEF DoorTypes
  <2>. QED  BY <1>2, <2>1, <2>2, <2>3 DEF DoorTypes
<1>. QED  BY <1>1, <1>2, DoorCharges

\* Every reachable state of the door is well typed (http-ask.mjs, rate-limit.mjs).
THEOREM FrontdoorTypeOKHolds == FrontdoorSpec => []FrontdoorTypeOK
<1>1. FrontdoorInit => MeterInv /\ BooksInv /\ DoorTypes
  <2>1. FrontdoorInit => DoorTypes
    BY FrontdoorAssumption DEF FrontdoorAssumption, FrontdoorInit, DoorTypes, NoWindow
  <2>. QED  BY <2>1, MeterInitially, BooksInitially
<1>2. MeterInv /\ BooksInv /\ DoorTypes /\ [FrontdoorNext]_doorVars
        => MeterInv' /\ BooksInv' /\ DoorTypes'
  BY MeterInductive, BooksInductive, DoorTypesInductive
<1>3. BooksInv /\ DoorTypes => FrontdoorTypeOK
  BY DEF BooksInv, DoorTypes, FrontdoorTypeOK, Principal, Call
<1>. QED  BY <1>1, <1>2, <1>3, PTL DEF FrontdoorSpec

-----------------------------------------------------------------------------
(* The party and the ticket of a card.                                     *)

LEMMA Least ==
    ASSUME NEW S \in SUBSET Nat, S # {}
    PROVE  \E n \in S : \A m \in S : n <= m
<1>. DEFINE R == OpToRel(<, Nat)
<1>1. IsWellFoundedOn(R, Nat)
  BY NatLessThanWellFounded
<1>2. \A m, n \in Nat : m < n => <<m, n>> \in R
  BY DEF OpToRel
<1>. HIDE DEF R
<1>3. PICK n \in S : \A m \in S : ~(<<m, n>> \in R)
  BY <1>1, WFMin
<1>4. ASSUME NEW m \in S PROVE n <= m
  <2>1. m \in Nat /\ n \in Nat
    OBVIOUS
  <2>2. ~(m < n)
    BY <1>2, <1>3, <2>1
  <2>. QED  BY <2>1, <2>2
<1>. QED  BY <1>4

\* The walk of nameCandidates has a first candidate whenever it has one.
LEMMA ForemostIn ==
    ASSUME NEW s, Len(s) \in Nat, NEW P \in SUBSET Spans(s), P # {}
    PROVE  Foremost(P) \in P
<1>1. \A p \in P : p[1] \in 1..Len(s) /\ p[2] \in 1..Len(s)
  BY DEF Spans
<1>2. PICK m \in {p[1] : p \in P} : \A n \in {p[1] : p \in P} : m <= n
  <2>1. {p[1] : p \in P} \in SUBSET Nat /\ {p[1] : p \in P} # {}
    BY <1>1
  <2>. QED  BY <2>1, Least
<1>. DEFINE Q == {q \in P : q[1] = m}
            K == {Len(s) - q[2] : q \in Q}
<1>3. PICK k \in K : \A n \in K : k <= n
  <2>1. K \in SUBSET Nat /\ K # {}
    BY <1>1, <1>2
  <2>. HIDE DEF K
  <2>. QED  BY <2>1, Least
<1>4. PICK q \in P : q[1] = m /\ k = Len(s) - q[2]
  BY <1>3
<1>5. ASSUME NEW p \in P PROVE q[1] < p[1] \/ (q[1] = p[1] /\ q[2] >= p[2])
  <2>1. m <= p[1]
    BY <1>2
  <2>2. CASE p[1] = m
    <3>1. Len(s) - q[2] <= Len(s) - p[2]
      BY <1>3, <1>4, <2>2
    <3>. QED  BY <1>1, <1>4, <2>2, <3>1
  <2>3. CASE p[1] # m
    BY <1>1, <1>4, <2>1, <2>3
  <2>. QED  BY <2>2, <2>3
<1>6. \E p \in P : \A r \in P : p[1] < r[1] \/ (p[1] = r[1] /\ p[2] >= r[2])
  BY <1>5
<1>. QED  BY <1>6 DEF Foremost

LEMMA OneIsAll ==
    ASSUME NEW S, IsFiniteSet(S), Cardinality(S) = 1, NEW x \in S
    PROVE  S = {x}
<1>1. \E y : S = {y}
  BY FS_Singleton
<1>. QED  BY <1>1

\* What resolvePartyFromList finds in a list.  A row it is sure of alone fits some
\* stretch of the sentence; and where it finds no row, the sentence says the full name
\* of none.
LEMMA ResolutionSound ==
    ASSUME NEW list \in SUBSET Rows, NEW s, Len(s) \in Nat, NEW r \in Resolutions(list, s)
    PROVE  /\ r.row \in list \cup {Nemo} /\ r.amb \in BOOLEAN
           /\ r.row = Nemo => \A t \in list : NameOf[t] \notin Frags(s)
           /\ r.row # Nemo /\ ~r.amb => FitsAlone(list, s, r.row)
<1>. DEFINE alone == {p \in Spans(s) : Cardinality(Exact(list, Cut(s, p))) = 1}
            lone  == {p \in Tried(list, s) : Cardinality(Hits(list, Cut(s, p))) = 1}
            twins == {p \in Spans(s) : Cardinality(Exact(list, Cut(s, p))) > 1}
            many  == {p \in Tried(list, s) : Cardinality(Hits(list, Cut(s, p))) > 1}
            long  == {p \in many : p[1] < p[2]}
            Of(S, amb) == {[row |-> t, amb |-> amb] : t \in S}
<1>0. IsFiniteSet(list) /\ Nemo \notin list
  BY AskingAssumption, FS_Subset DEF AskingAssumption
<1>1. \A f : /\ Exact(list, f) \subseteq list /\ Hits(list, f) \subseteq list
             /\ IsFiniteSet(Exact(list, f)) /\ IsFiniteSet(Hits(list, f))
  <2>1. \A f : Exact(list, f) \subseteq list /\ Hits(list, f) \subseteq list
    BY DEF Exact, Hits
  <2>. QED  BY <1>0, <2>1, FS_Subset
<1>2. /\ alone \in SUBSET Spans(s) /\ lone \in SUBSET Spans(s) /\ twins \in SUBSET Spans(s)
      /\ long \in SUBSET Spans(s)
  BY DEF Tried
<1>3. \/ alone # {} /\ r \in Of(Exact(list, Cut(s, Foremost(alone))), FALSE)
      \/ alone = {} /\ lone # {} /\ r \in Of(Hits(list, Cut(s, Foremost(lone))), FALSE)
      \/ /\ alone = {} /\ twins # {} /\ r \in Of(Exact(list, Cut(s, Foremost(twins))), TRUE)
      \/ /\ alone = {} /\ twins = {} /\ r \in Of(Hits(list, Cut(s, Foremost(long))), TRUE)
      \/ /\ alone = {} /\ twins = {} /\ r \in Of({Nemo}, many # {})
  <2>. HIDE DEF Of
  <2>1. CASE alone # {}
    BY <2>1 DEF Resolutions, Of
  <2>2. CASE alone = {} /\ lone # {}
    BY <2>2 DEF Resolutions, Of
  <2>3. CASE alone = {} /\ lone = {} /\ twins # {}
    BY <2>3 DEF Resolutions, Of
  <2>4. CASE alone = {} /\ lone = {} /\ twins = {} /\ long # {}
    BY <2>4 DEF Resolutions, Of
  <2>5. CASE alone = {} /\ lone = {} /\ twins = {} /\ long = {}
    BY <2>5 DEF Resolutions, Of
  <2>. QED  BY <2>1, <2>2, <2>3, <2>4, <2>5
<1>. HIDE DEF alone, lone, twins, many, long
<1>4. CASE alone # {} /\ r \in Of(Exact(list, Cut(s, Foremost(alone))), FALSE)
  <2>1. Foremost(alone) \in alone
    BY <1>2, <1>4, ForemostIn
  <2>2. PICK f : f = Cut(s, Foremost(alone))
    OBVIOUS
  <2>3. Cardinality(Exact(list, f)) = 1
    BY <2>1, <2>2 DEF alone
  <2>4. r.row \in Exact(list, f) /\ r.amb = FALSE
    BY <1>4, <2>2
  <2>5. Exact(list, f) = {r.row}
    BY <1>1, <2>3, <2>4, OneIsAll
  <2>6. f \in Frags(s)
    BY <1>2, <2>1, <2>2 DEF Frags
  <2>. QED  BY <1>0, <1>1, <2>4, <2>5, <2>6 DEF FitsAlone
<1>5. CASE lone # {} /\ r \in Of(Hits(list, Cut(s, Foremost(lone))), FALSE)
  <2>1. Foremost(lone) \in lone
    BY <1>2, <1>5, ForemostIn
  <2>2. PICK f : f = Cut(s, Foremost(lone))
    OBVIOUS
  <2>3. Cardinality(Hits(list, f)) = 1
    BY <2>1, <2>2 DEF lone
  <2>4. r.row \in Hits(list, f) /\ r.amb = FALSE
    BY <1>5, <2>2
  <2>5. Hits(list, f) = {r.row}
    BY <1>1, <2>3, <2>4, OneIsAll
  <2>6. f \in Frags(s)
    BY <1>2, <2>1, <2>2 DEF Frags
  <2>7. r.row \in list
    BY <1>1, <2>4
  <2>. QED  BY <1>0, <2>4, <2>5, <2>6, <2>7 DEF FitsAlone
<1>6. CASE twins # {} /\ r \in Of(Exact(list, Cut(s, Foremost(twins))), TRUE)
  <2>1. r.row \in list /\ r.amb = TRUE
    BY <1>1, <1>6
  <2>. QED  BY <1>0, <2>1
<1>7. CASE r \in Of(Hits(list, Cut(s, Foremost(long))), TRUE)
  <2>1. r.row \in list /\ r.amb = TRUE
    BY <1>1, <1>7
  <2>. QED  BY <1>0, <2>1
<1>8. CASE alone = {} /\ twins = {} /\ r \in Of({Nemo}, many # {})
  <2>1. r.row = Nemo /\ r.amb \in BOOLEAN
    <3>1. PICK b : b = (many # {})
      OBVIOUS
    <3>2. b \in BOOLEAN
      BY <3>1
    <3>3. r \in {[row |-> t, amb |-> b] : t \in {Nemo}}
      BY <1>8, <3>1
    <3>. QED  BY <3>2, <3>3
  <2>2. ASSUME NEW t \in list, NameOf[t] \in Frags(s) PROVE FALSE
    <3>1. PICK p \in Spans(s) : NameOf[t] = Cut(s, p)
      BY <2>2 DEF Frags
    <3>2. PICK E : E = Exact(list, Cut(s, p))
      OBVIOUS
    <3>3. t \in E /\ IsFiniteSet(E)
      BY <1>1, <3>1, <3>2 DEF Exact
    <3>4. Cardinality(E) \in Nat /\ Cardinality(E) # 0
      BY <3>3, FS_CardinalityType, FS_EmptySet
    <3>5. Cardinality(E) # 1 /\ ~(Cardinality(E) > 1)
      BY <1>8, <3>2 DEF alone, twins
    <3>. QED  BY <3>4, <3>5
  <2>. QED  BY <2>1, <2>2
<1>. HIDE DEF Of
<1>. QED  BY <1>3, <1>4, <1>5, <1>6, <1>7, <1>8

\* The ticket a request came in with opened its door, in its conversation and in its
\* life.  A request of the chat has none.
OwnTicket(a) ==
    a.pass # Nemo =>
      /\ a.pass \in Passes /\ a.door \in Screens
      /\ passes[a.pass].screen = a.door
      /\ a.at - passes[a.pass].at <= PassHours
      /\ SameTalk(a.pass, a.q.talk)

\* The party found is of the book that was read, and a sure one alone fits, in that
\* book, a stretch of the text it was looked up with.
Found(a) ==
    a.row # Nemo =>
      /\ BookOf[a.row] = a.book
      /\ ~a.amb => FitsAlone(a.saw, PartyText(a.q), a.row)

Unsaid(S, a) == \A r \in S : NameOf[r] \notin Frags(PartyText(a.q))

\* What each stage of a request has made sure of.
Understood(a) ==
    /\ a.stage \in {"heard", "both", "found", "ready"} => a.q \in Questions /\ a.pass = Nemo
    /\ a.stage \in {"heard", "both", "found"} => ~a.picked /\ a.book = "customer"
    /\ a.stage = "heard" => a.row = Nemo
    /\ a.stage = "both" => Found(a) /\ (a.row = Nemo => Unsaid(a.saw, a))
    /\ a.stage = "found" => Found(a)
    /\ a.stage = "ready" => IF a.picked THEN a.row = a.q.pick /\ BookOf[a.row] = a.book
                                        ELSE Found(a)
    /\ a.stage \in {"found", "ready"} /\ a.q.group = "payment_write" => Unsaid(a.other, a)
    /\ a.stage = "entered" => a.pass # Nemo /\ a.q.group # "payment_write"

\* What CardPartyIsMeant says of the request a card was made for.
Right(a) ==
    a.row # Nemo =>
      /\ Meant(a)
      /\ BookOf[a.row] = a.book
      /\ a.q.group = "payment_write" => Unsaid(a.other, a)

Pass == [screen : Screens \cup {Nemo}, talk : Talks \cup {Nemo}, at : 0..LastHour, gone : BOOLEAN]

AskInv ==
    /\ listed \subseteq Rows
    /\ asks \in [Askers -> Sitting]
    /\ passes \in [Passes -> Pass]
    /\ hour \in 0..LastHour
    /\ reply.kind \in {"none", "card", "answer"} /\ reply.ask \in Sitting
    /\ \A h \in Askers : OwnTicket(asks[h]) /\ Understood(asks[h])
    /\ OwnTicket(reply.ask)
    /\ reply.kind = "card" => Right(reply.ask)

\* A ticket is written where none was, and afterwards only marked as gone.
TicketsKept ==
    /\ passes' \in [Passes -> Pass]
    /\ \A i \in Passes : passes[i].screen # Nemo =>
          /\ passes'[i].screen = passes[i].screen
          /\ passes'[i].at = passes[i].at
          /\ passes'[i].talk = passes[i].talk

LEMMA OwnTicketKept ==
    ASSUME NEW a, OwnTicket(a), TicketsKept
    PROVE  OwnTicket(a)'
<1>1. CASE a.pass = Nemo
  BY <1>1 DEF OwnTicket
<1>2. CASE a.pass # Nemo
  BY <1>2, GroupsAssumption DEF OwnTicket, TicketsKept, SameTalk
<1>. QED  BY <1>1, <1>2

LEMMA TicketKept ==
    ASSUME AskInv, NEW h \in Askers, Ticket(h), asks[h].q \in Questions
    PROVE  TicketsKept
<1>1. CASE UNCHANGED passes
  BY <1>1 DEF TicketsKept, AskInv
<1>2. ASSUME NEW i \in Fresh,
             passes' = [passes EXCEPT ![i] = [screen |-> ScreenOf(asks[h].q.group),
                          talk |-> asks[h].q.talk, at |-> hour, gone |-> FALSE]]
      PROVE  TicketsKept
  <2>1. ScreenOf(asks[h].q.group) \in Screens \cup {Nemo} /\ asks[h].q.talk \in Talks \cup {Nemo}
        /\ hour \in 0..LastHour /\ passes \in [Passes -> Pass]
    BY DEF ScreenOf, Screens, Questions, AskInv
  <2>2. PICK p : p = [screen |-> ScreenOf(asks[h].q.group),
                      talk |-> asks[h].q.talk, at |-> hour, gone |-> FALSE]
    OBVIOUS
  <2>3. p \in Pass
    BY <2>1, <2>2 DEF Pass
  <2>4. passes' = [passes EXCEPT ![i] = p] /\ i \in Passes /\ passes[i].screen = Nemo
    BY <1>2, <2>2 DEF Fresh
  <2>. QED  BY <2>1, <2>3, <2>4 DEF TicketsKept
<1>. QED  BY <1>1, <1>2 DEF Ticket

LEMMA IdleOK == Idle \in Sitting /\ OwnTicket(Idle) /\ Understood(Idle)
<1>1. Idle \in Sitting
  <2>1. NoQuestion \in {[NoQuestion EXCEPT !.talk = t] : t \in Talks \cup {Nemo}}
    <3>1. [NoQuestion EXCEPT !.talk = Nemo] = NoQuestion
      BY DEF NoQuestion
    <3>. QED  BY <3>1, Zenon
  <2>2. NoQuestion \in Asked /\ 0 \in 0..LastHour
    BY <2>1, AskingAssumption DEF AskingAssumption, Asked
  <2>. QED  BY <2>2 DEF Idle, Sitting
<1>2. Idle.pass = Nemo /\ Idle.stage = "idle"
  BY DEF Idle
<1>. QED  BY <1>1, <1>2 DEF OwnTicket, Understood

\* What a step of one request must establish.
LEMMA AskStep ==
    ASSUME AskInv, NEW h \in Askers, NEW new \in Sitting, OwnTicket(new), Understood(new),
           asks' = [asks EXCEPT ![h] = new], TicketsKept, UNCHANGED <<listed, hour>>,
           NEW kind \in {"none", "card", "answer"}, NEW b \in Sitting, OwnTicket(b),
           kind = "card" => Right(b),
           reply' = [kind |-> kind, ask |-> b]
    PROVE  AskInv'
<1>1. asks' \in [Askers -> Sitting]
  BY DEF AskInv
<1>2. ASSUME NEW k \in Askers PROVE (OwnTicket(asks[k]) /\ Understood(asks[k]))'
  <2>1. PICK a : a = asks'[k]
    OBVIOUS
  <2>2. OwnTicket(a) /\ Understood(a)
    BY <2>1 DEF AskInv
  <2>3. OwnTicket(a)'
    BY <2>2, OwnTicketKept
  <2>. QED  BY <2>1, <2>2, <2>3 DEF OwnTicket, Understood, Found, Unsaid
<1>3. OwnTicket(b)'
  BY OwnTicketKept
<1>4. reply'.kind = kind /\ reply'.ask = b
  OBVIOUS
<1>5. OwnTicket(reply.ask)'
  BY <1>3, <1>4 DEF OwnTicket
<1>6. reply'.kind = "card" => Right(reply.ask)'
  BY <1>4 DEF Right, Meant, Unsaid
<1>7. listed' \subseteq Rows /\ hour' \in 0..LastHour /\ passes' \in [Passes -> Pass]
  BY DEF AskInv, TicketsKept
<1>. QED  BY <1>1, <1>2, <1>4, <1>5, <1>6, <1>7 DEF AskInv

LEMMA StillTickets == ASSUME AskInv, UNCHANGED passes PROVE TicketsKept
BY DEF AskInv, TicketsKept

\* A request goes on, and nothing is shown.
LEMMA GoesOn ==
    ASSUME AskInv, NEW h \in Askers, NEW new \in Sitting, OwnTicket(new), Understood(new),
           asks' = [asks EXCEPT ![h] = new], UNCHANGED <<listed, passes, hour>>,
           reply' = NoReply
    PROVE  AskInv'
BY AskStep, IdleOK, StillTickets DEF NoReply

\* A request ends: silently, or with a card or an answer.
LEMMA EndsSilently ==
    ASSUME AskInv, NEW h \in Askers, Done(h), TicketsKept, UNCHANGED <<listed, hour>>,
           reply' = NoReply
    PROVE  AskInv'
BY AskStep, IdleOK DEF NoReply, Done

LEMMA SilentStep ==
    ASSUME AskInv, NEW h \in Askers, Silent(h)
    PROVE  AskInv'
BY EndsSilently, StillTickets DEF Silent

LEMMA EndsShowing ==
    ASSUME AskInv, NEW h \in Askers, Done(h), TicketsKept, UNCHANGED <<listed, hour>>,
           NEW kind \in {"card", "answer"}, NEW b \in Sitting, OwnTicket(b),
           kind = "card" => Right(b), reply' = [kind |-> kind, ask |-> b]
    PROVE  AskInv'
BY AskStep, IdleOK DEF Done

LEMMA ShowingStep ==
    ASSUME AskInv, NEW h \in Askers, NEW kind \in {"card", "answer"}, Showing(h, kind),
           kind = "card" => Right(asks[h])
    PROVE  AskInv'
<1>1. PICK b : b = asks[h]
  OBVIOUS
<1>2. b \in Sitting /\ OwnTicket(b) /\ (kind = "card" => Right(b))
  BY <1>1 DEF AskInv
<1>3. Done(h) /\ TicketsKept /\ UNCHANGED <<listed, hour>> /\ reply' = [kind |-> kind, ask |-> b]
  BY <1>1, StillTickets DEF Showing
<1>. QED  BY <1>2, <1>3, EndsShowing

\* A request as a step leaves it: only what is read of it may have changed.
Became(new, a) ==
    /\ new \in Sitting
    /\ new.q = a.q /\ new.pass = a.pass /\ new.door = a.door /\ new.at = a.at

LEMMA OwnTicketOfSame ==
    ASSUME NEW a, NEW new, Became(new, a), OwnTicket(a)
    PROVE  OwnTicket(new)
BY DEF Became, OwnTicket

\* What is left of a sentence without its amounts is a sequence.
LEMMA TextIsSequence ==
    ASSUME NEW s, Len(s) \in Nat
    PROVE  Len(TextWithoutAmounts(s)) \in Nat
<1>. DEFINE kept == {i \in 1..Len(s) : i \notin AmountsIn[s]}
            word(n) == s[CHOOSE i \in kept : Cardinality({j \in kept : j <= i}) = n]
<1>1. IsFiniteSet(kept)
  <2>1. IsFiniteSet(1..Len(s)) /\ kept \subseteq 1..Len(s)
    BY FS_Interval
  <2>. QED  BY <2>1, FS_Subset
<1>2. PICK m \in Nat : m = Cardinality(kept)
  BY <1>1, FS_CardinalityType
<1>3. TextWithoutAmounts(s) = [n \in 1..m |-> word(n)]
  BY <1>2 DEF TextWithoutAmounts
<1>. HIDE DEF word
<1>4. Len([n \in 1..m |-> word(n)]) = m
  OBVIOUS
<1>. QED  BY <1>3, <1>4

LEMMA QuestionFacts ==
    ASSUME NEW q \in Questions
    PROVE  /\ Len(q.says) \in Nat /\ q.pick \in Rows \cup {Nemo}
           /\ q.group \in Groups /\ q \in Asked
           /\ Len(PartyText(q)) \in Nat
<1>1. /\ Len(q.says) \in Nat /\ q.pick \in Rows \cup {Nemo}
      /\ q.group \in Groups /\ q \in Asked
  BY AskingAssumption, GroupsAssumption DEF AskingAssumption, GroupsAssumption, Questions, Asked
<1>. QED  BY <1>1, TextIsSequence DEF PartyText

LEMMA BookFacts ==
    ASSUME AskInv, NEW b
    PROVE  /\ Book(b) \subseteq Rows /\ IsFiniteSet(Book(b)) /\ Nemo \notin Book(b)
           /\ \A r \in Book(b) : BookOf[r] = b
<1>1. Book(b) \subseteq Rows /\ \A r \in Book(b) : BookOf[r] = b
  BY DEF AskInv, Book
<1>. QED  BY <1>1, AskingAssumption, FS_Subset DEF AskingAssumption

LEMMA AskedStep ==
    ASSUME AskInv, NEW h \in Askers, NEW q \in Questions, Ask(h, q)
    PROVE  AskInv'
<1>. DEFINE new == [Idle EXCEPT !.stage = "heard", !.q = q]
<1>1. q \in Asked /\ Idle \in Sitting
  BY QuestionFacts, IdleOK
<1>2. /\ new \in Sitting /\ new.stage = "heard" /\ new.q = q /\ new.pass = Nemo
      /\ new.row = Nemo /\ ~new.picked /\ new.book = "customer"
  BY <1>1 DEF Sitting, Idle
<1>3. asks' = [asks EXCEPT ![h] = new] /\ UNCHANGED <<listed, passes, hour>> /\ reply' = NoReply
  BY DEF Ask
<1>. HIDE DEF new
<1>4. OwnTicket(new) /\ Understood(new)
  BY <1>2 DEF OwnTicket, Understood
<1>. QED  BY <1>2, <1>3, <1>4, GoesOn

LEMMA ReadCustomersStep ==
    ASSUME AskInv, NEW h \in Askers, ReadCustomers(h)
    PROVE  AskInv'
<1>. PICK a \in Sitting : a = asks[h]
  BY DEF AskInv
<1>. PICK saw : saw = Book("customer")
  OBVIOUS
<1>. PICK stage \in {"both", "found"} :
        stage = IF a.q.group \in BothBooks THEN "both" ELSE "found"
  OBVIOUS
<1>1. OwnTicket(a) /\ Understood(a) /\ a.stage = "heard"
  BY DEF AskInv, ReadCustomers, At
<1>2. PICK r \in Resolutions(saw, PartyText(a.q)) :
         asks' = [asks EXCEPT ![h] = [@ EXCEPT
            !.stage = IF asks[h].q.group \in BothBooks THEN "both" ELSE "found",
            !.row = r.row, !.amb = r.amb, !.saw = Book("customer")]]
  BY DEF ReadCustomers
<1>3. a.q \in Questions /\ a.pass = Nemo /\ ~a.picked /\ a.book = "customer"
  BY <1>1 DEF Understood
<1>4. /\ saw \subseteq Rows /\ \A t \in saw : BookOf[t] = "customer"
  BY BookFacts
<1>5. /\ r.row \in saw \cup {Nemo} /\ r.amb \in BOOLEAN
      /\ r.row = Nemo => \A t \in saw : NameOf[t] \notin Frags(PartyText(a.q))
      /\ r.row # Nemo /\ ~r.amb => FitsAlone(saw, PartyText(a.q), r.row)
  BY <1>3, <1>4, QuestionFacts, ResolutionSound
<1>. PICK row \in Rows \cup {Nemo} : row = r.row
  BY <1>4, <1>5
<1>. PICK amb \in BOOLEAN : amb = r.amb
  BY <1>5, Zenon
<1>. DEFINE new == [a EXCEPT !.stage = stage, !.row = row, !.amb = amb, !.saw = saw]
<1>6. /\ Became(new, a) /\ new.stage = stage /\ new.row = row /\ new.amb = amb
      /\ new.saw = saw /\ new.picked = a.picked /\ new.book = a.book
  BY <1>4, <1>5 DEF Became, Sitting
<1>7. asks' = [asks EXCEPT ![h] = new] /\ UNCHANGED <<listed, passes, hour>> /\ reply' = NoReply
  BY <1>2 DEF ReadCustomers, AskInv
<1>. HIDE DEF new
<1>8. Found(new) /\ (row = Nemo => Unsaid(saw, new))
  BY <1>3, <1>4, <1>5, <1>6 DEF Found, Unsaid, Became
<1>9. stage = "found" => a.q.group # "payment_write"
  BY DEF BothBooks
<1>10. Understood(new)
  BY <1>3, <1>6, <1>8, <1>9 DEF Understood, Became
<1>11. OwnTicket(new) /\ new \in Sitting
  BY <1>1, <1>6, OwnTicketOfSame DEF Became
<1>. QED  BY <1>7, <1>10, <1>11, GoesOn

LEMMA ReadSuppliersStep ==
    ASSUME AskInv, NEW h \in Askers, ReadSuppliers(h)
    PROVE  AskInv'
<1>. PICK a \in Sitting : a = asks[h]
  BY DEF AskInv
<1>. PICK saw : saw = Book("supplier")
  OBVIOUS
<1>1. /\ OwnTicket(a) /\ Understood(a) /\ UNCHANGED <<listed, passes, hour>> /\ reply' = NoReply
      /\ (a.stage = "heard" /\ a.q.group \in SupplierGroups) \/ a.stage = "both"
  BY DEF AskInv, ReadSuppliers, At
<1>2. /\ a.q \in Questions /\ a.pass = Nemo /\ ~a.picked /\ a.book = "customer"
      /\ a.saw \subseteq Rows
  BY <1>1 DEF Understood, Sitting
<1>3. /\ saw \subseteq Rows /\ \A t \in saw : BookOf[t] = "supplier"
  BY BookFacts
<1>4. PICK r \in Resolutions(saw, PartyText(a.q)) :
         \/ a.stage = "both" /\ TwoWay(a, r) /\ Done(h)
         \/ /\ a.stage = "both" => /\ Directed(a, r) /\ (r.row # Nemo /\ a.row = Nemo)
            /\ asks' = [asks EXCEPT ![h] = [@ EXCEPT !.stage = "ready",
                 !.book = "supplier", !.row = r.row, !.amb = r.amb,
                 !.saw = Book("supplier"), !.other = a.saw]]
         \/ /\ a.stage = "both" /\ Directed(a, r) /\ ~(r.row # Nemo /\ a.row = Nemo)
            /\ asks' = [asks EXCEPT ![h] = [@ EXCEPT !.stage = "found",
                 !.other = Book("supplier")]]
  BY DEF ReadSuppliers, At
<1>5. /\ r.row \in saw \cup {Nemo} /\ r.amb \in BOOLEAN
      /\ r.row = Nemo => \A t \in saw : NameOf[t] \notin Frags(PartyText(a.q))
      /\ r.row # Nemo /\ ~r.amb => FitsAlone(saw, PartyText(a.q), r.row)
  BY <1>2, <1>3, QuestionFacts, ResolutionSound
<1>. PICK row \in Rows \cup {Nemo} : row = r.row
  BY <1>3, <1>5
<1>. PICK amb \in BOOLEAN : amb = r.amb
  BY <1>5, Zenon
<1>6. CASE Done(h)
  BY <1>1, <1>6, EndsSilently, StillTickets
<1>7. CASE /\ a.stage = "both" => Directed(a, r) /\ (r.row # Nemo /\ a.row = Nemo)
           /\ asks' = [asks EXCEPT ![h] = [@ EXCEPT !.stage = "ready",
                !.book = "supplier", !.row = r.row, !.amb = r.amb,
                !.saw = Book("supplier"), !.other = a.saw]]
  <2>. PICK other \in SUBSET Rows : other = a.saw
    BY <1>2
  <2>. DEFINE new == [a EXCEPT !.stage = "ready", !.book = "supplier", !.row = row,
                               !.amb = amb, !.saw = saw, !.other = other]
  <2>1. /\ Became(new, a) /\ new.stage = "ready" /\ new.row = row /\ new.amb = amb
        /\ new.saw = saw /\ new.picked = a.picked /\ new.book = "supplier"
        /\ new.other = other
    BY <1>3 DEF Became, Sitting
  <2>2. asks' = [asks EXCEPT ![h] = new]
    BY <1>7 DEF AskInv
  <2>. HIDE DEF new
  <2>3. Found(new)
    BY <1>3, <1>5, <2>1 DEF Found, Became
  <2>4. a.q.group = "payment_write" => Unsaid(other, new)
    <3>1. CASE a.stage = "both"
      BY <1>1, <1>7, <2>1, <3>1 DEF Understood, Unsaid, Became
    <3>2. CASE a.stage # "both"
      BY <1>1, <3>2 DEF SupplierGroups
    <3>. QED  BY <3>1, <3>2
  <2>5. Understood(new)
    BY <1>2, <2>1, <2>3, <2>4 DEF Understood, Became
  <2>6. OwnTicket(new) /\ new \in Sitting
    BY <1>1, <2>1, OwnTicketOfSame DEF Became
  <2>. QED  BY <1>1, <2>2, <2>5, <2>6, GoesOn
<1>8. CASE /\ a.stage = "both" /\ Directed(a, r) /\ ~(r.row # Nemo /\ a.row = Nemo)
           /\ asks' = [asks EXCEPT ![h] = [@ EXCEPT !.stage = "found",
                !.other = Book("supplier")]]
  <2>. DEFINE new == [a EXCEPT !.stage = "found", !.other = saw]
  <2>1. /\ Became(new, a) /\ new.stage = "found" /\ new.row = a.row /\ new.amb = a.amb
        /\ new.saw = a.saw /\ new.picked = a.picked /\ new.book = a.book
        /\ new.other = saw
    BY <1>3 DEF Became, Sitting
  <2>2. asks' = [asks EXCEPT ![h] = new]
    BY <1>8 DEF AskInv
  <2>. HIDE DEF new
  <2>3. Found(new)
    BY <1>1, <1>8, <2>1 DEF Understood, Found, Became
  <2>4. a.q.group = "payment_write" => Unsaid(saw, new)
    BY <1>5, <1>8, <2>1 DEF Directed, TwoWay, Unsaid, Became
  <2>5. Understood(new)
    BY <1>2, <2>1, <2>3, <2>4 DEF Understood, Became
  <2>6. OwnTicket(new) /\ new \in Sitting
    BY <1>1, <2>1, OwnTicketOfSame DEF Became
  <2>. QED  BY <1>1, <2>2, <2>5, <2>6, GoesOn
<1>. QED  BY <1>4, <1>6, <1>7, <1>8

LEMMA ReadPickedStep ==
    ASSUME AskInv, NEW h \in Askers, ReadPicked(h)
    PROVE  AskInv'
<1>. PICK a \in Sitting : a = asks[h]
  BY DEF AskInv
<1>1. /\ OwnTicket(a) /\ Understood(a) /\ UNCHANGED <<listed, passes, hour>> /\ reply' = NoReply
      /\ a.stage = "found"
  BY DEF AskInv, ReadPicked, At
<1>2. /\ a.q \in Questions /\ a.pass = Nemo /\ ~a.picked /\ a.book = "customer"
      /\ Found(a) /\ (a.q.group = "payment_write" => Unsaid(a.other, a))
  BY <1>1 DEF Understood
<1>3. a.q.pick \in Rows \cup {Nemo}
  BY <1>2, QuestionFacts
<1>4. CASE asks' = [asks EXCEPT ![h] = [a EXCEPT !.stage = "ready"]]
  <2>. DEFINE new == [a EXCEPT !.stage = "ready"]
  <2>1. /\ Became(new, a) /\ new.stage = "ready" /\ new.row = a.row /\ new.amb = a.amb
        /\ new.saw = a.saw /\ new.picked = a.picked /\ new.book = a.book
        /\ new.other = a.other
    BY DEF Became, Sitting
  <2>2. asks' = [asks EXCEPT ![h] = new]
    BY <1>4
  <2>. HIDE DEF new
  <2>3. Found(new)
    BY <1>2, <2>1 DEF Found, Became
  <2>4. Understood(new)
    BY <1>2, <2>1, <2>3 DEF Understood, Unsaid, Became
  <2>5. OwnTicket(new) /\ new \in Sitting
    BY <1>1, <2>1, OwnTicketOfSame DEF Became
  <2>. QED  BY <1>1, <2>2, <2>4, <2>5, GoesOn
<1>5. CASE /\ a.q.pick \in Book("customer")
           /\ asks' = [asks EXCEPT ![h] = [a EXCEPT !.stage = "ready", !.row = a.q.pick,
                                                    !.amb = FALSE, !.picked = TRUE]]
  <2>. PICK row \in Rows \cup {Nemo} : row = a.q.pick
    BY <1>3
  <2>. DEFINE new == [a EXCEPT !.stage = "ready", !.row = row, !.amb = FALSE, !.picked = TRUE]
  <2>1. /\ Became(new, a) /\ new.stage = "ready" /\ new.row = row
        /\ new.saw = a.saw /\ new.picked /\ new.book = a.book
        /\ new.other = a.other
    BY DEF Became, Sitting
  <2>2. asks' = [asks EXCEPT ![h] = new]
    BY <1>5
  <2>. HIDE DEF new
  <2>3. row = new.q.pick /\ BookOf[row] = "customer"
    BY <1>5, <2>1, BookFacts DEF Became
  <2>4. Understood(new)
    BY <1>2, <2>1, <2>3 DEF Understood, Unsaid, Became
  <2>5. OwnTicket(new) /\ new \in Sitting
    BY <1>1, <2>1, OwnTicketOfSame DEF Became
  <2>. QED  BY <1>1, <2>2, <2>4, <2>5, GoesOn
<1>6. asks' = [asks EXCEPT ![h] = IF a.q.pick = Nemo THEN [a EXCEPT !.stage = "ready"]
                                                    ELSE TakePick(a)]
  BY DEF ReadPicked
<1>. QED  BY <1>4, <1>5, <1>6 DEF TakePick

\* Of an answer nothing is proved but its shape.
LEMMA AnswerInventoryStep ==
    ASSUME AskInv, NEW h \in Askers, AnswerInventory(h)
    PROVE  AskInv'
<1>. PICK a \in Sitting : a = asks[h]
  BY DEF AskInv
<1>5. PICK book : book = Book("item")
  OBVIOUS
<1>6. PICK named : named = NamedItems(book, a.q.says)
  OBVIOUS
<1>1. OwnTicket(a) /\ Understood(a) /\ a.stage = "heard"
  BY DEF AskInv, AnswerInventory, At
<1>2. a.q.pick \in Rows \cup {Nemo} /\ book \subseteq Rows /\ IsFiniteSet(book) /\ Nemo \notin book
  BY <1>1, <1>5, QuestionFacts, BookFacts DEF Understood
<1>3. CASE Silent(h)
  BY <1>3, SilentStep
<1>4. CASE /\ reply' = [kind |-> "answer", ask |-> [asks[h] EXCEPT
                 !.row = IF a.q.pick \in Book("item") \/ Cardinality(named) = 1
                         THEN IF a.q.pick # Nemo THEN a.q.pick ELSE CHOOSE r \in named : TRUE
                         ELSE Nemo,
                 !.picked = a.q.pick \in Book("item"),
                 !.book = "item", !.saw = Book("item")]]
           /\ Done(h) /\ UNCHANGED <<listed, passes, hour>>
  <2>8. PICK row : row = IF a.q.pick \in book \/ Cardinality(named) = 1
                         THEN IF a.q.pick # Nemo THEN a.q.pick ELSE CHOOSE r \in named : TRUE
                         ELSE Nemo
    OBVIOUS
  <2>1. PICK picked : picked = (a.q.pick \in book)
    OBVIOUS
  <2>7. picked \in BOOLEAN
    BY <2>1
  <2>2. row \in Rows \cup {Nemo}
    <3>1. named \subseteq book /\ IsFiniteSet({})
      BY <1>2, <1>6, FS_EmptySet DEF NamedItems
    <3>2. CASE Cardinality(named) = 1
      <4>1. named # {}
        BY <3>2, FS_EmptySet
      <4>. QED  BY <1>2, <2>8, <3>1, <4>1
    <3>3. CASE Cardinality(named) # 1
      BY <1>2, <2>8, <3>3
    <3>. QED  BY <3>2, <3>3
  <2>. DEFINE b == [a EXCEPT !.row = row, !.picked = picked, !.book = "item", !.saw = book]
  <2>3. Became(b, a)
    BY <1>2, <2>2, <2>7 DEF Became, Sitting
  <2>4. reply' = [kind |-> "answer", ask |-> b]
    BY <1>4, <1>5, <2>1, <2>8
  <2>. HIDE DEF b
  <2>5. OwnTicket(b) /\ b \in Sitting
    BY <1>1, <2>3, OwnTicketOfSame DEF Became
  <2>6. TicketsKept
    BY <1>4, StillTickets
  <2>. QED  BY <1>4, <2>4, <2>5, <2>6, EndsShowing
<1>. QED  BY <1>3, <1>4, <1>5, <1>6 DEF AnswerInventory

LEMMA AnswerSupplierStep ==
    ASSUME AskInv, NEW h \in Askers, AnswerSupplier(h)
    PROVE  AskInv'
<1>. PICK a \in Sitting : a = asks[h]
  BY DEF AskInv
<1>. PICK book : book = Book("supplier")
  OBVIOUS
<1>. PICK found : found = LookedUp(book, a.q.says)
  OBVIOUS
<1>1. OwnTicket(a) /\ Understood(a) /\ a.stage = "heard"
  BY DEF AskInv, AnswerSupplier, At
<1>2. a.q.pick \in Rows \cup {Nemo} /\ book \subseteq Rows
  BY <1>1, QuestionFacts, BookFacts DEF Understood
<1>3. CASE Silent(h)
  BY <1>3, SilentStep
<1>4. CASE /\ a.q.pick \in Book("supplier") \/ (a.q.pick = Nemo /\ Cardinality(found) = 1)
           /\ reply' = [kind |-> "answer", ask |-> [asks[h] EXCEPT
                 !.row = IF a.q.pick # Nemo THEN a.q.pick ELSE CHOOSE r \in found : TRUE,
                 !.picked = a.q.pick # Nemo,
                 !.book = "supplier", !.saw = Book("supplier")]]
           /\ Done(h) /\ UNCHANGED <<listed, passes, hour>>
  <2>. PICK row : row = IF a.q.pick # Nemo THEN a.q.pick ELSE CHOOSE r \in found : TRUE
    OBVIOUS
  <2>1. PICK picked \in BOOLEAN : picked = (a.q.pick # Nemo)
    OBVIOUS
  <2>2. row \in Rows \cup {Nemo}
    <3>1. CASE a.q.pick # Nemo
      BY <1>2, <3>1
    <3>2. CASE a.q.pick = Nemo
      <4>1. found \subseteq book
        BY DEF LookedUp
      <4>2. Cardinality(found) = 1 \/ Nemo \in book
        BY <1>4, <3>2
      <4>3. found # {}
        <5>1. Nemo \notin book
          BY BookFacts
        <5>. QED  BY <4>2, <5>1, FS_EmptySet
      <4>. QED  BY <1>2, <3>2, <4>1, <4>3
    <3>. QED  BY <3>1, <3>2
  <2>. DEFINE b == [a EXCEPT !.row = row, !.picked = picked, !.book = "supplier", !.saw = book]
  <2>3. Became(b, a)
    BY <1>2, <2>2 DEF Became, Sitting
  <2>4. reply' = [kind |-> "answer", ask |-> b]
    BY <1>4, <2>1
  <2>. HIDE DEF b
  <2>5. OwnTicket(b) /\ b \in Sitting
    BY <1>1, <2>3, OwnTicketOfSame DEF Became
  <2>6. TicketsKept
    BY <1>4, StillTickets
  <2>. QED  BY <1>4, <2>4, <2>5, <2>6, EndsShowing
<1>. QED  BY <1>3, <1>4 DEF AnswerSupplier

\* The policy of every write: a party that is settled is meant.
LEMMA SettledRight ==
    ASSUME AskInv, NEW h \in Askers, NEW G, Settled(h, G)
    PROVE  Right(asks[h]) /\ asks[h].q \in Questions
<1>. PICK a \in Sitting : a = asks[h]
  BY DEF AskInv
<1>1. Understood(a) /\ a.stage = "ready" /\ a.row # Nemo /\ Match(a) = "EXACT_MATCH"
  BY DEF AskInv, Settled, Ready, At, MayWrite
<1>2. /\ a.q \in Questions /\ a.pass = Nemo
      /\ IF a.picked THEN a.row = a.q.pick /\ BookOf[a.row] = a.book ELSE Found(a)
      /\ a.q.group = "payment_write" => Unsaid(a.other, a)
  BY <1>1 DEF Understood
<1>3. CASE a.picked
  BY <1>2, <1>3 DEF Right, Meant
<1>4. CASE ~a.picked
  <2>1. a.amb \in BOOLEAN
    BY DEF Sitting
  <2>2. ~a.amb /\ NameOf[a.row] \in Frags(a.q.says)
    BY <1>1, <1>4, <2>1 DEF Match
  <2>3. BookOf[a.row] = a.book /\ FitsAlone(a.saw, PartyText(a.q), a.row)
    BY <1>1, <1>2, <1>4, <2>2 DEF Found
  <2>4. Meant(a)
    BY <2>2, <2>3 DEF Meant
  <2>. QED  BY <1>2, <2>3, <2>4 DEF Right
<1>. QED  BY <1>3, <1>4

LEMMA WriteStep ==
    ASSUME AskInv, NEW h \in Askers, NEW G, Settled(h, G),
           Showing(h, "card") \/ Silent(h)
    PROVE  AskInv'
BY SettledRight, ShowingStep, SilentStep

LEMMA OpensScreenStep ==
    ASSUME AskInv, NEW h \in Askers, Ticket(h), asks[h].q \in Questions, Done(h),
           UNCHANGED <<listed, hour>>, reply' = NoReply
    PROVE  AskInv'
BY TicketKept, EndsSilently

LEMMA AskToPickStep ==
    ASSUME AskInv, NEW h \in Askers, AskToPick(h)
    PROVE  AskInv'
<1>1. asks[h].q \in Questions
  BY DEF AskInv, Understood, AskToPick, At
<1>. QED  BY <1>1, OpensScreenStep, EndsSilently, StillTickets DEF AskToPick

LEMMA BuildPaymentStep ==
    ASSUME AskInv, NEW h \in Askers, BuildPayment(h)
    PROVE  AskInv'
<1>. PICK b : b = asks[h]
  OBVIOUS
<1>1. Right(b) /\ b.q \in Questions /\ b \in Sitting /\ OwnTicket(b)
  BY SettledRight DEF BuildPayment, AskInv
<1>2. CASE Ticket(h) /\ Done(h) /\ UNCHANGED <<listed, hour>>
           /\ (reply' = [kind |-> "card", ask |-> b] \/ reply' = NoReply)
  <2>1. TicketsKept
    BY <1>1, <1>2, TicketKept
  <2>. QED  BY <1>1, <1>2, <2>1, EndsShowing, EndsSilently
<1>3. CASE Showing(h, "card")
  BY <1>1, <1>3, ShowingStep
<1>4. CASE Silent(h)
  BY <1>4, SilentStep
<1>. QED  BY <1>2, <1>3, <1>4 DEF BuildPayment

LEMMA OwnPartyStep ==
    ASSUME AskInv, NEW h \in Askers, BuildOwnParty(h)
    PROVE  AskInv'
<1>1. Right(asks[h])
  BY DEF AskInv, Understood, BuildOwnParty, At, Right
<1>. QED  BY <1>1, ShowingStep, SilentStep DEF BuildOwnParty

\* A screen asks for its card: the ticket was valid when it came in.
LEMMA EnterStep ==
    ASSUME AskInv, NEW h \in Askers, NEW i \in Passes, NEW talk1 \in Talks \cup {Nemo},
           NEW door \in Screens, Enter(h, i, talk1, door)
    PROVE  AskInv'
<1>1. PICK row \in Rows :
         asks' = [asks EXCEPT ![h] = [Idle EXCEPT !.stage = "entered",
            !.q = [NoQuestion EXCEPT !.talk = talk1],
            !.row = row, !.pass = i, !.door = door, !.at = hour]]
  BY DEF Enter
<1>2. PICK q : q = [NoQuestion EXCEPT !.talk = talk1]
  OBVIOUS
<1>3. q \in Asked /\ q.talk = talk1 /\ q.group # "payment_write"
  <2>1. q \in Asked
    BY <1>2 DEF Asked
  <2>2. q.talk = talk1 /\ q.group = "balance"
    BY <1>2 DEF NoQuestion
  <2>. QED  BY <2>1, <2>2
<1>. DEFINE new == [Idle EXCEPT !.stage = "entered", !.q = q, !.row = row, !.pass = i,
                                !.door = door, !.at = hour]
<1>4. Idle \in Sitting /\ hour \in 0..LastHour
  BY IdleOK DEF AskInv
<1>5. /\ new \in Sitting /\ new.stage = "entered" /\ new.q = q /\ new.pass = i
      /\ new.door = door /\ new.at = hour
  BY <1>3, <1>4 DEF Sitting
<1>6. asks' = [asks EXCEPT ![h] = new]
  BY <1>1, <1>2
<1>. HIDE DEF new
<1>7. passes[i].screen = door /\ SameTalk(i, talk1) /\ ~Ended(i) /\ passes[i].at \in 0..LastHour
  BY DEF Enter, Opens, Valid, AskInv, Pass
<1>8. hour - passes[i].at <= PassHours
  BY <1>4, <1>7, AskingAssumption DEF Ended, AskingAssumption
<1>9. OwnTicket(new)
  BY <1>3, <1>5, <1>7, <1>8 DEF OwnTicket
<1>10. Understood(new)
  BY <1>3, <1>5, AskingAssumption DEF Understood, AskingAssumption
<1>11. UNCHANGED <<listed, passes, hour>> /\ reply' = NoReply
  BY DEF Enter
<1>. QED  BY <1>5, <1>6, <1>9, <1>10, <1>11, GoesOn

LEMMA FromScreenStep ==
    ASSUME AskInv, NEW h \in Askers, NEW door, NEW book \in {"customer", "supplier"},
           BuildFromScreen(h, door, book)
    PROVE  AskInv'
<1>. PICK a \in Sitting : a = asks[h]
  BY DEF AskInv
<1>. PICK saw : saw = Book(book)
  OBVIOUS
<1>1. OwnTicket(a) /\ a.pass # Nemo /\ a.q.group # "payment_write"
  BY DEF AskInv, Understood, BuildFromScreen, At
<1>2. CASE Silent(h)
  BY <1>2, SilentStep
<1>3. CASE /\ a.row \in saw
           /\ reply' = [kind |-> "card", ask |-> [a EXCEPT
                           !.picked = TRUE, !.book = book, !.saw = saw]]
           /\ Done(h) /\ UNCHANGED <<listed, passes, hour>>
  <2>1. saw \subseteq Rows /\ BookOf[a.row] = book
    BY <1>3, BookFacts
  <2>. DEFINE b == [a EXCEPT !.picked = TRUE, !.book = book, !.saw = saw]
  <2>2. Became(b, a) /\ b.picked /\ b.book = book /\ b.row = a.row
    BY <2>1 DEF Became, Sitting
  <2>3. reply' = [kind |-> "card", ask |-> b]
    BY <1>3
  <2>. HIDE DEF b
  <2>4. Right(b)
    BY <1>1, <2>1, <2>2 DEF Right, Meant, Became
  <2>5. OwnTicket(b) /\ b \in Sitting
    BY <1>1, <2>2, OwnTicketOfSame DEF Became
  <2>6. TicketsKept
    BY <1>3, StillTickets
  <2>. QED  BY <1>3, <2>3, <2>4, <2>5, <2>6, EndsShowing
<1>. QED  BY <1>2, <1>3 DEF BuildFromScreen

\* Where no request moves.
LEMMA RequestsKept ==
    ASSUME AskInv, UNCHANGED asks, TicketsKept, listed' \subseteq Rows, hour' \in 0..LastHour,
           reply' = NoReply \/ reply' = reply
    PROVE  AskInv'
<1>1. ASSUME NEW k \in Askers PROVE (OwnTicket(asks[k]) /\ Understood(asks[k]))'
  <2>1. PICK a : a = asks[k]
    OBVIOUS
  <2>2. OwnTicket(a) /\ Understood(a) /\ asks'[k] = a
    BY <2>1 DEF AskInv
  <2>3. OwnTicket(a)'
    BY <2>2, OwnTicketKept
  <2>. QED  BY <2>2, <2>3 DEF OwnTicket, Understood, Found, Unsaid
<1>2. PICK b : b = reply'.ask
  OBVIOUS
<1>3. /\ reply'.kind \in {"none", "card", "answer"} /\ b \in Sitting /\ OwnTicket(b)
      /\ reply'.kind = "card" => Right(b)
  BY <1>2, IdleOK DEF AskInv, NoReply
<1>4. OwnTicket(b)'
  BY <1>3, OwnTicketKept
<1>5. OwnTicket(reply.ask)' /\ (reply'.kind = "card" => Right(reply.ask)')
  BY <1>2, <1>3, <1>4 DEF OwnTicket, Right, Meant, Unsaid
<1>6. passes' \in [Passes -> Pass]
  BY DEF TicketsKept
<1>. QED  BY <1>1, <1>2, <1>3, <1>5, <1>6 DEF AskInv

LEMMA AskInductive ==
    ASSUME AskInv, [AskingNext]_askVars
    PROVE  AskInv'
<1>1. CASE UNCHANGED askVars
  BY <1>1, RequestsKept, StillTickets DEF askVars, AskInv
<1>2. ASSUME NEW h \in Askers, NEW i \in Passes, TurnAway(h, i)
      PROVE  AskInv'
  <2>1. TicketsKept
    BY <1>2 DEF TurnAway, TicketsKept, AskInv, Pass
  <2>. QED  BY <1>2, <2>1, RequestsKept DEF TurnAway, AskInv
<1>3. ASSUME NEW r \in Rows, AddRow(r) \/ DropRow(r)
      PROVE  AskInv'
  BY <1>3, RequestsKept, StillTickets DEF AddRow, DropRow, AskInv
<1>4. CASE HourPasses
  <2>1. hour' \in 0..LastHour
    BY <1>4, AskingAssumption DEF HourPasses, AskInv, AskingAssumption
  <2>. QED  BY <1>4, <2>1, RequestsKept, StillTickets DEF HourPasses, AskInv
<1>5. ASSUME NEW h \in Askers,
             TurnDown(h) \/ Decline(h) \/ AnswerSummary(h) \/ BuildOwnParty(h)
                \/ AnswerHistory(h) \/ AnswerInvoices(h) \/ AnswerBalance(h)
      PROVE  AskInv'
  BY <1>5, SilentStep, ShowingStep, OwnPartyStep DEF TurnDown, Decline, AnswerSummary,
     AnswerHistory, AnswerInvoices, AnswerBalance
<1>6. ASSUME NEW h \in Askers,
             OpenSales(h) \/ OpenPurchase(h) \/ BuildDelivery(h) \/ BuildReceipt(h)
                \/ BuildInvoice(h) \/ BuildOrder(h)
      PROVE  AskInv'
  BY <1>6, SettledRight, OpensScreenStep, WriteStep DEF OpenSales, OpenPurchase,
     BuildDelivery, BuildReceipt, BuildInvoice, BuildOrder
<1>7. ASSUME NEW h \in Askers, NEW i \in Passes, NEW talk1 \in Talks \cup {Nemo},
             EnterCollect(h, i, talk1) \/ EnterSales(h, i, talk1) \/ EnterPurchase(h, i, talk1)
      PROVE  AskInv'
  BY <1>7, EnterStep DEF EnterCollect, EnterSales, EnterPurchase, Screens
<1>8. ASSUME NEW h \in Askers, ProposeCollect(h) \/ ProposeSales(h) \/ ProposePurchase(h)
      PROVE  AskInv'
  BY <1>8, FromScreenStep DEF ProposeCollect, ProposeSales, ProposePurchase
<1>9. ASSUME AskingNext PROVE AskInv'
  BY <1>2, <1>3, <1>4, <1>5, <1>6, <1>7, <1>8, <1>9, AskedStep, AnswerInventoryStep,
     AnswerSupplierStep, ReadCustomersStep, ReadSuppliersStep, ReadPickedStep,
     AskToPickStep, BuildPaymentStep DEF AskingNext
<1>. QED  BY <1>1, <1>9

LEMMA AskInvHolds == AskingSpec => []AskInv
<1>1. AskingInit => AskInv
  <2>. SUFFICES ASSUME AskingInit PROVE AskInv
    OBVIOUS
  <2>1. passes \in [Passes -> Pass]
    BY AskingAssumption DEF AskingInit, Pass, AskingAssumption
  <2>2. 0 \in 0..LastHour
    BY AskingAssumption DEF AskingAssumption
  <2>. QED  BY <2>1, <2>2, IdleOK DEF AskingInit, AskInv, NoReply
<1>2. AskInv /\ [AskingNext]_askVars => AskInv'
  BY AskInductive
<1>. QED  BY <1>1, <1>2, PTL DEF AskingSpec

\* The variables of the requests have their types, for any books and sentences.
THEOREM AskingTypeOKHolds == AskingSpec => []AskingTypeOK
<1>1. AskInv => AskingTypeOK
  BY DEF AskInv, AskingTypeOK, Pass
<1>. QED  BY <1>1, AskInvHolds, PTL

\* The party of a write card is the one tapped, or one whose full name the sentence
\* says and that alone of its book fits a stretch of it, the amounts of a payment left
\* out; and a payment knows its direction: for any books, which may change between any
\* two reads, any sentences and whatever is taken for an amount.
THEOREM CardPartyIsMeantHolds == AskingSpec => []CardPartyIsMeant
<1>1. AskInv => CardPartyIsMeant
  BY DEF AskInv, CardPartyIsMeant, Right, Unsaid
<1>. QED  BY <1>1, AskInvHolds, PTL

\* A card that a screen asked for was made with a ticket of that screen, of the same
\* conversation and within its life.
THEOREM CardFromOwnHandoffHolds == AskingSpec => []CardFromOwnHandoff
<1>1. AskInv => CardFromOwnHandoff
  BY DEF AskInv, CardFromOwnHandoff, OwnTicket
<1>. QED  BY <1>1, AskInvHolds, PTL

-----------------------------------------------------------------------------
(* The command id a card is sent under.                                    *)

CardTurn == [id : Nat, card : {"none", "open", "refused"}, key : Nat, seeded : BOOLEAN]
OneEach(S) == \A t, u \in S : t.id = u.id => t = u

\* The chat: T its turns, D the stored ones, S what was sent, a and m the turns and
\* the command ids made so far.  A card that can still be pressed has the id it was
\* sent under, alone; and one that was stored was keyed before, so that the copy of
\* it has the same id.
ChatOK(T, D, S, a, m) ==
    /\ T \subseteq CardTurn /\ D \subseteq CardTurn
    /\ a \in Nat /\ m \in Nat
    /\ ~storage => D = {}
    /\ \A t \in T \cup D : t.id <= a /\ t.key <= m
    /\ OneEach(T) /\ OneEach(D)
    /\ \A t, u \in T \cup D : Pending(t) /\ Pending(u) /\ t.id = u.id => t.key = u.key
    /\ \A t, u \in T \cup D : Pending(t) /\ Pending(u) /\ t.key = u.key /\ t.key # NoKey
                                 => t.id = u.id
    /\ storage => \A t \in T \cup D : Pending(t) => t.key # NoKey
    /\ \A p \in S : p.card \in Nat /\ p.card <= a /\ p.key \in 1..m
    /\ \A p, q \in S : p.card = q.card <=> p.key = q.key
    /\ \A t \in T \cup D, p \in S : Pending(t) => (p.card = t.id <=> p.key = t.key)

\* Turns may be dropped, restored, refused or stored, as long as each one that can
\* still be pressed was there, with its id.
LEMMA ChatKept ==
    ASSUME NEW T, NEW D, NEW S, NEW a, NEW m, ChatOK(T, D, S, a, m),
           NEW T2 \in SUBSET CardTurn, NEW D2 \in SUBSET CardTurn, ~storage => D2 = {},
           NEW a2 \in Nat, NEW m2 \in Nat, a <= a2, m <= m2,
           \A t \in T2 \cup D2 : t.id <= a2 /\ t.key <= m2,
           OneEach(T2), OneEach(D2),
           \A t \in T2 \cup D2 : Pending(t) =>
              \E u \in T \cup D : Pending(u) /\ u.id = t.id /\ u.key = t.key
    PROVE  ChatOK(T2, D2, S, a2, m2)
<1>1. \A t, u \in T2 \cup D2 : Pending(t) /\ Pending(u) /\ t.id = u.id => t.key = u.key
  BY DEF ChatOK
<1>2. \A t, u \in T2 \cup D2 : Pending(t) /\ Pending(u) /\ t.key = u.key /\ t.key # NoKey
                                 => t.id = u.id
  BY DEF ChatOK
<1>3. storage => \A t \in T2 \cup D2 : Pending(t) => t.key # NoKey
  BY DEF ChatOK
<1>4. \A p \in S : p.card \in Nat /\ p.card <= a2 /\ p.key \in 1..m2
  BY DEF ChatOK
<1>5. /\ \A p, q \in S : p.card = q.card <=> p.key = q.key
      /\ \A t \in T2 \cup D2, p \in S : Pending(t) => (p.card = t.id <=> p.key = t.key)
  BY DEF ChatOK
<1>. QED  BY <1>1, <1>2, <1>3, <1>4, <1>5 DEF ChatOK

\* An answer brings a card, keyed at once when it is going to be stored.
LEMMA CardAdded ==
    ASSUME NEW T, NEW D, NEW S, NEW a, NEW m, ChatOK(T, D, S, a, m),
           NEW key \in {NoKey, m + 1}, NEW new \in CardTurn,
           new.id = a + 1, new.key = key, storage /\ Pending(new) => key # NoKey,
           NEW T2, T2 \subseteq T \cup {new}, NEW D2, D2 = IF storage THEN T2 ELSE D,
           NEW m2, m2 = IF key = NoKey THEN m ELSE key
    PROVE  ChatOK(T2, D2, S, a + 1, m2)
<1>1. /\ a \in Nat /\ m \in Nat /\ T \subseteq CardTurn /\ D \subseteq CardTurn
      /\ \A t \in T \cup D : t.id <= a /\ t.key <= m /\ t.id \in Nat /\ t.key \in Nat
      /\ m2 \in Nat /\ m <= m2 /\ key <= m2 /\ key \in Nat
  BY DEF ChatOK, CardTurn, NoKey
<1>2. key # NoKey => key = m + 1 /\ m2 = m + 1
  BY <1>1
<1>3. T2 \cup D2 \subseteq T \cup D \cup {new} /\ D2 \subseteq CardTurn /\ (~storage => D2 = {})
      /\ (storage => D2 = T2) /\ T2 \subseteq CardTurn
  BY <1>1 DEF ChatOK
<1>4. \A t \in T2 \cup D2 : t.id <= a + 1 /\ t.key <= m2
  BY <1>1, <1>3
<1>5. OneEach(T2) /\ OneEach(D2)
  <2>1. OneEach(T2)
    BY <1>1 DEF OneEach, ChatOK
  <2>. QED  BY <1>3, <2>1 DEF OneEach
<1>6. \A t, u \in T2 \cup D2 : Pending(t) /\ Pending(u) /\ t.id = u.id => t.key = u.key
  BY <1>1, <1>3 DEF ChatOK
<1>7. \A t, u \in T2 \cup D2 : Pending(t) /\ Pending(u) /\ t.key = u.key /\ t.key # NoKey
                                 => t.id = u.id
  BY <1>1, <1>2, <1>3 DEF ChatOK
<1>8. storage => \A t \in T2 \cup D2 : Pending(t) => t.key # NoKey
  BY <1>3 DEF ChatOK
<1>9. \A p \in S : p.card \in Nat /\ p.card <= a + 1 /\ p.key \in 1..m2
  BY <1>1 DEF ChatOK
<1>10. \A p, q \in S : p.card = q.card <=> p.key = q.key
  BY DEF ChatOK
<1>11. \A t \in T2 \cup D2, p \in S : Pending(t) => (p.card = t.id <=> p.key = t.key)
  <2>1. \A p \in S : p.card # a + 1 /\ p.key # key
    BY <1>1, <1>2 DEF ChatOK, NoKey
  <2>. QED  BY <1>3, <2>1 DEF ChatOK
<1>12. a + 1 \in Nat
  BY <1>1
<1>13. ChatOK(T2, D2, S, a + 1, m2)
  BY <1>1, <1>3, <1>4, <1>5, <1>6, <1>7, <1>8, <1>9, <1>10, <1>11, <1>12 DEF ChatOK
<1>. QED  BY <1>13

\* [Confirm]: every press of a card goes out under the id of the card.
LEMMA CardPressed ==
    ASSUME NEW T, NEW D, NEW S, NEW a, NEW m, ChatOK(T, D, S, a, m),
           NEW t \in T, Pending(t),
           NEW key, key = IF t.key = NoKey THEN m + 1 ELSE t.key,
           NEW m2, m2 = IF t.key = NoKey THEN m + 1 ELSE m,
           NEW new, new = [t EXCEPT !.key = key],
           NEW p, p.card = t.id, p.key = key
    PROVE  ChatOK((T \ {t}) \cup {new}, D, S \cup {p}, a, m2)
<1>1. /\ a \in Nat /\ m \in Nat /\ T \subseteq CardTurn /\ D \subseteq CardTurn
      /\ \A u \in T \cup D : u.id <= a /\ u.key <= m /\ u.id \in Nat /\ u.key \in Nat
  BY DEF ChatOK, CardTurn
<1>2. /\ m2 \in Nat /\ m <= m2 /\ key \in 1..m2
      /\ (t.key = NoKey => key = m + 1) /\ (t.key # NoKey => key = t.key)
  BY <1>1 DEF NoKey
<1>3. new \in CardTurn /\ new.id = t.id /\ new.key = key /\ Pending(new)
  BY <1>1, <1>2 DEF CardTurn, Pending
<1>. PICK T2 : T2 = (T \ {t}) \cup {new}
  OBVIOUS
<1>4. \A u \in T2 \cup D : u = new \/ u \in T \cup D
  OBVIOUS
<1>5. OneEach(T2)
  <2>1. \A u \in T2 : u = new \/ (u \in T /\ u # t)
    OBVIOUS
  <2>2. \A u, v \in T : u.id = v.id => u = v
    BY DEF ChatOK, OneEach
  <2>3. \A u \in T : u # t => u.id # new.id
    BY <1>3, <2>2
  <2>4. \A u, v \in T2 : u.id = v.id => u = v
    BY <2>1, <2>2, <2>3
  <2>. QED  BY <2>4 DEF OneEach
<1>6. \A u \in D : Pending(u) /\ u.id = t.id => u.key = key
  <2>1. CASE storage
    BY <1>2, <2>1 DEF ChatOK
  <2>2. CASE ~storage
    BY <2>2 DEF ChatOK
  <2>. QED  BY <2>1, <2>2
<1>7. \A u \in T2 : u.id = t.id => u = new
  BY <1>3 DEF ChatOK, OneEach
<1>8. \A u \in T2 \cup D : Pending(u) /\ u.id = t.id => u.key = key
  BY <1>3, <1>6, <1>7
<1>9. \A u \in T \cup D : Pending(u) /\ u.key = key => u.id = t.id
  BY <1>1, <1>2 DEF ChatOK
<1>10. \A q \in S : q.card = t.id <=> q.key = key
  BY <1>1, <1>2 DEF ChatOK, NoKey
<1>11. \A u, v \in T2 \cup D : Pending(u) /\ Pending(v) /\ u.id = v.id => u.key = v.key
  <2>. SUFFICES ASSUME NEW u \in T2 \cup D, NEW v \in T2 \cup D,
                       Pending(u), Pending(v), u.id = v.id
                PROVE  u.key = v.key
    OBVIOUS
  <2>1. CASE u.id = t.id
    BY <1>8, <2>1
  <2>2. CASE u.id # t.id
    BY <1>3, <1>4, <2>2 DEF ChatOK
  <2>. QED  BY <2>1, <2>2
<1>12. \A u, v \in T2 \cup D : Pending(u) /\ Pending(v) /\ u.key = v.key /\ u.key # NoKey
                                 => u.id = v.id
  <2>. SUFFICES ASSUME NEW u \in T2 \cup D, NEW v \in T2 \cup D,
                       Pending(u), Pending(v), u.key = v.key, u.key # NoKey
                PROVE  u.id = v.id
    OBVIOUS
  <2>1. CASE u = new \/ v = new
    BY <1>3, <1>4, <1>9, <2>1
  <2>2. CASE u # new /\ v # new
    BY <1>4, <2>2 DEF ChatOK
  <2>. QED  BY <2>1, <2>2
<1>13. storage => \A u \in T2 \cup D : Pending(u) => u.key # NoKey
  BY <1>2, <1>3, <1>4 DEF ChatOK, NoKey
<1>14. \A q \in S \cup {p} : q.card \in Nat /\ q.card <= a /\ q.key \in 1..m2
  <2>1. \A q \in S : q.card \in Nat /\ q.card <= a /\ q.key \in 1..m2
    BY <1>1, <1>2 DEF ChatOK
  <2>. QED  BY <1>1, <1>2, <2>1
<1>15. \A q, r \in S \cup {p} : q.card = r.card <=> q.key = r.key
  BY <1>10 DEF ChatOK
<1>16. \A u \in T2 \cup D, q \in S \cup {p} : Pending(u) => (q.card = u.id <=> q.key = u.key)
  <2>. SUFFICES ASSUME NEW u \in T2 \cup D, NEW q \in S \cup {p}, Pending(u)
                PROVE  q.card = u.id <=> q.key = u.key
    OBVIOUS
  <2>1. CASE u = new
    BY <1>3, <1>10, <2>1
  <2>2. CASE u # new /\ q = p
    BY <1>4, <1>8, <1>9, <2>2
  <2>3. CASE u # new /\ q # p
    BY <1>4, <2>3 DEF ChatOK
  <2>. QED  BY <2>1, <2>2, <2>3
<1>17. \A u \in T2 \cup D : u.id <= a /\ u.key <= m2
  <2>1. new.id <= a /\ new.key <= m2
    BY <1>1, <1>2, <1>3
  <2>2. \A u \in T \cup D : u.id <= a /\ u.key <= m2
    <3>. SUFFICES ASSUME NEW u \in T \cup D PROVE u.id <= a /\ u.key <= m2
      OBVIOUS
    <3>1. u.id <= a /\ u.key <= m /\ u.key \in Nat
      BY <1>1
    <3>. QED  BY <1>1, <1>2, <3>1
  <2>. QED  BY <1>4, <2>1, <2>2
<1>18. T2 \subseteq CardTurn /\ OneEach(D) /\ (~storage => D = {})
  BY <1>1, <1>3 DEF ChatOK
<1>. QED  BY <1>1, <1>2, <1>5, <1>11, <1>12, <1>13, <1>14, <1>15, <1>16, <1>17, <1>18 DEF ChatOK

\* The card under a form: its id is the one it was sent under, as long as it has one.
Contents == {<<>>} \cup ((Parties \cup {"none"}) \X Nat \X Nat \X Nat)
Card == [id : Nat, key : Nat, of : Contents]
Form == [party : Parties \cup {"none"}, place : Nat, lines : Nat, money : Nat,
         epoch : Nat, mine : Int, busy : BOOLEAN, accounts : BOOLEAN, failed : BOOLEAN,
         result : Card]
Flight == [n : Nat, kind : {"propose", "first", "rows", "reload", "collect"},
           talk : Nat, of : Contents]

Keyed(card, S, m) ==
    /\ card \in Card /\ m \in Nat /\ card.key <= m
    /\ \A p \in S : p.key \in 1..m
    /\ \A p \in S : p.key = card.key => p.card = card.id
    /\ \A p, q \in S : p.key = q.key => p.card = q.card

\* A reply that the form still heeds is about the form as it stands, and so is the
\* card under it.
Heeded(form1, flight1) ==
    LET content == <<form1.party, form1.place, form1.lines, form1.money>> IN
    /\ \A f \in flight1 : /\ f.kind = "propose" /\ f.n <= form1.epoch
                          /\ f.n = form1.epoch => f.of = content
    /\ form1.result # NoCard => form1.result.of = content

PhoneInv ==
    /\ screen \in {"chat"} \cup Screens3
    /\ \A p \in sent : p.screen = screen
    /\ \A p \in sent : p.screen \in {"sales", "purchase"} => p.of = p.now
    /\ screen = "chat" => ChatOK(turns, disk, sent, asked, minted)
    /\ screen # "chat" => /\ form \in Form /\ flight \subseteq Flight /\ asked \in Nat
                          /\ Keyed(form.result, sent, minted)
    /\ screen \in {"sales", "purchase"} => Heeded(form, flight)

LEMMA ChatAppends ==
    ASSUME ChatOK(turns, disk, sent, asked, minted), NEW card \in {"none", "open"},
           Append1(card), UNCHANGED <<storage, sent>>
    PROVE  ChatOK(turns, disk, sent, asked, minted)'
<1>k. PICK key : key = IF storage /\ card = "open" THEN minted + 1 ELSE NoKey
  OBVIOUS
<1>n. PICK new : new = Turn(asked + 1, card, key, FALSE)
  OBVIOUS
<1>t. PICK T2 : T2 = Trim(turns \cup {new})
  OBVIOUS
<1>d. PICK D2 : D2 = IF storage THEN T2 ELSE disk
  OBVIOUS
<1>1. asked \in Nat /\ minted \in Nat
  BY DEF ChatOK
<1>2. new \in CardTurn /\ new.id = asked + 1 /\ new.key = key /\ new.card = card
  BY <1>1, <1>k, <1>n DEF Turn, CardTurn, NoKey
<1>3. /\ turns' = T2 /\ disk' = D2 /\ asked' = asked + 1
      /\ minted' = IF key = NoKey THEN minted ELSE key
  BY <1>k, <1>n, <1>t, <1>d DEF Append1, Store
<1>4. T2 \subseteq turns \cup {new}
  BY <1>t DEF Trim
<1>5. key \in {NoKey, minted + 1}
  BY <1>k
<1>6. storage /\ Pending(new) => key = minted + 1
  BY <1>2, <1>k DEF Pending
<1>7. PICK a : a = asked
  OBVIOUS
<1>8. PICK m : m = minted
  OBVIOUS
<1>9. PICK m2 : m2 = IF key = NoKey THEN m ELSE key
  OBVIOUS
<1>10. storage /\ Pending(new) => key # NoKey
  BY <1>1, <1>6 DEF NoKey
<1>11. ChatOK(turns, disk, sent, a, m)
  BY <1>7, <1>8
<1>12. ChatOK(T2, D2, sent, a + 1, m2)
  <2>1. key \in {NoKey, m + 1}
    BY <1>5, <1>8
  <2>2. new.id = a + 1
    BY <1>2, <1>7
  <2>3. new \in CardTurn /\ new.key = key
    BY <1>2
  <2>. QED  BY <1>d, <1>4, <1>9, <1>10, <1>11, <2>1, <2>2, <2>3, CardAdded
<1>13. asked' = a + 1 /\ minted' = m2
  BY <1>3, <1>7, <1>8, <1>9
<1>. QED  BY <1>3, <1>12, <1>13 DEF ChatOK

LEMMA ChatConfirms ==
    ASSUME ChatOK(turns, disk, sent, asked, minted), NEW t \in turns, Confirm(t)
    PROVE  ChatOK(turns, disk, sent, asked, minted)'
<1>. PICK key : key = Key(t)
  OBVIOUS
<1>. PICK m2 : m2 = IF t.key = NoKey THEN minted + 1 ELSE minted
  OBVIOUS
<1>. PICK new : new = [t EXCEPT !.key = key]
  OBVIOUS
<1>. PICK p : p = [screen |-> screen, card |-> t.id, key |-> key, of |-> <<>>, now |-> <<>>]
  OBVIOUS
<1>1. /\ turns' = (turns \ {t}) \cup {new} /\ UNCHANGED <<storage, disk, asked>>
      /\ sent' = sent \cup {p} /\ minted' = m2 /\ Pending(t)
  BY DEF Confirm, Sending
<1>2. key = IF t.key = NoKey THEN minted + 1 ELSE t.key
  BY DEF Key
<1>3. p.card = t.id /\ p.key = key
  OBVIOUS
<1>4. PICK a, m : a = asked /\ m = minted
  OBVIOUS
<1>5. ChatOK((turns \ {t}) \cup {new}, disk, sent \cup {p}, a, m2)
  BY <1>1, <1>2, <1>3, <1>4, CardPressed
<1>. QED  BY <1>1, <1>4, <1>5 DEF ChatOK

LEMMA ChatDrops ==
    ASSUME ChatOK(turns, disk, sent, asked, minted), UNCHANGED <<storage, sent>>,
           turns' \subseteq CardTurn, disk' \subseteq CardTurn, ~storage => disk' = {},
           asked' \in Nat, minted' \in Nat, asked <= asked', minted <= minted',
           \A t \in turns' \cup disk' : t.id <= asked' /\ t.key <= minted',
           OneEach(turns'), OneEach(disk'),
           \A t \in turns' \cup disk' : Pending(t) =>
              \E u \in turns \cup disk : Pending(u) /\ u.id = t.id /\ u.key = t.key
    PROVE  ChatOK(turns, disk, sent, asked, minted)'
<1>1. PICK T2 \in SUBSET CardTurn, D2 \in SUBSET CardTurn, a2 \in Nat, m2 \in Nat :
         T2 = turns' /\ D2 = disk' /\ a2 = asked' /\ m2 = minted'
  OBVIOUS
<1>2. PICK a, m : a = asked /\ m = minted
  OBVIOUS
<1>3. ChatOK(T2, D2, sent, a2, m2)
  BY <1>1, <1>2, ChatKept
<1>. QED  BY <1>1, <1>3 DEF ChatOK

\* attachRejection: a refused card is no card that can be pressed.
LEMMA ChatRefuses ==
    ASSUME ChatOK(turns, disk, sent, asked, minted), NEW p, ConfirmRefused(p)
    PROVE  ChatOK(turns, disk, sent, asked, minted)'
<1>h. PICK hits : hits = {t \in turns : Pending(t) /\ t.key = p.key}
  OBVIOUS
<1>f. PICK fresh \in BOOLEAN : fresh <=> storage /\ \E t \in hits : ~t.seeded
  OBVIOUS
<1>. DEFINE Refused(t) == [t EXCEPT !.card = "refused",
                             !.key = IF t.seeded THEN @
                                     ELSE IF fresh THEN minted + 1 ELSE NoKey]
<1>n. PICK next : next = (turns \ hits) \cup {Refused(t) : t \in hits}
  OBVIOUS
<1>1. /\ turns' = next /\ disk' = (IF hits = {} \/ ~storage THEN disk ELSE next)
      /\ minted' = (IF fresh THEN minted + 1 ELSE minted)
      /\ UNCHANGED <<storage, sent, asked>>
  BY <1>h, <1>f, <1>n DEF ConfirmRefused, Store
<1>2. /\ asked \in Nat /\ minted \in Nat /\ turns \subseteq CardTurn /\ disk \subseteq CardTurn
      /\ minted' \in Nat /\ minted <= minted'
      /\ OneEach(turns) /\ OneEach(disk) /\ (~storage => disk = {})
      /\ \A t \in turns \cup disk : t.id <= asked /\ t.key <= minted
  <2>1. minted \in Nat
    BY DEF ChatOK
  <2>2. minted' = minted \/ minted' = minted + 1
    BY <1>1
  <2>3. minted' \in Nat /\ minted <= minted'
    BY <2>1, <2>2
  <2>. QED  BY <2>1, <2>3 DEF ChatOK
<1>3. ASSUME NEW t \in hits
      PROVE  /\ Refused(t) \in CardTurn /\ Refused(t).id = t.id /\ ~Pending(Refused(t))
             /\ Refused(t).key <= minted'
  <2>1. t \in CardTurn /\ t.key <= minted /\ t.key \in Nat
    <3>1. t \in turns
      BY <1>h
    <3>. QED  BY <1>2, <3>1 DEF CardTurn
  <2>2. PICK key : key = IF t.seeded THEN t.key ELSE IF fresh THEN minted + 1 ELSE NoKey
    OBVIOUS
  <2>3. key \in Nat /\ key <= minted'
    <3>1. key = t.key \/ (fresh /\ key = minted + 1) \/ key = 0
      BY <2>2 DEF NoKey
    <3>. HIDE DEF Refused
    <3>2. CASE key = t.key
      BY <1>2, <2>1, <3>2
    <3>3. CASE fresh /\ key = minted + 1
      BY <1>1, <1>2, <3>3
    <3>4. CASE key = 0
      BY <1>2, <3>4
    <3>. QED  BY <3>1, <3>2, <3>3, <3>4
  <2>4. [t EXCEPT !.card = "refused", !.key = key] = Refused(t)
    BY <2>2
  <2>. HIDE DEF Refused
  <2>5. /\ Refused(t) \in CardTurn /\ Refused(t).id = t.id /\ Refused(t).card = "refused"
        /\ Refused(t).key = key
    BY <2>1, <2>3, <2>4 DEF CardTurn
  <2>. QED  BY <2>3, <2>5 DEF Pending
<1>. HIDE DEF Refused
<1>4. \A t \in next : (t \in turns /\ t \notin hits) \/ \E u \in hits : t = Refused(u)
  BY <1>n
<1>5. next \subseteq CardTurn /\ \A t \in next : t.id <= asked /\ t.key <= minted'
  <2>. SUFFICES ASSUME NEW t \in next PROVE t \in CardTurn /\ t.id <= asked /\ t.key <= minted'
    OBVIOUS
  <2>1. CASE t \in turns
    <3>1. t.id <= asked /\ t.key <= minted /\ t \in CardTurn /\ t.key \in Nat
      BY <1>2, <2>1 DEF CardTurn
    <3>. QED  BY <1>2, <3>1
  <2>2. ASSUME NEW u \in hits, t = Refused(u) PROVE t \in CardTurn /\ t.id <= asked /\ t.key <= minted'
    <3>1. u.id <= asked
      BY <1>2, <1>h
    <3>. QED  BY <1>3, <2>2, <3>1
  <2>. QED  BY <1>4, <2>1, <2>2
<1>6. OneEach(next)
  <2>1. \A t, u \in turns : t.id = u.id => t = u
    BY <1>2 DEF OneEach
  <2>2. ASSUME NEW t \in next, NEW u \in next, t.id = u.id PROVE t = u
    <3>1. PICK v \in turns : v.id = t.id /\ ((v = t /\ v \notin hits) \/ (v \in hits /\ t = Refused(v)))
      BY <1>3, <1>4, <1>h
    <3>2. PICK w \in turns : w.id = u.id /\ ((w = u /\ w \notin hits) \/ (w \in hits /\ u = Refused(w)))
      BY <1>3, <1>4, <1>h
    <3>. QED  BY <2>1, <2>2, <3>1, <3>2
  <2>. QED  BY <2>2 DEF OneEach
<1>7. \A t \in next : Pending(t) => t \in turns
  BY <1>3, <1>4
<1>8. disk' \in {disk, next} /\ (~storage => disk' = {})
  BY <1>1, <1>2
<1>9. \A t \in disk : t.key <= minted'
  <2>. SUFFICES ASSUME NEW t \in disk PROVE t.key <= minted'
    OBVIOUS
  <2>1. t.key <= minted /\ t.key \in Nat
    BY <1>2 DEF CardTurn
  <2>. QED  BY <1>2, <2>1
<1>10. /\ turns' \subseteq CardTurn /\ disk' \subseteq CardTurn
       /\ OneEach(turns') /\ OneEach(disk')
       /\ \A t \in turns' \cup disk' : t.id <= asked' /\ t.key <= minted'
  BY <1>1, <1>2, <1>5, <1>6, <1>8, <1>9
<1>11. \A t \in turns' \cup disk' : Pending(t) =>
          \E u \in turns \cup disk : Pending(u) /\ u.id = t.id /\ u.key = t.key
  BY <1>1, <1>7, <1>8
<1>12. asked' \in Nat /\ asked <= asked'
  BY <1>1, <1>2
<1>. QED  BY <1>1, <1>2, <1>8, <1>10, <1>11, <1>12, ChatDrops

\* The app is started again on what was stored.
LEMMA ChatRestores ==
    ASSUME ChatOK(turns, disk, sent, asked, minted), ScreenGone
    PROVE  ChatOK(turns, disk, sent, asked, minted)'
<1>1. /\ turns' = {FromJson(t) : t \in disk} /\ UNCHANGED <<storage, disk, sent, asked, minted>>
  BY DEF ScreenGone, Restored
<1>2. /\ asked \in Nat /\ minted \in Nat /\ disk \subseteq CardTurn
      /\ OneEach(disk) /\ (~storage => disk = {})
      /\ \A t \in disk : t.id <= asked /\ t.key <= minted
  BY DEF ChatOK
<1>3. ASSUME NEW t \in disk
      PROVE  /\ FromJson(t) \in CardTurn /\ FromJson(t).id = t.id
             /\ FromJson(t).key = t.key /\ FromJson(t).card = t.card
  <2>1. PICK seeded : seeded = (t.card # "none")
    OBVIOUS
  <2>2. seeded \in BOOLEAN /\ t \in CardTurn
    BY <1>2, <2>1
  <2>3. FromJson(t) = [t EXCEPT !.seeded = seeded]
    BY <2>1 DEF FromJson
  <2>. QED  BY <2>2, <2>3 DEF CardTurn
<1>4. \A t \in turns' : \E u \in disk : t = FromJson(u)
  BY <1>1
<1>5. turns' \subseteq CardTurn /\ \A t \in turns' : t.id <= asked /\ t.key <= minted
  BY <1>2, <1>3, <1>4
<1>6. OneEach(turns')
  <2>1. \A t, u \in disk : t.id = u.id => t = u
    BY <1>2 DEF OneEach
  <2>2. ASSUME NEW t \in turns', NEW u \in turns', t.id = u.id PROVE t = u
    BY <1>3, <1>4, <2>1, <2>2
  <2>. QED  BY <2>2 DEF OneEach
<1>7. \A t \in turns' \cup disk' : Pending(t) =>
         \E u \in turns \cup disk : Pending(u) /\ u.id = t.id /\ u.key = t.key
  BY <1>1, <1>3, <1>4 DEF Pending
<1>8. /\ disk' \subseteq CardTurn /\ (~storage => disk' = {}) /\ OneEach(disk')
      /\ \A t \in turns' \cup disk' : t.id <= asked' /\ t.key <= minted'
      /\ asked' \in Nat /\ minted' \in Nat /\ asked <= asked' /\ minted <= minted'
      /\ UNCHANGED <<storage, sent>>
  BY <1>1, <1>2, <1>5
<1>. QED  BY <1>5, <1>6, <1>7, <1>8, ChatDrops

\* A step that leaves the chat and its storage alone, or clears one of them.
LEMMA ChatStill ==
    ASSUME ChatOK(turns, disk, sent, asked, minted), UNCHANGED <<storage, sent, minted>>,
           turns' \in {turns, {}}, disk' \in {disk, {}}, asked' = asked \/ asked' = asked + 1
    PROVE  ChatOK(turns, disk, sent, asked, minted)'
<1>1. /\ asked \in Nat /\ minted \in Nat /\ turns \subseteq CardTurn /\ disk \subseteq CardTurn
      /\ OneEach(turns) /\ OneEach(disk) /\ OneEach({}) /\ (~storage => disk = {})
      /\ \A t \in turns \cup disk : t.id <= asked /\ t.key <= minted
  BY DEF ChatOK, OneEach
<1>2. asked' \in Nat /\ asked <= asked'
  BY <1>1
<1>3. turns' \subseteq turns /\ disk' \subseteq disk /\ OneEach(turns') /\ OneEach(disk')
  BY <1>1
<1>4. \A t \in turns' \cup disk' : t.id <= asked' /\ t.key <= minted'
  <2>. SUFFICES ASSUME NEW t \in turns' \cup disk' PROVE t.id <= asked' /\ t.key <= minted'
    OBVIOUS
  <2>1. t \in turns \cup disk /\ t.id \in Nat
    BY <1>1, <1>3 DEF CardTurn
  <2>2. t.id <= asked /\ t.key <= minted
    BY <1>1, <2>1
  <2>. QED  BY <1>1, <1>2, <2>1, <2>2
<1>5. minted' \in Nat /\ minted <= minted'
  BY <1>1
<1>6. turns' \subseteq CardTurn /\ disk' \subseteq CardTurn /\ (~storage => disk' = {})
  BY <1>1, <1>3
<1>. QED  BY <1>2, <1>3, <1>4, <1>5, <1>6, ChatDrops

\* Every step of the chat.
LEMMA ChatStep ==
    ASSUME ChatOK(turns, disk, sent, asked, minted), screen = "chat", PhoneNext
    PROVE  /\ ChatOK(turns, disk, sent, asked, minted)' /\ screen' = screen
           /\ \A p \in sent' : p \in sent \/ p.screen = screen
<1>. DEFINE Goal == /\ ChatOK(turns, disk, sent, asked, minted)' /\ screen' = screen
                    /\ \A p \in sent' : p \in sent \/ p.screen = screen
            Quiet == /\ UNCHANGED <<screen, storage, sent, minted>>
                     /\ turns' \in {turns, {}} /\ disk' \in {disk, {}}
                     /\ asked' = asked \/ asked' = asked + 1
<1>1. ASSUME Quiet PROVE Goal
  BY <1>1, ChatStill
<1>2. ASSUME NEW f \in flight, NEW card \in {"none", "open"}, NEW unrouted,
             AnswerCame(f, card, unrouted)
      PROVE  Goal
  BY <1>2, ChatAppends DEF AnswerCame
<1>3. ASSUME NEW f \in flight, NEW card \in {"none", "open"}, DshCame(f, card)
      PROVE  Goal
  BY <1>3, ChatAppends DEF DshCame
<1>4. ASSUME NEW t \in turns, Confirm(t) PROVE Goal
  <2>1. screen' = screen /\ \A p \in sent' : p \in sent \/ p.screen = screen
    BY <1>4 DEF Confirm, Sending
  <2>. QED  BY <1>4, <2>1, ChatConfirms
<1>5. ASSUME NEW p \in pressed, ConfirmRefused(p) PROVE Goal
  <2>1. screen' = screen /\ sent' = sent
    BY <1>5 DEF ConfirmRefused
  <2>. QED  BY <1>5, <2>1, ChatRefuses
<1>6. ASSUME ScreenGone PROVE Goal
  <2>1. screen' = screen /\ sent' = sent
    BY <1>6 DEF ScreenGone
  <2>. QED  BY <1>6, <2>1, ChatRestores
<1>7. ASSUME ClearStored \/ ClearHistory PROVE Quiet
  BY <1>7 DEF ClearStored, ClearHistory, Store
<1>8. ASSUME Send \/ SetMode \/ AskAiFallback \/ \E f \in flight : AnswerFailed(f)
      PROVE  Quiet
  BY <1>8 DEF Send, SetMode, AskAiFallback, AnswerFailed
<1>9. ASSUME NEW p \in pressed, ConfirmDone(p) \/ ConfirmFailed(p) PROVE Quiet
  BY <1>9 DEF ConfirmDone, ConfirmFailed, chatVars
<1>10. ASSUME NEW f \in flight, NEW found, NEW good, RowsCame(f, found, good) PROVE Quiet
  BY <1>10 DEF RowsCame, UnlessChat, chatVars
<1>11. ASSUME NEW f \in flight, NEW good, CollectCame(f, good) PROVE Quiet
  BY <1>11 DEF CollectCame, UnlessChat, chatVars
<1>12. ASSUME NEW f \in flight, NEW q, AlreadyPaid(f, q) PROVE Quiet
  BY <1>12 DEF AlreadyPaid, UnlessChat, chatVars
<1>. HIDE DEF Goal, Quiet
<1>13. /\ \A v : ~SetCustomer(v) /\ ~SetSupplier(v) /\ ~SetWarehouse(v) /\ ~SetLine(v)
       /\ \A v : ~SetMoney(v) /\ ~ResolveCustomer(v) /\ ~Search(v) /\ ~SetAllocation(v)
       /\ \A v : ~SetAmount(v)
       /\ ~ProposeSaleForm /\ ~ProposePurchaseForm /\ ~ConfirmCollect
       /\ ~Rebuild /\ ~ConfirmUnderForm
       /\ \A f, good : ~ReplyCame(f, good)
  BY DEF SetCustomer, SetSupplier, SetWarehouse, SetLine, SetMoney, ResolveCustomer, Search,
         SetAllocation, SetAmount, ProposeSaleForm, ProposePurchaseForm, ConfirmCollect,
         Rebuild, ConfirmUnderForm, HasCard, Screens3, ReplyCame
<1>14. Goal
  BY <1>1, <1>2, <1>3, <1>4, <1>5, <1>6, <1>7, <1>8, <1>9, <1>10, <1>11, <1>12, <1>13, Zenon
     DEF PhoneNext
<1>. QED  BY <1>14 DEF Goal

-----------------------------------------------------------------------------
(* The card under a form.                                                  *)

\* A step under a form other than the press of [Confirm]: it leaves what was sent, and
\* the card as it was or without an id.
Lined == form \in Form /\ flight \subseteq Flight /\ asked \in Nat
CardLeft == /\ UNCHANGED <<screen, sent, minted>>
            /\ form'.result.key = NoKey \/ form'.result = form.result

\* A form is one by its fields.
LEMMA FormByFields ==
    ASSUME NEW f, NEW party \in Parties \cup {"none"}, NEW place \in Nat, NEW lines \in Nat,
           NEW money \in Nat, NEW epoch \in Nat, NEW mine \in Int, NEW busy \in BOOLEAN,
           NEW accounts \in BOOLEAN, NEW failed \in BOOLEAN, NEW card \in Card,
           f = [party |-> party, place |-> place, lines |-> lines, money |-> money,
                epoch |-> epoch, mine |-> mine, busy |-> busy, accounts |-> accounts,
                failed |-> failed, result |-> card]
    PROVE  f \in Form
  BY DEF Form

LEMMA CardTypes ==
    /\ NoCard \in Card
    /\ \A n \in Nat, of \in Contents : [id |-> n, key |-> NoKey, of |-> of] \in Card
    /\ \A card \in Card, key \in Nat :
          /\ [card EXCEPT !.key = key] \in Card
          /\ [card EXCEPT !.key = key].id = card.id /\ [card EXCEPT !.key = key].of = card.of
          /\ [card EXCEPT !.key = key].key = key
    /\ \A f \in Form : /\ <<f.party, f.place, f.lines, f.money>> \in Contents
                       /\ f.result \in Card /\ f.epoch \in Nat
    /\ <<>> \in Contents
<1>1. <<>> \in Contents
  BY DEF Contents
<1>2. \A f \in Form : /\ <<f.party, f.place, f.lines, f.money>> \in Contents
                      /\ f.result \in Card /\ f.epoch \in Nat
  BY DEF Contents, Form
<1>. QED  BY <1>1, <1>2 DEF Card, NoCard, NoKey

\* A card without an id yet, and the one it is given.
LEMMA KeyedAnew ==
    ASSUME NEW card, NEW S, NEW m, Keyed(card, S, m), NEW card2 \in Card, card2.key = NoKey
    PROVE  Keyed(card2, S, m)
  BY DEF Keyed, NoKey

LEMMA KeyedPressed ==
    ASSUME NEW card, NEW S, NEW m, Keyed(card, S, m),
           NEW key, key = IF card.key = NoKey THEN m + 1 ELSE card.key,
           NEW m2, m2 = IF card.key = NoKey THEN m + 1 ELSE m,
           NEW p, p.card = card.id, p.key = key
    PROVE  Keyed([card EXCEPT !.key = key], S \cup {p}, m2)
<1>1. card \in Card /\ m \in Nat /\ card.key \in Nat /\ card.key <= m
  BY DEF Keyed, Card
<1>2. /\ m2 \in Nat /\ m <= m2 /\ key \in 1..m2
      /\ (card.key = NoKey => key = m + 1) /\ (card.key # NoKey => key = card.key)
  BY <1>1 DEF NoKey
<1>3. PICK card2 \in Card : card2 = [card EXCEPT !.key = key] /\ card2.id = card.id /\ card2.key = key
  BY <1>1, <1>2, CardTypes
<1>4. \A q \in S : q.key \in 1..m
  BY DEF Keyed
<1>5. \A q \in S : q.key = key => q.card = card.id
  BY <1>1, <1>2, <1>4 DEF Keyed
<1>6. \A q \in S \cup {p} : q.key \in 1..m2 /\ (q.key = key => q.card = card.id)
  <2>1. \A q \in S : q.key \in 1..m2
    BY <1>1, <1>2, <1>4
  <2>. QED  BY <1>2, <1>5, <2>1
<1>7. \A q, r \in S \cup {p} : q.key = r.key => q.card = r.card
  <2>1. \A q, r \in S : q.key = r.key => q.card = r.card
    BY DEF Keyed
  <2>. QED  BY <1>5, <2>1
<1>8. Keyed(card2, S \cup {p}, m2)
  BY <1>2, <1>3, <1>6, <1>7 DEF Keyed
<1>. QED  BY <1>3, <1>8

LEMMA EditTypes ==
    ASSUME Lined, NEW f \in Form, Edit(f), f.result.key = NoKey
    PROVE  Lined' /\ CardLeft
<1>1. form' = f /\ asked' = asked + 1 /\ UNCHANGED <<screen, sent, minted, flight>>
  BY DEF Edit, UnlessChat
<1>2. asked' \in Nat
  BY <1>1 DEF Lined
<1>. QED  BY <1>1, <1>2 DEF Lined, CardLeft

\* Another party, place, line or sum of a sale or a purchase: the card is gone.
LEMMA FormEdited ==
    ASSUME Lined, NEW v, \/ v \in Parties /\ SetParty(v)
                         \/ v \in Nat /\ (SetWarehouse(v) \/ SetLine(v) \/ SetMoney(v))
    PROVE  /\ Lined' /\ CardLeft /\ form'.epoch = form.epoch + 1 /\ form'.result = NoCard
           /\ UNCHANGED <<flight, sent>>
<1>1. /\ form \in Form /\ form.epoch + 1 \in Nat /\ form.place \in Nat
      /\ NoCard \in Card /\ NoCard.key = NoKey
  BY CardTypes DEF Lined, Form, NoCard
<1>2. CASE v \in Parties /\ SetParty(v)
  <2>1. PICK f : f = [Blank EXCEPT !.party = v, !.epoch = form.epoch + 1, !.mine = form.mine]
    OBVIOUS
  <2>2. f \in Form /\ f.epoch = form.epoch + 1 /\ f.result = NoCard
    BY <1>1, <1>2, <2>1 DEF Form, Blank
  <2>3. Edit(f) /\ form' = f /\ UNCHANGED <<flight, sent>>
    BY <1>2, <2>1 DEF SetParty, Edit
  <2>. QED  BY <1>1, <2>2, <2>3, EditTypes
<1>3. CASE v \in Nat /\ SetWarehouse(v)
  <2>1. PICK place \in Nat : place = IF v = 0 THEN form.place ELSE v
    BY <1>1, <1>3
  <2>2. PICK epoch \in Nat : epoch = form.epoch + 1
    BY <1>1
  <2>3. PICK f : f = [form EXCEPT !.epoch = epoch, !.result = NoCard, !.place = place,
                                  !.lines = 0, !.money = 0]
    OBVIOUS
  <2>4. f \in Form /\ f.epoch = epoch /\ f.result = NoCard
    BY <1>1, <2>3 DEF Form
  <2>5. Edit(f) /\ form' = f /\ UNCHANGED <<flight, sent>>
    BY <1>1, <1>3, <2>1, <2>2, <2>3 DEF SetWarehouse, Edit, Changed, Form
  <2>. QED  BY <1>1, <2>2, <2>4, <2>5, EditTypes
<1>4. CASE v \in Nat /\ (SetLine(v) \/ SetMoney(v))
  <2>1. PICK left \in Nat : \/ SetLine(v)
                            \/ Edit([Changed(form) EXCEPT !.money = left])
    <3>1. form.money \in Nat
      BY <1>1 DEF Form
    <3>. QED  BY <1>4, <3>1 DEF SetMoney
  <2>2. PICK epoch \in Nat : epoch = form.epoch + 1
    BY <1>1
  <2>3. PICK f : f = [form EXCEPT !.epoch = epoch, !.result = NoCard, !.lines = v]
    OBVIOUS
  <2>4. PICK g : g = [form EXCEPT !.epoch = epoch, !.result = NoCard, !.money = left]
    OBVIOUS
  <2>5. /\ f \in Form /\ f.epoch = epoch /\ f.result = NoCard
        /\ g \in Form /\ g.epoch = epoch /\ g.result = NoCard
    BY <1>1, <1>4, <2>3, <2>4 DEF Form
  <2>6. (Edit(f) /\ form' = f) \/ (Edit(g) /\ form' = g)
    BY <1>1, <2>1, <2>2, <2>3, <2>4 DEF SetLine, Edit, Changed, Form
  <2>7. UNCHANGED <<flight, sent>>
    BY <1>4 DEF SetLine, SetMoney, Edit
  <2>. QED  BY <1>1, <2>2, <2>5, <2>6, <2>7, EditTypes
<1>. QED  BY <1>2, <1>3, <1>4

\* A proposal of a sale or a purchase.
LEMMA FormProposed ==
    ASSUME Lined, Propose1
    PROVE  /\ Lined' /\ CardLeft /\ form'.epoch = form.epoch + 1 /\ form'.result = NoCard
           /\ <<form.party, form.place, form.lines, form.money>>
                = <<form'.party, form'.place, form'.lines, form'.money>>
           /\ flight' = flight \cup {[n |-> form'.epoch, kind |-> "propose", talk |-> 0,
                                      of |-> Content]}
<1>1. /\ form \in Form /\ form.epoch + 1 \in Nat /\ Content \in Contents /\ asked + 1 \in Nat
      /\ NoCard \in Card /\ NoCard.key = NoKey
  BY CardTypes DEF Lined, Form, NoCard, Content
<1>2. PICK epoch \in Nat : epoch = form.epoch + 1
  BY <1>1
<1>3. PICK mine \in Int : mine = epoch
  OBVIOUS
<1>4. /\ form' \in Form /\ form'.epoch = epoch /\ form'.result = NoCard
      /\ form'.party = form.party /\ form'.place = form.place /\ form'.lines = form.lines
      /\ form'.money = form.money
  <2>1. form' = [form EXCEPT !.epoch = epoch, !.mine = mine, !.busy = TRUE, !.result = NoCard]
    BY <1>1, <1>2, <1>3 DEF Propose1, Form
  <2>. QED  BY <1>1, <2>1 DEF Form
<1>5. flight' = flight \cup {[n |-> epoch, kind |-> "propose", talk |-> 0, of |-> Content]}
  BY <1>2 DEF Propose1
<1>6. [n |-> epoch, kind |-> "propose", talk |-> 0, of |-> Content] \in Flight
  BY <1>1 DEF Flight
<1>7. asked' = asked + 1 /\ UNCHANGED <<screen, sent, minted>>
  BY DEF Propose1, UnlessChat
<1>. QED  BY <1>1, <1>2, <1>4, <1>5, <1>6, <1>7 DEF Lined, CardLeft

\* A reply to it.
LEMMA FormReplied ==
    ASSUME Lined, NEW f \in flight, NEW good \in BOOLEAN, ReplyCame(f, good)
    PROVE  /\ Lined' /\ CardLeft /\ form'.epoch = form.epoch /\ flight' = flight \ {f}
           /\ <<form.party, form.place, form.lines, form.money>>
                = <<form'.party, form'.place, form'.lines, form'.money>>
           /\ \/ form'.result = form.result
              \/ f.n = form.epoch /\ form'.result.of = f.of
<1>1. /\ form \in Form /\ f \in Flight /\ f.n \in Nat /\ f.of \in Contents /\ form.result \in Card
  BY CardTypes DEF Lined, Flight
<1>2. PICK card \in Card : card = [id |-> f.n, key |-> NoKey, of |-> f.of]
  BY <1>1 DEF Card, NoKey
<1>3. card.key = NoKey /\ card.of = f.of
  BY <1>2
<1>4. PICK a : a = [form EXCEPT !.busy = FALSE, !.result = card]
  OBVIOUS
<1>5. PICK b : b = [form EXCEPT !.busy = FALSE]
  OBVIOUS
<1>6. (form' = a /\ Heeds(f)) \/ form' = b \/ form' = form
  <2>1. CASE Heeds(f) /\ good
    BY <1>2, <1>4, <2>1 DEF ReplyCame
  <2>2. CASE Heeds(f) /\ ~good
    <3>1. form' = [form EXCEPT !.busy = FALSE, !.result = form.result]
      BY <2>2 DEF ReplyCame
    <3>2. form' = b
      BY <1>1, <1>5, <3>1 DEF Form
    <3>. QED  BY <3>2
  <2>3. CASE ~Heeds(f)
    BY <1>5, <2>3 DEF ReplyCame
  <2>. QED  BY <2>1, <2>2, <2>3
<1>7. /\ a \in Form /\ b \in Form /\ a.epoch = form.epoch /\ b.epoch = form.epoch
      /\ a.result = card /\ b.result = form.result
      /\ a.party = form.party /\ a.place = form.place /\ a.lines = form.lines
      /\ a.money = form.money
      /\ b.party = form.party /\ b.place = form.place /\ b.lines = form.lines
      /\ b.money = form.money
  BY <1>1, <1>4, <1>5 DEF Form
<1>8. flight' = flight \ {f} /\ UNCHANGED <<screen, sent, minted, asked>>
  BY DEF ReplyCame, UnlessChat
<1>9. /\ form' \in Form /\ form'.epoch = form.epoch
      /\ form'.party = form.party /\ form'.place = form.place /\ form'.lines = form.lines
      /\ form'.money = form.money
      /\ form'.result = form.result \/ (f.n = form.epoch /\ form'.result = card)
  BY <1>1, <1>6, <1>7 DEF Heeds
<1>. QED  BY <1>3, <1>8, <1>9 DEF Lined, CardLeft

\* The searches of the collect screen, and the reload after an invoice that was paid.
LEMMA RowsAsked ==
    ASSUME Lined, \/ \E v \in Parties : ResolveCustomer(v)
                  \/ \E q \in 1..2 : Search(q)
                  \/ \E f \in flight, q \in 1..2 : AlreadyPaid(f, q)
    PROVE  Lined' /\ CardLeft
<1>1. form \in Form /\ form.epoch + 1 \in Nat /\ asked + 1 \in Nat /\ <<>> \in Contents
  BY CardTypes DEF Lined, Form
<1>2. PICK epoch \in Nat : epoch = form.epoch + 1
  BY <1>1
<1>3. UNCHANGED <<screen, sent, minted>> /\ asked' = asked + 1
  BY DEF ResolveCustomer, Search, AlreadyPaid, Fetch, UnlessChat
<1>4. \E kind \in {"first", "rows", "reload"}, q \in Nat :
         flight' \subseteq flight \cup {[n |-> epoch, kind |-> kind, talk |-> q, of |-> <<>>]}
  <2>1. CASE \E v \in Parties : ResolveCustomer(v)
    BY <1>2, <2>1 DEF ResolveCustomer, Fetch
  <2>2. CASE \E q \in 1..2 : Search(q)
    BY <1>2, <2>2 DEF Search, Fetch
  <2>3. CASE \E f \in flight, q \in 1..2 : AlreadyPaid(f, q)
    BY <1>2, <2>3 DEF AlreadyPaid
  <2>. QED  BY <2>1, <2>2, <2>3
<1>5. \A kind \in {"first", "rows", "reload"}, q \in Nat :
         [n |-> epoch, kind |-> kind, talk |-> q, of |-> <<>>] \in Flight
  BY <1>1 DEF Flight
<1>6. flight' \subseteq Flight
  BY <1>4, <1>5 DEF Lined
<1>7. form' \in Form /\ form'.result = form.result
  <2>1. CASE \E v \in Parties : ResolveCustomer(v)
    <3>1. PICK v \in Parties : ResolveCustomer(v)
      BY <2>1
    <3>2. form' = [form EXCEPT !.epoch = epoch, !.party = v, !.lines = 0, !.failed = FALSE]
      BY <1>1, <1>2, <3>1 DEF ResolveCustomer, Form
    <3>. QED  BY <1>1, <3>2 DEF Form
  <2>2. CASE \E q \in 1..2 : Search(q)
    <3>1. form' = [form EXCEPT !.epoch = epoch]
      BY <1>1, <1>2, <2>2 DEF Search, Form
    <3>. QED  BY <1>1, <3>1 DEF Form
  <2>3. CASE \E f \in flight, q \in 1..2 : AlreadyPaid(f, q)
    <3>1. form' = [form EXCEPT !.epoch = epoch, !.lines = 0, !.failed = FALSE]
      BY <1>1, <1>2, <2>3 DEF AlreadyPaid, Form
    <3>. QED  BY <1>1, <3>1 DEF Form
  <2>. QED  BY <2>1, <2>2, <2>3
<1>. QED  BY <1>1, <1>3, <1>6, <1>7 DEF Lined, CardLeft

LEMMA RowsReplied ==
    ASSUME Lined, NEW f \in flight, NEW found \in BOOLEAN, NEW good \in BOOLEAN,
           RowsCame(f, found, good)
    PROVE  Lined' /\ CardLeft
<1>1. form \in Form /\ f \in Flight /\ f.talk \in Nat
  BY DEF Lined, Flight
<1>2. PICK place \in Nat : place = IF ~(f.n = form.epoch /\ good) THEN form.place
                                   ELSE IF found THEN f.talk ELSE 0
  BY <1>1 DEF Form
<1>3. PICK accounts \in BOOLEAN :
         accounts = (form.accounts \/ (f.n = form.epoch /\ good /\ f.kind = "first"))
  BY <1>1 DEF Form
<1>4. PICK failed \in BOOLEAN : failed = (form.failed \/ (f.n = form.epoch /\ ~good))
  BY <1>1 DEF Form
<1>5. PICK busy \in BOOLEAN : busy = (form.busy /\ f.kind # "reload")
  BY <1>1 DEF Form
<1>6. form' = [form EXCEPT !.place = place, !.accounts = accounts, !.failed = failed,
                           !.busy = busy]
  BY <1>1, <1>2, <1>3, <1>4, <1>5 DEF RowsCame, Form
<1>7. form' \in Form /\ form'.result = form.result
  BY <1>1, <1>6 DEF Form
<1>8. flight' = flight \ {f} /\ UNCHANGED <<screen, sent, minted, asked>>
  BY DEF RowsCame, UnlessChat
<1>. QED  BY <1>7, <1>8 DEF Lined, CardLeft

\* A card that is parsed again, as an edit of the collect screen makes it and every
\* time the screen is built.
LEMMA RebuiltForm ==
    ASSUME NEW f \in Form
    PROVE  /\ Rebuilt(f) \in Form /\ Rebuilt(f).result.key = NoKey
           /\ Rebuilt(f).result.of = f.result.of /\ Rebuilt(f).result.id = f.result.id
           /\ Rebuilt(f).epoch = f.epoch
           /\ <<f.party, f.place, f.lines, f.money>>
                = <<Rebuilt(f).party, Rebuilt(f).place, Rebuilt(f).lines, Rebuilt(f).money>>
           /\ f.result = NoCard => Rebuilt(f).result = NoCard
<1>1. f.result \in Card
  BY DEF Form
<1>2. PICK card : card = [f.result EXCEPT !.key = NoKey]
  OBVIOUS
<1>3. /\ card \in Card /\ card.key = NoKey /\ card.of = f.result.of /\ card.id = f.result.id
  BY <1>1, <1>2 DEF Card, NoKey
<1>4. f.result = NoCard => card = NoCard
  BY <1>2 DEF NoCard
<1>5. Rebuilt(f) = [f EXCEPT !.result = card]
  BY <1>2 DEF Rebuilt, Form
<1>6. PICK g : g = Rebuilt(f)
  OBVIOUS
<1>7. /\ g \in Form /\ g.result = card /\ g.epoch = f.epoch /\ g.party = f.party
      /\ g.place = f.place /\ g.lines = f.lines /\ g.money = f.money
  BY <1>3, <1>5, <1>6 DEF Form
<1>. QED  BY <1>3, <1>4, <1>6, <1>7

LEMMA CollectEdited ==
    ASSUME Lined, \/ \E on \in BOOLEAN : SetAllocation(on)
                  \/ \E v \in 0..1 : SetAmount(v)
    PROVE  Lined' /\ CardLeft
<1>1. form \in Form /\ form.place \in Nat /\ form.money \in Nat
  BY DEF Lined, Form
<1>2. PICK f \in Form : Edit(Rebuilt(f))
  <2>1. CASE \E on \in BOOLEAN : SetAllocation(on)
    <3>1. PICK lines \in Nat : Edit(Rebuilt([form EXCEPT !.lines = lines]))
      BY <1>1, <2>1 DEF SetAllocation
    <3>2. [form EXCEPT !.lines = lines] \in Form
      BY <1>1 DEF Form
    <3>. QED  BY <3>1, <3>2
  <2>2. CASE \E v \in 0..1 : SetAmount(v)
    <3>1. PICK v \in 0..1 : SetAmount(v)
      BY <2>2
    <3>2. PICK money \in Nat : money = IF v = 0 THEN form.money ELSE v
      BY <1>1
    <3>3. [form EXCEPT !.money = money] \in Form
      BY <1>1 DEF Form
    <3>4. Edit(Rebuilt([form EXCEPT !.money = money]))
      BY <3>1, <3>2 DEF SetAmount
    <3>. QED  BY <3>3, <3>4
  <2>. QED  BY <2>1, <2>2
<1>3. Rebuilt(f) \in Form /\ Rebuilt(f).result.key = NoKey
  BY RebuiltForm
<1>. QED  BY <1>2, <1>3, EditTypes

LEMMA CollectAsked ==
    ASSUME Lined, ConfirmCollect
    PROVE  Lined' /\ CardLeft
<1>1. /\ form \in Form /\ NoCard \in Card /\ NoCard.key = NoKey /\ Content \in Contents
      /\ asked \in Nat /\ asked + 1 \in Nat
  BY CardTypes DEF Lined, NoCard, Content
<1>2. form' = [form EXCEPT !.busy = TRUE, !.result = NoCard]
  BY DEF ConfirmCollect
<1>3. form' \in Form /\ form'.result = NoCard
  BY <1>1, <1>2 DEF Form
<1>4. flight' = flight \cup {[n |-> asked, kind |-> "collect", talk |-> 0, of |-> Content]}
  BY DEF ConfirmCollect
<1>5. [n |-> asked, kind |-> "collect", talk |-> 0, of |-> Content] \in Flight
  BY <1>1 DEF Flight
<1>6. asked' = asked + 1 /\ UNCHANGED <<screen, sent, minted>>
  BY DEF ConfirmCollect, UnlessChat
<1>. QED  BY <1>1, <1>3, <1>4, <1>5, <1>6 DEF Lined, CardLeft

LEMMA CollectReplied ==
    ASSUME Lined, NEW f \in flight, NEW good \in BOOLEAN, CollectCame(f, good)
    PROVE  Lined' /\ CardLeft
<1>1. form \in Form /\ f.n + 1 \in Nat /\ f.of \in Contents /\ form.result \in Card
  BY DEF Lined, Flight, Form
<1>2. PICK card \in Card : card = [id |-> f.n + 1, key |-> NoKey, of |-> f.of]
  BY <1>1 DEF Card, NoKey
<1>3. PICK next \in Card : next = IF good THEN card ELSE form.result
  BY <1>1
<1>4. form' = [form EXCEPT !.busy = FALSE, !.result = next]
  BY <1>2, <1>3 DEF CollectCame
<1>5. form' \in Form /\ form'.result = next
  BY <1>1, <1>4 DEF Form
<1>6. card.key = NoKey
  BY <1>2
<1>7. flight' = flight \ {f} /\ UNCHANGED <<screen, sent, minted, asked>>
  BY DEF CollectCame, UnlessChat
<1>. QED  BY <1>3, <1>5, <1>6, <1>7 DEF Lined, CardLeft

\* [Confirm] under a form.
LEMMA FormPressed ==
    ASSUME Lined, Keyed(form.result, sent, minted), ConfirmUnderForm
    PROVE  /\ Lined' /\ Keyed(form.result, sent, minted)' /\ UNCHANGED <<screen, flight>>
           /\ form'.epoch = form.epoch /\ form'.result.of = form.result.of
           /\ <<form.party, form.place, form.lines, form.money>>
                = <<form'.party, form'.place, form'.lines, form'.money>>
           /\ \A p \in sent' : p \in sent \/ (/\ p.screen = screen /\ p.of = form.result.of
                                              /\ p.now = Content)
<1>1. form \in Form /\ form.result \in Card /\ form.result.key \in Nat /\ minted \in Nat
  BY DEF Lined, Form, Card, Keyed
<1>2. PICK key \in Nat : key = IF form.result.key = NoKey THEN minted + 1 ELSE form.result.key
  BY <1>1
<1>3. PICK card : card = [form.result EXCEPT !.key = key]
  OBVIOUS
<1>4. card \in Card /\ card.id = form.result.id /\ card.of = form.result.of
  BY <1>1, <1>2, <1>3 DEF Card
<1>5. form' = [form EXCEPT !.result = card]
  <2>1. Key(form.result) = key
    BY <1>2 DEF Key
  <2>2. form' = [form EXCEPT !.result.key = key]
    BY <2>1 DEF ConfirmUnderForm
  <2>. QED  BY <1>3, <2>2
<1>6. /\ form' \in Form /\ form'.result = card /\ form'.epoch = form.epoch
      /\ form'.party = form.party /\ form'.place = form.place /\ form'.lines = form.lines
      /\ form'.money = form.money
  BY <1>1, <1>4, <1>5 DEF Form
<1>7. PICK p : p = [screen |-> screen, card |-> form.result.id, key |-> key,
                    of |-> form.result.of, now |-> Content]
  OBVIOUS
<1>8. sent' = sent \cup {p} /\ UNCHANGED <<screen, flight, asked>>
  BY <1>2, <1>7 DEF ConfirmUnderForm, Sending, Key, chatVars
<1>9. PICK m2 : m2 = IF form.result.key = NoKey THEN minted + 1 ELSE minted
  OBVIOUS
<1>10. minted' = m2
  BY <1>9 DEF ConfirmUnderForm
<1>11. p.card = form.result.id /\ p.key = key /\ p.screen = screen /\ p.of = form.result.of
       /\ p.now = Content
  BY <1>7
<1>12. Keyed(card, sent \cup {p}, m2)
  <2>1. PICK c, S, m : c = form.result /\ S = sent /\ m = minted
    OBVIOUS
  <2>2. Keyed([c EXCEPT !.key = key], S \cup {p}, m2)
    BY <1>2, <1>9, <1>11, <2>1, KeyedPressed
  <2>. QED  BY <1>3, <2>1, <2>2
<1>13. Keyed(form.result, sent, minted)'
  BY <1>6, <1>8, <1>10, <1>12
<1>. QED  BY <1>4, <1>6, <1>8, <1>11, <1>13 DEF Lined

\* Every step under a form.
LEMMA FormStep ==
    ASSUME Lined, Keyed(form.result, sent, minted), screen \in Screens3, PhoneNext
    PROVE  /\ Lined' /\ Keyed(form.result, sent, minted)' /\ screen' = screen
           /\ \A p \in sent' : p \in sent \/ (/\ p.screen = screen /\ p.of = form.result.of
                                              /\ p.now = Content /\ form.result # NoCard)
<1>. DEFINE Goal == /\ Lined' /\ Keyed(form.result, sent, minted)' /\ screen' = screen
                    /\ \A p \in sent' : p \in sent \/ (/\ p.screen = screen
                                                       /\ p.of = form.result.of
                                                       /\ p.now = Content
                                                       /\ form.result # NoCard)
            Left == Lined' /\ CardLeft
            Quiet == UNCHANGED <<screen, form, sent, minted, flight>> /\ asked' \in {asked, asked + 1}
<1>1. ASSUME Left PROVE Goal
  <2>1. form'.result \in Card
    BY <1>1 DEF Lined, Form
  <2>2. CASE form'.result = form.result
    BY <1>1, <2>2 DEF CardLeft
  <2>3. CASE form'.result.key = NoKey
    <3>1. PICK c, S, m, c2 : c = form.result /\ S = sent /\ m = minted /\ c2 = form'.result
      OBVIOUS
    <3>2. Keyed(c2, S, m)
      BY <2>1, <2>3, <3>1, KeyedAnew
    <3>. QED  BY <1>1, <3>1, <3>2 DEF CardLeft
  <2>. QED  BY <1>1, <2>2, <2>3 DEF CardLeft
<1>2. ASSUME Quiet PROVE Left
  <2>1. asked' \in Nat
    BY <1>2 DEF Lined
  <2>. QED  BY <1>2, <2>1 DEF Lined, CardLeft
<1>3. ASSUME NEW v \in Parties, SetCustomer(v) \/ SetSupplier(v) PROVE Left
  BY <1>3, FormEdited DEF SetCustomer, SetSupplier
<1>4. ASSUME NEW v \in 0..2, SetLine(v) PROVE Left
  BY <1>4, FormEdited
<1>5. ASSUME NEW v \in 0..1, SetWarehouse(v) \/ SetMoney(v) PROVE Left
  BY <1>5, FormEdited
<1>6. ASSUME ProposeSaleForm \/ ProposePurchaseForm PROVE Left
  BY <1>6, FormProposed DEF ProposeSaleForm, ProposePurchaseForm
<1>7. ASSUME NEW f \in flight, NEW good \in BOOLEAN, ReplyCame(f, good) PROVE Left
  BY <1>7, FormReplied
<1>8. ASSUME \/ \E v \in Parties : ResolveCustomer(v)
             \/ \E q \in 1..2 : Search(q)
             \/ \E f \in flight, q \in 1..2 : AlreadyPaid(f, q)
      PROVE  Left
  BY <1>8, RowsAsked
<1>9. ASSUME NEW f \in flight, NEW found \in BOOLEAN, NEW good \in BOOLEAN,
             RowsCame(f, found, good)
      PROVE  Left
  BY <1>9, RowsReplied
<1>10. ASSUME \/ \E on \in BOOLEAN : SetAllocation(on)
              \/ \E v \in 0..1 : SetAmount(v)
       PROVE  Left
  BY <1>10, CollectEdited
<1>11. ASSUME ConfirmCollect PROVE Left
  BY <1>11, CollectAsked
<1>12. ASSUME NEW f \in flight, NEW good \in BOOLEAN, CollectCame(f, good) PROVE Left
  BY <1>12, CollectReplied
<1>13. ASSUME Rebuild PROVE Left
  <2>1. form' = Rebuilt(form) /\ UNCHANGED <<screen, sent, minted, flight, asked>>
    BY <1>13 DEF Rebuild
  <2>2. Rebuilt(form) \in Form /\ Rebuilt(form).result.key = NoKey
    BY RebuiltForm DEF Lined
  <2>. QED  BY <2>1, <2>2 DEF Lined, CardLeft
<1>14. ASSUME ScreenGone PROVE Left
  <2>1. form' = Blank /\ flight' = {} /\ UNCHANGED <<screen, sent, minted, asked>>
    BY <1>14 DEF ScreenGone
  <2>2. Blank \in Form /\ Blank.result.key = NoKey
    BY CardTypes DEF Blank, Form, NoCard
  <2>. QED  BY <2>1, <2>2 DEF Lined, CardLeft
<1>15. ASSUME ConfirmUnderForm PROVE Goal
  BY <1>15, FormPressed DEF ConfirmUnderForm, HasCard
<1>16. ASSUME NEW p \in pressed, ConfirmDone(p) \/ ConfirmFailed(p) PROVE Quiet
  BY <1>16 DEF ConfirmDone, ConfirmFailed
<1>17. ASSUME ClearHistory PROVE Quiet
  BY <1>17 DEF ClearHistory
<1>. HIDE DEF Goal, Left, Quiet
<1>18. screen # "chat"
  BY DEF Screens3
<1>19. /\ ~Send /\ ~SetMode /\ ~AskAiFallback /\ ~ClearStored
       /\ \A f, card, unrouted : ~AnswerCame(f, card, unrouted)
       /\ \A f, card : ~DshCame(f, card)
       /\ \A f : ~AnswerFailed(f)
       /\ \A t : ~Confirm(t) /\ ~ConfirmRefused(t)
  BY <1>18 DEF Send, SetMode, AskAiFallback, ClearStored, AnswerCame, DshCame, AnswerFailed,
              Came, InChat, Confirm, ConfirmRefused
<1>20. Goal
  BY <1>1, <1>2, <1>3, <1>4, <1>5, <1>6, <1>7, <1>8, <1>9, <1>10, <1>11, <1>12, <1>13, <1>14,
     <1>15, <1>16, <1>17, <1>19, Zenon
     DEF PhoneNext
<1>. QED  BY <1>20 DEF Goal

\* A sale or a purchase form heeds only what it was proposed with: every change to
\* it counts the epoch on.
LEMMA FormHeeds ==
    ASSUME Lined, screen \in {"sales", "purchase"}, Heeded(form, flight), PhoneNext
    PROVE  Heeded(form, flight)'
<1>. DEFINE content == <<form.party, form.place, form.lines, form.money>>
<1>1. /\ form.epoch \in Nat /\ \A f \in flight : f.n \in Nat
      /\ \A f \in flight : f.kind = "propose" /\ f.n <= form.epoch
      /\ \A f \in flight : f.n = form.epoch => f.of = content
      /\ form.result # NoCard => form.result.of = content
  BY DEF Lined, Form, Flight, Heeded
<1>2. ASSUME form'.epoch = form.epoch + 1, form'.result = NoCard, UNCHANGED flight
      PROVE  Heeded(form, flight)'
  <2>1. \A f \in flight : f.n <= form'.epoch /\ f.n # form'.epoch
    BY <1>1, <1>2
  <2>. QED  BY <1>1, <1>2, <2>1 DEF Heeded
<1>3. ASSUME NEW v, \/ v \in Parties /\ (SetCustomer(v) \/ SetSupplier(v))
                    \/ v \in 0..2 /\ SetLine(v)
                    \/ v \in 0..1 /\ (SetWarehouse(v) \/ SetMoney(v))
      PROVE  Heeded(form, flight)'
  <2>1. form'.epoch = form.epoch + 1 /\ form'.result = NoCard /\ UNCHANGED flight
    BY <1>3, FormEdited DEF SetCustomer, SetSupplier
  <2>. QED  BY <1>2, <2>1
<1>4. ASSUME ProposeSaleForm \/ ProposePurchaseForm PROVE Heeded(form, flight)'
  <2>1. PICK g : g = [n |-> form'.epoch, kind |-> "propose", talk |-> 0, of |-> content]
    OBVIOUS
  <2>2. /\ form'.epoch = form.epoch + 1 /\ form'.result = NoCard
        /\ content = <<form'.party, form'.place, form'.lines, form'.money>>
        /\ flight' = flight \cup {g}
    BY <1>4, <2>1, FormProposed DEF ProposeSaleForm, ProposePurchaseForm, Content
  <2>3. \A f \in flight : f.n <= form'.epoch /\ f.n # form'.epoch
    BY <1>1, <2>2
  <2>4. g.kind = "propose" /\ g.n = form'.epoch /\ g.of = content /\ form'.epoch \in Nat
    BY <1>1, <2>1, <2>2
  <2>. HIDE DEF content
  <2>5. \A f \in flight' : /\ f.kind = "propose" /\ f.n <= form'.epoch
                           /\ f.n = form'.epoch => f.of = content
    BY <1>1, <2>2, <2>3, <2>4
  <2>. QED  BY <2>2, <2>5 DEF Heeded
<1>5. ASSUME NEW f \in flight, NEW good \in BOOLEAN, ReplyCame(f, good)
      PROVE  Heeded(form, flight)'
  <2>1. /\ form'.epoch = form.epoch /\ flight' = flight \ {f}
        /\ content = <<form'.party, form'.place, form'.lines, form'.money>>
        /\ \/ form'.result = form.result
           \/ f.n = form.epoch /\ form'.result.of = f.of
    BY <1>5, FormReplied
  <2>. HIDE DEF content
  <2>. QED  BY <1>1, <2>1 DEF Heeded
<1>6. ASSUME Rebuild PROVE Heeded(form, flight)'
  <2>1. form' = Rebuilt(form) /\ flight' = flight
    BY <1>6 DEF Rebuild
  <2>2. PICK g : g = Rebuilt(form)
    OBVIOUS
  <2>3. /\ g.epoch = form.epoch /\ g.result.of = form.result.of
        /\ content = <<g.party, g.place, g.lines, g.money>>
        /\ (form.result = NoCard => g.result = NoCard)
    BY <2>2, RebuiltForm DEF Lined
  <2>. HIDE DEF content
  <2>. QED  BY <1>1, <2>1, <2>2, <2>3 DEF Heeded
<1>7. ASSUME ScreenGone PROVE Heeded(form, flight)'
  BY <1>7 DEF ScreenGone, Heeded, Blank
<1>8. ASSUME ConfirmUnderForm PROVE Heeded(form, flight)'
  <2>1. /\ form.result # NoCard /\ flight' = flight
        /\ \E key : form' = [form EXCEPT !.result.key = key]
    BY <1>8 DEF ConfirmUnderForm, HasCard
  <2>2. PICK key : form' = [form EXCEPT !.result.key = key]
    BY <2>1
  <2>3. PICK card : card = [form.result EXCEPT !.key = key]
    OBVIOUS
  <2>4. card.of = form.result.of
    BY <2>3 DEF Lined, Form, Card
  <2>5. form' = [form EXCEPT !.result = card]
    BY <2>2, <2>3
  <2>6. /\ form'.epoch = form.epoch /\ form'.result = card
        /\ content = <<form'.party, form'.place, form'.lines, form'.money>>
    BY <2>5 DEF Lined, Form
  <2>. HIDE DEF content
  <2>. QED  BY <1>1, <2>1, <2>4, <2>6 DEF Heeded
<1>9. ASSUME UNCHANGED <<form, flight>> PROVE Heeded(form, flight)'
  BY <1>1, <1>9 DEF Heeded
<1>10. ASSUME ClearHistory \/ \E p \in pressed : ConfirmDone(p) \/ ConfirmFailed(p)
       PROVE  UNCHANGED <<form, flight>>
  BY <1>10 DEF ClearHistory, ConfirmDone, ConfirmFailed
<1>11. /\ ~Send /\ ~SetMode /\ ~AskAiFallback /\ ~ClearStored /\ ~ConfirmCollect
       /\ \A f, card, unrouted : ~AnswerCame(f, card, unrouted)
       /\ \A f, card : ~DshCame(f, card)
       /\ \A f : ~AnswerFailed(f)
       /\ \A t : ~Confirm(t) /\ ~ConfirmRefused(t)
       /\ \A v : ~ResolveCustomer(v) /\ ~Search(v) /\ ~SetAllocation(v) /\ ~SetAmount(v)
  BY DEF Send, SetMode, AskAiFallback, ClearStored, AnswerCame, DshCame, AnswerFailed,
         Came, InChat, Confirm, ConfirmRefused, ConfirmCollect, ResolveCustomer, Search,
         SetAllocation, SetAmount
<1>12. /\ \A f \in flight, found \in BOOLEAN, good \in BOOLEAN : ~RowsCame(f, found, good)
       /\ \A f \in flight, good \in BOOLEAN : ~CollectCame(f, good)
       /\ \A f \in flight, q \in 1..2 : ~AlreadyPaid(f, q)
  BY <1>1 DEF RowsCame, CollectCame, AlreadyPaid
<1>13. (0..1) \subseteq (0..2)
  OBVIOUS
<1>. QED  BY <1>3, <1>4, <1>5, <1>6, <1>7, <1>8, <1>9, <1>10, <1>11, <1>12, Zenon DEF PhoneNext

LEMMA PhoneInvHolds == PhoneSpec => []PhoneInv
<1>1. PhoneInit => PhoneInv
  <2>. SUFFICES ASSUME PhoneInit PROVE PhoneInv
    OBVIOUS
  <2>1. /\ screen \in {"chat"} \cup Screens3 /\ turns = {} /\ disk = {} /\ flight = {}
        /\ form = Blank /\ sent = {} /\ asked = 0 /\ minted = 0
    BY DEF PhoneInit
  <2>2. ChatOK(turns, disk, sent, asked, minted)
    BY <2>1 DEF ChatOK, OneEach
  <2>3. Blank \in Form /\ Blank.result = NoCard
    BY CardTypes DEF Blank, Form
  <2>4. Keyed(form.result, sent, minted)
    BY <2>1, <2>3, CardTypes DEF Keyed, NoCard, NoKey
  <2>5. Heeded(form, flight)
    BY <2>1, <2>3 DEF Heeded
  <2>. QED  BY <2>1, <2>2, <2>3, <2>4, <2>5 DEF PhoneInv
<1>2. PhoneInv /\ [PhoneNext]_phoneVars => PhoneInv'
  <2>. SUFFICES ASSUME PhoneInv, [PhoneNext]_phoneVars PROVE PhoneInv'
    OBVIOUS
  <2>1. CASE UNCHANGED phoneVars
    BY <2>1 DEF PhoneInv, phoneVars, chatVars, ChatOK, Keyed, Heeded, OneEach
  <2>2. CASE PhoneNext /\ screen = "chat"
    <3>1. /\ ChatOK(turns, disk, sent, asked, minted)' /\ screen' = screen
          /\ \A p \in sent' : p \in sent \/ p.screen = screen
      BY <2>2, ChatStep DEF PhoneInv
    <3>. QED  BY <2>2, <3>1 DEF PhoneInv, Screens3
  <2>3. CASE PhoneNext /\ screen # "chat"
    <3>1. Lined /\ Keyed(form.result, sent, minted) /\ screen \in Screens3
      BY <2>3 DEF PhoneInv, Lined
    <3>2. /\ Lined' /\ Keyed(form.result, sent, minted)' /\ screen' = screen
          /\ \A p \in sent' : p \in sent \/ (/\ p.screen = screen /\ p.of = form.result.of
                                             /\ p.now = Content /\ form.result # NoCard)
      BY <2>3, <3>1, FormStep
    <3>3. screen \in {"sales", "purchase"} =>
             Heeded(form, flight)' /\ (form.result # NoCard => form.result.of = Content)
      BY <2>3, <3>1, FormHeeds DEF PhoneInv, Heeded, Content
    <3>. QED  BY <2>3, <3>1, <3>2, <3>3 DEF PhoneInv, Lined
  <2>. QED  BY <2>1, <2>2, <2>3
<1>. QED  BY <1>1, <1>2, PTL DEF PhoneSpec

\* Whatever is left, restored, trimmed, refused or answered late: the presses of one
\* card of the chat go out under one command id, which no other card has, and the
\* card under a sales or a purchase form is of the form as it stands when it is
\* confirmed (ActionProposal.commandId and fromJson, SalesController.propose).
THEOREM SentAsShownHolds == PhoneSpec => []SentAsShown
<1>1. PhoneInv => SentAsShown
  <2>. SUFFICES ASSUME PhoneInv PROVE SentAsShown
    OBVIOUS
  <2>1. \A p \in sent : p.screen = screen /\ (p.screen \in {"sales", "purchase"} => p.of = p.now)
    BY DEF PhoneInv
  <2>2. \A p, q \in sent : p.key = q.key => p.card = q.card
    BY DEF PhoneInv, ChatOK, Keyed
  <2>3. screen = "chat" => \A p, q \in sent : p.card = q.card => p.key = q.key
    BY DEF PhoneInv, ChatOK
  <2>. QED  BY <2>1, <2>2, <2>3 DEF SentAsShown
<1>. QED  BY <1>1, PhoneInvHolds, PTL

\* Nothing counts beyond its bound, and the epoch of a form not beyond the edits; a
\* chat has no form and sends none, and a form has no chat.
PhoneTypes ==
    /\ storage \in BOOLEAN /\ loading \in BOOLEAN /\ mode \in {"normal", "dsh"}
    /\ asked \in 0..LastAsk /\ minted \in 0..LastKey
    /\ form.epoch \in 0..asked
    /\ screen = "chat" => form = Blank /\ \A f \in flight : f.kind \in {"normal", "dsh"}
    /\ screen # "chat" => turns = {} /\ disk = {}

LEMMA ChatTypes ==
    ASSUME PhoneTypes, screen = "chat", PhoneNext
    PROVE  PhoneTypes'
<1>0. /\ LastAsk \in Nat /\ LastKey \in Nat /\ asked \in Nat /\ minted \in Nat
      /\ Blank.epoch = 0
  BY PhoneAssumption DEF PhoneTypes, Blank
<1>. DEFINE Fine == /\ UNCHANGED <<screen, storage>> /\ form' \in {form, Blank}
                    /\ loading' \in BOOLEAN /\ mode' \in {"normal", "dsh"}
                    /\ asked' = asked \/ (asked < LastAsk /\ asked' = asked + 1)
                    /\ minted' = minted \/ (minted < LastKey /\ minted' = minted + 1)
                    /\ \A f \in flight' : f \in flight \/ f.kind \in {"normal", "dsh"}
<1>1. ASSUME Fine PROVE PhoneTypes'
  BY <1>0, <1>1 DEF PhoneTypes
<1>2. ASSUME NEW f \in flight, NEW card, NEW unrouted, AnswerCame(f, card, unrouted)
      PROVE  Fine
  BY <1>2 DEF AnswerCame, Came, Append1, PhoneTypes
<1>3. ASSUME NEW f \in flight, NEW card, DshCame(f, card)
      PROVE  Fine
  BY <1>3 DEF DshCame, Came, Append1, PhoneTypes
<1>4. ASSUME Send \/ SetMode \/ AskAiFallback PROVE Fine
  <2>1. ASSUME NEW kind \in {"normal", "dsh"}, Ask1(kind)
        PROVE  /\ loading' \in BOOLEAN
               /\ \A f \in flight' : f \in flight \/ f.kind \in {"normal", "dsh"}
    BY <2>1 DEF Ask1
  <2>2. CASE Send
    <3>1. mode \in {"normal", "dsh"} /\ Ask1(mode)
      BY <2>2 DEF Send, PhoneTypes
    <3>2. UNCHANGED <<screen, storage, form, mode, asked, minted>>
      BY <2>2 DEF Send
    <3>. QED  BY <2>1, <3>1, <3>2
  <2>3. CASE SetMode
    BY <2>3 DEF SetMode, PhoneTypes
  <2>4. CASE AskAiFallback
    <3>1. UNCHANGED <<screen, storage, form, asked, minted>>
      BY <2>4 DEF AskAiFallback
    <3>2. \/ UNCHANGED <<flight, loading, mode>>
          \/ Ask1("dsh") /\ mode' = "dsh"
      BY <2>4 DEF AskAiFallback
    <3>. QED  BY <2>1, <3>1, <3>2 DEF PhoneTypes
  <2>. QED  BY <1>4, <2>2, <2>3, <2>4
<1>5. ASSUME NEW f \in flight, AnswerFailed(f) PROVE Fine
  BY <1>5 DEF AnswerFailed, Came, PhoneTypes
<1>6. ASSUME ClearStored \/ ClearHistory \/ ScreenGone PROVE Fine
  BY <1>6 DEF ClearStored, ClearHistory, ScreenGone, PhoneTypes
<1>7. ASSUME NEW t, Confirm(t) PROVE Fine
  BY <1>7 DEF Confirm, PhoneTypes
<1>8. ASSUME NEW p, ConfirmDone(p) \/ ConfirmFailed(p) \/ ConfirmRefused(p) PROVE Fine
  BY <1>8 DEF ConfirmDone, ConfirmFailed, ConfirmRefused, chatVars, PhoneTypes
<1>. HIDE DEF Fine
<1>9. /\ \A v : ~SetCustomer(v) /\ ~SetSupplier(v) /\ ~SetWarehouse(v) /\ ~SetLine(v)
      /\ \A v : ~SetMoney(v) /\ ~ResolveCustomer(v) /\ ~Search(v) /\ ~SetAllocation(v)
      /\ \A v : ~SetAmount(v)
      /\ ~ProposeSaleForm /\ ~ProposePurchaseForm /\ ~ConfirmCollect
      /\ ~Rebuild /\ ~ConfirmUnderForm
      /\ \A f, good : ~ReplyCame(f, good)
  BY DEF SetCustomer, SetSupplier, SetWarehouse, SetLine, SetMoney, ResolveCustomer, Search,
         SetAllocation, SetAmount, ProposeSaleForm, ProposePurchaseForm, ConfirmCollect,
         Rebuild, ConfirmUnderForm, HasCard, Screens3, ReplyCame
<1>10. \A f \in flight : /\ \A found, good : ~RowsCame(f, found, good)
                         /\ \A good : ~CollectCame(f, good)
                         /\ \A q : ~AlreadyPaid(f, q)
  BY DEF RowsCame, CollectCame, AlreadyPaid, PhoneTypes
<1>11. Fine
  BY <1>2, <1>3, <1>4, <1>5, <1>6, <1>7, <1>8, <1>9, <1>10, Zenon DEF PhoneNext
<1>. QED  BY <1>1, <1>11

LEMMA FormTypes ==
    ASSUME PhoneTypes, Lined, screen \in Screens3, PhoneNext
    PROVE  PhoneTypes'
<1>0. /\ LastAsk \in Nat /\ LastKey \in Nat /\ asked \in Nat /\ minted \in Nat
      /\ form \in Form /\ form.epoch \in Nat /\ form.epoch <= asked
      /\ Blank.epoch = 0 /\ screen # "chat"
  BY PhoneAssumption DEF PhoneTypes, Lined, Form, Blank, Screens3
<1>. DEFINE Bounded == /\ minted' = minted \/ (minted < LastKey /\ minted' = minted + 1)
                       /\ \/ /\ asked' = asked \/ (asked < LastAsk /\ asked' = asked + 1)
                             /\ form'.epoch \in {form.epoch, 0}
                          \/ /\ asked < LastAsk /\ asked' = asked + 1
                             /\ form'.epoch = form.epoch + 1
            Fine == /\ UNCHANGED <<screen, storage>> /\ Bounded
                    /\ loading' \in BOOLEAN /\ mode' \in {"normal", "dsh"}
                    /\ turns' = {} /\ disk' = {}
<1>1. ASSUME Fine PROVE PhoneTypes'
  BY <1>0, <1>1 DEF PhoneTypes
<1>2. ASSUME UnlessChat, Bounded PROVE Fine
  BY <1>0, <1>2 DEF UnlessChat, chatVars, PhoneTypes
<1>3. ASSUME NEW v, \/ v \in Parties /\ (SetCustomer(v) \/ SetSupplier(v))
                    \/ v \in Nat /\ (SetWarehouse(v) \/ SetLine(v) \/ SetMoney(v))
      PROVE  Fine
  <2>1. form'.epoch = form.epoch + 1
    BY <1>3, FormEdited DEF SetCustomer, SetSupplier
  <2>2. UnlessChat /\ asked < LastAsk /\ asked' = asked + 1
    BY <1>3 DEF SetCustomer, SetSupplier, SetParty, SetWarehouse, SetLine, SetMoney, Edit
  <2>. QED  BY <1>2, <2>1, <2>2 DEF UnlessChat, PhoneTypes
<1>4. ASSUME ProposeSaleForm \/ ProposePurchaseForm PROVE Fine
  <2>1. form'.epoch = form.epoch + 1
    BY <1>4, FormProposed DEF ProposeSaleForm, ProposePurchaseForm
  <2>2. UnlessChat /\ asked < LastAsk /\ asked' = asked + 1
    BY <1>4 DEF ProposeSaleForm, ProposePurchaseForm, Propose1
  <2>3. UNCHANGED minted
    BY <1>4, FormProposed DEF ProposeSaleForm, ProposePurchaseForm, CardLeft
  <2>. QED  BY <1>2, <2>1, <2>2, <2>3

<1>5. ASSUME NEW f \in flight, NEW good \in BOOLEAN, ReplyCame(f, good) PROVE Fine
  <2>1. form'.epoch = form.epoch /\ UNCHANGED minted
    BY <1>5, FormReplied DEF CardLeft
  <2>2. UnlessChat /\ UNCHANGED asked
    BY <1>5 DEF ReplyCame
  <2>. QED  BY <1>2, <2>1, <2>2
<1>6. ASSUME \/ \E v \in Parties : ResolveCustomer(v)
             \/ \E q \in 1..2 : Search(q)
             \/ \E f \in flight, q \in 1..2 : AlreadyPaid(f, q)
      PROVE  Fine
  <2>1. form'.epoch = form.epoch + 1
    BY <1>0, <1>6 DEF ResolveCustomer, Search, AlreadyPaid, Form
  <2>2. UnlessChat /\ asked < LastAsk /\ asked' = asked + 1
    BY <1>6 DEF ResolveCustomer, Search, AlreadyPaid, Fetch
  <2>3. UNCHANGED minted
    BY <1>6, RowsAsked DEF CardLeft
  <2>. QED  BY <1>2, <2>1, <2>2, <2>3
<1>7. ASSUME NEW f \in flight, NEW found \in BOOLEAN, NEW good \in BOOLEAN,
             RowsCame(f, found, good)
      PROVE  Fine
  <2>1. form'.epoch = form.epoch
    BY <1>0, <1>7 DEF RowsCame, Form
  <2>2. UnlessChat /\ UNCHANGED asked
    BY <1>7 DEF RowsCame
  <2>3. UNCHANGED minted
    BY <1>7, RowsReplied DEF CardLeft
  <2>. QED  BY <1>2, <2>1, <2>2, <2>3
<1>8. ASSUME \/ \E on \in BOOLEAN : SetAllocation(on)
             \/ \E v \in 0..1 : SetAmount(v)
      PROVE  Fine
  <2>1. PICK f \in Form : Edit(Rebuilt(f)) /\ f.epoch = form.epoch
    <3>1. CASE \E on \in BOOLEAN : SetAllocation(on)
      <4>1. PICK lines \in Nat : Edit(Rebuilt([form EXCEPT !.lines = lines]))
        BY <1>0, <3>1 DEF SetAllocation, Form
      <4>2. PICK f : f = [form EXCEPT !.lines = lines]
        OBVIOUS
      <4>3. f \in Form /\ f.epoch = form.epoch
        BY <1>0, <4>2 DEF Form
      <4>. QED  BY <4>1, <4>2, <4>3
    <3>2. CASE \E v \in 0..1 : SetAmount(v)
      <4>1. PICK money \in Nat : Edit(Rebuilt([form EXCEPT !.money = money]))
        BY <1>0, <3>2 DEF SetAmount, Form
      <4>2. PICK f : f = [form EXCEPT !.money = money]
        OBVIOUS
      <4>3. f \in Form /\ f.epoch = form.epoch
        BY <1>0, <4>2 DEF Form
      <4>. QED  BY <4>1, <4>2, <4>3
    <3>. QED  BY <1>8, <3>1, <3>2
  <2>2. form' = Rebuilt(f) /\ UnlessChat /\ asked < LastAsk /\ asked' = asked + 1
    BY <2>1 DEF Edit
  <2>3. form'.epoch = form.epoch
    BY <2>1, <2>2, RebuiltForm
  <2>4. UNCHANGED minted
    BY <2>2 DEF UnlessChat
  <2>. QED  BY <1>2, <2>2, <2>3, <2>4
<1>9. ASSUME ConfirmCollect PROVE Fine
  <2>1. form'.epoch = form.epoch /\ asked < LastAsk /\ asked' = asked + 1
    BY <1>0, <1>9 DEF ConfirmCollect, Form
  <2>2. UnlessChat /\ UNCHANGED minted
    BY <1>9 DEF ConfirmCollect, UnlessChat
  <2>. QED  BY <1>2, <2>1, <2>2
<1>10. ASSUME NEW f \in flight, NEW good \in BOOLEAN, CollectCame(f, good) PROVE Fine
  <2>1. PICK next : form' = [form EXCEPT !.busy = FALSE, !.result = next]
    BY <1>10 DEF CollectCame
  <2>2. form'.epoch = form.epoch
    BY <1>0, <2>1 DEF Form
  <2>3. UnlessChat /\ UNCHANGED <<asked, minted>>
    BY <1>10 DEF CollectCame, UnlessChat
  <2>. QED  BY <1>2, <2>2, <2>3
<1>11. ASSUME Rebuild PROVE Fine
  <2>1. form'.epoch = form.epoch
    BY <1>0, <1>11, RebuiltForm DEF Rebuild
  <2>. QED  BY <1>0, <1>11, <2>1 DEF Rebuild, chatVars, PhoneTypes
<1>12. ASSUME ConfirmUnderForm PROVE Fine
  <2>1. PICK key : form' = [form EXCEPT !.result.key = key]
    BY <1>12 DEF ConfirmUnderForm
  <2>2. form'.epoch = form.epoch
    BY <1>0, <2>1 DEF Form
  <2>3. UNCHANGED <<screen, storage, chatVars, asked>> /\ minted < LastKey
        /\ (minted' = minted \/ minted' = minted + 1)
    BY <1>12 DEF ConfirmUnderForm
  <2>. QED  BY <1>0, <2>2, <2>3 DEF chatVars, PhoneTypes
<1>13. ASSUME NEW p, ConfirmDone(p) \/ ConfirmFailed(p) PROVE Fine
  BY <1>0, <1>13 DEF ConfirmDone, ConfirmFailed, chatVars, PhoneTypes
<1>14. ASSUME ScreenGone PROVE Fine
  <2>1. Restored(disk) = {}
    BY <1>0 DEF Restored, PhoneTypes
  <2>. QED  BY <1>0, <1>14, <2>1 DEF ScreenGone, PhoneTypes
<1>15. ASSUME ClearHistory PROVE Fine
  BY <1>0, <1>15 DEF ClearHistory, PhoneTypes
<1>. HIDE DEF Fine
<1>16. /\ ~Send /\ ~SetMode /\ ~AskAiFallback /\ ~ClearStored
       /\ \A f, card, unrouted : ~AnswerCame(f, card, unrouted)
       /\ \A f, card : ~DshCame(f, card)
       /\ \A f : ~AnswerFailed(f)
       /\ \A t : ~Confirm(t) /\ ~ConfirmRefused(t)
  BY <1>0 DEF Send, SetMode, AskAiFallback, ClearStored, AnswerCame, DshCame, AnswerFailed,
              Came, InChat, Confirm, ConfirmRefused
<1>17. (0..1) \subseteq Nat /\ (0..2) \subseteq Nat
  OBVIOUS
<1>18. Fine
  BY <1>3, <1>4, <1>5, <1>6, <1>7, <1>8, <1>9, <1>10, <1>11, <1>12, <1>13, <1>14, <1>15,
     <1>16, <1>17, Zenon DEF PhoneNext
<1>. QED  BY <1>1, <1>18

\* Every reachable state of the app is well typed: the turns, the stored copies, the
\* counters of questions and command ids, the epoch of a form.
THEOREM PhoneTypeOKHolds == PhoneSpec => []PhoneTypeOK
<1>1. PhoneInit => PhoneTypes
  <2>. SUFFICES ASSUME PhoneInit PROVE PhoneTypes
    OBVIOUS
  <2>1. form.epoch = 0
    BY DEF PhoneInit, Blank
  <2>2. /\ storage \in BOOLEAN /\ loading = FALSE /\ mode = "normal" /\ form = Blank
        /\ flight = {} /\ turns = {} /\ disk = {} /\ asked = 0 /\ minted = 0
    <3>1. storage \in IF screen = "chat" THEN BOOLEAN ELSE {TRUE}
      BY DEF PhoneInit
    <3>2. storage \in BOOLEAN
      BY <3>1
    <3>. QED  BY <3>2 DEF PhoneInit
  <2>3. 0 \in 0..LastAsk /\ 0 \in 0..LastKey /\ 0 \in 0..0
    BY PhoneAssumption
  <2>4. loading \in BOOLEAN
    BY <2>2
  <2>. QED  BY <2>1, <2>2, <2>3, <2>4, Zenon DEF PhoneTypes
<1>2. PhoneInv /\ PhoneTypes /\ [PhoneNext]_phoneVars => PhoneTypes'
  <2>. SUFFICES ASSUME PhoneInv, PhoneTypes, [PhoneNext]_phoneVars PROVE PhoneTypes'
    OBVIOUS
  <2>1. CASE UNCHANGED phoneVars
    BY <2>1 DEF phoneVars, chatVars, PhoneTypes
  <2>2. CASE PhoneNext /\ screen = "chat"
    BY <2>2, ChatTypes
  <2>3. CASE PhoneNext /\ screen # "chat"
    <3>1. Lined /\ screen \in Screens3
      BY <2>3 DEF PhoneInv, Lined
    <3>. QED  BY <2>3, <3>1, FormTypes
  <2>. QED  BY <2>1, <2>2, <2>3
<1>3. PhoneInv /\ PhoneTypes => PhoneTypeOK
  <2>. SUFFICES ASSUME PhoneInv, PhoneTypes PROVE PhoneTypeOK
    OBVIOUS
  <2>1. \A t \in turns \cup disk : t.card \in {"none", "open", "refused"} /\ t.id <= asked
    BY DEF PhoneInv, ChatOK, CardTurn, PhoneTypes
  <2>2. form.epoch \in 0..LastAsk
    BY PhoneAssumption DEF PhoneTypes
  <2>. QED  BY <2>1, <2>2 DEF PhoneInv, PhoneTypes, PhoneTypeOK
<1>. QED  BY <1>1, <1>2, <1>3, PhoneInvHolds, PTL DEF PhoneSpec

-----------------------------------------------------------------------------
(* The parts together, as the run of MCFront composes them.                *)

LEMMA FrontInitially ==
    FrontInit => AskingInit /\ FrontdoorInit /\ DshInit /\ ClientInit /\ PhoneInit
                 /\ side \in Sides
BY DEF FrontInit

\* A step of the composition is a step of the part that runs.
LEMMA FrontAskingStep == [FrontNext]_frontVars => [AskingNext]_askVars
<1>1. UNCHANGED frontVars => UNCHANGED askVars
  BY DEF frontVars
<1>2. DoorNext => UNCHANGED askVars
  BY Zenon DEF DoorNext, InDoor
<1>3. FrontNext => AskingNext \/ UNCHANGED askVars
  BY <1>2, Zenon DEF FrontNext, InAsking, InDsh, InClient, InPhone
<1>. QED  BY <1>1, <1>3

LEMMA FrontDshStep == [FrontNext]_frontVars => [DshNext]_dshVars
<1>1. UNCHANGED frontVars => UNCHANGED dshVars
  BY DEF frontVars
<1>2. DoorNext => UNCHANGED dshVars
  BY Zenon DEF DoorNext, InDoor
<1>3. FrontNext => DshNext \/ UNCHANGED dshVars
  BY <1>2, Zenon DEF FrontNext, InAsking, InDsh, InClient, InPhone
<1>. QED  BY <1>1, <1>3

LEMMA FrontClientStep == [FrontNext]_frontVars => [ClientNext]_clientVars
<1>1. UNCHANGED frontVars => UNCHANGED clientVars
  BY DEF frontVars
<1>2. DoorNext => UNCHANGED clientVars
  BY Zenon DEF DoorNext, InDoor
<1>3. FrontNext => ClientNext \/ UNCHANGED clientVars
  BY <1>2, Zenon DEF FrontNext, InAsking, InDsh, InClient, InPhone
<1>. QED  BY <1>1, <1>3

LEMMA FrontPhoneStep == [FrontNext]_frontVars => [PhoneNext]_phoneVars
<1>1. UNCHANGED frontVars => UNCHANGED phoneVars
  BY DEF frontVars
<1>2. DoorNext => UNCHANGED phoneVars
  BY Zenon DEF DoorNext, InDoor
<1>3. FrontNext => PhoneNext \/ UNCHANGED phoneVars
  BY <1>2, Zenon DEF FrontNext, InAsking, InDsh, InClient, InPhone
<1>. QED  BY <1>1, <1>3

LEMMA FrontSideStep == [FrontNext]_frontVars => side' = side
<1>1. UNCHANGED frontVars => side' = side
  BY DEF frontVars
<1>2. DoorNext => side' = side
  BY Zenon DEF DoorNext, InDoor
<1>3. FrontNext => side' = side
  BY <1>2, Zenon DEF FrontNext, InAsking, InDsh, InClient, InPhone
<1>. QED  BY <1>1, <1>3

\* The door's steps are spelt out action by action, for the callers, claims and
\* outcomes the running part enumerates.
LEMMA FrontDoorStep == [FrontNext]_frontVars => [FrontdoorNext]_doorVars
<1>1. UNCHANGED frontVars => UNCHANGED doorVars
  BY DEF frontVars
<1>2. DoorNext => FrontdoorNext
  BY Zenon DEF DoorNext, InDoor, In, Claims, Good, One, First, FrontdoorNext
<1>3. FrontNext => FrontdoorNext \/ UNCHANGED doorVars
  BY <1>2, Zenon DEF FrontNext, InAsking, InDsh, InClient, InPhone
<1>. QED  BY <1>1, <1>3

\* What the run of MCFront checks, it checks of the specifications of the parts: each
\* one is implemented by the composition, with every part's variables mapped to
\* themselves.
THEOREM FrontImplementsItsParts ==
    FrontSpec => AskingSpec /\ FrontdoorSpec /\ DshSpec /\ ClientSpec /\ PhoneSpec
BY FrontInitially, FrontAskingStep, FrontDoorStep, FrontDshStep, FrontClientStep,
   FrontPhoneStep, PTL
   DEF FrontSpec, AskingSpec, FrontdoorSpec, DshSpec, ClientSpec, PhoneSpec

\* Every variable of every part has its type in every state of the composition.
THEOREM FrontTypeOKHolds == FrontSpec => []FrontTypeOK
<1>1. FrontSpec => [](side \in Sides)
  <2>1. side \in Sides /\ [FrontNext]_frontVars => (side \in Sides)'
    BY FrontSideStep
  <2>. QED  BY <2>1, FrontInitially, PTL DEF FrontSpec
<1>2. (/\ side \in Sides /\ AskingTypeOK /\ FrontdoorTypeOK
       /\ DshTypeOK /\ ClientTypeOK /\ PhoneTypeOK) => FrontTypeOK
  BY DEF FrontTypeOK
<1>. QED  BY <1>1, <1>2, FrontImplementsItsParts, AskingTypeOKHolds,
             FrontdoorTypeOKHolds, DshTypeOKHolds, ClientTypeCorrect,
             PhoneTypeOKHolds, PTL

\* Whichever part runs, cards, tickets, meters, figures, conversations, child answers
\* and command ids are what the run of MCFront checks them to be, for any number of
\* them.
THEOREM FrontKeepsItsWord ==
    FrontSpec => /\ [](CardPartyIsMeant /\ CardFromOwnHandoff)
                 /\ [](NeverTwiceTheLimit /\ OwnBooksWhole)
                 /\ [](OneChildPerChat /\ OwnAnswerOrFailure /\ SentAsShown)
                 /\ NoTurnLost
BY FrontImplementsItsParts, CardPartyIsMeantHolds, CardFromOwnHandoffHolds,
   NeverTwiceTheLimitHolds, OwnBooksWholeHolds, OneChildPerChatHolds,
   OwnAnswerOrFailureHolds, SentAsShownHolds, NoTurnLostHolds, PTL
=============================================================================
