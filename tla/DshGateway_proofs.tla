-------------------------- MODULE DshGateway_proofs --------------------------
(***************************************************************************)
(* The lock of a conversation and the slots of dsh-gateway.mjs, for any    *)
(* number of conversations, turns and slots.  The memory does not matter   *)
(* to them: what a turn carries as context is left open.                   *)
(***************************************************************************)
EXTENDS DshGateway, FiniteSetTheorems, SequenceTheorems, TLAPS

\* A turn is a record, whatever its context is.
TurnSet(k) == [stage : Stages, chat : Chats \cup {NoTurn}, prev : Turns \cup {NoTurn}, context : {k}]
Shaped ==
    /\ turn = [r \in Turns |-> turn[r]]
    /\ \A r \in Turns : \E k : turn[r] \in TurnSet(k)
    /\ \A r \in Turns : turn[r].stage # "away" => turn[r].chat \in Chats

AtWork(s) == s \in {"running", "killed"}
Live(s) == AtWork(s) \/ s = "queued"

\* The promise chains seen from above: the turns of a conversation stand in a
\* line, each behind the one it waits for, and the first one works.
InLine(line, c, i) ==
    LET r == line[c][i]
    IN /\ turn[r].chat = c
       /\ IF i = 1 THEN AtWork(turn[r].stage)
          ELSE turn[r].stage = "queued" /\ turn[r].prev = line[c][i - 1]
LineTyped(line) == line \in [Chats -> Seq(Turns)]
Ordered(line) == \A c \in Chats : \A i \in 1..Len(line[c]) : InLine(line, c, i)
Once(line) == \A c \in Chats : \A i, j \in 1..Len(line[c]) : line[c][i] = line[c][j] => i = j
Present(line, r, c) == \E i \in 1..Len(line[c]) : line[c][i] = r
Complete(line) ==
    \A r \in Turns : Live(turn[r].stage) => turn[r].chat \in Chats /\ Present(line, r, turn[r].chat)
Ends(line) ==
    /\ tail = [c \in Chats |-> IF line[c] = <<>> THEN NoTurn ELSE line[c][Len(line[c])]]
    /\ active = {c \in Chats : line[c] # <<>>}
Line(line) == LineTyped(line) /\ Ordered(line) /\ Once(line) /\ Complete(line) /\ Ends(line)

Workers == {r \in Turns : AtWork(turn[r].stage)}
DshInv ==
    /\ Shaped
    /\ \E line : Line(line)
    /\ inFlight = Cardinality(Workers) /\ inFlight <= DshCap

---------------------------------------------------------------------------
(* What a step does to the turns.                                          *)

LEMMA Fields ==
  ASSUME NEW k, NEW rec \in TurnSet(k), NEW s \in Stages
  PROVE  /\ [rec EXCEPT !.stage = s] \in TurnSet(k)
         /\ [rec EXCEPT !.stage = s].stage = s
         /\ [rec EXCEPT !.stage = s].chat = rec.chat
         /\ [rec EXCEPT !.stage = s].prev = rec.prev
  BY DEF TurnSet

LEMMA PlaceMoves ==
  ASSUME Shaped, NEW r \in Turns, NEW s \in Stages, Place(r, s), turn[r].stage # "away"
  PROVE  /\ Shaped'
         /\ turn'[r].stage = s
         /\ \A q \in Turns : q # r => turn'[q].stage = turn[q].stage
         /\ \A q \in Turns : turn'[q].chat = turn[q].chat /\ turn'[q].prev = turn[q].prev
<1>1. PICK k : turn[r] \in TurnSet(k)
  BY DEF Shaped
<1>2. turn' = [q \in Turns |-> IF q = r THEN [turn[r] EXCEPT !.stage = s] ELSE turn[q]]
  BY DEF Place, Shaped
<1>3. /\ turn'[r] = [turn[r] EXCEPT !.stage = s]
      /\ \A q \in Turns : q # r => turn'[q] = turn[q]
  BY <1>2
<1>4. Shaped'
  BY <1>1, <1>2, <1>3, Fields DEF Shaped
<1>5. turn'[r].stage = s /\ turn'[r].chat = turn[r].chat /\ turn'[r].prev = turn[r].prev
  BY <1>1, <1>3, Fields
<1> QED BY <1>3, <1>4, <1>5

LEMMA Members ==
  ASSUME NEW line, Line(line), NEW c \in Chats, NEW i \in 1..Len(line[c])
  PROVE  /\ line[c][i] \in Turns /\ Live(turn[line[c][i]].stage)
         /\ turn[line[c][i]].chat = c
  BY DEF Line, LineTyped, Ordered, InLine, Live

\* Nothing of the lock changes when no turn starts or ends to be live.
LEMMA LineStays ==
  ASSUME NEW line, Line(line), UNCHANGED <<tail, active>>,
         \A q \in Turns : Live(turn[q].stage) \/ Live(turn'[q].stage) =>
             /\ Live(turn[q].stage) /\ AtWork(turn[q].stage) = AtWork(turn'[q].stage)
             /\ turn[q].stage = "queued" <=> turn'[q].stage = "queued"
             /\ turn'[q].chat = turn[q].chat /\ turn'[q].prev = turn[q].prev
  PROVE  Line(line)'
<1>1. Ordered(line)'
  BY Members DEF Line, Ordered, InLine
<1>2. Complete(line)'
  BY DEF Line, Complete, Present
<1> QED BY <1>1, <1>2 DEF Line, LineTyped, Once, Ends

\* A turn joins an idle conversation at the head of its line ...
LEMMA LineStarts ==
  ASSUME NEW line, Line(line), NEW r \in Turns, turn[r].stage = "gate",
         NEW c \in Chats, turn[r].chat = c, tail[c] = NoTurn, NoTurn \notin Turns,
         tail' = [tail EXCEPT ![c] = r], active' = active \cup {c},
         turn'[r].stage = "running", turn'[r].chat = c,
         \A q \in Turns : q # r => turn'[q] = turn[q]
  PROVE  Line([line EXCEPT ![c] = <<r>>])'
<1> DEFINE l == [line EXCEPT ![c] = <<r>>]
<1>1. line \in [Chats -> Seq(Turns)]
  BY DEF Line, LineTyped
<1>2. line[c] = <<>>
  <2>1. line[c] # <<>> => line[c][Len(line[c])] \in Turns
    BY <1>1
  <2> QED BY <1>1, <2>1 DEF Line, Ends
<1>3. /\ l \in [Chats -> Seq(Turns)] /\ \A d \in Chats : d # c => l[d] = line[d]
      /\ Len(l[c]) = 1 /\ l[c][1] = r /\ l[c] # <<>>
  <2>1. l[c] = <<r>> /\ <<r>> \in Seq(Turns)
    BY <1>1
  <2>2. Len(<<r>>) = 1 /\ <<r>>[1] = r /\ <<r>> # <<>>
    OBVIOUS
  <2> QED BY <1>1, <2>1, <2>2
<1>4. \A d \in Chats : \A i \in 1..Len(line[d]) : line[d][i] \in Turns /\ line[d][i] # r
  BY Members DEF Live, AtWork
<1> HIDE DEF l
<1>5. Ordered(l)'
  <2> SUFFICES ASSUME NEW d \in Chats, NEW i \in 1..Len(l[d]) PROVE InLine(l, d, i)'
    BY DEF Ordered
  <2>1. CASE d = c
    <3>1. i = 1 /\ l[d][i] = r
      <4>1. 1..Len(l[c]) = {1}
        BY <1>3
      <4> QED BY <1>3, <2>1, <4>1
    <3> QED BY <2>1, <3>1 DEF InLine, AtWork
  <2>2. CASE d # c
    <3>1. InLine(line, d, i) /\ l[d] = line[d] /\ i \in 1..Len(line[d])
      BY <1>3, <2>2 DEF Line, Ordered
    <3>2. turn'[line[d][i]] = turn[line[d][i]]
      BY <1>4, <3>1
    <3> QED BY <3>1, <3>2 DEF InLine
  <2> QED BY <2>1, <2>2
<1>6. Once(l)
  <2> SUFFICES ASSUME NEW d \in Chats, NEW i \in 1..Len(l[d]), NEW j \in 1..Len(l[d]), l[d][i] = l[d][j]
               PROVE  i = j
    BY DEF Once
  <2>1. CASE d = c
    <3>1. 1..Len(l[c]) = {1}
      BY <1>3
    <3> QED BY <2>1, <3>1
  <2>2. CASE d # c
    BY <1>3, <2>2 DEF Line, Once
  <2> QED BY <2>1, <2>2
<1>7. Complete(l)'
  <2> SUFFICES ASSUME NEW q \in Turns, Live(turn'[q].stage) PROVE turn'[q].chat \in Chats /\ Present(l, q, turn'[q].chat)
    BY DEF Complete
  <2>1. CASE q = r
    BY <1>3, <2>1 DEF Present
  <2>2. CASE q # r
    <3>1. turn'[q] = turn[q] /\ turn[q].chat \in Chats /\ Present(line, q, turn[q].chat)
      BY <2>2 DEF Line, Complete
    <3>2. turn[q].chat # c /\ l[turn[q].chat] = line[turn[q].chat]
      BY <1>1, <1>2, <1>3, <3>1 DEF Present, l
    <3> QED BY <3>1, <3>2 DEF Present
  <2> QED BY <2>1, <2>2
<1>8. Ends(l)'
  <2>1. tail' = [d \in Chats |-> IF l[d] = <<>> THEN NoTurn ELSE l[d][Len(l[d])]]
    <3>1. tail' = [d \in Chats |-> IF d = c THEN r ELSE tail[d]]
      BY DEF Line, Ends
    <3>2. \A d \in Chats : d # c => tail[d] = IF l[d] = <<>> THEN NoTurn ELSE l[d][Len(l[d])]
      BY <1>3 DEF Line, Ends
    <3>3. r = IF l[c] = <<>> THEN NoTurn ELSE l[c][Len(l[c])]
      BY <1>3
    <3>4. \A d \in Chats : (IF d = c THEN r ELSE tail[d])
                           = IF l[d] = <<>> THEN NoTurn ELSE l[d][Len(l[d])]
      BY <3>2, <3>3
    <3> QED BY <3>1, <3>4, Zenon
  <2>2. active' = {d \in Chats : l[d] # <<>>}
    BY <1>3 DEF Line, Ends
  <2> QED BY <2>1, <2>2 DEF Ends
<1> QED BY <1>3, <1>5, <1>6, <1>7, <1>8 DEF Line, LineTyped, Once, l

\* ... or waits at the end of it.
LEMMA LineGrows ==
  ASSUME NEW line, Line(line), NEW r \in Turns, turn[r].stage = "gate",
         NEW c \in Chats, turn[r].chat = c, tail[c] # NoTurn,
         tail' = [tail EXCEPT ![c] = r], UNCHANGED active,
         turn'[r].stage = "queued", turn'[r].chat = c, turn'[r].prev = tail[c],
         \A q \in Turns : q # r => turn'[q] = turn[q]
  PROVE  Line([line EXCEPT ![c] = Append(line[c], r)])'
<1> DEFINE n == Len(line[c])
           l == [line EXCEPT ![c] = Append(line[c], r)]
<1>1. line \in [Chats -> Seq(Turns)]
  BY DEF Line, LineTyped
<1>2. line[c] # <<>> /\ n \in Nat \ {0} /\ tail[c] = line[c][n]
  BY <1>1 DEF Line, Ends
<1>3. /\ l \in [Chats -> Seq(Turns)] /\ \A d \in Chats : d # c => l[d] = line[d]
      /\ Len(l[c]) = n + 1 /\ l[c][n + 1] = r /\ l[c] # <<>>
      /\ \A i \in 1..n : l[c][i] = line[c][i]
  <2>1. l[c] = Append(line[c], r) /\ line[c] \in Seq(Turns)
    BY <1>1
  <2>2. /\ Append(line[c], r) \in Seq(Turns) /\ Len(Append(line[c], r)) = n + 1
        /\ Append(line[c], r)[n + 1] = r
        /\ \A i \in 1..n : Append(line[c], r)[i] = line[c][i]
    BY <2>1
  <2>3. l[c] # <<>>
    BY <1>2, <2>1, <2>2
  <2> QED BY <1>1, <2>1, <2>2, <2>3
<1>4. \A d \in Chats : \A i \in 1..Len(line[d]) : line[d][i] \in Turns /\ line[d][i] # r
  BY Members DEF Live, AtWork
<1>0. \A d \in Chats : \A i \in 1..Len(line[d]) : i \in 1..Len(l[d]) /\ l[d][i] = line[d][i]
  BY <1>2, <1>3
<1> HIDE DEF l
<1>5. Ordered(l)'
  <2> SUFFICES ASSUME NEW d \in Chats, NEW i \in 1..Len(l[d]) PROVE InLine(l, d, i)'
    BY DEF Ordered
  <2>1. CASE d = c /\ i = n + 1
    BY <1>2, <1>3, <2>1 DEF InLine
  <2>2. CASE d # c \/ i # n + 1
    <3>1. i \in 1..Len(line[d]) /\ l[d][i] = line[d][i]
      BY <1>2, <1>3, <2>2
    <3>2. i # 1 => l[d][i - 1] = line[d][i - 1]
      BY <1>0, <1>1, <3>1
    <3>3. InLine(line, d, i) /\ turn'[line[d][i]] = turn[line[d][i]]
      BY <1>4, <3>1 DEF Line, Ordered
    <3> QED BY <3>1, <3>2, <3>3 DEF InLine
  <2> QED BY <2>1, <2>2
<1>6. Once(l)
  <2> SUFFICES ASSUME NEW d \in Chats, NEW i \in 1..Len(l[d]), NEW j \in 1..Len(l[d]), l[d][i] = l[d][j]
               PROVE  i = j
    BY DEF Once
  <2>1. CASE d = c
    <3>1. \A k \in 1..n : line[c][k] # r
      BY <1>1, <1>4
    <3>2. i \in 1..(n + 1) /\ j \in 1..(n + 1) /\ l[c][i] = l[c][j]
      BY <1>3, <2>1
    <3>3. i \in 1..n /\ j \in 1..n => i = j
      BY <1>3, <3>2 DEF Line, Once
    <3>4. \A k \in 1..(n + 1) : k # n + 1 => k \in 1..n /\ l[c][k] = line[c][k]
      BY <1>2, <1>3
    <3> QED BY <1>3, <3>1, <3>2, <3>3, <3>4
  <2>2. CASE d # c
    BY <1>3, <2>2 DEF Line, Once
  <2> QED BY <2>1, <2>2
<1>7. Complete(l)'
  <2> SUFFICES ASSUME NEW q \in Turns, Live(turn'[q].stage) PROVE turn'[q].chat \in Chats /\ Present(l, q, turn'[q].chat)
    BY DEF Complete
  <2>1. CASE q = r
    BY <1>2, <1>3, <2>1 DEF Present
  <2>2. CASE q # r
    <3>1. turn'[q] = turn[q] /\ turn[q].chat \in Chats /\ Present(line, q, turn[q].chat)
      BY <2>2 DEF Line, Complete
    <3> QED BY <1>0, <3>1 DEF Present
  <2> QED BY <2>1, <2>2
<1>8. Ends(l)'
  <2>1. tail' = [d \in Chats |-> IF l[d] = <<>> THEN NoTurn ELSE l[d][Len(l[d])]]
    <3>1. tail' = [d \in Chats |-> IF d = c THEN r ELSE tail[d]]
      BY DEF Line, Ends
    <3>2. \A d \in Chats : d # c => tail[d] = IF l[d] = <<>> THEN NoTurn ELSE l[d][Len(l[d])]
      BY <1>3 DEF Line, Ends
    <3>3. r = IF l[c] = <<>> THEN NoTurn ELSE l[c][Len(l[c])]
      BY <1>3
    <3>4. \A d \in Chats : (IF d = c THEN r ELSE tail[d])
                           = IF l[d] = <<>> THEN NoTurn ELSE l[d][Len(l[d])]
      BY <3>2, <3>3
    <3> QED BY <3>1, <3>4, Zenon
  <2>2. active' = {d \in Chats : l[d] # <<>>}
    BY <1>2, <1>3 DEF Line, Ends
  <2> QED BY <2>1, <2>2 DEF Ends
<1> QED BY <1>3, <1>5, <1>6, <1>7, <1>8 DEF Line, LineTyped, Once, l

\* Who works is first in line, and the second in line waits for it.
LEMMA HeadAndNext ==
  ASSUME NEW line, Line(line), NEW r \in Turns, AtWork(turn[r].stage), NEW c \in Chats, turn[r].chat = c
  PROVE  /\ Len(line[c]) \in Nat \ {0} /\ line[c][1] = r
         /\ Next1(r) = IF Len(line[c]) = 1 THEN {} ELSE {line[c][2]}
<1> DEFINE n == Len(line[c])
<1>1. line[c] \in Seq(Turns) /\ n \in Nat
  BY DEF Line, LineTyped
<1>2. PICK i \in 1..n : line[c][i] = r
  BY DEF Line, Complete, Present, Live
<1>3. i = 1
  BY <1>2 DEF Line, Ordered, InLine, AtWork
<1>4. n \in Nat \ {0} /\ line[c][1] = r
  BY <1>1, <1>2, <1>3
<1>5. ASSUME NEW q \in Next1(r) PROVE n # 1 /\ q = line[c][2]
  <2>1. q \in Turns /\ turn[q].stage = "queued" /\ turn[q].prev = r
    BY <1>5 DEF Next1
  <2>2. PICK j \in 1..Len(line[turn[q].chat]) : line[turn[q].chat][j] = q
    BY <2>1 DEF Line, Complete, Present, Live
  <2> DEFINE d == turn[q].chat
  <2>3. d \in Chats
    BY <2>1 DEF Line, Complete, Live
  <2>4. j # 1 /\ line[d][j - 1] = r
    BY <2>1, <2>2, <2>3 DEF Line, Ordered, InLine, AtWork
  <2>5. j - 1 \in 1..Len(line[d])
    BY <2>2, <2>3, <2>4 DEF Line, LineTyped
  <2>6. d = c
    BY <2>3, <2>4, <2>5, Members
  <2>7. j - 1 = 1
    BY <1>4, <2>4, <2>5, <2>6 DEF Line, Once
  <2> QED BY <1>1, <2>2, <2>6, <2>7
<1>6. ASSUME n # 1 PROVE line[c][2] \in Next1(r)
  <2>0. \A m \in Nat \ {0} : m # 1 => 2 \in 1..m
    OBVIOUS
  <2>1. 2 \in 1..n
    BY <2>0, <1>4, <1>6
  <2>2. InLine(line, c, 2) /\ line[c][2] \in Turns
    BY <2>1, Members DEF Line, Ordered
  <2> QED BY <1>4, <2>2 DEF InLine, Next1
<1> QED BY <1>4, <1>5, <1>6

\* The first in line is done and the next one works: slot and lock go on.
LEMMA LineMoves ==
  ASSUME NEW line, Line(line), NoTurn \notin Turns,
         NEW r \in Turns, AtWork(turn[r].stage), NEW c \in Chats, turn[r].chat = c,
         tail' = [tail EXCEPT ![c] = TailAfter(c, r)],
         active' = IF Next1(r) = {} THEN active \ {c} ELSE active,
         turn'[r].stage = "over",
         \A q \in Turns : q # r => turn'[q].stage = IF q \in Next1(r) THEN "running" ELSE turn[q].stage,
         \A q \in Turns : turn'[q].chat = turn[q].chat /\ turn'[q].prev = turn[q].prev
  PROVE  Line([line EXCEPT ![c] = Tail(line[c])])'
<1> DEFINE n == Len(line[c])
           l == [line EXCEPT ![c] = Tail(line[c])]
<1>1. line \in [Chats -> Seq(Turns)]
  BY DEF Line, LineTyped
<1>2. /\ n \in Nat \ {0} /\ line[c][1] = r
      /\ Next1(r) = IF n = 1 THEN {} ELSE {line[c][2]}
  BY HeadAndNext
<1>3. /\ l \in [Chats -> Seq(Turns)] /\ \A d \in Chats : d # c => l[d] = line[d]
      /\ Len(l[c]) = n - 1 /\ \A i \in 1..(n - 1) : i + 1 \in 1..n /\ l[c][i] = line[c][i + 1]
      /\ l[c] = <<>> <=> n = 1
  <2>1. line[c] \in Seq(Turns) /\ line[c] # <<>>
    BY <1>1, <1>2
  <2>2. /\ Tail(line[c]) \in Seq(Turns) /\ Len(Tail(line[c])) = n - 1
        /\ \A i \in 1..(n - 1) : i + 1 \in 1..n /\ Tail(line[c])[i] = line[c][i + 1]
    BY <1>2, <2>1
  <2>3. Tail(line[c]) = <<>> <=> n = 1
    <3>1. \A s \in Seq(Turns) : s = <<>> <=> Len(s) = 0
      OBVIOUS
    <3>2. \A m \in Nat \ {0} : m - 1 = 0 <=> m = 1
      OBVIOUS
    <3> QED BY <1>2, <2>2, <3>1, <3>2
  <2> QED BY <1>1, <2>2, <2>3
<1>4. \A i \in 1..n : line[c][i] = r => i = 1
  BY <1>2 DEF Line, Once
<1>5. \A d \in Chats : d # c => \A i \in 1..Len(line[d]) :
          line[d][i] \in Turns /\ line[d][i] # r /\ line[d][i] \notin Next1(r)
  <2> SUFFICES ASSUME NEW d \in Chats, d # c, NEW i \in 1..Len(line[d])
               PROVE  line[d][i] \in Turns /\ line[d][i] # r /\ line[d][i] \notin Next1(r)
    OBVIOUS
  <2>1. line[d][i] \in Turns /\ turn[line[d][i]].chat = d
    BY Members
  <2>2. \A q \in Next1(r) : turn[q].chat = c
    <3>0. \A m \in Nat \ {0} : m # 1 => 2 \in 1..m
      OBVIOUS
    <3>1. n # 1 => 2 \in 1..n
      BY <3>0, <1>2
    <3> QED BY <1>2, <3>1, Members
  <2> QED BY <2>1, <2>2
<1> HIDE DEF l
<1>6. Ordered(l)'
  <2> SUFFICES ASSUME NEW d \in Chats, NEW i \in 1..Len(l[d]) PROVE InLine(l, d, i)'
    BY DEF Ordered
  <2>1. CASE d = c
    <3>1. i \in 1..(n - 1) /\ i + 1 \in 1..n /\ l[d][i] = line[c][i + 1]
      BY <1>3, <2>1
    <3>2. /\ line[c][i + 1] \in Turns /\ line[c][i + 1] # r
          /\ InLine(line, c, i + 1) /\ i + 1 # 1
      BY <1>4, <3>1, Members DEF Line, Ordered
    <3>3. CASE i = 1
      <4>1. line[c][2] \in Next1(r)
        BY <1>2, <3>1, <3>3
      <4> QED BY <2>1, <3>1, <3>2, <3>3, <4>1 DEF InLine, AtWork
    <3>4. CASE i # 1
      <4>1. line[c][i + 1] # line[c][2]
        <5>1. 2 \in 1..n /\ i + 1 # 2
          BY <1>2, <3>1, <3>4
        <5> QED BY <3>1, <5>1 DEF Line, Once
      <4>2. line[c][i + 1] \notin Next1(r)
        BY <1>2, <4>1
      <4>3. i - 1 \in 1..(n - 1) /\ l[c][i - 1] = line[c][(i + 1) - 1]
        <5>1. i - 1 \in 1..(n - 1) /\ (i - 1) + 1 = (i + 1) - 1
          BY <1>2, <3>1, <3>4
        <5> QED BY <1>3, <5>1
      <4> QED BY <2>1, <3>1, <3>2, <3>4, <4>2, <4>3 DEF InLine
    <3> QED BY <3>3, <3>4
  <2>2. CASE d # c
    <3>1. InLine(line, d, i) /\ l[d] = line[d] /\ i \in 1..Len(line[d])
      BY <1>3, <2>2 DEF Line, Ordered
    <3>2. /\ turn'[line[d][i]].stage = turn[line[d][i]].stage
          /\ turn'[line[d][i]].chat = turn[line[d][i]].chat
          /\ turn'[line[d][i]].prev = turn[line[d][i]].prev
      BY <1>5, <2>2, <3>1
    <3> QED BY <3>1, <3>2 DEF InLine
  <2> QED BY <2>1, <2>2
<1>7. Once(l)
  <2> SUFFICES ASSUME NEW d \in Chats, NEW i \in 1..Len(l[d]), NEW j \in 1..Len(l[d]), l[d][i] = l[d][j]
               PROVE  i = j
    BY DEF Once
  <2>1. CASE d = c
    <3>1. /\ i \in 1..(n - 1) /\ i + 1 \in 1..n /\ l[d][i] = line[c][i + 1]
          /\ j \in 1..(n - 1) /\ j + 1 \in 1..n /\ l[d][j] = line[c][j + 1]
      BY <1>3, <2>1
    <3>2. i + 1 = j + 1
      <4>1. \A a, b \in 1..n : line[c][a] = line[c][b] => a = b
        BY DEF Line, Once
      <4>2. line[c][i + 1] = line[c][j + 1]
        BY <3>1
      <4> QED BY <3>1, <4>1, <4>2
    <3> QED BY <3>1, <3>2
  <2>2. CASE d # c
    BY <1>3, <2>2 DEF Line, Once
  <2> QED BY <2>1, <2>2
<1>8. Complete(l)'
  <2> SUFFICES ASSUME NEW q \in Turns, Live(turn'[q].stage)
               PROVE  turn'[q].chat \in Chats /\ Present(l, q, turn'[q].chat)
    BY DEF Complete
  <2>1. q # r /\ Live(turn[q].stage) /\ turn'[q].chat = turn[q].chat
    BY DEF Live, AtWork, Next1
  <2>2. turn[q].chat \in Chats /\ Present(line, q, turn[q].chat)
    BY <2>1 DEF Line, Complete
  <2>3. PICK i \in 1..Len(line[turn[q].chat]) : line[turn[q].chat][i] = q
    BY <2>2 DEF Present
  <2>4. CASE turn[q].chat = c
    <3>1. i \in 1..n /\ i # 1
      BY <1>2, <2>1, <2>3, <2>4
    <3>2. i - 1 \in 1..(n - 1) /\ (i - 1) + 1 = i
      BY <1>2, <3>1
    <3>3. i - 1 \in 1..Len(l[c]) /\ l[c][i - 1] = q
      BY <1>3, <2>3, <2>4, <3>2
    <3> QED BY <2>1, <2>2, <2>4, <3>3 DEF Present
  <2>5. CASE turn[q].chat # c
    BY <1>3, <2>1, <2>2, <2>5 DEF Present
  <2> QED BY <2>4, <2>5
<1>9. Ends(l)'
  <2>1. tail' = [d \in Chats |-> IF l[d] = <<>> THEN NoTurn ELSE l[d][Len(l[d])]]
    <3>1. tail' = [d \in Chats |-> IF d = c THEN TailAfter(c, r) ELSE tail[d]]
      BY DEF Line, Ends
    <3>2. \A d \in Chats : d # c => tail[d] = IF l[d] = <<>> THEN NoTurn ELSE l[d][Len(l[d])]
      BY <1>3 DEF Line, Ends
    <3>3. tail[c] = line[c][n] /\ line[c] # <<>>
      BY <1>2 DEF Line, Ends
    <3>4. TailAfter(c, r) = IF l[c] = <<>> THEN NoTurn ELSE l[c][Len(l[c])]
      <4>1. CASE n = 1
        BY <1>2, <1>3, <3>3, <4>1 DEF TailAfter
      <4>2. CASE n # 1
        <5>1. n \in 1..n /\ n - 1 \in 1..(n - 1) /\ (n - 1) + 1 = n
          <6>1. \A m \in Nat \ {0} : m # 1 => m \in 1..m /\ m - 1 \in 1..(m - 1) /\ (m - 1) + 1 = m
            OBVIOUS
          <6> QED BY <6>1, <1>2, <4>2
        <5>2. line[c][n] # r /\ l[c][n - 1] = line[c][n]
          BY <1>3, <1>4, <4>2, <5>1
        <5> QED BY <1>3, <3>3, <4>2, <5>2 DEF TailAfter
      <4> QED BY <4>1, <4>2
    <3>5. \A d \in Chats : (IF d = c THEN TailAfter(c, r) ELSE tail[d])
                           = IF l[d] = <<>> THEN NoTurn ELSE l[d][Len(l[d])]
      BY <3>2, <3>4
    <3> QED BY <3>1, <3>5, Zenon
  <2>2. active' = {d \in Chats : l[d] # <<>>}
    <3>1. active' = IF n = 1 THEN active \ {c} ELSE active
      BY <1>2
    <3>2. line[c] # <<>>
      BY <1>2
    <3> QED BY <1>3, <3>1, <3>2 DEF Line, Ends
  <2> QED BY <2>1, <2>2 DEF Ends
<1> QED BY <1>3, <1>6, <1>7, <1>8, <1>9 DEF Line, LineTyped, Once, l

---------------------------------------------------------------------------
(* One lemma for each kind of step.                                        *)

LEMMA WorkersFinite == IsFiniteSet(Workers)
  BY DshGatewayAssumption, FS_Subset DEF Workers

\* A turn that does not work before and after moves no slot.
LEMMA WorkersStay ==
  ASSUME UNCHANGED inFlight, DshInv,
         \A q \in Turns : AtWork(turn[q].stage) = AtWork(turn'[q].stage)
  PROVE  inFlight' = Cardinality(Workers)' /\ inFlight' <= DshCap
<1>1. Workers' = Workers
  BY DEF Workers
<1> QED BY <1>1 DEF DshInv

LEMMA DshInvInit == DshInit => DshInv
<1> SUFFICES ASSUME DshInit PROVE DshInv
  OBVIOUS
<1>1. turn = [r \in Turns |-> NotAsked] /\ NotAsked \in TurnSet(<<>>) /\ NotAsked.stage = "away"
  BY DEF DshInit, NotAsked, TurnSet, Stages
<1>2. Shaped
  BY <1>1 DEF Shaped
<1>3. \A r \in Turns : ~Live(turn[r].stage)
  BY <1>1 DEF Live, AtWork
<1> DEFINE line == [c \in Chats |-> <<>>]
<1>4. LineTyped(line) /\ \A c \in Chats : line[c] = <<>> /\ 1..Len(line[c]) = {}
  BY DEF LineTyped
<1>5. Ends(line)
  BY <1>4 DEF DshInit, Ends
<1> HIDE DEF line
<1>6. Line(line)
  BY <1>3, <1>4, <1>5 DEF Line, Ordered, Once, Complete
<1>7. Workers = {}
  BY <1>3 DEF Workers, Live
<1> QED BY <1>2, <1>6, <1>7, FS_EmptySet, DshGatewayAssumption DEF DshInit, DshInv

LEMMA AskKeeps ==
  ASSUME DshInv, NEW r \in Turns, NEW c \in Chats, AskDsh(r, c)
  PROVE  DshInv'
<1> DEFINE rec == [NotAsked EXCEPT !.stage = "gate", !.chat = c]
<1>1. rec \in TurnSet(<<>>) /\ rec.stage = "gate" /\ rec.chat = c
  BY DEF NotAsked, TurnSet, Stages
<1>2. /\ turn' = [turn EXCEPT ![r] = rec] /\ turn[r].stage = "away"
      /\ UNCHANGED <<tail, inFlight, active>>
  BY DEF AskDsh
<1> HIDE DEF rec
<1>3. turn'[r] = rec /\ \A q \in Turns : q # r => turn'[q] = turn[q]
  BY <1>2 DEF DshInv, Shaped
<1>4. Shaped'
  BY <1>1, <1>2, <1>3 DEF DshInv, Shaped
<1>5. \A q \in Turns : Live(turn[q].stage) \/ Live(turn'[q].stage) => turn'[q] = turn[q] /\ Live(turn[q].stage)
  BY <1>1, <1>2, <1>3 DEF Live, AtWork
<1>6. \E line : Line(line)'
  BY <1>2, <1>5, LineStays DEF DshInv
<1>7. \A q \in Turns : AtWork(turn[q].stage) = AtWork(turn'[q].stage)
  BY <1>1, <1>2, <1>3 DEF AtWork
<1>8. inFlight' = Cardinality(Workers)' /\ inFlight' <= DshCap
  BY <1>2, <1>7, WorkersStay
<1> QED BY <1>4, <1>6, <1>8 DEF DshInv

\* A refusal at the gate, a kill by the timer.
LEMMA PlaceKeeps ==
  ASSUME DshInv, NEW r \in Turns, NEW s \in Stages, Place(r, s), UNCHANGED <<tail, inFlight, active>>,
         \/ turn[r].stage = "gate" /\ s = "over"
         \/ turn[r].stage = "running" /\ s = "killed"
  PROVE  DshInv'
<1>1. /\ Shaped'
      /\ turn'[r].stage = s
      /\ \A q \in Turns : q # r => turn'[q].stage = turn[q].stage
      /\ \A q \in Turns : turn'[q].chat = turn[q].chat /\ turn'[q].prev = turn[q].prev
  BY PlaceMoves DEF DshInv
<1>2. \A q \in Turns : /\ AtWork(turn[q].stage) = AtWork(turn'[q].stage)
                       /\ turn[q].stage = "queued" <=> turn'[q].stage = "queued"
  BY <1>1 DEF AtWork
<1>3. \E line : Line(line)'
  BY <1>1, <1>2, LineStays DEF DshInv, Live
<1>4. inFlight' = Cardinality(Workers)' /\ inFlight' <= DshCap
  BY <1>2, WorkersStay
<1> QED BY <1>1, <1>3, <1>4 DEF DshInv

\* The gate lets a turn wait, run or go home.
LEMMA GateKeeps ==
  ASSUME DshInv, NEW r \in Turns, GatePasses(r)
  PROVE  DshInv'
<1> DEFINE c == turn[r].chat
<1>1. turn[r].stage = "gate" /\ c \in Chats
  BY DEF GatePasses, DshInv, Shaped
<1>2. PICK k : turn[r] \in TurnSet(k)
  BY DEF DshInv, Shaped
<1>3. PICK line : Line(line)
  BY DEF DshInv
<1>4. CASE tail[c] # NoTurn
  <2> DEFINE rec == [turn[r] EXCEPT !.stage = "queued", !.prev = tail[c]]
  <2>1. /\ turn' = [turn EXCEPT ![r] = rec] /\ tail' = [tail EXCEPT ![c] = r]
        /\ UNCHANGED <<inFlight, active>>
    BY <1>4 DEF GatePasses
  <2>2. tail[c] \in Turns
    BY <1>1, <1>3, <1>4 DEF Line, LineTyped, Ends
  <2>3. rec \in TurnSet(k) /\ rec.stage = "queued" /\ rec.chat = c /\ rec.prev = tail[c]
    BY <1>2, <2>2 DEF TurnSet, Stages
  <2> HIDE DEF rec
  <2>4. turn'[r] = rec /\ \A q \in Turns : q # r => turn'[q] = turn[q]
    BY <2>1 DEF DshInv, Shaped
  <2>5. Shaped'
    BY <1>1, <2>1, <2>3, <2>4 DEF DshInv, Shaped
  <2>6. \E l : Line(l)'
    BY <1>1, <1>3, <1>4, <2>1, <2>3, <2>4, LineGrows
  <2>7. \A q \in Turns : AtWork(turn[q].stage) = AtWork(turn'[q].stage)
    BY <1>1, <2>3, <2>4 DEF AtWork
  <2>8. inFlight' = Cardinality(Workers)' /\ inFlight' <= DshCap
    BY <2>1, <2>7, WorkersStay
  <2> QED BY <2>5, <2>6, <2>8 DEF DshInv
<1>5. CASE tail[c] = NoTurn /\ (Full \/ runtime = "absent")
  <2>1. Place(r, "over") /\ UNCHANGED <<tail, inFlight, active>>
    BY <1>5 DEF GatePasses
  <2> QED BY <1>1, <2>1, PlaceKeeps DEF Stages
<1>6. CASE tail[c] = NoTurn /\ ~(Full \/ runtime = "absent")
  <2> DEFINE rec == [turn[r] EXCEPT !.stage = "running", !.context = Get(c)]
  <2>1. /\ turn' = [turn EXCEPT ![r] = rec] /\ tail' = [tail EXCEPT ![c] = r]
        /\ inFlight' = inFlight + 1 /\ active' = active \cup {c} /\ ~Full
    BY <1>6 DEF GatePasses
  <2>2. rec \in TurnSet(Get(c)) /\ rec.stage = "running" /\ rec.chat = c
    BY <1>2 DEF TurnSet, Stages
  <2> HIDE DEF rec
  <2>3. turn'[r] = rec /\ \A q \in Turns : q # r => turn'[q] = turn[q]
    BY <2>1 DEF DshInv, Shaped
  <2>4. Shaped'
    BY <1>1, <2>1, <2>2, <2>3 DEF DshInv, Shaped
  <2>5. \E l : Line(l)'
    BY <1>1, <1>3, <1>6, <2>1, <2>2, <2>3, LineStarts, DshGatewayAssumption
  <2>6. Workers' = Workers \cup {r} /\ r \notin Workers
    BY <1>1, <2>2, <2>3 DEF Workers, AtWork
  <2>7. Cardinality(Workers') = Cardinality(Workers) + 1 /\ Cardinality(Workers) \in Nat
    BY <2>6, WorkersFinite, FS_AddElement, FS_CardinalityType
  <2>8. inFlight' = Cardinality(Workers)' /\ inFlight' <= DshCap
    BY <2>1, <2>7, DshGatewayAssumption DEF DshInv, Full
  <2> QED BY <2>4, <2>5, <2>8 DEF DshInv
<1> QED BY <1>4, <1>5, <1>6

\* The end of a run, whatever it answered.
LEMMA SettleKeeps ==
  ASSUME DshInv, NEW r \in Turns, AtWork(turn[r].stage), NEW answered, Settle(r, answered)
  PROVE  DshInv'
<1> DEFINE c == turn[r].chat
           next == Next1(r)
<1>1. c \in Chats /\ next \subseteq Turns /\ r \notin next
  BY DEF DshInv, Shaped, AtWork, Next1
<1>2. PICK line : Line(line)
  BY DEF DshInv
<1>3. /\ turn' = [q \in Turns |->
                    IF q = r THEN [turn[q] EXCEPT !.stage = "over"]
                    ELSE IF q \in next THEN [turn[q] EXCEPT !.stage = "running", !.context = Get(c)]
                    ELSE turn[q]]
      /\ tail' = [tail EXCEPT ![c] = TailAfter(c, r)]
      /\ inFlight' = inFlight - 1 + Cardinality(next)
      /\ active' = IF next = {} THEN active \ {c} ELSE active
  BY DEF Settle
<1>4. ASSUME NEW q \in Turns
      PROVE  /\ turn'[q].stage = IF q = r THEN "over" ELSE IF q \in next THEN "running" ELSE turn[q].stage
             /\ turn'[q].chat = turn[q].chat /\ turn'[q].prev = turn[q].prev
             /\ \E k : turn'[q] \in TurnSet(k)
  <2>1. PICK k : turn[q] \in TurnSet(k)
    BY DEF DshInv, Shaped
  <2>2. CASE q = r
    <3>1. turn'[q] = [turn[q] EXCEPT !.stage = "over"]
      BY <1>3, <2>2
    <3>2. "over" \in Stages
      BY DEF Stages
    <3>3. /\ turn'[q] \in TurnSet(k)
          /\ turn'[q].stage = "over" /\ turn'[q].chat = turn[q].chat /\ turn'[q].prev = turn[q].prev
      BY <2>1, <3>1, <3>2, Fields
    <3> QED BY <2>2, <3>3
  <2>3. CASE q # r /\ q \in next
    <3> DEFINE rec == [turn[q] EXCEPT !.stage = "running", !.context = Get(c)]
    <3>1. turn'[q] = rec
      BY <1>3, <2>3
    <3>2. /\ rec \in TurnSet(Get(c))
          /\ rec.stage = "running" /\ rec.chat = turn[q].chat /\ rec.prev = turn[q].prev
      BY <2>1 DEF TurnSet, Stages
    <3> QED BY <2>3, <3>1, <3>2
  <2>4. CASE q # r /\ q \notin next
    BY <1>3, <2>1, <2>4
  <2> QED BY <2>2, <2>3, <2>4
<1>5. Shaped'
  <2>1. turn' = [q \in Turns |-> turn'[q]]
    BY <1>3
  <2>2. \A q \in Turns : turn'[q].stage # "away" => turn'[q].chat \in Chats
    BY <1>1, <1>4 DEF DshInv, Shaped, Next1
  <2> QED BY <1>4, <2>1, <2>2 DEF Shaped
<1>6. \E l : Line(l)'
  BY <1>1, <1>2, <1>3, <1>4, LineMoves, DshGatewayAssumption
<1>7. Workers' = (Workers \ {r}) \cup next /\ r \in Workers /\ next \cap Workers = {}
  BY <1>1, <1>4 DEF Workers, AtWork, Next1
<1>8. next = {} \/ \E q : next = {q}
  <2>1. Next1(r) = IF Len(line[c]) = 1 THEN {} ELSE {line[c][2]}
    BY <1>1, <1>2, HeadAndNext
  <2> QED BY <2>1
<1>9. IsFiniteSet(Workers) /\ Cardinality(Workers) \in Nat
  BY WorkersFinite, FS_CardinalityType
<1>10. /\ IsFiniteSet(Workers \ {r})
       /\ Cardinality(Workers \ {r}) = Cardinality(Workers) - 1
  BY <1>7, <1>9, FS_RemoveElement
<1>11. /\ Cardinality(Workers') = Cardinality(Workers) - 1 + Cardinality(next)
       /\ Cardinality(next) \in {0, 1}
  <2>1. CASE next = {}
    BY <1>7, <1>9, <1>10, <2>1, FS_EmptySet
  <2>2. ASSUME NEW q, next = {q} 
        PROVE  /\ Cardinality(Workers') = Cardinality(Workers) - 1 + Cardinality(next)
               /\ Cardinality(next) \in {0, 1}
    <3>1. q \notin Workers \ {r} /\ Workers' = (Workers \ {r}) \cup {q}
      BY <1>7, <2>2
    <3>2. Cardinality(Workers') = Cardinality(Workers \ {r}) + 1
      BY <1>10, <3>1, FS_AddElement
    <3>3. Cardinality(next) = 1
      BY <2>2, FS_Singleton
    <3> QED BY <1>9, <1>10, <3>2, <3>3
  <2> QED BY <1>8, <2>1, <2>2
<1>12. inFlight' = Cardinality(Workers)' /\ inFlight' <= DshCap
  <2>1. /\ inFlight = Cardinality(Workers) /\ inFlight <= DshCap
        /\ DshCap \in Nat
    BY DshGatewayAssumption DEF DshInv
  <2>2. inFlight' = Cardinality(Workers')
    BY <1>3, <1>9, <1>11, <2>1
  <2>3. Cardinality(Workers') <= Cardinality(Workers)
    BY <1>9, <1>11
  <2>4. Cardinality(Workers') \in Int
    BY <1>9, <1>11
  <2> QED BY <1>9, <2>1, <2>2, <2>3, <2>4
<1> QED BY <1>5, <1>6, <1>12 DEF DshInv

LEMMA DshInvNext == DshInv /\ [DshNext]_dshVars => DshInv'
<1> SUFFICES ASSUME DshInv, [DshNext]_dshVars PROVE DshInv'
  OBVIOUS
<1>1. ASSUME NEW r \in Turns, NEW c \in Chats, AskDsh(r, c) PROVE DshInv'
  BY <1>1, AskKeeps
<1>2. ASSUME NEW r \in Turns, GateRefuses(r) PROVE DshInv'
  BY <1>2, PlaceKeeps DEF GateRefuses, Stages
<1>3. ASSUME NEW r \in Turns, GatePasses(r) PROVE DshInv'
  BY <1>3, GateKeeps
<1>4. ASSUME NEW r \in Turns, KillAtTimeout(r) PROVE DshInv'
  BY <1>4, PlaceKeeps DEF KillAtTimeout, Stages
<1>5. ASSUME NEW r \in Turns, RunAnswers(r) \/ RunFails(r) \/ KilledCloses(r) PROVE DshInv'
  BY <1>5, SettleKeeps DEF RunAnswers, RunFails, KilledCloses, AtWork
<1>6. ASSUME UNCHANGED <<runtime, turn, tail, inFlight, active>> PROVE DshInv'
  <2>1. Shaped' /\ Workers' = Workers
    BY <1>6 DEF DshInv, Shaped, Workers
  <2>2. \E line : Line(line)'
    BY <1>6, LineStays DEF DshInv
  <2> QED BY <1>6, <2>1, <2>2 DEF DshInv
<1>7. CASE Age
  BY <1>6, <1>7 DEF Age
<1>8. CASE UNCHANGED dshVars
  BY <1>6, <1>8 DEF dshVars
<1> QED BY <1>1, <1>2, <1>3, <1>4, <1>5, <1>7, <1>8 DEF DshNext

\* For any number of conversations, turns and slots, and whatever the memory
\* does: one conversation has one run at a time and its lock is held
\* meanwhile, the slots taken are the runs in progress, and they are never
\* more than DSH_MAX_CONCURRENT (withDshConversationLock, runDshAsk).
THEOREM OneChildPerChatHolds == DshSpec => []OneChildPerChat
<1>1. DshSpec => []DshInv
  BY DshInvInit, DshInvNext, PTL DEF DshSpec
<1>2. DshInv => OneChildPerChat
  <2> SUFFICES ASSUME DshInv PROVE OneChildPerChat
    OBVIOUS
  <2>1. PICK line : Line(line)
    BY DEF DshInv
  <2>2. ASSUME NEW c \in Chats, Running(c) # {}
        PROVE  line[c] # <<>> /\ Running(c) = {line[c][1]}
    <3>1. \A r \in Running(c) : line[c] # <<>> /\ line[c][1] = r
      <4> SUFFICES ASSUME NEW r \in Running(c) PROVE line[c] # <<>> /\ line[c][1] = r
        OBVIOUS
      <4>1. r \in Turns /\ AtWork(turn[r].stage) /\ turn[r].chat = c
        BY DEF Running, AtWork
      <4>2. Len(line[c]) \in Nat \ {0} /\ line[c][1] = r
        BY <2>1, <4>1, HeadAndNext
      <4> QED BY <4>2
    <3> QED BY <2>2, <3>1
  <2>3. ASSUME NEW c \in Chats
        PROVE  /\ Cardinality(Running(c)) <= 1
               /\ Running(c) # {} => tail[c] # NoTurn /\ c \in active
    <3>1. CASE Running(c) = {}
      BY <3>1, FS_EmptySet
    <3>2. CASE Running(c) # {}
      <4>1. Cardinality(Running(c)) = 1
        BY <2>2, <3>2, FS_Singleton
      <4>2. line[c][Len(line[c])] \in Turns
        BY <2>1, <2>2, <3>2 DEF Line, LineTyped
      <4>3. tail[c] # NoTurn /\ c \in active
        BY <2>1, <2>2, <3>2, <4>2, DshGatewayAssumption DEF Line, Ends
      <4> QED BY <4>1, <4>3
    <3> QED BY <3>1, <3>2
  <2>4. UNION {Running(c) : c \in Chats} = Workers
    <3>1. \A r \in Workers : turn[r].chat \in Chats /\ r \in Running(turn[r].chat)
      BY DEF Workers, Running, AtWork, DshInv, Shaped
    <3>2. \A c \in Chats : Running(c) \subseteq Workers
      BY DEF Workers, Running, AtWork
    <3> QED BY <3>1, <3>2
  <2> QED BY <2>3, <2>4 DEF DshInv, OneChildPerChat
<1> QED BY <1>1, <1>2, PTL

---------------------------------------------------------------------------
(* The memory of the conversations.                                        *)

Session == [turns : Seq(Turns), old : BOOLEAN, used : Nat]
MemoryOK ==
    /\ memory \in [Chats -> Session]
    /\ \A c \in Held : Len(memory[c].turns) \in 1..KeptTurns
    /\ Cardinality(Held) <= MemoryCap
Contexts == \A r \in Turns : turn[r].context \in Seq(Turns)
MemoryInv == DshInv /\ MemoryOK /\ Contexts

\* The least that is kept: the turn that was just answered; the most: KeptTurns.
LEMMA LatestIs ==
  ASSUME NEW s \in Seq(Turns), s # <<>>
  PROVE  Latest(s) \in Seq(Turns) /\ Len(Latest(s)) \in 1..KeptTurns
<1> DEFINE n == Len(s)
           m == IF n > KeptTurns THEN n - KeptTurns + 1 ELSE 1
<1>1. n \in Nat \ {0} /\ KeptTurns \in Nat \ {0}
  BY DshGatewayAssumption
<1>2. m \in 1..n /\ n - m + 1 \in 1..KeptTurns
  BY <1>1
<1>3. \A i \in m..n : s[i] \in Turns
  BY <1>2
<1>4. Latest(s) = SubSeq(s, m, n)
  BY DEF Latest
<1> HIDE DEF m, n
<1>5. m \in Int /\ n \in Int /\ m <= n
  BY <1>1, <1>2
<1>6. SubSeq(s, m, n) \in Seq(Turns) /\ Len(SubSeq(s, m, n)) = n - m + 1
  BY <1>3, <1>5, SubSeqProperties
<1> QED BY <1>2, <1>4, <1>6

LEMMA GetIsSeq ==
  ASSUME MemoryOK, NEW c \in Chats
  PROVE  Get(c) \in Seq(Turns) /\ Kept(c) \in Seq(Turns)
BY DEF MemoryOK, Session, Get, Kept

\* Nobody is held but conversations, of which there are finitely many.
LEMMA HeldFinite ==
  /\ IsFiniteSet(Held) /\ Cardinality(Held) \in Nat
  /\ \A S \in SUBSET Held : /\ IsFiniteSet(S) /\ Cardinality(S) \in Nat
                            /\ Cardinality(S) <= Cardinality(Held)
<1>1. IsFiniteSet(Held)
  BY DshGatewayAssumption, FS_Subset DEF Held
<1> QED BY <1>1, FS_Subset, FS_CardinalityType

\* touch(): the conversations that stay in the store, and the new record of c.
Staying(c, busy) == IF Has(c) THEN Held \ {c} ELSE Prune(busy)
Written(c, r) == [turns |-> Latest(Append(Get(c), r)), old |-> FALSE, used |-> Now]

LEMMA TouchIs ==
  ASSUME NEW c \in Chats, NEW r, NEW busy, NEW rest, rest = Staying(c, busy),
         NEW rec, rec = Written(c, r)
  PROVE  /\ rest \in SUBSET Held /\ c \notin rest
         /\ Touch(c, r, busy) =
              [d \in Chats |->
                 IF d = c /\ (Has(c) \/ Cardinality(rest) < MemoryCap) THEN rec
                 ELSE IF d \in rest THEN memory[d] ELSE NoSession]
<1>1. rest \in SUBSET Held /\ c \notin rest
  BY DEF Staying, Prune, Fresher, Held
<1> QED BY <1>1 DEF Touch, Prior, Staying, Written

LEMMA TouchKeeps ==
  ASSUME MemoryOK, NEW c \in Chats, NEW r \in Turns, NEW busy, memory' = Touch(c, r, busy)
  PROVE  MemoryOK'
<1>0. PICK rest, rec : rest = Staying(c, busy) /\ rec = Written(c, r)
  OBVIOUS
<1>1. /\ rest \in SUBSET Held /\ c \notin rest
      /\ memory' = [e \in Chats |->
                      IF e = c /\ (Has(c) \/ Cardinality(rest) < MemoryCap) THEN rec
                      ELSE IF e \in rest THEN memory[e] ELSE NoSession]
  BY <1>0, TouchIs
<1>2. Append(Get(c), r) \in Seq(Turns) /\ Append(Get(c), r) # <<>>
  <2>1. Get(c) \in Seq(Turns)
    BY GetIsSeq
  <2> QED BY <2>1, AppendProperties
<1>3. rec \in Session /\ Len(rec.turns) \in 1..KeptTurns
  <2>1. Now \in Nat
    BY DshGatewayAssumption, FS_Subset, FS_CardinalityType DEF Now
  <2>2. Latest(Append(Get(c), r)) \in Seq(Turns) /\ Len(Latest(Append(Get(c), r))) \in 1..KeptTurns
    BY <1>2, LatestIs
  <2>3. PICK s, u : s = Latest(Append(Get(c), r)) /\ u = Now
    OBVIOUS
  <2>4. rec = [turns |-> s, old |-> FALSE, used |-> u]
    BY <1>0, <2>3 DEF Written
  <2>5. s \in Seq(Turns) /\ Len(s) \in 1..KeptTurns /\ u \in Nat
    BY <2>1, <2>2, <2>3, Zenon
  <2> QED BY <2>4, <2>5 DEF Session
<1>4. NoSession \in Session
  BY DEF NoSession, Session
<1>5. /\ \A d \in Chats : memory'[d] \in {rec, memory[d], NoSession}
      /\ \A d \in Chats : memory'[d] # NoSession =>
             \/ d \in rest /\ memory'[d] = memory[d]
             \/ d = c /\ memory'[d] = rec /\ (Has(c) \/ Cardinality(rest) < MemoryCap)
  <2> SUFFICES ASSUME NEW d \in Chats
               PROVE  \/ memory'[d] = NoSession
                      \/ d \in rest /\ memory'[d] = memory[d]
                      \/ /\ d = c /\ memory'[d] = rec
                         /\ Has(c) \/ Cardinality(rest) < MemoryCap
    OBVIOUS
  <2>1. memory'[d] = IF d = c /\ (Has(c) \/ Cardinality(rest) < MemoryCap) THEN rec
                     ELSE IF d \in rest THEN memory[d] ELSE NoSession
    BY <1>1
  <2> QED BY <2>1, Zenon
<1>6. memory' \in [Chats -> Session]
  <2>1. memory' = [d \in Chats |-> memory'[d]]
    BY <1>1
  <2>2. \A d \in Chats : memory'[d] \in Session
    <3>1. \A d \in Chats : memory[d] \in Session
      BY DEF MemoryOK
    <3> QED BY <1>3, <1>4, <1>5, <3>1, Zenon
  <2> HIDE DEF Session
  <2> QED BY <2>1, <2>2, Zenon
<1>7. ASSUME NEW d \in Held'
      PROVE  Len(memory'[d].turns) \in 1..KeptTurns
  <2>1. d \in Chats /\ memory'[d] # NoSession
    BY <1>7 DEF Held, Has
  <2>2. memory'[d] = rec \/ (d \in Held /\ memory'[d] = memory[d])
    <3>1. memory'[d] = rec \/ (d \in rest /\ memory'[d] = memory[d])
      BY <1>5, <2>1, Zenon
    <3> QED BY <1>1, <3>1, Zenon
  <2>3. CASE memory'[d] = rec
    BY <1>3, <2>3, Zenon
  <2>4. CASE d \in Held /\ memory'[d] = memory[d]
    <3>1. Len(memory[d].turns) \in 1..KeptTurns
      BY <2>4, Zenon DEF MemoryOK
    <3> QED BY <2>4, <3>1, Zenon
  <2> QED BY <2>2, <2>3, <2>4
<1>8. Cardinality(Held') <= MemoryCap
  <2>1. CASE ~Has(c) /\ Cardinality(rest) < MemoryCap
    <3>1. Held' \subseteq rest \cup {c}
      BY <1>5 DEF Held, Has
    <3>2. IsFiniteSet(rest) /\ Cardinality(rest) \in Nat
      BY <1>1, HeldFinite
    <3>3. IsFiniteSet(rest \cup {c}) /\ Cardinality(rest \cup {c}) = Cardinality(rest) + 1
      BY <1>1, <3>2, FS_AddElement
    <3>4. Cardinality(Held') <= Cardinality(rest \cup {c}) /\ Cardinality(Held') \in Nat
      BY <3>1, <3>3, FS_Subset, FS_CardinalityType
    <3> QED BY <2>1, <3>2, <3>3, <3>4, DshGatewayAssumption
  <2>2. CASE Has(c) \/ ~(Cardinality(rest) < MemoryCap)
    <3>1. Held' \subseteq Held
      BY <1>1, <1>5, <2>2 DEF Held, Has
    <3>2. Cardinality(Held') <= Cardinality(Held) /\ Cardinality(Held') \in Nat
          /\ Cardinality(Held) \in Nat
      BY <3>1, HeldFinite
    <3> QED BY <3>2, DshGatewayAssumption DEF MemoryOK
  <2> QED BY <2>1, <2>2
<1> QED BY <1>6, <1>7, <1>8 DEF MemoryOK

\* sessionTtlMs goes by: the record ages, and stays.
LEMMA AgeKeeps ==
  ASSUME MemoryOK, Age
  PROVE  /\ MemoryOK'
         /\ \A d \in Chats : Kept(d)' = Kept(d)
<1>1. PICK c \in Fresher : memory' = [memory EXCEPT ![c].old = TRUE]
  BY DEF Age
<1>2. PICK rec : rec = [memory[c] EXCEPT !.old = TRUE]
  OBVIOUS
<1>3. c \in Held /\ c \in Chats
  BY <1>1 DEF Fresher, Held
<1>4. /\ memory[c] \in Session /\ memory[c] # NoSession
      /\ Len(memory[c].turns) \in 1..KeptTurns
  BY <1>3 DEF MemoryOK, Held, Has
<1>5. rec \in Session /\ rec.turns = memory[c].turns
  BY <1>2, <1>4 DEF Session
<1>6. memory' = [memory EXCEPT ![c] = rec]
  BY <1>1, <1>2
<1>7. /\ memory' \in [Chats -> Session] /\ memory'[c] = rec
      /\ \A d \in Chats : d # c => memory'[d] = memory[d]
  BY <1>3, <1>5, <1>6 DEF MemoryOK
<1>8. \A d \in Chats : memory'[d].turns = memory[d].turns
  BY <1>5, <1>7
<1>9. Held' \subseteq Held
  BY <1>3, <1>7 DEF Held, Has
<1>10. Cardinality(Held') <= Cardinality(Held) /\ Cardinality(Held') \in Nat
       /\ Cardinality(Held) \in Nat
  BY <1>9, HeldFinite
<1>11. Cardinality(Held') <= MemoryCap
  BY <1>10, DshGatewayAssumption DEF MemoryOK
<1>12. ASSUME NEW d \in Held'
       PROVE  Len(memory'[d].turns) \in 1..KeptTurns
  <2>1. d \in Held /\ d \in Chats
    BY <1>9 DEF Held
  <2> QED BY <1>8, <2>1 DEF MemoryOK
<1>13. MemoryOK'
  BY <1>7, <1>11, <1>12 DEF MemoryOK
<1> QED BY <1>8, <1>13 DEF Kept

\* touch(): what the store does to the turns that were kept of a conversation.
LEMMA TouchLoses ==
  ASSUME MemoryOK, NEW c \in Chats, NEW r \in Turns, NEW busy, memory' = Touch(c, r, busy),
         NEW d \in Chats, Kept(d) # <<>>
  PROVE  \/ Kept(d)' = Kept(d)
         \/ Kept(d)' = Latest(Append(Kept(d), r))
         \/ Outdated(d)
         \/ ~Has(d)' /\ d \notin busy
<1>0. PICK rest, rec : rest = Staying(c, busy) /\ rec = Written(c, r)
  OBVIOUS
<1>1. /\ rest \in SUBSET Held /\ c \notin rest
      /\ memory' = [e \in Chats |->
                      IF e = c /\ (Has(c) \/ Cardinality(rest) < MemoryCap) THEN rec
                      ELSE IF e \in rest THEN memory[e] ELSE NoSession]
  BY <1>0, TouchIs
<1>2. memory'[d] = IF d = c /\ (Has(c) \/ Cardinality(rest) < MemoryCap) THEN rec
                   ELSE IF d \in rest THEN memory[d] ELSE NoSession
  BY <1>1
<1>3. Has(d)
  <2>1. NoSession.turns = <<>>
    BY DEF NoSession
  <2> QED BY <2>1 DEF Has, Kept
<1>4. CASE d = c
  <2>1. memory'[d] = rec
    BY <1>2, <1>3, <1>4
  <2>2. Kept(d)' = Latest(Append(Get(d), r))
    BY <1>0, <1>4, <2>1 DEF Kept, Written
  <2> QED BY <2>2 DEF Get
<1>5. CASE d # c /\ d \in rest
  BY <1>2, <1>5 DEF Kept
<1>6. CASE d # c /\ d \notin rest
  <2>1. memory'[d] = NoSession
    BY <1>2, <1>6
  <2>2. rest = Prune(busy) /\ d \in Held
    BY <1>0, <1>3, <1>6 DEF Held, Staying
  <2>3. d \in Fresher => d \in Idlest(busy)
    BY <1>6, <2>2 DEF Prune
  <2>4. d \notin Fresher => Outdated(d)
    BY <1>3, <2>2 DEF Fresher, Outdated
  <2> QED BY <2>1, <2>3, <2>4 DEF Has, Idlest
<1> QED BY <1>4, <1>5, <1>6

\* Where a run ends, the memory is as it was, or touched by that run.
LEMMA SettleTouches ==
  ASSUME DshInv, NEW r \in Turns, AtWork(turn[r].stage), NEW answered, Settle(r, answered)
  PROVE  /\ turn[r].chat \in Chats
         /\ memory' = memory \/ memory' = Touch(turn[r].chat, r, active')
<1>1. turn[r].chat \in Chats
  BY DEF DshInv, Shaped, AtWork
<1> QED BY <1>1 DEF Settle

LEMMA MemoryKeeps ==
  ASSUME MemoryInv, [DshNext]_dshVars
  PROVE  MemoryOK'
<1>1. CASE UNCHANGED memory
  BY <1>1 DEF MemoryInv, MemoryOK, Held, Has
<1>2. ASSUME NEW r \in Turns, RunAnswers(r) \/ RunFails(r) \/ KilledCloses(r)
      PROVE  MemoryOK'
  <2>1. \/ UNCHANGED memory
        \/ turn[r].chat \in Chats /\ memory' = Touch(turn[r].chat, r, active')
    BY <1>2, SettleTouches DEF MemoryInv, RunAnswers, RunFails, KilledCloses, AtWork
  <2> QED BY <1>1, <2>1, TouchKeeps DEF MemoryInv
<1>3. CASE Age
  BY <1>3, AgeKeeps DEF MemoryInv
<1>4. ASSUME NEW r \in Turns, GatePasses(r)
      PROVE  UNCHANGED memory
  BY <1>4 DEF GatePasses
<1> QED BY <1>1, <1>2, <1>3, <1>4 DEF DshNext, dshVars, AskDsh, GateRefuses, KillAtTimeout

\* A turn carries what the memory had of its conversation.
LEMMA ContextsKeep ==
  ASSUME MemoryInv, [DshNext]_dshVars
  PROVE  Contexts'
<1>1. ASSUME NEW r \in Turns, NEW s \in Stages, Place(r, s)
      PROVE  Contexts'
  <2>1. ASSUME NEW q \in Turns PROVE turn'[q].context = turn[q].context
    <3>1. PICK k : turn[q] \in TurnSet(k)
      BY DEF MemoryInv, DshInv, Shaped
    <3>2. turn'[q] = IF q = r THEN [turn[q] EXCEPT !.stage = s] ELSE turn[q]
      BY <1>1 DEF Place, MemoryInv, DshInv, Shaped
    <3> QED BY <3>1, <3>2 DEF TurnSet
  <2> QED BY <2>1 DEF MemoryInv, Contexts
<1>2. ASSUME NEW r \in Turns, NEW c \in Chats, AskDsh(r, c)
      PROVE  Contexts'
  <2> DEFINE rec == [NotAsked EXCEPT !.stage = "gate", !.chat = c]
  <2>1. rec.context = <<>> /\ <<>> \in Seq(Turns)
    BY DEF NotAsked
  <2>2. turn' = [turn EXCEPT ![r] = rec]
    BY <1>2 DEF AskDsh
  <2> HIDE DEF rec
  <2>3. \A q \in Turns : turn'[q] = IF q = r THEN rec ELSE turn[q]
    BY <2>2 DEF MemoryInv, DshInv, Shaped
  <2> QED BY <2>1, <2>3 DEF MemoryInv, Contexts
<1>3. ASSUME NEW r \in Turns, GatePasses(r)
      PROVE  Contexts'
  <2> DEFINE c == turn[r].chat
  <2>1. c \in Chats
    BY <1>3 DEF GatePasses, MemoryInv, DshInv, Shaped
  <2>2. PICK k : turn[r] \in TurnSet(k)
    BY DEF MemoryInv, DshInv, Shaped
  <2>3. PICK rec : /\ turn' = [turn EXCEPT ![r] = rec]
                   /\ rec.context \in {turn[r].context, Get(c)}
    <3>1. CASE tail[c] # NoTurn
      <4>1. turn' = [turn EXCEPT ![r] = [turn[r] EXCEPT !.stage = "queued", !.prev = tail[c]]]
        BY <1>3, <3>1 DEF GatePasses
      <4> QED BY <2>2, <4>1 DEF TurnSet
    <3>2. CASE tail[c] = NoTurn /\ (Full \/ runtime = "absent")
      <4>1. turn' = [turn EXCEPT ![r] = [turn[r] EXCEPT !.stage = "over"]]
        BY <1>3, <3>2 DEF GatePasses, Place
      <4> QED BY <2>2, <4>1 DEF TurnSet
    <3>3. CASE tail[c] = NoTurn /\ ~(Full \/ runtime = "absent")
      <4>1. PICK g : g = Get(c)
        OBVIOUS
      <4>2. turn' = [turn EXCEPT ![r] = [turn[r] EXCEPT !.stage = "running", !.context = g]]
        BY <1>3, <3>3, <4>1 DEF GatePasses
      <4>3. [turn[r] EXCEPT !.stage = "running", !.context = g].context = g
        BY <2>2 DEF TurnSet
      <4> QED BY <4>1, <4>2, <4>3
    <3> QED BY <3>1, <3>2, <3>3
  <2>4. rec.context \in Seq(Turns)
    BY <2>1, <2>3, GetIsSeq DEF MemoryInv, Contexts
  <2>5. \A q \in Turns : turn'[q] = IF q = r THEN rec ELSE turn[q]
    BY <2>3 DEF MemoryInv, DshInv, Shaped
  <2> QED BY <2>4, <2>5 DEF MemoryInv, Contexts
<1>4. ASSUME NEW r \in Turns, AtWork(turn[r].stage), NEW answered, Settle(r, answered)
      PROVE  Contexts'
  <2> DEFINE c == turn[r].chat
  <2>1. c \in Chats
    BY <1>4, SettleTouches DEF MemoryInv
  <2>2. ASSUME NEW q \in Turns
        PROVE  turn'[q].context \in {turn[q].context, Get(c)}
    <3>1. PICK k : turn[q] \in TurnSet(k)
      BY DEF MemoryInv, DshInv, Shaped
    <3>2. turn'[q] = IF q = r THEN [turn[q] EXCEPT !.stage = "over"]
                     ELSE IF q \in Next1(r)
                       THEN [turn[q] EXCEPT !.stage = "running", !.context = Get(c)]
                     ELSE turn[q]
      BY <1>4 DEF Settle
    <3> QED BY <3>1, <3>2 DEF TurnSet
  <2> QED BY <2>1, <2>2, GetIsSeq DEF MemoryInv, Contexts
<1>5. CASE UNCHANGED turn
  BY <1>5 DEF MemoryInv, Contexts
<1>6. ASSUME NEW r \in Turns, GateRefuses(r) \/ KillAtTimeout(r)
      PROVE  Contexts'
  BY <1>1, <1>6 DEF GateRefuses, KillAtTimeout, Stages
<1>7. ASSUME NEW r \in Turns, RunAnswers(r) \/ RunFails(r) \/ KilledCloses(r)
      PROVE  Contexts'
  BY <1>4, <1>7 DEF RunAnswers, RunFails, KilledCloses, AtWork
<1> QED BY <1>2, <1>3, <1>5, <1>6, <1>7 DEF DshNext, dshVars, Age

LEMMA MemoryInvHolds == DshSpec => []MemoryInv
<1>1. DshInit => MemoryInv
  <2> SUFFICES ASSUME DshInit PROVE MemoryInv
    OBVIOUS
  <2>1. MemoryOK
    <3>1. NoSession \in Session
      BY DEF NoSession, Session
    <3>2. Held = {}
      BY DEF DshInit, Held, Has
    <3> QED BY <3>1, <3>2, FS_EmptySet, DshGatewayAssumption DEF DshInit, MemoryOK
  <2>2. Contexts
    <3>1. NotAsked.context = <<>> /\ <<>> \in Seq(Turns)
      BY DEF NotAsked
    <3> QED BY <3>1 DEF DshInit, Contexts
  <2> QED BY <2>1, <2>2, DshInvInit DEF MemoryInv
<1>2. MemoryInv /\ [DshNext]_dshVars => MemoryInv'
  BY DshInvNext, MemoryKeeps, ContextsKeep DEF MemoryInv
<1> QED BY <1>1, <1>2, PTL DEF DshSpec

\* NoTurnLost (touch, #prune of DshSessionStore): for any number of conversations,
\* turns and records, and however turns queue, overlap and end, the turns that are
\* kept of a conversation grow by the answered turn, go with age, or are evicted
\* while nobody works on it.
THEOREM NoTurnLostHolds == DshSpec => NoTurnLost
<1>1. MemoryInv /\ [DshNext]_dshVars =>
        [\A c \in Chats : Kept(c) # <<>> =>
           \/ Kept(c)' = Kept(c)
           \/ \E r \in Turns : Kept(c)' = Latest(Append(Kept(c), r))
           \/ Outdated(c)
           \/ ~Has(c)' /\ c \notin active']_dshVars
  <2> SUFFICES ASSUME MemoryInv, [DshNext]_dshVars, NEW d \in Chats, Kept(d) # <<>>
               PROVE  \/ Kept(d)' = Kept(d)
                      \/ \E r \in Turns : Kept(d)' = Latest(Append(Kept(d), r))
                      \/ Outdated(d)
                      \/ ~Has(d)' /\ d \notin active'
    OBVIOUS
  <2>1. CASE UNCHANGED memory
    BY <2>1 DEF Kept
  <2>2. ASSUME NEW r \in Turns, RunAnswers(r) \/ RunFails(r) \/ KilledCloses(r)
        PROVE  \/ UNCHANGED memory
               \/ turn[r].chat \in Chats /\ memory' = Touch(turn[r].chat, r, active')
    BY <2>2, SettleTouches DEF MemoryInv, RunAnswers, RunFails, KilledCloses, AtWork
  <2>3. CASE Age
    BY <2>3, AgeKeeps DEF MemoryInv
  <2>4. CASE \E r \in Turns : RunAnswers(r) \/ RunFails(r) \/ KilledCloses(r)
    BY <2>1, <2>2, <2>4, TouchLoses DEF MemoryInv
  <2>5. ASSUME NEW r \in Turns, GatePasses(r)
        PROVE  UNCHANGED memory
    BY <2>5 DEF GatePasses
  <2> QED BY <2>1, <2>3, <2>4, <2>5 DEF DshNext, dshVars, AskDsh, GateRefuses,
                                       KillAtTimeout
<1> QED BY <1>1, MemoryInvHolds, PTL DEF DshSpec, NoTurnLost

\* DshTypeOK: the variables of the gateway keep their types; no conversation keeps
\* more than maxTurns turns, and the memory no more than DSH_MAX_SESSIONS of them.
THEOREM DshTypeOKHolds == DshSpec => []DshTypeOK
<1>1. MemoryInv => DshTypeOK
  <2> SUFFICES ASSUME MemoryInv PROVE DshTypeOK
    OBVIOUS
  <2>1. turn \in [Turns -> [stage : Stages, chat : Chats \cup {NoTurn},
                            prev : Turns \cup {NoTurn}, context : Seq(Turns)]]
    <3>1. ASSUME NEW r \in Turns
          PROVE  turn[r] \in [stage : Stages, chat : Chats \cup {NoTurn},
                              prev : Turns \cup {NoTurn}, context : Seq(Turns)]
      <4>1. PICK k : turn[r] \in TurnSet(k)
        BY DEF MemoryInv, DshInv, Shaped
      <4>2. turn[r].context \in Seq(Turns)
        BY DEF MemoryInv, Contexts
      <4> QED BY <4>1, <4>2 DEF TurnSet
    <3>2. turn = [r \in Turns |-> turn[r]]
      BY DEF MemoryInv, DshInv, Shaped
    <3> QED BY <3>1, <3>2, Zenon
  <2>2. inFlight \in Nat
    BY WorkersFinite, FS_CardinalityType DEF MemoryInv, DshInv
  <2>3. PICK line : Line(line)
    BY DEF MemoryInv, DshInv
  <2>4. \A c \in Chats : line[c] # <<>> => line[c][Len(line[c])] \in Turns
    <3>1. \A s \in Seq(Turns) : s # <<>> => s[Len(s)] \in Turns
      OBVIOUS
    <3> QED BY <2>3, <3>1 DEF Line, LineTyped
  <2>5. tail \in [Chats -> Turns \cup {NoTurn}] /\ active \subseteq Chats
    BY <2>3, <2>4 DEF Line, Ends
  <2> QED BY <2>1, <2>2, <2>5 DEF MemoryInv, MemoryOK, DshTypeOK, Session
<1> QED BY <1>1, MemoryInvHolds, PTL
=============================================================================
