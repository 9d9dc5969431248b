----------------------------- MODULE DshGateway -----------------------------
(***************************************************************************)
(* dsh-gateway.mjs: a turn of a conversation with the DSH agent.           *)
(* dshGatewayAsk -> dshQuestionGate -> runDshAsk (the lock of the          *)
(* conversation, the slots) -> one child process or one call to the remote *)
(* runner -> DshSessionStore.touch.                                        *)
(*                                                                         *)
(* A promise chain is the lock: a turn waits for the one that was the tail *)
(* when it came, and starts in the microtasks of that one's end, before    *)
(* that one has written what it answered.                                  *)
(***************************************************************************)
EXTENDS Integers, Sequences, FiniteSets

CONSTANTS
  Chats,        \* (principal, conversation)
  Turns,        \* requests to the gateway, each asked once
  DshCap,       \* DSH_MAX_CONCURRENT
  MemoryCap,    \* DSH_MAX_SESSIONS
  KeptTurns,    \* maxTurns (6)
  NoTurn

ASSUME DshGatewayAssumption ==
    /\ {DshCap, MemoryCap, KeptTurns} \subseteq Nat \ {0}
    /\ NoTurn \notin Turns /\ IsFiniteSet(Turns) /\ IsFiniteSet(Chats)

VARIABLES
  runtime,      \* how the process was set up: dshGatewayConfig, resolveRuntime
  turn,         \* [Turns -> where it is]
  tail,         \* DSH_CONVERSATION_LOCKS
  inFlight,
  active,       \* DSH_ACTIVE_KEYS
  memory        \* DSH_SESSION_MEMORY: [Chats -> its record, or NoSession]
dshVars == <<runtime, turn, tail, inFlight, active, memory>>

Stages == {"away", "gate", "queued", "running", "killed", "over"}
NoSession == [turns |-> <<>>, old |-> FALSE, used |-> 0]
NotAsked == [stage |-> "away", chat |-> NoTurn, prev |-> NoTurn, context |-> <<>>]

---------------------------------------------------------------------------
(* DshSessionStore in memory.                                              *)

Has(c) == memory[c] # NoSession
Held == {c \in Chats : Has(c)}
Outdated(c) == Has(c) /\ memory[c].old
Kept(c) == memory[c].turns
Get(c) == IF Outdated(c) THEN <<>> ELSE Kept(c)
\* Broken: the turns are not cut.
LatestAndAll(s) == s
Latest(s) == SubSeq(s, IF Len(s) > KeptTurns THEN Len(s) - KeptTurns + 1 ELSE 1, Len(s))

\* #prune: what is too old goes; then the oldest that nobody is working on.
Fresher == {c \in Held : ~memory[c].old}
Idlest(busy) ==
    {c \in Fresher \ busy : \A d \in Fresher \ busy : memory[c].used <= memory[d].used}
Prune(busy) ==
    IF Cardinality(Fresher) < MemoryCap THEN Fresher ELSE Fresher \ Idlest(busy)

\* Broken: touch() adds to the turns that were read when this turn began.
PriorOfStart(c, r) == turn[r].context
\* touch() reads the turns again when it writes.
Prior(c, r) == Get(c)
\* The clock: how many turns are over.
Now == Cardinality({q \in Turns : turn[q].stage = "over"})
Touch(c, r, busy) ==
    LET rest == IF Has(c) THEN Held \ {c} ELSE Prune(busy)
        rec == [turns |-> Latest(Append(Prior(c, r), r)), old |-> FALSE, used |-> Now]
    IN [d \in Chats |->
          IF d = c /\ (Has(c) \/ Cardinality(rest) < MemoryCap) THEN rec
          ELSE IF d \in rest THEN memory[d] ELSE NoSession]

---------------------------------------------------------------------------
(* The turn.                                                               *)

Place(r, s) == turn' = [turn EXCEPT ![r].stage = s]
AskDsh(r, c) ==
    /\ turn[r].stage = "away"
    /\ turn' = [turn EXCEPT ![r] = [NotAsked EXCEPT !.stage = "gate", !.chat = c]]
    /\ UNCHANGED <<runtime, tail, inFlight, active, memory>>
\* dshQuestionGate: a sentence that writes is refused or handed over.
GateRefuses(r) ==
    /\ turn[r].stage = "gate" /\ Place(r, "over")
    /\ UNCHANGED <<runtime, tail, inFlight, active, memory>>

Full == inFlight >= DshCap
GatePasses(r) ==
    LET c == turn[r].chat
    IN /\ turn[r].stage = "gate"
       /\ IF tail[c] # NoTurn
            THEN /\ turn' = [turn EXCEPT ![r].stage = "queued", ![r].prev = tail[c]]
                 /\ tail' = [tail EXCEPT ![c] = r]
                 /\ UNCHANGED <<inFlight, active>>
          ELSE IF Full \/ runtime = "absent"
            THEN Place(r, "over") /\ UNCHANGED <<tail, inFlight, active>>
          ELSE /\ turn' = [turn EXCEPT ![r].stage = "running", ![r].context = Get(c)]
               /\ tail' = [tail EXCEPT ![c] = r]
               /\ inFlight' = inFlight + 1 /\ active' = active \cup {c}
       /\ UNCHANGED <<runtime, memory>>

\* The timer kills the child; `close` comes when the last holder of its pipes
\* is gone, and may never come.
KillAtTimeout(r) ==
    /\ runtime = "local" /\ turn[r].stage = "running" /\ Place(r, "killed")
    /\ UNCHANGED <<runtime, tail, inFlight, active, memory>>

\* The run of r is settled: slot and lock are given on, and the next turn of
\* the conversation has read its context when r writes its answer.
Next1(r) == {q \in Turns : turn[q].stage = "queued" /\ turn[q].prev = r}
\* Broken: whoever ends takes the tail away, its own or not.
TailForgotten(c, r) == NoTurn
TailAfter(c, r) == IF tail[c] = r THEN NoTurn ELSE tail[c]
Settle(r, answered) ==
    LET c == turn[r].chat
        next == Next1(r)
        busy == IF next = {} THEN active \ {c} ELSE active
    IN /\ turn' = [q \in Turns |->
                     IF q = r THEN [turn[q] EXCEPT !.stage = "over"]
                     ELSE IF q \in next
                       THEN [turn[q] EXCEPT !.stage = "running", !.context = Get(c)]
                     ELSE turn[q]]
       /\ tail' = [tail EXCEPT ![c] = TailAfter(c, r)]
       /\ inFlight' = inFlight - 1 + Cardinality(next)
       /\ active' = busy
       /\ memory' = IF answered THEN Touch(c, r, busy) ELSE memory
       /\ UNCHANGED runtime
\* Exit code 0 and an answer in the transcript; or HTTP 200 from the runner.
RunAnswers(r) == turn[r].stage = "running" /\ Settle(r, TRUE)
\* It does not start, fails, says nothing; or the runner refuses or times out.
RunFails(r) == turn[r].stage = "running" /\ Settle(r, FALSE)
KilledCloses(r) == turn[r].stage = "killed" /\ Settle(r, FALSE)

\* sessionTtlMs goes by for the record that has rested longest.
Age == \E c \in Fresher :
          /\ \A d \in Fresher : memory[c].used <= memory[d].used
          /\ memory' = [memory EXCEPT ![c].old = TRUE]
          /\ UNCHANGED <<runtime, turn, tail, inFlight, active>>

DshInit ==
    /\ runtime \in {"local", "remote", "absent"}
    /\ turn = [r \in Turns |-> NotAsked]
    /\ tail = [c \in Chats |-> NoTurn]
    /\ inFlight = 0 /\ active = {} /\ memory = [c \in Chats |-> NoSession]
DshNext ==
  \/ \E r \in Turns, c \in Chats : AskDsh(r, c)
  \/ \E r \in Turns :
        \/ GateRefuses(r)
        \/ GatePasses(r)
        \/ KillAtTimeout(r)
        \/ RunAnswers(r)
        \/ RunFails(r)
        \/ KilledCloses(r)
  \/ Age
DshSpec == DshInit /\ [][DshNext]_dshVars

---------------------------------------------------------------------------
Running(c) == {r \in Turns : turn[r].stage \in {"running", "killed"} /\ turn[r].chat = c}
DshTypeOK ==
    /\ turn \in [Turns -> [stage : Stages, chat : Chats \cup {NoTurn},
                           prev : Turns \cup {NoTurn}, context : Seq(Turns)]]
    /\ tail \in [Chats -> Turns \cup {NoTurn}]
    /\ inFlight \in Nat /\ active \subseteq Chats
    /\ memory \in [Chats -> [turns : Seq(Turns), old : BOOLEAN, used : Nat]]
    /\ \A c \in Held : Len(memory[c].turns) \in 1..KeptTurns
    /\ Cardinality(Held) <= MemoryCap

\* Never two children for one conversation, never more than the machine is
\* meant for, and the meter tells the truth: however turns queue, fail and
\* time out, every slot taken is given back once (withDshConversationLock,
\* runDshAsk; the comment of the lock promises the first part).
OneChildPerChat ==
    /\ \A c \in Chats : /\ Cardinality(Running(c)) <= 1
                        /\ Running(c) # {} => tail[c] # NoTurn /\ c \in active
    /\ inFlight = Cardinality(UNION {Running(c) : c \in Chats})
    /\ inFlight <= DshCap

\* A turn that was kept is not lost to a turn that ran beside it, nor to the
\* store making room while its conversation is being worked on: it goes with
\* age, or behind KeptTurns newer ones, or when its conversation rests
\* (touch, #prune).
NoTurnLost ==
    [][\A c \in Chats : Kept(c) # <<>> =>
         \/ Kept(c)' = Kept(c)
         \/ \E r \in Turns : Kept(c)' = Latest(Append(Kept(c), r))
         \/ Outdated(c)
         \/ ~Has(c)' /\ c \notin active']_dshVars
=============================================================================
