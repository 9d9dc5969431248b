---------------------------- MODULE CommandStore ----------------------------
(***************************************************************************)
(* The idempotency store of the gateway (idempotency.mjs): one record per  *)
(* command_id, held in memory (`cache`, the class's _cache) and written    *)
(* whole to commands.json after every change (`disk`).                     *)
(*                                                                         *)
(* Every method changes the cached record in place FIRST and only then     *)
(* persists; _persist may throw (a full or read-only disk), which leaves   *)
(* the change in memory and not on disk.  The next successful persist of   *)
(* ANY command writes the whole cache.  A restart reloads the disk.        *)
(***************************************************************************)
EXTENDS Naturals, FiniteSets

CONSTANTS
    Commands,       \* the client-generated command ids
    Users,          \* the principals
    Proposals,      \* the proposals a client can hold (immutable snapshots)
    Fingerprints,   \* the values fingerprintProposal can return
    Intents,        \* the values an executor's intentKey can return
    FingerprintOf,  \* [Proposals -> Fingerprints], fingerprintProposal
    IntentOf,       \* [Proposals -> Intents], the executor's intentKey
    Names,          \* the document names ERPNext can hand out (a bound)
    None,           \* JavaScript's null / undefined
    MaxFaults       \* how many persists may throw (a bound)

ASSUME StoreAssumption ==
    /\ FingerprintOf \in [Proposals -> Fingerprints]
    /\ IntentOf \in [Proposals -> Intents]
    /\ None \notin Users \cup Fingerprints \cup Intents \cup Names
    /\ MaxFaults \in Nat

VARIABLES
    cache,   \* [Commands -> Record], what the process believes
    disk,    \* [Commands -> Record], what commands.json holds
    faults   \* the number of persists that threw (bounded by MaxFaults)

storeVars == <<cache, disk, faults>>

-----------------------------------------------------------------------------
\* The record of a command.  `ref` says that reference_no is set (its value is
\* always the command id); `result` is the stored reply of a COMPLETED command:
\* the document it names and whether it reports that document as submitted.
Results == [doc : Names, submitted : BOOLEAN]
Statuses == {"UNKNOWN", "PENDING", "COMPLETED", "FAILED", "CANCELLED"}

Record == [status      : Statuses,
           user        : Users \cup {None},
           fingerprint : Fingerprints \cup {None},
           intent      : Intents \cup {None},
           ref         : BOOLEAN,
           result      : Results \cup {None}]

NoRecord == [status |-> "UNKNOWN", user |-> None, fingerprint |-> None,
             intent |-> None, ref |-> FALSE, result |-> None]

EmptyStore == [c \in Commands |-> NoRecord]

StoreTypeOK ==
    /\ cache \in [Commands -> Record]
    /\ disk \in [Commands -> Record]
    /\ faults \in Nat

StoreInit == cache = EmptyStore /\ disk = EmptyStore /\ faults = 0

-----------------------------------------------------------------------------
\* Put a record in the cache and persist the whole cache; `ok` says whether the
\* persist succeeded or threw.
Put(c, rec, ok) ==
    /\ cache' = [cache EXCEPT ![c] = rec]
    /\ \/ ok /\ disk' = cache' /\ UNCHANGED faults
       \/ ~ok /\ faults < MaxFaults /\ faults' = faults + 1 /\ UNCHANGED disk

\* Broken: only a PENDING command has an owner.
ForeignPendingOnly(c, u) ==
    cache[c].status = "PENDING" /\ cache[c].user # u

\* The first gate of begin(): the command was begun by another principal.
Foreign(c, u) == cache[c].user # None /\ cache[c].user # u

\* Broken: compares what was confirmed instead of what it is about.
FingerprintTaken(c, p) ==
    \E d \in Commands \ {c} :
        cache[d].status = "PENDING" /\ cache[d].fingerprint = FingerprintOf[p]

\* Another command is PENDING on the intent of p.
IntentTaken(c, p) ==
    \E d \in Commands \ {c} :
        cache[d].status = "PENDING" /\ cache[d].intent = IntentOf[p]

\* begin() answers {replay: true}: the stored result is returned again.
Replays(c, u) == ~Foreign(c, u) /\ cache[c].status = "COMPLETED"

\* Broken: begin() without its fingerprint gate, without its intent lock, and
\* one that takes a FAILED command again.
AcceptsAnyFingerprint(c, u, p) ==
    /\ ~Foreign(c, u)
    /\ cache[c].status \notin {"COMPLETED", "FAILED"}
    /\ ~IntentTaken(c, p)

AcceptsAnyIntent(c, u, p) ==
    /\ ~Foreign(c, u)
    /\ cache[c].status \notin {"COMPLETED", "FAILED"}
    /\ cache[c].status = "PENDING" => cache[c].fingerprint = FingerprintOf[p]

AcceptsFailed(c, u, p) ==
    /\ ~Foreign(c, u)
    /\ cache[c].status # "COMPLETED"
    /\ cache[c].status = "PENDING" => cache[c].fingerprint = FingerprintOf[p]
    /\ ~IntentTaken(c, p)

\* begin() takes the command; every other call of begin() throws and changes
\* nothing.  A CANCELLED record is taken again, whatever its fingerprint.
Accepts(c, u, p) ==
    /\ ~Foreign(c, u)
    /\ cache[c].status \notin {"COMPLETED", "FAILED"}
    /\ cache[c].status = "PENDING" => cache[c].fingerprint = FingerprintOf[p]
    /\ ~IntentTaken(c, p)

\* begin() found an earlier record of this command ({resumed: true}).
Resumed(c) == cache[c].status # "UNKNOWN"

\* Broken: a fresh record, as before the CRITICAL comment in begin().
BegunAfresh(c, u, p) ==
    [status      |-> "PENDING",
     user        |-> u,
     fingerprint |-> FingerprintOf[p],
     intent      |-> IntentOf[p],
     ref         |-> FALSE,
     result      |-> None]

\* The record begin() writes: the fields the earlier attempt recorded are kept,
\* above all its reference.
Begun(c, u, p) ==
    [status      |-> "PENDING",
     user        |-> u,
     fingerprint |-> FingerprintOf[p],
     intent      |-> IntentOf[p],
     ref         |-> cache[c].ref,
     result      |-> cache[c].result]

Begin(c, u, p, ok) ==
    Accepts(c, u, p) /\ Put(c, Begun(c, u, p), ok)

\* complete(), fail() and setReference() only require that a record exists.
Complete(c, res, ok) ==
    /\ Resumed(c)
    /\ Put(c, [cache[c] EXCEPT !.status = "COMPLETED", !.result = res], ok)

Fail(c, ok) ==
    Resumed(c) /\ Put(c, [cache[c] EXCEPT !.status = "FAILED"], ok)

SetReference(c, ok) ==
    Resumed(c) /\ Put(c, [cache[c] EXCEPT !.ref = TRUE], ok)

\* Broken: cancel() that checks no status; cancel() with another spelling.
CancelAny(c, ok) ==
    Resumed(c) /\ Put(c, [cache[c] EXCEPT !.status = "CANCELLED"], ok)

CancelMisspelt(c, ok) ==
    /\ cache[c].status = "PENDING"
    /\ Put(c, [cache[c] EXCEPT !.status = "CANCELED"], ok)

\* cancel() is the one method that checks the status.
Cancel(c, ok) ==
    /\ cache[c].status = "PENDING"
    /\ Put(c, [cache[c] EXCEPT !.status = "CANCELLED"], ok)

\* _load() of a new process.
Reload ==
    cache' = disk /\ UNCHANGED <<disk, faults>>

-----------------------------------------------------------------------------
\* At most one command is PENDING on an intent, in memory and on disk: begin()
\* refuses the second one, whatever was cancelled, failed, lost or reloaded in
\* between (idempotency.mjs, the intent lock of phase 9).
OnePendingPerIntent(db) ==
    \A c, d \in Commands :
        /\ db[c].status = "PENDING"
        /\ db[d].status = "PENDING"
        /\ db[c].intent = db[d].intent
        => c = d

IntentLock == OnePendingPerIntent(cache) /\ OnePendingPerIntent(disk)
=============================================================================
