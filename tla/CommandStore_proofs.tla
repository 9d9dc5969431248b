------------------------- MODULE CommandStore_proofs ------------------------
(***************************************************************************)
(* What the methods of the idempotency store preserve, proved for every    *)
(* value of the constants.  Each method is called under the conditions its *)
(* callers in the gateway establish (SafetyGateway_proofs proves them).    *)
(***************************************************************************)
EXTENDS CommandStore, TLAPS

\* How memory and disk are related, whatever persists threw: the disk lags
\* behind, but what it knows of a reference, an outcome or an owner, memory
\* knows too; a completed command has its reference on disk and a result; a
\* failed one has no reference.
StoreInv ==
    \A c \in Commands :
        /\ disk[c].ref => cache[c].ref
        /\ disk[c].status \in {"COMPLETED", "FAILED"}
            => cache[c].status = disk[c].status
        /\ disk[c].user # None => cache[c].user = disk[c].user
        /\ cache[c].status = "COMPLETED"
            => disk[c].ref /\ cache[c].result \in Results
        /\ disk[c].status = "COMPLETED" => disk[c].result \in Results
        /\ cache[c].status = "FAILED" => ~cache[c].ref
        /\ faults = 0 => disk[c] = cache[c]

StoreGood == StoreTypeOK /\ StoreInv /\ IntentLock

\* What no call of the store undoes on disk.
StoreKeeps ==
    \A c \in Commands :
        /\ disk[c].ref => disk'[c].ref
        /\ disk[c].status \in {"COMPLETED", "FAILED"}
            => disk'[c].status = disk[c].status
        /\ disk[c].user # None => disk'[c].user = disk[c].user

LEMMA InitStore == StoreInit => StoreGood
<1>. SUFFICES ASSUME StoreInit PROVE StoreGood
  OBVIOUS
<1>1. NoRecord \in Record
  BY DEF NoRecord, Record, Statuses
<1>2. StoreTypeOK
  BY <1>1 DEF StoreInit, EmptyStore, StoreTypeOK
<1>3. StoreInv
  BY DEF StoreInit, EmptyStore, NoRecord, StoreInv
<1>4. IntentLock
  BY DEF StoreInit, EmptyStore, NoRecord, IntentLock, OnePendingPerIntent
<1>. QED  BY <1>2, <1>3, <1>4 DEF StoreGood

-----------------------------------------------------------------------------
(* Putting one record.                                                      *)

LEMMA PutTypes ==
    ASSUME StoreTypeOK, NEW c \in Commands, NEW rec \in Record,
           NEW ok \in BOOLEAN, Put(c, rec, ok)
    PROVE  StoreTypeOK'
BY DEF StoreTypeOK, Put

\* The store stays good when the new record keeps what the old one had: its
\* reference and owner, and its outcome if it is settled.
LEMMA PutKeepsGood ==
    ASSUME StoreGood, NEW c \in Commands, NEW rec \in Record,
           NEW ok \in BOOLEAN, Put(c, rec, ok),
           cache[c].ref => rec.ref,
           cache[c].status \in {"COMPLETED", "FAILED"}
               => rec.status = cache[c].status,
           cache[c].user # None => rec.user = cache[c].user,
           rec.status = "COMPLETED" => disk[c].ref /\ rec.result \in Results,
           rec.status = "FAILED" => ~rec.ref,
           rec.status = "PENDING" =>
               \A d \in Commands \ {c} :
                   ~(cache[d].status = "PENDING" /\ cache[d].intent = rec.intent)
    PROVE  StoreGood' /\ StoreKeeps
<1>. USE DEF StoreGood
<1>1. StoreTypeOK'
  BY PutTypes
<1>2. /\ cache'[c] = rec
      /\ \A d \in Commands \ {c} : cache'[d] = cache[d]
  BY DEF Put, StoreTypeOK
<1>3. \/ disk' = cache' /\ faults' = faults
      \/ disk' = disk /\ faults' = faults + 1
  BY DEF Put
<1>3a. faults \in Nat
  BY DEF StoreTypeOK
<1>4. StoreInv'
  <2>1. CASE disk' = cache' /\ faults' = faults
    BY <1>2, <2>1 DEF StoreInv
  <2>2. CASE disk' = disk /\ faults' = faults + 1
    BY <1>2, <1>3a, <2>2 DEF StoreInv
  <2>. QED  BY <1>3, <2>1, <2>2
<1>5. StoreKeeps
  BY <1>2, <1>3 DEF StoreInv, StoreKeeps
<1>6. OnePendingPerIntent(cache)'
  BY <1>2 DEF IntentLock, OnePendingPerIntent
<1>7. OnePendingPerIntent(disk)'
  BY <1>3, <1>6 DEF IntentLock, OnePendingPerIntent
<1>. QED  BY <1>1, <1>4, <1>5, <1>6, <1>7 DEF IntentLock

-----------------------------------------------------------------------------
(* The methods.                                                             *)

LEMMA BeginGood ==
    ASSUME StoreGood, NEW c \in Commands, NEW u \in Users, NEW p \in Proposals,
           NEW ok \in BOOLEAN, Begin(c, u, p, ok)
    PROVE  StoreGood' /\ StoreKeeps
<1>1. cache[c] \in Record
  BY DEF StoreGood, StoreTypeOK
<1>2. FingerprintOf[p] \in Fingerprints /\ IntentOf[p] \in Intents
  BY StoreAssumption DEF StoreAssumption
<1>3. Begun(c, u, p) \in Record
  BY <1>1, <1>2 DEF Begun, Record, Statuses
<1>4. /\ Begun(c, u, p).ref = cache[c].ref
      /\ Begun(c, u, p).user = u
      /\ Begun(c, u, p).status = "PENDING"
      /\ Begun(c, u, p).intent = IntentOf[p]
  BY DEF Begun
<1>5. /\ cache[c].status \notin {"COMPLETED", "FAILED"}
      /\ cache[c].user = None \/ cache[c].user = u
      /\ ~IntentTaken(c, p)
      /\ Put(c, Begun(c, u, p), ok)
  BY DEF Begin, Accepts, Foreign
<1>. QED  BY <1>3, <1>4, <1>5, PutKeepsGood DEF IntentTaken

LEMMA SetReferenceGood ==
    ASSUME StoreGood, NEW c \in Commands, NEW ok \in BOOLEAN,
           SetReference(c, ok), cache[c].status # "FAILED"
    PROVE  StoreGood' /\ StoreKeeps
<1>. DEFINE rec == [cache[c] EXCEPT !.ref = TRUE]
<1>1. cache[c] \in Record
  BY DEF StoreGood, StoreTypeOK
<1>2. rec \in Record /\ rec.ref /\ rec.status = cache[c].status
        /\ rec.user = cache[c].user /\ rec.intent = cache[c].intent
        /\ rec.result = cache[c].result
  BY <1>1 DEF Record
<1>3. Put(c, rec, ok)
  BY DEF SetReference
<1>4. rec.status = "COMPLETED" => disk[c].ref /\ rec.result \in Results
  BY <1>2 DEF StoreGood, StoreInv
<1>5. rec.status = "PENDING" =>
        \A d \in Commands \ {c} :
            ~(cache[d].status = "PENDING" /\ cache[d].intent = rec.intent)
  BY <1>2 DEF StoreGood, IntentLock, OnePendingPerIntent
<1>. HIDE DEF rec
<1>. QED  BY <1>2, <1>3, <1>4, <1>5, PutKeepsGood

LEMMA CompleteGood ==
    ASSUME StoreGood, NEW c \in Commands, NEW res \in Results,
           NEW ok \in BOOLEAN, Complete(c, res, ok),
           cache[c].status # "FAILED", disk[c].ref
    PROVE  StoreGood' /\ StoreKeeps
<1>. DEFINE rec == [cache[c] EXCEPT !.status = "COMPLETED", !.result = res]
<1>1. cache[c] \in Record
  BY DEF StoreGood, StoreTypeOK
<1>2. rec \in Record /\ rec.ref = cache[c].ref /\ rec.status = "COMPLETED"
        /\ rec.user = cache[c].user /\ rec.result = res
  BY <1>1 DEF Record, Statuses
<1>3. Put(c, rec, ok)
  BY DEF Complete
<1>. HIDE DEF rec
<1>. QED  BY <1>2, <1>3, PutKeepsGood

LEMMA FailGood ==
    ASSUME StoreGood, NEW c \in Commands, NEW ok \in BOOLEAN,
           Fail(c, ok), ~cache[c].ref
    PROVE  StoreGood' /\ StoreKeeps
<1>. DEFINE rec == [cache[c] EXCEPT !.status = "FAILED"]
<1>1. cache[c] \in Record
  BY DEF StoreGood, StoreTypeOK
<1>2. rec \in Record /\ rec.ref = cache[c].ref /\ rec.status = "FAILED"
        /\ rec.user = cache[c].user
  BY <1>1 DEF Record, Statuses
<1>3. Put(c, rec, ok)
  BY DEF Fail
<1>4. cache[c].status # "COMPLETED"
  BY DEF StoreGood, StoreInv
<1>. HIDE DEF rec
<1>. QED  BY <1>2, <1>3, <1>4, PutKeepsGood

LEMMA CancelGood ==
    ASSUME StoreGood, NEW c \in Commands, NEW ok \in BOOLEAN, Cancel(c, ok)
    PROVE  StoreGood' /\ StoreKeeps
<1>. DEFINE rec == [cache[c] EXCEPT !.status = "CANCELLED"]
<1>1. cache[c] \in Record
  BY DEF StoreGood, StoreTypeOK
<1>2. rec \in Record /\ rec.ref = cache[c].ref /\ rec.status = "CANCELLED"
        /\ rec.user = cache[c].user
  BY <1>1 DEF Record, Statuses
<1>3. Put(c, rec, ok) /\ cache[c].status = "PENDING"
  BY DEF Cancel
<1>. HIDE DEF rec
<1>. QED  BY <1>2, <1>3, PutKeepsGood

LEMMA ReloadGood ==
    ASSUME StoreGood, Reload
    PROVE  StoreGood' /\ StoreKeeps
<1>1. StoreTypeOK'
  BY DEF StoreGood, StoreTypeOK, Reload
<1>2. IntentLock'
  BY DEF StoreGood, IntentLock, OnePendingPerIntent, Reload
<1>3. StoreKeeps
  BY DEF StoreKeeps, Reload
<1>4. StoreInv'
  BY DEF StoreGood, StoreInv, Reload
<1>. QED  BY <1>1, <1>2, <1>3, <1>4 DEF StoreGood
=============================================================================
