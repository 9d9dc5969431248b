\* Overlapping repeats of a command and writes that land late.
CONSTANTS
  c1 = c1
  c2 = c2
  u1 = u1
  u2 = u2
  pay = pay
  repay = repay
  sale = sale
  order = order
  Commands = {c1, c2}
  Users = {u1, u2}
  Proposals = {sale, order}
  Fingerprints = {sale, order}
  Intents = {"debt", "cart"}
  FingerprintOf <- MCFingerprintOf
  IntentOf <- MCIntentOf
  Names = {"D1", "D2"}
  None = None
  MaxFaults = 1
  Handlers = {h1, h2}
  Requests <- OverlapRequests
  Payments = {}
  SubmitNow = {}
  WithAdvance = {sale}
  Releasers = {u2}
  MayExpire = FALSE
  Overlap = TRUE
  LateWrites = TRUE
SPECIFICATION Spec
INVARIANTS IntentLock WriteAheadReference FailedNeverWrote AckedIsDurable SentIsNotRefused
PROPERTIES Outlives
