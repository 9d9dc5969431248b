\* A sale with an advance payment, interrupted between its two documents.
CONSTANTS
  c1 = c1
  c2 = c2
  u1 = u1
  u2 = u2
  pay = pay
  repay = repay
  sale = sale
  order = order
  Commands = {c1}
  Users = {u1, u2}
  Proposals = {sale}
  Fingerprints = {sale}
  Intents = {"debt", "cart"}
  FingerprintOf <- MCFingerprintOf
  IntentOf <- MCIntentOf
  Names = {"D1", "D2", "D3"}
  None = None
  MaxFaults = 0
  Handlers = {h1}
  Requests <- OneSale
  Payments = {}
  SubmitNow = {}
  WithAdvance = {sale}
  Releasers = {}
  MayExpire = FALSE
  Overlap = FALSE
  LateWrites = FALSE
SPECIFICATION Spec
INVARIANTS AdvanceHonoured
