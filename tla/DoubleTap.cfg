\* One payment card, its command sent again while the first request is served.
CONSTANTS
  c1 = c1
  c2 = c2
  u1 = u1
  u2 = u2
  pay = pay
  repay = repay
  sale = sale
  order = order
  Commands = {c1}
  Users = {u1, u2}
  Proposals = {pay}
  Fingerprints = {pay}
  Intents = {"debt", "cart"}
  FingerprintOf <- MCFingerprintOf
  IntentOf <- MCIntentOf
  Names = {"D1", "D2", "D3"}
  None = None
  MaxFaults = 0
  Handlers = {h1, h2}
  Requests <- OnePayment
  Payments = {pay}
  SubmitNow = {}
  WithAdvance = {}
  Releasers = {}
  MayExpire = FALSE
  Overlap = TRUE
  LateWrites = FALSE
SPECIFICATION Spec
INVARIANTS OneDocument
