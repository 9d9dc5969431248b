\* Payments only: overlapping clients excluded, crashes and failing persists in.
CONSTANTS
  c1 = c1
  c2 = c2
  u1 = u1
  u2 = u2
  pay = pay
  repay = repay
  sale = sale
  order = order
  Commands = {c1, c2}
  Users = {u1, u2}
  Proposals = {pay, repay}
  Fingerprints = {pay, repay}
  Intents = {"debt", "cart"}
  FingerprintOf <- MCFingerprintOf
  IntentOf <- MCIntentOf
  Names = {"D1", "D2", "D3"}
  None = None
  MaxFaults = 1
  Handlers = {h1, h2}
  Requests <- PaymentRequests
  Payments = {pay, repay}
  SubmitNow = {pay}
  WithAdvance = {}
  Releasers = {u2}
  MayExpire = FALSE
  Overlap = FALSE
  LateWrites = FALSE
SPECIFICATION LiveSpec
INVARIANTS ResultTruthful OneDocument IntentExclusive CancelledPaymentWroteNothing
PROPERTIES LandedIsCompleted
