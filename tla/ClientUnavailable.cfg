\* The MCP client cannot be opened on the first attempt.
CONSTANTS
  c1 = c1
  c2 = c2
  u1 = u1
  u2 = u2
  pay = pay
  repay = repay
  sale = sale
  order = order
  Commands = {c1}
  Users = {u1, u2}
  Proposals = {pay}
  Fingerprints = {pay}
  Intents = {"debt", "cart"}
  FingerprintOf <- MCFingerprintOf
  IntentOf <- MCIntentOf
  Names = {"D1", "D2", "D3"}
  None = None
  MaxFaults = 0
  Handlers = {h1}
  Requests <- OnePayment
  Payments = {pay}
  SubmitNow = {}
  WithAdvance = {}
  Releasers = {}
  MayExpire = FALSE
  Overlap = FALSE
  LateWrites = FALSE
SPECIFICATION Spec
INVARIANTS RetryCanResume
