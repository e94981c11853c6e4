\* Two schedulers and a user settle at once; one payee has no wallet.
SPECIFICATION Spec
SYMMETRY SchedulersAlike
CONSTANTS
  payout = payout refund1 = refund1 refund2 = refund2
  parentPayout = parentPayout refundAccount = refundAccount
  alice = alice bob = bob
  None = None
  Payments = {payout, refund1, refund2}
  Refunds = {refund1, refund2}
  Sources = {parentPayout, refundAccount}
  Payees = {alice, bob}
  Seeded = {alice}
  Amount <- MCAmount
  Payee <- MCPayee
  SourceOf <- MCSourceOf
  Schedulers = {s1, s2}
  Users = {u}
  Backoff <- MCBackoff
  BackoffMax = 1
  MaxTime = 1
  MaxBack = 0
  MaxFaults = 1
  MaxBreaks = 1
  MaxCommands = 1
INVARIANTS
  TypeOK
  ReservationsCovered
  NoInconsistency
PROPERTIES
  PaidOnce
CHECK_DEADLOCK FALSE
