\* One scheduler and a user; the escrow fails, a process dies, the clock is set back.
SPECIFICATION FairSpec
CONSTANTS
  payout = payout refund1 = refund1 refund2 = refund2
  parentPayout = parentPayout refundAccount = refundAccount
  alice = alice bob = bob
  None = None
  Payments = {payout, refund1}
  Refunds = {refund1}
  Sources = {parentPayout, refundAccount}
  Payees = {alice, bob}
  Seeded = {alice, bob}
  Amount <- MCAmount2
  Payee <- MCPayee2
  SourceOf <- MCSourceOf2
  Schedulers = {s1}
  Users = {u}
  Backoff <- MCBackoff2
  BackoffMax = 2
  MaxTime = 5
  MaxBack = 1
  MaxFaults = 3
  MaxBreaks = 1
  MaxCommands = 1
PROPERTIES
  EventuallyPaid
  BackoffRespected
CHECK_DEADLOCK FALSE
