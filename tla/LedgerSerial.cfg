SPECIFICATION FairSpec
CONSTANTS
  Bills = {b1}
  Payments = {p1, p2}
  Threads = {t1}
  Processes = 2
  FinePerDay = 2
  MaxDay = 2
  MaxCrashes = 1
  DueDay <- MCDueDay
  AmountDue <- MCAmountDue
CHECK_DEADLOCK FALSE
INVARIANTS
  PaidIffReceipt
  NoticesAreNotRepeated
PROPERTIES
  ClosedBillsStayClosed
  PaymentOutcomeFinal
  KeepsContract
  PastDueIsSettled
  OverdueIsAnnounced
