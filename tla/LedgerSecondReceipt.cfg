SPECIFICATION Spec
CONSTANTS
  Bills = {b1}
  Payments = {p1, p2}
  Threads = {t1}
  Processes = 1
  FinePerDay = 2
  MaxDay = 1
  MaxCrashes = 0
  DueDay <- MCDueDay
  AmountDue <- MCAmountDue
CHECK_DEADLOCK FALSE
INVARIANTS
  NoSecondReceipt
