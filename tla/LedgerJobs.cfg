SPECIFICATION Spec
CONSTANTS
  Bills = {b1, b2}
  Payments = {}
  Threads = {t1, t2}
  Processes = 2
  FinePerDay = 2
  MaxDay = 2
  MaxCrashes = 0
  DueDay <- MCDueDay
  AmountDue <- MCAmountDue
SYMMETRY Sym
CHECK_DEADLOCK FALSE
INVARIANTS
  FineLedger
  FinesWithinOverdueDays
  DailyFineApplied
