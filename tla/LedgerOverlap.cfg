SPECIFICATION Spec
CONSTANTS
  Bills = {b1}
  Payments = {p1, p2}
  Threads = {t1, t2}
  Processes = 2
  FinePerDay = 2
  MaxDay = 1
  MaxCrashes = 0
  DueDay <- MCDueDay
  AmountDue <- MCAmountDue
SYMMETRY Sym
CHECK_DEADLOCK FALSE
INVARIANTS
  TypeOK
  PaymentAmountBracket
  
  AuditAccountsForRows
