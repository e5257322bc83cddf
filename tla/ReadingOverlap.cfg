SPECIFICATION Spec
CONSTANTS
  m1 = m1
  m2 = m2
  Periods <- MCPeriods
  Residents = {r1}
  Values = {1, 2}
  NoValue = NoValue
  Windows <- MCWindows
  Rates = {1}
  LabelOf <- MCLabelOf
  ReadingDays = 0
  DefaultRate = 2
  Threads = {t1, t2}
  MaxDay = 1
  MaxRequests = 4
  MaxCrashes = 1
SYMMETRY Sym
CHECK_DEADLOCK FALSE
INVARIANTS
  TypeOK
  BilledIsNoDraft
PROPERTIES
  DraftNeverReturns
  LateWritesOnly
