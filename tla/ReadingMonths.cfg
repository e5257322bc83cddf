SPECIFICATION FairSpec
CONSTANTS
  m1 = m1
  m2 = m2
  Periods <- MCPeriods
  Residents = {r1}
  Values = {1, 2}
  NoValue = NoValue
  Windows <- MCWindows
  Rates = {1}
  LabelOf <- MCLabelOf
  ReadingDays = 0
  DefaultRate = 2
  Threads = {t1}
  MaxDay = 3
  MaxRequests = 4
  MaxCrashes = 1
CHECK_DEADLOCK FALSE
INVARIANTS
  ConfirmedConsumesGas
  MissingToldOnce
PROPERTIES
  PeriodsMoveForward
  BillsQuoteFinalReadings
  DeadlineAccountsForAll
  OpenPeriodsClose
