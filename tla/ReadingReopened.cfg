SPECIFICATION Spec
CONSTANTS
  m1 = m1
  m2 = m2
  Periods = {m1}
  Residents = {r1}
  Values = {1, 2}
  NoValue = NoValue
  Windows <- MCWindows
  Rates = {1}
  LabelOf <- MCOneLabel
  ReadingDays = 0
  DefaultRate = 2
  Threads = {t1, t2}
  MaxDay = 0
  MaxRequests = 5
  MaxCrashes = 0
CHECK_DEADLOCK FALSE
PROPERTIES
  FinalReadingsStand
