SPECIFICATION FairSpec
CONSTANTS
  Residents = {r1}
  Admins = {}
  Devices = {d1}
  Nobody = Nobody
  Calls = {c1, c2}
  MaxAttempts = 1
  CodeTTL = 1
  FormTTL = 1
  AccessTTL = 1
  RefreshTTL <- MCRefreshTTL
  MaxTime = 2
  MaxRequests = 4
  MaxFaults = 1
CHECK_DEADLOCK FALSE
INVARIANTS
  TypeOK
  ResetEndsSessions
  OneTokenPerSession
  DevicesKeepUp
  GuessesAreCounted
PROPERTIES
  EveryFormCostsACode
  EndedSessionsStayEnded
  RequestsEnd
