SPECIFICATION Spec
CONSTANTS
  h1 = h1
  h2 = h2
  p1 = p1
  p2 = p2
  e1 = e1
  s1 = s1
  s2 = s2
  Houses = {h1, h2}
  Mobiles = {p1, p2}
  Emails = {e1}
  Serials = {s1, s2}
  None = None
  Calls = {c1, c2}
  Jobs = {j1}
  Sheets <- MCSheets
  FirstResidents <- MCResidents
  FirstMeters <- MCMeters
  MaxRequests = 7
CHECK_DEADLOCK FALSE
INVARIANTS
  TypeOK
  JobsHoldTogether
PROPERTIES
  ImportIsWhole
  FreshRowsFit
