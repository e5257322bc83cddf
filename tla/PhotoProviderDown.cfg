SPECIFICATION Spec
CONSTANTS
  None = None
  Letters = Letters
  DigitCounts = {3, 4, 10, 11}
  MinDigits = 4
  MaxDigits = 10
  Confidences <- MCConfidences
  Threshold = 85
  MaxPhotos = 2
CHECK_DEADLOCK FALSE
INVARIANTS
  FailedCallsStoreNothing
