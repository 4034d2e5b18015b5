CONSTANTS
  Grain = 3
  MIN_DECISIONS_FOR_ADVICE = 2
  N = 4
  VendorOf <- MCVendorOf
  Folded <- MCFolded
  Readings <- MCReadings
  Requests <- MCRequests
  DEFAULT_PAGE_SIZE = 2
  MAX_PAGE_SIZE = 2
  LOW_CONFIDENCE_THRESHOLD = 700
  MaxChanges = 2
  None = None
  Bad = Bad
SPECIFICATION Spec
CHECK_DEADLOCK FALSE
INVARIANTS
  TypeOK
  SkipsAreExplained
  RepeatsAreExplained
  AdviceHoldsRejections
