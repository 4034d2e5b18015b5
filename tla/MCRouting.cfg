CONSTANTS
  a1 = a1
  a2 = a2
  a3 = a3
  q = q
  None = None
  Arrivals <- MCArrivals
  Vendor <- MCVendor
  Window = 2
  Bursts <- MCBursts
  MaxClock = 4
SPECIFICATION Spec
CHECK_DEADLOCK FALSE
SYMMETRY LoudSymmetry
INVARIANTS
  TypeOK
  QuietStaysOnDefault
  DefaultLaneIsBounded
  WarnedOncePerWindow
