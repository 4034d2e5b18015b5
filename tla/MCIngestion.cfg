CONSTANTS
  d1 = d1
  d2 = d2
  d3 = d3
  d4 = d4
  d5 = d5
  d6 = d6
  unsigned = unsigned
  empty = empty
  None = None
  Deliveries <- Mixed
  Request <- MixedRequest
  Vendors <- MCVendors
  HeaderKeys <- MCHeaderKeys
  EventIds <- MCEventIds
  Payloads <- MCPayloads
  Fold <- MCFold
  Secret <- MCSecret
  Wildcard = None
  RequireSignature = FALSE
SPECIFICATION FairSpec
INVARIANTS
  TypeOK
  RedeliveryNamesOriginal
  EventIsSentOnce
  OnlySignedIsKept
  DuplicateIsNoError
  AcceptedIsSentOrReported
PROPERTIES
  EveryRequestAnswered
