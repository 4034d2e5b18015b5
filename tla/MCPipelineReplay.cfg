CONSTANTS
  h1 = h1
  w1 = w1
  w2 = w2
  v1 = v1
  v2 = v2
  o1 = o1
  None = None
  Webhooks <- OneWebhook
  Workers <- TwoWorkers
  Reviewers <- OneReviewer
  Operators <- OneOperator
  MaxRetries = 1
  SweepLimit = 1
  MaxCrashes = 1
  MaxReplays = 2
  Readings <- TwoReadings
  Entities <- MCEntities
  Statuses <- MCStatuses
  Threshold = 700
SPECIFICATION FairSpec
CHECK_DEADLOCK FALSE
INVARIANTS
  TypeOK
  NoStranded
  OnlyTrustedBelieved
  NormalizedIsAccountedFor
  ApprovedIsReflected
PROPERTIES
  ImplementsEntityBelief
  Settles
  Drains
