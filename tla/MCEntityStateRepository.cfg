CONSTANTS
  t1 = t1
  t2 = t2
  t3 = t3
  t4 = t4
  None = None
  Txns <- MCTxns
  Offer <- MCOffer
  Webhooks <- MCWebhooks
  Entities <- MCEntities
  Statuses <- MCStatuses
  Readings <- MCReadings
  Threshold = 700
SPECIFICATION Spec
INVARIANTS
  TypeOK
  LockDiscipline
  NewestCommittedWins
PROPERTY
  ImplementsEntityBelief
