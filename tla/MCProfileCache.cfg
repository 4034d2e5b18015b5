CONSTANTS
  Names <- MCNames
  Fold <- MCFold
  Rank <- MCRank
  Specs = {p, q}
  Readers = {r1}
  Writers = {w1, w2}
  MaxEdits = 2
  None = None
SPECIFICATION FairSpec
INVARIANTS
  TypeOK
  StaleOnlyInAWindow
PROPERTY
  EditsTakeEffect
