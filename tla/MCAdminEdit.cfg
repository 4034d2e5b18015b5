CONSTANTS
  Names <- OneName
  Fold <- MCFold
  Rank <- MCRank
  Specs = {p, q}
  Readers = {r1}
  Writers = {w1}
  MaxEdits = 1
  None = None
SPECIFICATION Spec
PROPERTY
  AdminEditIsServed
