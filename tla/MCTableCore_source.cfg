SPECIFICATION Spec
CONSTANTS
  k1 = k1
  k2 = k2
  k3 = k3
  k4 = k4
  h1 = h1
  h2 = h2
  NoKey = NoKey
  NoTable = NoTable
  N = 1
  GroupCounts <- PowersOfTwo
  TopRange = 2
  Tables = {t1, t2}
  Keys = {k1, k2, k3, k4}
  Hashers = {h1, h2}
  Hash <- TwoHashes
  Allocators = {a1, a2}
  Uses <- Unlimited
SYMMETRY Symmetry
INVARIANTS SourceSearchable
