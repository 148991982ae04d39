SPECIFICATION Spec
CONSTANTS
  N = 2
  HalfRange = 8
  Sizes <- BucketCounts
  a1 = a1 a2 = a2 b1 = b1 t1 = t1 t2 = t2 h1 = h1 h2 = h2 m1 = m1 m2 = m2
  Tables = {t1, t2}
  Elements = {a1, a2, b1}
  KeyOf <- KeyOfElement
  Hashers = {h1, h2}
  Hash <- HashOfKey
  Allocators = {m1, m2}
  Uses <- StaleUses
  SizeMax = 255
  NoTable = NoTable NoElement = NoElement NoHasher = NoHasher
INVARIANTS ResizesAtMaxLoad
CHECK_DEADLOCK FALSE
