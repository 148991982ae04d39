SPECIFICATION Spec
CONSTANTS
  a = a
  b = b
  c = c
  t1 = t1
  t2 = t2
  t3 = t3
  Threads = {t1, t2}
  Keys = {a, b}
  NoKey = NoKey
  N = 1
  GroupCounts <- PowersOfTwo
  TopRange = 4
  Hash <- SameFirst
  BulkVisitSize = 2
  Modes = {"shared"}
  Clients <- EveryOp
  MayThrow = TRUE
  MoveOnRehash = TRUE
SYMMETRY Symmetry
INVARIANTS NoDuplicates Findable ComparesLiveElements SizeAccounts SizeWithinMaxLoad RoomForReserved
PROPERTIES ImplementsSet
