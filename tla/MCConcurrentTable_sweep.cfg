SPECIFICATION FairSpec
CONSTANTS
  a = a
  b = b
  c = c
  t1 = t1
  t2 = t2
  t3 = t3
  Threads = {t1, t2}
  Keys = {a, b}
  NoKey = NoKey
  N = 1
  GroupCounts <- PowersOfTwo
  TopRange = 4
  Hash <- SameFirst
  BulkVisitSize = 2
  Modes = {"shared"}
  Clients <- OneInserter
  MayThrow = FALSE
  MoveOnRehash = TRUE
PROPERTIES ImplementsSet OperationsReturn
