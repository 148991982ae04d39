SPECIFICATION FairSpec
CONSTANTS
  t1 = t1
  t2 = t2
  Threads = {t1, t2}
  Tables = {0, 1}
  NoTable = NoTable
  M = 2
  Slot <- Slots
  Nested <- Upwards
  MaxDepth = 2
INVARIANTS TraceIsStack
PROPERTIES ImplementsRWLock OperationsReturn
