SPECIFICATION Spec
CONSTANTS
  Threads = {t1, t2, t3}
  ReaderMask = 2
SYMMETRY ThreadSymmetry
INVARIANTS MutualExclusion WordCountsHolders PendingHasWriter NoDataRace
PROPERTIES ImplementsRWLock
