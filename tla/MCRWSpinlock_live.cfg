SPECIFICATION FairSpec
CONSTANTS
  Threads = {t1, t2, t3, t4}
  ReaderMask = 2
PROPERTIES PendingServed SomebodyGetsIn
