SPECIFICATION FairSpec
CONSTANTS
  t1 = t1
  t2 = t2
  t3 = t3
  t4 = t4
  NoThread = NoThread
  N = 3
  Threads <- MCThreads
  On <- MCOn
  MaxNested = 2
INVARIANTS TypeOK MutualExclusion Filter
PROPERTIES EntersEventually GateRefinement
