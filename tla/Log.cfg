SPECIFICATION FairSpec
CONSTANTS
  Blocks = {b1, b2}
  Procs = {p1, p2}
  Vals <- MCVals
  MAXOPBLOCKS = 1
  LOGSIZE = 2
  NLOG = 3
  OpBlocks = 2
INVARIANT Reserved
PROPERTIES CrashAtomic SleepersWake
