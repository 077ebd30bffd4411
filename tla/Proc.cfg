SPECIFICATION FairSpec
CONSTANTS
  NPROC = 4
  Sleepers = {1}
  Wild = {2}
  MaxPid = 4
  MaxSent = 1
INVARIANT NoMissedExit
PROPERTY OrphansReaped
