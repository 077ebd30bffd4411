SPECIFICATION Spec
CONSTANTS
  Procs = {"p", "q"}
  Files = {1, 2, 3}
  BSIZE = 2
  NDIRECT = 12
  FSSIZE = 60
  Nmeta = 4
  MAXOPBLOCKS = 10
  LOGSIZE = 30
  Reads = {}
  Writes = {26}
  Images <- FullImages
  FileOf <- OwnFile
INVARIANT LogNeverFull
CHECK_DEADLOCK FALSE
