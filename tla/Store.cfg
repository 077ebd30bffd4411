SPECIFICATION StoreSpec
CONSTANTS
  NBUF = 2
  Procs = {p1, p2}
  Vals = {v0, v1}
  Blocks = {1, 2, 3}
  MaxDirty = 1
  MaxHold = 2
  IoErrors = FALSE
  VmProcs = {1, 2}
  Pages = {0, 1, 2, 3, 4, 5, 6, 7, 8, 9, 10, 11, 12, 13, 14, 15, 16, 17, 18, 19, 20, 21, 22, 23}
  PGSIZE = 4
  NENTRIES = 2
  MAXARG = 3
  MaxSz = 20
  MaxCalls = 5
  Execs <- MCExecs
  Sbrks <- MCSbrks
  FsProcs = {"p", "q"}
  Files = {1, 2, 3}
  BSIZE = 2
  NDIRECT = 1
  FSSIZE = 13
  Nmeta = 4
  MAXOPBLOCKS = 2
  LOGSIZE = 6
  Reads = {1}
  Writes = {5}
  Images <- MCImages
  FileOf <- MCFileOf
INVARIANTS
  OneBuffer HoldersSee NoLostWakeup
  PagesAccounted ImageRight SizeBacked
  Accounted ReadsBack TransactionFits
PROPERTY Coherent
SYMMETRY Symmetry
