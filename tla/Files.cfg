SPECIFICATION Spec
CONSTANTS
  Procs = {p1, p2}
  NFILE = 2
  NOFILE = 2
  PIPESIZE = 2
  UINT = 4
  Pages = {g1, g2}
  Bytes = {0, 1}
  Counts = {1, 3}
  Buffers <- OneAndThree
  MaxSent = 4
INVARIANTS RefsCounted NoDangling NoLostWakeup EofIsFinal
PROPERTY Streams
SYMMETRY Symmetry
