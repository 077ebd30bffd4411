SPECIFICATION Spec
CONSTANTS
  Procs = {1, 2}
  INPUT_BUF = 3
  Wrap = 6
  Jobs = {1}
  MaxNested = 2
  Sizes <- MCSizes
INVARIANTS SleepersWait EofOnce
PROPERTIES LineEditor HandlerReturns
CHECK_DEADLOCK FALSE
