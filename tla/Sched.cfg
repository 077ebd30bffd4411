SPECIFICATION Spec
CONSTANTS
  NPROC = 2
  NCPU = 2
  TICKMOD = 65536
  Boot <- MCBoot
  Updates <- MCUpdates
  BOOST_MIN = 1
  ALERT_WAIT = 1
  MaxTicks = 1
  MaxCount = 2
  MaxPreempt = 1
  MaxPid = 3
INVARIANTS RunsOnOneCpu AgentPinned QuantumLeft
