SPECIFICATION Spec
CONSTANTS
  Procs = {"p", "q"}
  Names = {"a", "b"}
  Vals = {"v", "w"}
  NINODES = 4
  NINODE = 3
  Setups <- MCSetups
INVARIANTS CacheCoherent RefsCounted  NoDeadlock
PROPERTY OpenKept
