SPECIFICATION Spec
CONSTANTS
  Procs = {"p", "q"}
  Names = {"a", "b"}
  Vals = {"v", "w"}
  NINODES = 4
  NINODE = 3
  Setups <- JustReuse
INVARIANT ValidIsCorrect
