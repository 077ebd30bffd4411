SPECIFICATION AnySpec
CONSTANTS
  NPROC = 3
  BOOST_MIN = 10
  Setups <- RrAndCpu
  Procs = {1, 2, 3, 4, 5, 6}
  Words = {"a", "b", "c", "f", "g", "h"}
  Programs = {"a", "b"}
  MAXARGS = 3
  NOFILE = 5
  MaxLines = 1
  Lines <- MCLines
INVARIANTS ParserRight Plumbing Sequenced
PROPERTIES NoStarvation BoostReturns PromptReturns
