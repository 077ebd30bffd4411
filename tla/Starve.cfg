SPECIFICATION Spec
CONSTANTS
  NPROC = 3
  Setups <- JustStarve
  BOOST_MIN = 10
PROPERTY NoStarvation
