SPECIFICATION Spec
CONSTANTS
  Stats <- AllStats
  UnsetRr = {0}
  EPOCH_TICKS = 1
  ALERT_SLEEP = 0
  BOOST_MIN = 10
INVARIANT UpdatesTaken
PROPERTY OnlyTightens
