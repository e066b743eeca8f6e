SPECIFICATION StatSpec
CONSTANTS
  N = 5
  Payload = 1
  Sizes = {16, 17}
  MaxTags = 3
  CountMod = 4
  MaxWords = 5
INVARIANT InterruptsRestored
CHECK_DEADLOCK FALSE
