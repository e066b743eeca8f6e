SPECIFICATION FairSpec
CONSTANTS
  N = 5
  Payload = 1
  Sizes = {16, 17}
  MaxTags = 3
  CountMod = 2
  MaxWords = 5
INVARIANTS
  TypeOK
  StreamIntact
  ChannelArmed
PROPERTIES
  ImplementsFifo
  EverythingSent
