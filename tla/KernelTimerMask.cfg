SPECIFICATION FairSpec
CONSTANTS
  Irqs = {0, 1, 2}
  TIMER0 = 1
  UserIrqs = {0, 2}
  Period = 3
  MaxTicks = 7
PROPERTIES
  OverflowCounted
