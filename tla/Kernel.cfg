SPECIFICATION KernelSpec
CONSTANTS
  CIM0 = 2
  Irqs = {0, 1, 2}
  TIMER0 = 1
  UserIrqs = {0, 2}
  Period = 3
  MaxTicks = 7
  N = 3
  InitCounts <- MCInitCounts
  MaxCount = 2
INVARIANTS
  MaskAgrees
  CompletionKept
  TimeKept
  FreeList
PROPERTIES
  CompletionHandled
  IntcServes
  PoolImplemented
  WaitEnds
