SPECIFICATION FairSpec
CONSTANTS
  t1 = t1
  t2 = t2
  c1 = c1
  c2 = c2
  IRQ = IRQ
  NULL = NULL
  Clients <- MCClients
  Tasks <- MCTasks
  Uses <- MCBlockUses
  NPkts = 2
  PidMod = 4
  RingRoom = 1
PROPERTIES
  BlockingCallReturns
  RequestEnds
