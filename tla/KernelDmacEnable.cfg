SPECIFICATION FairSpec
CONSTANT CIM0 = 2
INVARIANT
  EnableEnables
