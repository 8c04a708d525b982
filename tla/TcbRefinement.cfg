SPECIFICATION Spec
CONSTANTS
  NR_TCB = 3
  MaxPriority = 1
  BootPriority = 0
  Timeouts = {0, 1, 3}
INVARIANTS
  TypeOK
  ReadyRings
  TimeoutChain
  FreeStack
  LooseAndFlagged
  NoPanic
PROPERTIES
  ImplementsThreadLists
