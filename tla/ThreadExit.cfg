SPECIFICATION ThreadSpec
CONSTANTS
  NR_TCB = 5
  MaxPriority = 1
  BootPriority = 0
  Timeouts = {1}
  Core = 2
  AnyCore = 63
  Affinities = {63}
  InvertPeriod = 3
  Reprioritise = FALSE
  IdleYields = TRUE
INVARIANTS
  ExitedNeverReturns
