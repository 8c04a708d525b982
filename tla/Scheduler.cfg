SPECIFICATION Spec
CONSTANTS
  NR_TCB = 4
  MaxPriority = 1
  BootPriority = 0
  Timeouts = {1}
  Core = 2
  AnyCore = 63
  Affinities = {1, 63}
  InvertPeriod = 3
  Reprioritise = TRUE
  IdleYields = TRUE
INVARIANTS
  TypeOK
  RunnerIsReady
  ReadyFlagTrue
  OneRunning
  NoPanic
PROPERTIES
  BestRuns
