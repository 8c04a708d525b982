SPECIFICATION IpcSpec
CONSTANTS
  NR_TCB = 4
  MaxPriority = 0
  BootPriority = 0
  Timeouts = {1, 2}
  Core = 2
  AnyCore = 63
  Affinities = {63}
  InvertPeriod = 1
  Reprioritise = FALSE
  IdleYields = TRUE
  NR_MSG = 2
  Mailboxes = {1, 3}
  Bodies = {"x"}
  MaxRepeat = 1
  Sizes = {8}
  IsrPosts = {1}
  LimitedAt = {1}
  Reuse = FALSE
  MaxCount = 3
INVARIANTS
  NoPanic
