SPECIFICATION Spec
CONSTANTS
  NR_MSG = 4
  Mailboxes = {1, 2}
  Bodies = {"x", "y"}
  MaxRepeat = 1
  Sizes = {1, 2}
  FirstStrategies = {"UNLIMITED", "OLDEST"}
  NewStrategies = {"UNLIMITED", "OLDEST"}
  LateChange = FALSE
  MaxCount = 3
INVARIANTS
  TypeOK
  BlocksConserved
  NothingStranded
  UnlimitedLosesNone
PROPERTIES
  Fifo
