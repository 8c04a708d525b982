SPECIFICATION Spec
CONSTANTS
  Clients = {"c1", "c2"}
  Servers = {"s1", "s2", "s3"}
  Threads = {"c1", "c2", "s1", "s2", "s3"}
  Boxes = {1, 2, 3, 4}
  Home <- MCHome
  SpareBoxes <- MCSpareBoxes
  NoMessage = NoMessage
  Blocks = 3
  MaxRepeat = 1
  NR_RQB = 2
  NR_SERVICE = 2
  Names = {"a"}
  NoName = ""
  NoClient = "none"
CHECK_DEADLOCK FALSE
INVARIANTS
  TypeOK
  OnePlace
  AnswersFindAsker
  
PROPERTIES
  EveryRequestEnds
