SPECIFICATION Spec
CONSTANTS
  Ring <- MCRing
  Cpu = {2, 3}
  All = 63
  Targets <- MCTargets
  RetryAge = 2
  MaxAge = 3
  OldAge = 3
  Delay = 0

  
INVARIANTS
  TypeOK
  OnePlace
  AckedOnce
