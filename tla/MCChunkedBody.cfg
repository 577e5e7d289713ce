SPECIFICATION FairSpec
CONSTANTS
  Bodies <- MCBodies
  Limits <- MCLimits
  MaxTrailer = 1
  Window = 2
  LastTime = 3
INVARIANTS
  LateIsOneWindow
PROPERTIES
  CapIsNotOvershot
  KeepsThePromise
  BodyEnds
CHECK_DEADLOCK FALSE
