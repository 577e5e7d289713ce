SPECIFICATION FairSpec
CONSTANTS
  Conns = {a, b}
  Nobody = Nobody
  NoInput = NoInput
  a = a
  b = b
  Routes <- MCRoutes
  SendTimeout = TRUE
  MaxEvents = 1
  Inputs <- MCInputs
INVARIANTS
  HearsItsBlocks
  DoneIsEarned
  SinkIsTheRunners
  EndsOnce
PROPERTIES
  LiveGivesTheTurnBack
