SPECIFICATION Spec
CONSTANTS
  Conns = {a, b}
  Nobody = Nobody
  NoInput = NoInput
  a = a
  b = b
  Routes <- MCRoutes
  SendTimeout = TRUE
  MaxEvents = 1
  Inputs <- MCInputs
INVARIANTS
  HearsTheSource
