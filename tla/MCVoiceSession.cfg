SPECIFICATION Spec
CONSTANTS
  Voices = {u, v, w}
  u = u
  v = v
  w = w
  None = None
  PrefixOf <- MCPrefixOf
  Slots = 2
  Chunks <- MCChunks
  MaxChunks = 2
  Configs <- MCConfigs
  Floor <- MCFloor
  Quantum = 2
  Powers = {1, 2, 4, 8}
INVARIANTS
  AttendsToItsOwn
  HasRoom
  KeepsTheLatest
PROPERTIES
  RebuildsToGrow
