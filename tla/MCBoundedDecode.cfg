SPECIFICATION Spec
CONSTANTS
    SlidingWindows = {1, 5, 8, 11}
    MinCacheSteps = 2
    StreamCacheSteps = {1, 3, 4}
    MaxPosition = 36
    NoGraph = NoGraph
    Unwritten = Unwritten
    Prompts = {1, 2, 3, 5, 6, 8, 11, 12}
INVARIANTS
    AttendsToTheWindow
PROPERTIES
    PositionsAreConsecutive
    RebuildsAreRare
