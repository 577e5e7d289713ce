SPECIFICATION FairSpec
CONSTANTS
    c1 = c1
    c2 = c2
    Callers = {c1, c2}
    Nobody = Nobody
    NoTime = NoTime
    NoRequest = NoRequest
    Policies = {0, 2}
    Requests = {0, 1, 3}
    Horizon = 4
INVARIANTS
    StampMarksTheRun
    StampNeverOverstates
    RefusalHasACause
    TimeoutIsTheTighterBound
PROPERTIES
    ImplementsTurn
    ImplementsFairTurn
