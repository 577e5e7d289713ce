SPECIFICATION Spec
CONSTANTS
    q8 = q8
    f16 = f16
    other = other
    weights8 = weights8
    weights16 = weights16
    sidecar = sidecar
    weights = weights
    NoDir = NoDir
    Handler = Handler
    Unread = Unread
    MayCrash = FALSE
    MaxCalls = 4
    Packages = {q8, other}
    Files = {weights8, sidecar, weights}
    Needs <- OwnNeeds
    Target <- OwnTarget
INVARIANTS
    ActiveJobsAreTheWorkers
    WorkersUseTheRoot
    InventoryIsFresh
PROPERTIES
    StopIsNotLost
    CompleteIsInstalled
