SPECIFICATION FairSpec
CONSTANTS
    q8 = q8
    f16 = f16
    other = other
    weights8 = weights8
    weights16 = weights16
    sidecar = sidecar
    weights = weights
    NoDir = NoDir
    Handler = Handler
    Unread = Unread
    MayCrash = TRUE
    MaxCalls = 3
    Packages = {q8, f16}
    Files = {weights8, weights16, sidecar}
    Needs <- SharedNeeds
    Target <- SharedTarget
INVARIANTS
    NoPartialDownload
PROPERTIES
    EveryJobEnds
