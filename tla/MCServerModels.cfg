SPECIFICATION FairSpec
CONSTANTS
    m1 = m1
    m2 = m2
    c1 = c1
    c2 = c2
    Clients = {c1, c2}
    Nobody = Nobody
    Ids = {m1, m2}
    Configs <- MCConfigs
    Requests <- MCRequests
    Startup <- MCStartup
    NoSession = NoSession
    MaxCalls = 2
INVARIANTS
    WaitsAreShort
    RunHasItsInterface
    SessionMatchesConfig
    LoadAnswersTruthfully
    RegistryConsistent
PROPERTIES
    RunningSessionStays
    UsesTheTurns
    BoundedRequestLeaves
