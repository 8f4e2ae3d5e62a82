SPECIFICATION ExploreSpec
CONSTANTS
    k1 = k1
    k2 = k2
    k3 = k3
    NoKey = NoKey
    Matchings <- TwoMatchings
    Rounds = 2
    MaxValue = 3
    MaxTrials = 2
    MaxCrashes = 2
INVARIANTS ResultIsBest BestIsLogged
PROPERTIES ExplorationEnds
CHECK_DEADLOCK FALSE
