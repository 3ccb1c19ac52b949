SPECIFICATION FairSpec
CONSTANTS
    j1 = j1
    j2 = j2
    j3 = j3
    plain = plain
    luks = luks
    Callers = {j1, j2, j3}
    Parts = {plain, luks}
    LuksParts = {luks}
    Part <- SharedAndOwn
    AutoMount = {}
    Plan <- MixedPlan
    UmountAfterBackup = {j3}
INVARIANT KeptTargetHolds
PROPERTIES
    RunEnds
    RunsAdvance
    KeepsContract
