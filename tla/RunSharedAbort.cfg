SPECIFICATION Spec
CONSTANTS
    j1 = j1
    j2 = j2
    j3 = j3
    plain = plain
    luks = luks
    Callers = {j1, j2}
    Parts = {plain}
    LuksParts = {}
    Part <- SamePlain
    AutoMount = {}
    Plan <- ShortPlan
    UmountAfterBackup = {j1, j2}
INVARIANT MountFailureAborts
