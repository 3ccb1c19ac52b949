SPECIFICATION Spec
CONSTANTS
    j1 = j1
    j2 = j2
    j3 = j3
    plain = plain
    luks = luks
    Callers = {j1, j2, j3}
    Parts = {plain, luks}
    LuksParts = {luks}
    Part <- SharedAndOwn
    AutoMount = {plain}
    Plan <- SharedAndOwnPlan
    UmountAfterBackup = {j1, j2, j3}
INVARIANTS
    TypeOK
    WritesOnTarget
    HonestOutcome
PROPERTY ReleaseIsReal
