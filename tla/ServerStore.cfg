SPECIFICATION Spec
CONSTANTS
    Callers = {main, worker}
    Uuids = {u1, u2}
    Names = {n1, n2}
    NoItem = NoItem
    NoCaller = NoCaller
INVARIANT TypeOK
PROPERTY CallsAreAtomic
