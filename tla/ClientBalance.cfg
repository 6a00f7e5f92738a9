CONSTANTS
    h1 = h1
    h2 = h2
    a1 = a1
    a2 = a2
    p = p
    Hash = {h1}
    Addr = {a1, a2}
    Rate <- MCRate
    Interval = 2
    MaxBytes = 2
    Client = {p}
    TRMayFail = TRUE
    MayRefuse = TRUE
    MayEvict = TRUE
    InOrder = TRUE
SYMMETRY Symmetry
SPECIFICATION Spec
INVARIANTS
    TypeOK
    StatsNotOlder
    Balance
