CONSTANTS
    h1 = h1
    h2 = h2
    a1 = a1
    a2 = a2
    p = p
    Hash = {h1, h2}
    Addr = {a1}
    Rate <- OneWay
    Interval = 2
    MaxBytes = 2
    Client = {}
    TRMayFail = FALSE
    MayRefuse = FALSE
    MayEvict = FALSE
    InOrder = TRUE
SPECIFICATION FairSpec
PROPERTIES
    GoneGoes
