CONSTANTS
    h1 = h1
    h2 = h2
    a1 = a1
    q1 = q1
    g = g
    Hash = {h1, h2}
    Addr = {a1}
    Rate <- MCRate
    Interval = 2
    MaxBytes = 2
    Client = {}
    TRMayFail = FALSE
    MayRefuse = TRUE
    MayEvict = FALSE
    InOrder = TRUE
    Query = {q1}
    Row <- MCRow
    Filter <- MCFilter
SPECIFICATION MCSpec
INVARIANTS
    QueryTypeOK
    OneTable
    StayersShown
PROPERTIES
    WholeRefresh
    FeedsPeerView
    RemovedGoes
    AddedShows
