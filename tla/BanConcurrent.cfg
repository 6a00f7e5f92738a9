CONSTANTS
    h1 = h1
    h2 = h2
    a = a
    b = b
    x = x
    aMapped = aMapped
    junk = junk
    NoIP = NoIP
    Handler = {h1, h2}
    V4 <- MCV4
    V6 <- MCV6
    Addr <- MCAddr
    IPOf <- MCIPOf
    Requests <- MCRequests
    Ops = {"ban"}
    MayRefuse = TRUE
SPECIFICATION FairSpec
INVARIANTS
    TypeOK
    RecordedOrLost
    AckedOrLost
PROPERTIES
    KeepsContract
    FeedsRecord
    RetriesConverge
