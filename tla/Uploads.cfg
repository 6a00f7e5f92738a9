CONSTANTS
    h1 = h1
    h2 = h2
    t1 = t1
    t2 = t2
    n1 = n1
    n2 = n2
    n3 = n3
    g = g
    k = k
    own = own
    Blank = Blank
    Handler = {h1}
    Torrent = {t1, t2}
    Name = {n1, n2, n3}
    Requests <- MCRequests
    TagSets = {{g}, {k}}
    Own = {own}
    MaxLate = 1
SPECIFICATION FairSpec
INVARIANTS
    TypeOK
    OkMeansIn
    LabelsKept
PROPERTIES
    AddAnswered
    UploadArrives
