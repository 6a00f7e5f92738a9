CONSTANTS
    d = d
    o1 = o1
    o2 = o2
    junk = junk
    t = t
    k1 = k1
    k2 = k2
    h = h
    Default = {d}
    Offered = {o1, o2}
    Junk = junk
    Lists <- MCLists
    MaxSize = 2
    Torrent = {t}
    Task = {k1, k2}
    Adder = {h}
SPECIFICATION OnlineSpec
INVARIANTS
    TypeOK
    ListSound
    AddTruthful
PROPERTIES
    TrackersArrive
