CONSTANTS
    a = a
    z = z
    i = i
    j = j
    b = b
    e = e
    c = c
    key = key
    Addr = {a, z}
    IP = {i, j}
    IPOf <- MCIPOf
    KeyOf <- MCKeyOf
    Rate <- MCRate
    Interval = 1
    Skip = 1
    MaxNow = 1
    MaxCount = 1
    Client = {c}
    Banner = {b, e}
SPECIFICATION MCSpec
INVARIANTS
    TypeOK
    AckedHidden
    UnbannedShown
    CountsCurrent
PROPERTIES
    BannedSettles
