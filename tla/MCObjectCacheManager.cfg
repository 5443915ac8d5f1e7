SPECIFICATION Spec
CONSTANTS
    a1 = a1
    a2 = a2
    b1 = b1
    c1 = c1
    a = a
    b = b
    c = c
    s = s
    t = t
    Conns = {a1, a2, b1, c1}
    Addrs = {a, b, c}
    AddrOf <- MCAddrOf
    Shas = {s, t}
    FileSize <- MCFileSize
    CacheSize = 2
    Redundancy = 1
    OnInsertion = TRUE
    OnCacheHit = TRUE
    MaxOrphans = 1
INVARIANTS
    BooksAgree
PROPERTIES
    NotTooManyCopies
    TimerLostOnlyByTwins
CHECK_DEADLOCK FALSE
