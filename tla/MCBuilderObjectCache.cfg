SPECIFICATION CacheSpec
CONSTANTS
    s1 = s1
    s2 = s2
    Objects <- MCObjects
    ObjectSize <- MCObjectSize
    MaxSize = 4
    PurgeSize = 3
    Gens <- MCGens
    MaxFetches = 1
INVARIANTS
    NeverOverfull
    SoundUnlessShared
