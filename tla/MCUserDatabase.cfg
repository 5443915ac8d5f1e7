SPECIFICATION DatabaseSpec
CONSTANTS
    u1 = u1
    u2 = u2
    e1 = e1
    e2 = e2
    Users = {u1, u2}
    Environments = {e1, e2}
    Monitors = {m1}
    MaxRequests = 2
    MaxChanges = 2
    MaxFaults = 1
    Stored <- MCStored
    Absent = Absent
    Corrupt = Corrupt
INVARIANTS
    NamesAreFreed
    KeptUnlessOverlapped
    LinksKept
PROPERTIES
    EveryMessageAnswered
CHECK_DEADLOCK FALSE
