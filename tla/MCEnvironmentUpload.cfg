SPECIFICATION UploadSpec
CONSTANTS
    Clients = {k1, k2, k3}
    NoFile = NoFile
INVARIANTS
    WholeUnlessRaced
PROPERTIES
    WaitingEnds
CHECK_DEADLOCK FALSE
