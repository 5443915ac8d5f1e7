SPECIFICATION FeedSpec
CONSTANTS
    a1 = a1
    a2 = a2
    a3 = a3
    a = a
    j1 = j1
    j2 = j2
    Machines = {a}
    Conns = {a1, a2, a3}
    MachineOf <- MCMachineOf
    SlotsOf <- MCSlotsOf
    Retrying = {a}
    PingInterval = 20
    MaxPongInterval = 60
    MaxSilence = 1
    Jobs = {j1, j2}
    IdLimit = 2
    Before = {1}
    MaxSerial = 3
    MaxLives = 2
    None = None
SYMMETRY FeedSymmetry
INVARIANTS
    RegistryIsRight
    KeepsTrying
    ResultsAreOwn
    MonitorIsRight
PROPERTIES
    ForgottenOnlyByRival
CHECK_DEADLOCK FALSE
