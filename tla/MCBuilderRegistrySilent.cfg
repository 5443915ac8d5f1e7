SPECIFICATION Spec
CONSTANTS
    a1 = a1
    b1 = b1
    a = a
    b = b
    Machines = {a, b}
    Conns = {a1, b1}
    MachineOf <- MCMachineOf
    SlotsOf <- MCSlotsOf
    Retrying = {}
    PingInterval = 20
    MaxPongInterval = 60
    MaxSilence = 5
    None = None
INVARIANTS
    SilenceIsBounded
CHECK_DEADLOCK FALSE
