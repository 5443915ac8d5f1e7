SPECIFICATION Spec
CONSTANTS
    a1 = a1
    a2 = a2
    b1 = b1
    a = a
    b = b
    k1 = k1
    k2 = k2
    k3 = k3
    Machines = {a, b}
    Conns = {a1, a2, b1}
    MachineOf <- MCMachineOf
    SlotsOf <- MCSlotsOf
    None = None
    Clients = {k1, k2, k3}
    Wants <- MCWants
    Sharing = {k1, k3}
    Loads = {100}
INVARIANTS
    ClientsAreCounted
PROPERTIES
    AssignedIsConnected
    FreeBuilderFirst
CHECK_DEADLOCK FALSE
