SPECIFICATION FairSlotsSpec
CONSTANTS
    c1 = c1
    c2 = c2
    c3 = c3
    m1 = m1
    old = old
    new = new
    Conns = {c1, c2, c3}
    Lookers = {c1, c2, c3}
    Makes <- MCMakes
    Monitors = {m1}
    CppSlots = 1
    CompileSlots = 1
    LocalSlots = 1
    Compilers = {old, new}
    First = old
    Probes = 2
    MaxChanges = 1
INVARIANTS
    DaemonAssertionsHold
    MachineNotOverloaded
    SlotsWellUsed
    EveryoneAgrees
    InfoIsOfTheCompiler
PROPERTIES
    Spec
    PoolsAreFifo
    EveryFiskcEnds
CHECK_DEADLOCK FALSE
