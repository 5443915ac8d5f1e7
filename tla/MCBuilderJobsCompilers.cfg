SPECIFICATION Spec
CONSTANTS
    j1 = j1
    j2 = j2
    j3 = j3
    Jobs = {j1, j2}
    Slots = 1
    Priority <- JobPriority
    Hashed = {j1}
INVARIANTS
    CompilersWithinSlots
CHECK_DEADLOCK FALSE
