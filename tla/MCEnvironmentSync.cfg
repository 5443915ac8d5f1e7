SPECIFICATION Spec
CONSTANTS
    Envs = {e1, e2}
    Runnable = {e1, e2}
    Initial = {e1}
    Loops = {l1, l2}
    MaxArrivals = 2
    MaxFailures = 1
INVARIANTS
    ListedIsHad
    RootsAreWhole
PROPERTIES
    Converges
CHECK_DEADLOCK FALSE
