SPECIFICATION Spec
CONSTANTS
    Process = {p}
    MaxKeys = 1
    MaxLosses = 0
    p = p
    q = q
    r = r
SYMMETRY Restarts
INVARIANTS
    CreatedAtomically
CHECK_DEADLOCK FALSE
