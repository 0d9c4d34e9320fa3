SPECIFICATION Spec
CONSTANTS
    Recorders = {t1, t2}
    Readers = {r1, r2}
    Latencies = {1, 3}
    MaxRecords = 2
    None = None
CHECK_DEADLOCK FALSE
SYMMETRY Symmetry
INVARIANTS
    AverageWithinRange
