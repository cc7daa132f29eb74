SPECIFICATION Spec
CONSTANTS
    a1 = a1
    a2 = a2
    Attempts = {a1, a2}
    Callers = {"p", "q"}
    Keys = {"k"}
    Bodies = {"g", "w", "r"}
    Requests <- RetriesOnly
    Reads = {"r"}
    Trailing = {"g"}
    Guarded = {"g"}
    Versions = {"v1", "v2"}
    Compiles <- Narrowed
    BatchSize = 1
    MaxBatches = 2
    MaxDeploys = 0
    MaxLosses = 0
SYMMETRY Symmetric
CHECK_DEADLOCK FALSE
INVARIANT RetryNotRejected
