SPECIFICATION Spec
CONSTANTS
    a1 = a1
    a2 = a2
    Attempts = {a1, a2}
    Callers = {"p", "q"}
    Keys = {"k"}
    Bodies = {"g", "w", "r"}
    Requests <- AllRequests
    Reads = {"r"}
    Trailing = {"g"}
    Guarded = {"g"}
    Versions = {"v1", "v2"}
    Compiles <- Narrowed
    BatchSize = 1
    MaxBatches = 2
    MaxDeploys = 1
    MaxLosses = 1
SYMMETRY Symmetric
CHECK_DEADLOCK FALSE
INVARIANTS TypeOK OncePerKey ConflictIsOwn CommittedReplyIsTrue RejectedNeverCommits GuardedIsVetted TimelyRejectionIsTrue
