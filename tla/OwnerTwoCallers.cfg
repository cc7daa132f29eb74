SPECIFICATION Spec
CONSTANTS
    Snapshots = {s1, s2}
    Principals = {p1, p2}
    Checks = 1
    Configured = {}
    MaxStatements = 1
    MaxFaults = 0
    MaxCrashes = 1
    Seqs = {1, 2}
    Pays = {"write"}
    QuerySeqs = {}
    QueryPays = {"read"}
    ClientInputs <- MCClientInputs
    CallbackInputs <- MCCallbackInputs
INVARIANTS
    RunsUnderItsOwnBinding
