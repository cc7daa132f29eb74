SPECIFICATION Spec
CONSTANTS
    Snapshots = {s1}
    Principals = {p1}
    Checks = 2
    Configured = {1, 2}
    MaxStatements = 1
    MaxFaults = 0
    MaxCrashes = 1
    Seqs = {1, 2}
    Pays = {"write"}
    QuerySeqs = {1, 2}
    QueryPays = {"read", "bad"}
    ClientInputs <- MCClientInputs
    CallbackInputs <- MCCallbackInputs
INVARIANTS
    CommitOnlyChecked
    ConnectionExclusive
PROPERTIES
    KeepsPromise
