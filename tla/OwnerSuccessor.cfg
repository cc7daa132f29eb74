SPECIFICATION FairSpec
CONSTANTS
    Snapshots = {s1}
    Principals = {p1}
    Checks = 1
    Configured = {1}
    MaxStatements = 1
    MaxFaults = 0
    MaxCrashes = 1
    Seqs = {1, 2}
    Pays = {"write"}
    QuerySeqs = {}
    QueryPays = {"read"}
    ClientInputs <- MCClientInputs
    CallbackInputs <- MCCallbackInputs
PROPERTIES
    SuccessorExpires
