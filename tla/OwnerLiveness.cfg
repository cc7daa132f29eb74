SPECIFICATION FairSpec
CONSTANTS
    Snapshots = {s1}
    Principals = {p1}
    Checks = 1
    Configured = {1}
    MaxStatements = 1
    MaxFaults = 1
    MaxCrashes = 0
    Seqs = {1, 2}
    Pays = {"write"}
    QuerySeqs = {1}
    QueryPays = {"read"}
    ClientInputs <- MCClientInputs
    CallbackInputs <- MCCallbackInputs
PROPERTIES
    EveryCallerAnswered
    ValidationEnds
    ExpiryCarriedOut
