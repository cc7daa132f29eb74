SPECIFICATION Spec
CONSTANTS
    Snapshots = {s1}
    Principals = {p1}
    Checks = 0
    Configured = {}
    MaxStatements = 1
    MaxFaults = 2
    MaxCrashes = 1
    Seqs = {0, 1, 2}
    Pays = {"write", "bad"}
    QuerySeqs = {}
    QueryPays = {"read"}
    ClientInputs <- MCClientInputs
    CallbackInputs <- MCCallbackInputs
INVARIANTS
    TypeOK
    CommitNeverMisreported
    CommittedIsTrue
    CommitRecordedFirst
    CommitProtocol
    CommitsWhatWasExecuted
PROPERTIES
    TerminalIsFinal
    CommitIsForever
    KeepsPromise
