CONSTANTS
    pa1 = pa1
    u1 = u1
    w1 = w1
    w2 = w2
    w3 = w3
    ProposedActions = {pa1}
    Users = {u1}
    Workers = {w1, w2, w3}
    Poisoned <- MCPoisoned
    Limit = 1
    MaxFaults = 2
SYMMETRY WorkerSymmetry
SPECIFICATION ExecutionSpec
INVARIANTS
    ExecutionInv
    ExecutedAtMostOnce
    AuditMatchesLedger
    StrandedOnlyByFault
PROPERTIES
    HistoryIsFinal
    KeepsPromise
