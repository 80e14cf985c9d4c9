CONSTANTS
    w1 = w1
    w2 = w2
    r1 = r1
    r2 = r2
    Messages = {1, 2, 3}
    Unsafe = {3}
    Workers = {w1, w2}
    Recoveries = {r1, r2}
    EnvelopesOf <- MCEnvelopesOf
    BatchLimit = 2
    LeaseMs = 1
    RetryDelayMs = 1
    MaxAttempts = 2
    MaxTime = 2
    MaxFaults = 1
SYMMETRY WorkerSymmetry
SPECIFICATION Spec
INVARIANTS
    OutboxInv
    SentWasReceived
    ReopenedOncePerFailure
PROPERTIES
    SettledStaysSettled
