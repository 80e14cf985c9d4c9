CONSTANTS
    r1 = r1
    r2 = r2
    l1 = l1
    v1 = v1
    Runners = {r1}
    LeaseMs = 1
    NextRunDelayMs = 1
    BacklogDelayMs = 1
    RetryDelayMs = 1
    MaxTime = 2
    MaxAttempts = 0
    MaxFaults = 1
    Grants = {1}
    Readers = {l1}
    Recoveries = {}
    Limit = 1
    MinWindow = 2
    MaxTokens = 3
SYMMETRY RunnerSymmetry
SPECIFICATION Spec
INVARIANTS
    RefreshInv
PROPERTIES
    RevivedOnlyByLogin
    ReplacedByItsSuccessor
