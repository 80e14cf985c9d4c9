CONSTANTS
    pa1 = pa1
    pa2 = pa2
    u1 = u1
    u2 = u2
    d1 = d1
    d2 = d2
    d3 = d3
    w1 = w1
    w2 = w2
    x1 = x1
    x2 = x2
    ProposedActions = {pa1}
    Users = {u1, u2}
    Workers = {w1, w2}
    Devices = {d1, d2, d3}
    UserOf <- TwoUsers
    ActorOf <- ActorIsFirst
    Confirmable = {pa1}
    Payloads = {x1, x2}
    MaxSource = 2
    Poisoned <- NoPoison
    Limit = 1
    MaxFaults = 2
SYMMETRY PipelineSymmetry
SPECIFICATION Spec
CHECK_DEADLOCK FALSE
INVARIANTS
    ReviewInv
    AckedDecisionIsRecorded
    DecisionMatchesAudit
    WrittenWasConfirmedByActor
    LinkedItemFollowsLedger
PROPERTIES
    ChangesAreVisible
