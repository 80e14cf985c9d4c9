CONSTANTS
    pa1 = pa1
    pa2 = pa2
    u1 = u1
    u2 = u2
    d1 = d1
    d2 = d2
    d3 = d3
    w1 = w1
    w2 = w2
    x1 = x1
    x2 = x2
    ProposedActions = {pa1, pa2}
    Users = {u1}
    Workers = {w1, w2}
    Devices = {d1}
    UserOf <- OneUser
    ActorOf <- ActorIsFirst
    Confirmable = {pa1, pa2}
    Payloads = {x1}
    MaxSource = 1
    Poisoned <- EditsPoisoned
    Limit = 2
    MaxFaults = 0
SPECIFICATION FairSpec
CHECK_DEADLOCK FALSE
PROPERTIES
    ListedIsFinished
