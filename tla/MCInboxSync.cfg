CONSTANTS
    pa1 = pa1
    pa2 = pa2
    u1 = u1
    d1 = d1
    d2 = d2
    ProposedActions = {pa1, pa2}
    Users = {u1}
    Devices = {d1, d2}
    UserOf <- OneUser
    ActorOf <- ActorIsUser
    Confirmable = {pa1}
    Approvable = {pa1, pa2}
    Payloads = {}
    MaxSource = 2
    SnapshotLimit = 1
    SortKey <- KeyBySource
    MaxSourceOf <- SourcesOf
    MaxLoads <- LoadsOf
SPECIFICATION SyncSpec
PROPERTIES
    DecidedAsShown
    LoadsNeverGoBack
CHECK_DEADLOCK FALSE
