CONSTANTS
    QRs = {11, 12}
    Callbacks = {1, 2}
    NoQr = 0
    NoSession = 0
    TokenReplies <- MCTokenReplies
    InfoReplies <- MCInfoReplies
    Budgets <- MCBudgets
SPECIFICATION Spec
CHECK_DEADLOCK FALSE
INVARIANTS
    LoginInv
    LastDeviceRevokesGrant
PROPERTIES
    OverStaysOver
    WatchersLearnTheEnd
