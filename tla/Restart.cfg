SPECIFICATION Spec
CONSTANTS
    c1 = c1
    c2 = c2
    c3 = c3
    a1 = a1
    a2 = a2
    a3 = a3
    alice = alice
    bob = bob
    NoClient = NoClient
    Clients = {c1, c2}
    Agents = {a1, a2}
    Accounts = {alice}
    AccountOf <- OneAccount
    Logins = {}
    MaxSessions = 0
    OnLocalSession = "separate"
    DisconnectedTimeout = FALSE
    IdleTimeout = FALSE
    Takeover = "ask"
    TakeoverOnTimeout = "allow"
    Desktop = "headless"
    SeatUsers = {}
    DesktopsDie = FALSE
    SeatTakeoverPolicy = "ask"
    Terminable = {}
    MaxPreauth = 64
    Upgrades = TRUE
    MaxRestarts = 1
    KeepsDesktop = TRUE
    MayLock = FALSE
    MayFail = TRUE
    MayIdle = FALSE
    Heartbeats = TRUE
    LoginOf <- AliceLogsIn
SYMMETRY Symmetry
INVARIANTS
    TypeOK
    LinkedIsRemembered
CHECK_DEADLOCK FALSE
