SPECIFICATION Spec
CONSTANTS
    c1 = c1
    c2 = c2
    c3 = c3
    a1 = a1
    a2 = a2
    a3 = a3
    alice = alice
    bob = bob
    NoClient = NoClient
    Clients = {c1, c2}
    Agents = {a1, a2}
    Accounts = {alice}
    AccountOf <- OneAccount
    Logins = {}
    MaxSessions = 0
    OnLocalSession = "attach"
    DisconnectedTimeout = FALSE
    IdleTimeout = FALSE
    Takeover = "ask"
    TakeoverOnTimeout = "allow"
    Desktop = "gnome"
    SeatUsers = {alice}
    DesktopsDie = TRUE
    SeatTakeoverPolicy = "ask"
    Terminable = {}
    MaxPreauth = 64
    Upgrades = FALSE
    MaxRestarts = 0
    KeepsDesktop = FALSE
    MayLock = TRUE
    MayFail = FALSE
    MayIdle = FALSE
    Heartbeats = FALSE
    LoginOf <- AliceLogsIn
SYMMETRY Symmetry
INVARIANTS
    DescriptorInOnePlace
CHECK_DEADLOCK FALSE
