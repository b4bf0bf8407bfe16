SPECIFICATION Spec
CONSTANTS
    c1 = c1
    c2 = c2
    c3 = c3
    a1 = a1
    a2 = a2
    a3 = a3
    alice = alice
    bob = bob
    NoClient = NoClient
    Clients = {c1, c2}
    Agents = {a1, a2}
    Accounts = {alice, bob}
    AccountOf <- TwoAccounts
    Logins = {}
    MaxSessions = 0
    OnLocalSession = "separate"
    DisconnectedTimeout = FALSE
    IdleTimeout = FALSE
    Takeover = "ask"
    TakeoverOnTimeout = "allow"
    Desktop = "headless"
    SeatUsers = {}
    DesktopsDie = FALSE
    SeatTakeoverPolicy = "ask"
    Terminable = {}
    MaxPreauth = 64
    Upgrades = FALSE
    MaxRestarts = 1
    KeepsDesktop = TRUE
    MayLock = FALSE
    MayFail = FALSE
    MayIdle = FALSE
    Heartbeats = TRUE
    LoginOf <- AliceLogsIn
SYMMETRY AgentSymmetry
PROPERTIES
    StillRemembered
CHECK_DEADLOCK FALSE
