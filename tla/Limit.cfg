SPECIFICATION Spec
CONSTANTS
    c1 = c1
    c2 = c2
    c3 = c3
    a1 = a1
    a2 = a2
    a3 = a3
    alice = alice
    bob = bob
    NoClient = NoClient
    Clients = {c1, c2}
    Agents = {a1, a2}
    Accounts = {alice, bob}
    AccountOf <- TwoAccounts
    Logins = {}
    MaxSessions = 1
    OnLocalSession = "refuse"
    DisconnectedTimeout = FALSE
    IdleTimeout = FALSE
    Takeover = "ask"
    TakeoverOnTimeout = "allow"
    Desktop = "headless"
    SeatUsers = {bob}
    DesktopsDie = FALSE
    SeatTakeoverPolicy = "ask"
    Terminable = {1}
    MaxPreauth = 64
    Upgrades = FALSE
    MaxRestarts = 0
    KeepsDesktop = TRUE
    MayLock = FALSE
    MayFail = TRUE
    MayIdle = FALSE
    Heartbeats = FALSE
    LoginOf <- AliceLogsIn
SYMMETRY AgentSymmetry
INVARIANTS
    WithinLimit
CHECK_DEADLOCK FALSE
