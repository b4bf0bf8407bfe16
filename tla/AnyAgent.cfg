SPECIFICATION AnySpec
CONSTANTS
    c1 = c1
    c2 = c2
    c3 = c3
    a1 = a1
    a2 = a2
    alice = alice
    NoClient = NoClient
    Clients = {c1, c2, c3}
    Agents = {a1}
    Accounts = {alice}
    AccountOf <- OneAccount
    Logins = {}
    MaxSessions = 0
    OnLocalSession = "separate"
    DisconnectedTimeout = FALSE
    IdleTimeout = FALSE
    Takeover = "ask"
    TakeoverOnTimeout = "allow"
    Desktop = "headless"
    SeatUsers = {}
    DesktopsDie = FALSE
    SeatTakeoverPolicy = "ask"
    Terminable = {}
    MaxPreauth = 64
    Upgrades = FALSE
    MaxRestarts = 0
    Numbers = {1, 2, 3}
    Replies = {"allowed", "denied"}
    MaxSaid = 1
    LoginOf <- AliceLogsIn
SYMMETRY Symmetry
INVARIANTS
    RegistryMirrorsLive
    NoStrandedAsker
    KeptInOnePlace
CHECK_DEADLOCK FALSE
