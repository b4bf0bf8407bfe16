SPECIFICATION PartsProgressSpec
CHECK_DEADLOCK FALSE
CONSTANTS
    Checked = {"AudioOutput", "AutoDetect", "ClipboardCopy", "ClipboardPaste", "Connection", "CredSsp", "OutputCapture", "Picture", "PipeWireCapture", "Privsep"}
    SoundTurns = 2
    RttTimeout = 2
    ConnectTimeout = 2
    MaxUnanswered = 2
    SequenceWidth = 6
    MaxHeld = 1
    DesktopCopies = 2
    ClientCopiesMax = 1
    ClientRequests = 2
    MaxQueued = 1
    Backends = {"portal", "mutter"}
    PasteCopies = 1
    Pastes = 2
    PasteParts = 1
    DesktopSizes = {1, 2, 3}
    EarlyFlags = {{"message", "netchar"}, {"gfx"}}
    ClientActs = 1
    ClientVersions = {4, 5, 7}
    ServerVersions = {6}
    OutputTiles = {1}
    MaxCaptureBuffers = 3
    MaxCaptureFailures = 2
    CopyProtocols = {"ext", "screencopy"}
    ScreenChanges = 2
    CopyFaults = 1
    NTiles = 1
    Pictures = {"film", "text"}
    FewColours = {"text"}
    GreyPictures = {"text"}
    TileCodecs = {"progressive", "avc420"}
    VideoRegions = TRUE
    DirectTiles = 1
    MinVideoTiles = 1
    MinRunningVideoTiles = 1
    VideoIdleFrames = 1
    StillFrames = 1
    MotionMax = 2
    MotionHot = 2
    MinScrollTiles = 1
    Drops = {"avc420", "avc444"}
    MaxInFlight = 2
    Dmabufs = TRUE
    CaptureTiles = {1}
    CaptureLayouts = {"bgrx"}
    StreamBuffers = {1, 2, 3}
    MinToHold = 3
    Draws = 1
    Renegotiations = 1
    AccessChanges = 1
    Unreadable = {"bgrx"}
    PipeRoom = 1
    ReadRoom = 2
    ClientPieces = 2
    SessionPieces = 2
PROPERTIES
    ClipboardAnswers
    
    
