SPECIFICATION PartsSpec
CHECK_DEADLOCK FALSE
CONSTANTS
    Checked = {"AudioOutput", "AudioPacing", "AutoDetect", "BulkCompression", "Camera", "ClearCodec", "ClipboardCopy", "ClipboardPaste", "Connection", "CredSsp", "DynamicChannels", "Encoder", "Framing", "GfxChannel", "GnomeDesktop", "InputThreads", "KWinOutputs", "OutputCapture", "Picture", "PipeWireCapture", "PlasmaDesktop", "Privsep", "TouchContacts", "Wire"}
    SoundTurns = 3
    MaxBacklog = 3
    MinLimit = 2
    HardLimit = 3
    ConfirmTimeout = 3
    SilenceTimeout = 2
    FloorWindow = 2
    MaxPending = 2
    BlockModulus = 5
    PaceTime = 6
    RttTimeout = 2
    ConnectTimeout = 2
    MaxUnanswered = 2
    SequenceWidth = 6
    MaxHeld = 2
    HistorySize = 6
    SegmentLimit = 5
    PositionModulus = 16
    HashModulus = 4
    MaxChain = 3
    NiceLength = 5
    MaxInsert = 4
    TailInsert = 2
    SkipTrigger = 2
    RunHeaderBits = 2
    BulkMessages = 5
    Webcams = {1, 2}
    WebcamTurns = 3
    WebcamTransit = 1
    VbarSlots = 2
    ShortSlots = 2
    GlyphSlots = 1
    SeqNumbers = 2
    MaxBandHeight = 2
    MinBandGap = 1
    SegmentBits = 2
    Run1 = 2
    Run2 = 3
    ClearWidth = 3
    ClearRegions = {5, 14, 45}
    DesktopCopies = 2
    ClientCopiesMax = 1
    ClientRequests = 2
    MaxQueued = 1
    Backends = {"portal", "mutter"}
    PasteCopies = 2
    Pastes = 2
    PasteParts = 1
    DesktopSizes = {1, 2, 3}
    EarlyFlags = {{"message", "netchar"}, {"gfx"}}
    ClientActs = 2
    ClientVersions = {4, 5, 7}
    ServerVersions = {6}
    LastChannelId = 2
    ChannelOpens = 2
    ChannelTalk = 2
    EncoderBackends = {"nvenc", "vaapi", "openh264", "x264"}
    MaxPictures = 4
    MaxRates = 2
    MaxFaults = 1
    FrameNums = 2
    PocLsbs = 6
    MaxFramesPerIdr = 4
    MaxImports = 1
    CaptureBuffers = {1, 2}
    MaxFragment = 2
    MaxUpdate = 5
    SvcChunk = 2
    SvcMost = 8
    DvcPdu = 5
    DvcSingle = 3
    DvcMost = 16
    GfxMost = 6
    BufferMost = 64
    GfxSurfaces = 2
    PipelineCommands = 7
    GfxTransit = 3
    MaxScreens = 2
    GnomeSizes = {1, 2}
    GnomeActs = 4
    Codes = {"left"}
    ButtonCodes = {"left"}
    DeviceIds = {1, 2}
    InputChanges = 1
    InputJobs = 1
    OutputSizes = {1, 2, 3}
    VirtualOutputs = 2
    MaxRefusals = 2
    OutputActs = 3
    OutputTiles = {1, 2}
    MaxCaptureBuffers = 3
    MaxCaptureFailures = 2
    CopyProtocols = {"ext", "screencopy"}
    ScreenChanges = 2
    CopyFaults = 1
    NTiles = 2
    Pictures = {"film", "text"}
    FewColours = {"text"}
    GreyPictures = {"text"}
    TileCodecs = {"progressive", "planar", "avc420", "avc444"}
    VideoRegions = TRUE
    DirectTiles = 1
    MinVideoTiles = 1
    MinRunningVideoTiles = 1
    VideoIdleFrames = 1
    StillFrames = 1
    MotionMax = 2
    MotionHot = 2
    MinScrollTiles = 1
    Drops = {"avc420", "avc444"}
    MaxInFlight = 1
    Dmabufs = TRUE
    CaptureTiles = {1, 2}
    CaptureLayouts = {"bgrx"}
    StreamBuffers = {1, 2, 3}
    MinToHold = 3
    Draws = 1
    Renegotiations = 1
    AccessChanges = 1
    Unreadable = {"bgrx"}
    PlasmaScreens = 2
    PlasmaSizes = {1, 2}
    PlasmaStart = 2
    PlasmaActs = 2
    PipeRoom = 1
    ReadRoom = 2
    ClientPieces = 2
    SessionPieces = 2
    Fingers = {1, 2}
    FingerLimit = 2
INVARIANTS
    SoundCorrect
    
    BulkCorrect
    CameraCorrect
    
    ClipboardCorrect
    ActiveIsConfirmed
    CredSspCorrect
    ChannelsCorrect
    MessagesCorrect
    GfxChannelCorrect
    
    
    
    
    
    
    PrivsepCorrect
    TouchCorrect

    
    
