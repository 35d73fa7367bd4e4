CONSTANTS
    b1 = b1
    b2 = b2
    b3 = b3
    Bps = {b1, b2, b3}
    Pcs = {1, 2, 3}
    Address <- MCAddress
    NoBp = NoBp
    MaxFrames <- MCMaxFrames
    CpuKinds = {"MC6809", "HD6309"}
    ModeSets = {{}, {"NM", "FM"}}
    ByteSize = 2
    Preset = 2
    Spans = {2, 3}
    Nested = 1
    PiaSides = {"a", "b"}
    Controls <- MCControls
    Bases = {0, 2032}
    Fetches = {10, 42}
    LastLine = 13
    LastChange = 1
    Slot = {1, 2}
    Initial = 1
    Fitted <- MCFitted
    Masters <- MCMasters
    LastSwitch = 1
    p1 = p1
    p2 = p2
    Names = {p1, p2}
    NoName = NoName
    NoStream = NoStream
    LastChar = 2
    INPUT_BUFFER_SIZE = 2
    OUTPUT_BUFFER_SIZE = 2
    LastByte = 4
    m1 = m1
    m2 = m2
    c1 = c1
    g1 = g1
    g2 = g2
    Configs = {m1, m2}
    Carts = {c1}
    Downloads = {g1, g2}
    RomsOf <- MCRomsOf
    Carted = {m2}
    Default <- MCDefault
    FirstConfig = m2
    NoConfig = NoConfig
    NoCart = NoCart
    LastRequest = 3
    r1 = r1
    r2 = r2
    Roms = {r1, r2}
    LastImport = 2
    VRES_LPF_lTB <- MCTop
    VRES_LPF_lAA <- MCActive
    FrameLines <- MCFrame
    Settings <- MCSettings
    Offsets = {0, 66568}
    LastWrite = 1
    LowSize = 2
SPECIFICATION HostSpec
INVARIANTS
    BreakpointsHeard
    InterruptsAccounted
    TimerHeard
    IrqMeansFlagged
    SamInStep
    SlotsHeard
    KeysLetGo
    PrintedWhereAsked
    BytesCarried
    AsIfAtOnce
    BootedFromLibrary
    FramesWhole
VIEW MCView
CHECK_DEADLOCK FALSE
