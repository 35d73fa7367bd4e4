CONSTANTS
    d0 = d0
    d1 = d1
    Drives = {d0, d1}
    Drive0 = d0
    MaxCyl = 1
    Images <- MCImages
    NoDisk = NoDisk
    NoTrack = NoTrack
    f0 = f0
    f1 = f1
    ImageDrives = {d0, d1}
    Files = {f0, f1}
    Sectored = {f1}
    LastWrite = 2
    Failures = {"open", "short", "crash"}
    LoadedBack = {TRUE}
    NoCopy = NoCopy
    Absent = Absent
    Torn = Torn
    Layouts <- MCLayouts
    CylCounts = {39, 40, 88, 159, 256}
    FormatTypes = {"vdk", "jvc", "dmk"}
    AutoOs9 = {TRUE}
    NoImage = NoImage
    NoFs = NoFs
    LastChar = 4
    LongQueue = 2
    CassetteChars = 1
    Pulses = 2
    BitsPerByte = 2
    CasBits = 2
    PulseBuffer = 3
    CueMarks = 3
    OldSizes = {0, 1, 3}
    LastBit = 3
    LastByte = 4
    LastEntry = 4
    SeekTimes = {0, 3, 7, 51}
    NoCue = NoCue
    Lbas = {1, 2}
    BlockBytes = 2
    SectorSizes = {1, 2}
    FrameBytes = 2
    LastCommand = 2
    HdKinds = {"raw", "old"}
    HdSectors = 1
    IdeWords = 2
    LastTransfer = 2
SPECIFICATION MediaSpec
INVARIANTS
    CacheFresh
    Turning
    OriginalKept
    SectorsReloaded
    TapeTurns
    PlayedAsRecorded
    TypedInOrder
    BlocksWhole
    SectorsWhole
PROPERTY EjectedMeansSaved
VIEW MCView
CHECK_DEADLOCK FALSE
