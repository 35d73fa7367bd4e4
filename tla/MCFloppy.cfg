CONSTANTS
    d0 = d0
    d1 = d1
    MaxByte = 1
    Lengths = {1}
    HoleLimit = 2
    IdamByte = 1
    Commands <- MCBoth
    HostBytes = {1}
    Responses <- MCResponses
    NoID = NoID
    NoCommand = NoCommand
    Drives = {d0, d1}
    Drive0 = d0
    Images <- MCImages
    NoDisk = NoDisk
    NoTrack = NoTrack
    Sides = {0}
    Densities = {TRUE}
    User = {"insert", "eject"}
SPECIFICATION Spec
INVARIANTS WiredUp CpuHears
VIEW MCView
