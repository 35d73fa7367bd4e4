CONSTANTS
    d0 = d0
    d1 = d1
    MaxByte = 1
    Lengths = {1}
    HoleLimit = 2
    IdamByte = 1
    Commands <- MCData
    HostBytes = {1}
    Responses <- MCResponses
    NoID = NoID
    NoCommand = NoCommand
    Drives = {d0}
    Drive0 = d0
    Images <- MCImages
    NoDisk = NoDisk
    NoTrack = NoTrack
    Sides = {0}
    Densities = {TRUE}
    User = {"insert", "eject"}
SPECIFICATION FairSpec
PROPERTIES Controller HaltReleased
VIEW MCView
CHECK_DEADLOCK FALSE
