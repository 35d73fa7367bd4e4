CONSTANTS
    HasSSO = FALSE
    MaxByte = 1
    Lengths = {2}
    HoleLimit = 2
    IdamByte = 1
    Commands <- MCSectors
    BusyCommands <- MCCareless
    HostBytes = {1}
    Lines <- MCLinesSectors
    Responses <- MCResponses
    NoID = NoID
    NoCommand = NoCommand
SPECIFICATION Spec
INVARIANT WritesCommanded
