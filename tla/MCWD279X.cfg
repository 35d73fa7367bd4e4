CONSTANTS
    HasSSO = FALSE
    MaxByte = 1
    Lengths = {2}
    HoleLimit = 2
    IdamByte = 1
    Commands <- MCCommands
    BusyCommands <- MCDisciplined
    HostBytes = {0, 1}
    Lines = {"index", "wp", "tr00"}
    Responses <- MCResponses
    NoID = NoID
    NoCommand = NoCommand
SPECIFICATION Spec
INVARIANTS BusyIsScheduled HostTold WritesCommanded
PROPERTIES NoSilentLoss
VIEW MCView
