CONSTANTS
    Early = TRUE
    MaxWire = 4
    Endings <- MCAnyEnding
SPECIFICATION FairSpec
INVARIANTS HandledWhileStopped StandsStill
PROPERTIES NoStrayReply Reported LeftRunning
CHECK_DEADLOCK FALSE
