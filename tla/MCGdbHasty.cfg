CONSTANTS
    Early = FALSE
    MaxWire = 3
    Endings <- MCAnyEnding
SPECIFICATION Spec
INVARIANT ReturnsUnlocked
