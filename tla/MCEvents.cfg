CONSTANTS
    machine = machine
    ui = ui
    m1 = m1
    m2 = m2
    u1 = u1
    Lists <- MCLists
    Ev <- MCEv
    Home <- MCHome
    RunDts <- MCRunDts
    DrainLists <- MCDrainLists
    Half = 4
    Dts = {0, 1, 2}
SPECIFICATION Spec
INVARIANTS LinkedIffQueued Ordered
PROPERTIES NoneLeftBehind Implements
