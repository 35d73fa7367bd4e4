CONSTANTS
    machine = machine
    ui = ui
    m1 = m1
    m2 = m2
    u1 = u1
    Lists <- MCLists
    Ev <- MCEv
    Home <- MCHome
    RunDts <- MCRunDtsLive
    DrainLists = {}
    Half = 3
    Dts = {1, 2}
SPECIFICATION FairSpec
PROPERTIES QueuedRuns
