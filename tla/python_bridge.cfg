SPECIFICATION FairPython
CONSTANTS
    k1 = k1
    s1 = s1
    s2 = s2
    t1 = t1
    t2 = t2
    write = write
    note = note
    NoSession = NoSession
    NoTool = NoTool
    NoKey = NoKey
    NoThread = NoThread
    Kernel = {k1}
    Session = {s1, s2}
    FirstSession = s1
    Thread = {t1, t2}
    Driver = {t1}
    Tool = {write, note}
    NoCompensator = {note}
    Irreversible = {}
    Key = {key1}
    Registry <- FullRegistry
    SessionsOf <- AllSessions
    OneSessionPerSaga = FALSE
    ExclusiveRecovery = TRUE
    MaxActions = 3
    MaxCrashes = 0
    MaxFaults = 0
INVARIANTS
    BridgeTypeOK
    StepInCurrentSession
    CompensatedMeansUndone

    
CHECK_DEADLOCK FALSE
