SPECIFICATION Spec
CONSTANTS
    k1 = k1
    k2 = k2
    s1 = s1
    s2 = s2
    write = write
    pay = pay
    mail = mail
    NoSession = NoSession
    NoTool = NoTool
    NoKey = NoKey
    Kernel = {k1}
    Session = {s1}
    Tool = {write}
    Irreversible = {}
    Key = {}
    Registry <- FullRegistry
    SessionsOf <- OwnSessions
    OneSessionPerSaga = TRUE
    ExclusiveRecovery = TRUE
    MaxActions = 2
    MaxCrashes = 1
    MaxFaults = 0
INVARIANTS
    FailedStepHasNoEffect
CHECK_DEADLOCK FALSE
