SPECIFICATION FairSpec
CONSTANTS
    k1 = k1
    k2 = k2
    s1 = s1
    s2 = s2
    write = write
    pay = pay
    mail = mail
    NoSession = NoSession
    NoTool = NoTool
    NoKey = NoKey
    Kernel = {k1}
    Session = {s1, s2}
    Tool = {write, mail}
    Irreversible = {mail}
    Key = {}
    Registry <- FullRegistry
    SessionsOf <- AllSessions
    OneSessionPerSaga = TRUE
    ExclusiveRecovery = TRUE
    MaxActions = 3
    MaxCrashes = 1
    MaxFaults = 1
INVARIANTS
    RunsOnce
PROPERTIES
    CompensationIsLifo
    StatusMovesForward
    RecoveryLeavesNothingDangling
    CallsReturn
CHECK_DEADLOCK FALSE
