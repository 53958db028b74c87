SPECIFICATION FairSpec
CONSTANTS
    k1 = k1
    k2 = k2
    s1 = s1
    s2 = s2
    write = write
    pay = pay
    mail = mail
    NoSession = NoSession
    NoTool = NoTool
    NoKey = NoKey
    Kernel = {k1, k2}
    Session = {s1, s2}
    Tool = {write, mail}
    Irreversible = {mail}
    Key = {key1}
    Registry <- FullRegistry
    SessionsOf <- OwnSessions
    OneSessionPerSaga = TRUE
    ExclusiveRecovery = TRUE
    MaxActions = 3
    MaxCrashes = 0
    MaxFaults = 0
INVARIANTS
    TypeOK
    EffectsAccounted
    FailedMeansSettled
    ApprovalGate
    LiveSagaIntact
    ReplayAgrees
    AuditAgrees
    OneEffectPerKey
    
PROPERTIES
    RollbackResolves
CHECK_DEADLOCK FALSE
