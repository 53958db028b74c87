SPECIFICATION Spec
CONSTANTS
    k1 = k1
    k2 = k2
    s1 = s1
    s2 = s2
    write = write
    pay = pay
    mail = mail
    NoSession = NoSession
    NoTool = NoTool
    NoKey = NoKey
    Kernel = {k1, k2}
    Session = {s1}
    Tool = {write, pay}
    Irreversible = {}
    Key = {}
    Registry <- LessAtK2
    SessionsOf <- OnlyK1
    OneSessionPerSaga = TRUE
    ExclusiveRecovery = FALSE
    MaxActions = 2
    MaxCrashes = 0
    MaxFaults = 0
INVARIANTS
    LedgerInv
    LedgerTruth
PROPERTIES
    ImplementsLedger
CHECK_DEADLOCK FALSE
