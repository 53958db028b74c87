SPECIFICATION WsSpec
CONSTANTS
    k1 = k1
    s1 = s1
    s2 = s2
    s3 = s3
    s4 = s4
    bill = bill
    fs_write = fs_write
    mock_pay = mock_pay
    NoSession = NoSession
    NoTool = NoTool
    NoKey = NoKey
    NoArg = NoArg
    Kernel = {k1}
    Session = {s1, s2, s3}
    NamedSessions = {}
    Tool = {fs_write, mock_pay}
    Irreversible = {}
    Key = {}
    PathArg <- GoodPath
    PaymentArg = {bill}
    Cwd <- WorkDir
    AllowedRoots <- OnlyWorkDir
    BlockedName <- Blocked
    ShortName <- Short
    Entries <- Layout
    Link <- Links
    FirstSession <- StartAtS1
    Registry <- FullRegistry
    SessionsOf <- AllSessions
    OneSessionPerSaga = FALSE
    ExclusiveRecovery = TRUE
    MaxActions = 3
    MaxCrashes = 0
    MaxFaults = 0
INVARIANTS
    FailedMeansSettled
CHECK_DEADLOCK FALSE
