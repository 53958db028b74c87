SPECIFICATION RouterSpec
CONSTANTS
    Tasks <- MCTasks
    Slos <- MCSlos
    Vrams <- MCVrams
    NoVram = NoVram
    NoBound = NoBound
    Injected <- MCInjected
INVARIANTS
    NoPlanOverflows
    RegularPlansMeetSlo
    
    
CHECK_DEADLOCK FALSE
