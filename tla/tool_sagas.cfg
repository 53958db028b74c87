SPECIFICATION ToolsSpec
CONSTANTS
    a1 = a1
    a2 = a2
    alpha = alpha
    plan = plan
    internal = internal
    Agent = {a1, a2}
    Scope = {alpha}
    ScopeOf <- OneScope
    Text = {plan}
    NoText = NoText
    Overlap <- SelfOverlap
    MaxMemories = 2
    License = {internal}
    Ttl = {0}
    NoTtl = NoTtl
    MaxRecords = 1
    Importance = {20, 120}
    PruneBelow = {50}
    MaxHits = 1
    MaxDay = 1
    MaxSteps = 2
INVARIANTS
    ToolsTypeOK
    FailedSagaLeavesNothing
PROPERTIES
    UndoSparesOthers
    RecalledNeverDecays
    
    SweepChangesNoAnswer
SYMMETRY AgentSymmetry
CHECK_DEADLOCK FALSE
