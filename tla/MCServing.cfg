SPECIFICATION Spec
CONSTANTS
    r1 = r1
    r2 = r2
    r3 = r3
    r4 = r4
    SeqIds <- Three
    NoSeq = NoSeq
    PromptLen <- Prompts3
    MaxTokens <- Outputs3
    Priority <- Priorities3
    NumGpuBlocks = 4
    NumCpuBlocks = 4
    BlockSize = 1
    Configs <- ServingConfigs
    ClientsAbort = TRUE
INVARIANTS TypeOK TablesExclusive RunningOnGpu NoBlockLost SlotsOwned WithinBudget ScheduledAlive OneQueue FcfsOrder StopsOnlyWhenDone
PROPERTIES AbortedOnlyRestarts AdmissionByPriority
