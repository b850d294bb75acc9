SPECIFICATION Spec
CONSTANTS
    r1 = r1
    r2 = r2
    r3 = r3
    r4 = r4
    SeqIds <- Four
    NoSeq = NoSeq
    PromptLen <- OneToken4
    MaxTokens <- Outputs4
    Priority <- OneToken4
    NumGpuBlocks = 4
    NumCpuBlocks = 4
    BlockSize = 1
    Configs <- FcfsSwap4
    ClientsAbort = FALSE
INVARIANTS BlocksNotShared
