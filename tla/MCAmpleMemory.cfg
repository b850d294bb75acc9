SPECIFICATION FairSpec
CONSTANTS
    r1 = r1
    r2 = r2
    r3 = r3
    r4 = r4
    SeqIds <- Three
    NoSeq = NoSeq
    PromptLen <- Prompts3
    MaxTokens <- ShortOutputs3
    Priority <- Priorities3
    NumGpuBlocks = 8
    NumCpuBlocks = 0
    BlockSize = 1
    Configs <- TightFcfs
    ClientsAbort = TRUE
PROPERTIES AllFinish
