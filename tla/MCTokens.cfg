SPECIFICATION Spec
CONSTANTS
    r1 = r1
    r2 = r2
    r3 = r3
    r4 = r4
    SeqIds <- Two
    NoSeq = NoSeq
    PromptLen <- TwoTokens2
    MaxTokens <- TwoTokens2
    Priority <- OneToken2
    NumGpuBlocks = 4
    NumCpuBlocks = 0
    BlockSize = 2
    Configs <- FcfsRecompute2
    ClientsAbort = FALSE
INVARIANTS TokensOwn
