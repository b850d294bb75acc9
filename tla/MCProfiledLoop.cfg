SPECIFICATION LoopSpec
CONSTANTS
    NumRequests = 3
    NumConcurrent = 2
    SeqIds <- MCRequests
    Requests <- MCRequests
    NoSeq = NoSeq
    PromptLen <- MCPromptLen
    MaxTokens <- MCMaxTokens
    Priority <- MCPriority
    NumGpuBlocks = 4
    NumCpuBlocks = 0
    BlockSize = 1
    Configs <- MCConfigs
    ClientsAbort = FALSE
    FlushAt = 4
    Threads <- MCThreads
    Names <- MCNames
    MaxSamples = 6
    Scale = 60
    HistMax = 6
    HistBins = 3
    Latencies <- MCLatencies
    TracedTime = 1
    MaxResets = 1
INVARIANTS TraceTypeOK TraceComplete TraceWellFormed LatencyExact PercentilesExact ServedExact TtftOnce WorkAccounted
