SPECIFICATION Spec
CONSTANTS
    NumGpuBlocks = 3
    NumCpuBlocks = 0
    s1 = s1
    s2 = s2
    SeqIds <- MCSeqIds
    NoSeq = NoSeq
    Paths <- MCPaths
    Prompt <- MCPrompt
    MaxEvictCalls = 1
    MinNodeRefs <- MCMinNodeRefs
INVARIANTS LookupExact
