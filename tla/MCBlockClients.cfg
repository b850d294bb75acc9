SPECIFICATION Spec
CONSTANTS
    NumGpuBlocks = 3
    NumCpuBlocks = 1
    s1 = s1
    s2 = s2
    SeqIds <- MCSeqIds
    NoSeq = NoSeq
    MaxPins = 2
INVARIANTS TypeOK FreeListExact RefCountExact RecordedOnce FragmentationExact
PROPERTY RefinesPool
