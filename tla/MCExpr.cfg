SPECIFICATION ExprSpec
CONSTANTS
    Words = 256
    Pmem = {2, 3, 4, 5, 6, 253}
    MaxTokens = 8
    MemRead <- MCMemRead
INVARIANTS MeansWhatCMeans StaysInside
