CONSTANTS
    g = g
    a = a
    f = f
    e = e
    r = r
    s1 = s1
    s2 = s2
    s3 = s3
    s4 = s4
    c1 = c1
    c2 = c2
    Blocks <- MCBlocks
    Number <- MCNumber
    Time <- MCTime
    Sets <- MCSets
    SolutionSets <- MCSolutionSets
    Contracts <- MCContracts
    Solutions <- MCSolutions
    Rank <- MCRank
    NoBlock = NoBlock
    NoSet = NoSet
    Unset = Unset
    QueryError = QueryError
    ByteBase = 2
    WordBytes = 2
    Ranges <- MCRanges
    TimeRanges <- MCTimeRanges
    PageSizes = {1, 2}
    StateWrites <- MCStateWrites
    MaxInserts = 6
    MaxFailed = 2
SPECIFICATION Spec
INVARIANTS
    ReadsBackIntact
