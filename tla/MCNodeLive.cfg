CONSTANTS
    g0 = g0
    h0 = h0
    a1 = a1
    a2 = a2
    a3 = a3
    b2 = b2
    NoBlock = NoBlock
    Blocks <- MCBlocks
    Number <- MCNumber
    Valid <- MCValid
    Sets <- OwnSets
    MaxWord = 4
    BigBangs = {g0}
    EnsureBigBang = {TRUE}
    RunRelayer = {TRUE}
    RunValidation = {TRUE}
    Sources <- HonestSource
    Orderly = TRUE
    StateReadsFail = FALSE
SPECIFICATION FairSpec
INVARIANTS
    FailedAreInvalid
PROPERTIES
    CatchesUp
    CloseCompletes
