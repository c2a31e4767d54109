CONSTANTS
    g0 = g0
    h0 = h0
    a1 = a1
    a2 = a2
    a3 = a3
    b2 = b2
    NoBlock = NoBlock
    Blocks <- MCBlocks
    Number <- MCNumber
    Valid <- MCValid
    Sets <- OwnSets
    MaxWord = 3
    BigBangs = {g0, h0}
    EnsureBigBang = {TRUE, FALSE}
    RunRelayer = {TRUE, FALSE}
    RunValidation = {TRUE, FALSE}
    Sources <- ChangingSource
    Orderly = FALSE
    StateReadsFail = TRUE
SPECIFICATION Spec
INVARIANTS
    TypeOK
    OneBlockPerNumber
    NoForkedGrowth
    ProgressSound
    NoLostWakeup
    DrainsBeforeEnding
PROPERTIES
    ChainSpec
