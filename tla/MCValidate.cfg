CONSTANTS
    thePredicate = thePredicate
    theProgram = theProgram
    mark = mark
    pred = pred
    code = code
    bad = bad
    written = written
    MinWord = 0
    MaxWord = 1
    KeyLen = 2
    SolutionSets <- MCSolutionSets
    Empty = Empty
    Unset = Unset
    NoKey = NoKey
    NoRun = NoRun
    BadRequest = BadRequest
    MaxSets = 2
    MaxBlocks = 2
    Solves <- MCSolves
    Registered <- MCRegistered
    Encoded <- MCEncoded
    Stored <- MCStored
    Nodes <- MCNodes
    Codes <- MCCodes
    Expects <- MCExpects
    GasOf <- MCGasOf
    MaxGas = 3
SPECIFICATION RunSpec
INVARIANTS
    RunTypeOK
    VerdictIsReplay
    ReadsReplay
    DryRunReadsReplay
PROPERTIES
    ValidationReadsStable
