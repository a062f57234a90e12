SPECIFICATION FairSpec
CONSTANTS
    Promises = {p1}
    NonPromises = {}
    Ops = {"f", "return"}
    OpType <- MCOpType
    NumFormals <- MCNumFormals
    DotsAt <- MCDotsAt
    ReturnOp = "return"
    Addr = {a1}
    Ctxts = {c1}
    Envs = {e1, e2, e3}
    GlobalEnv = GlobalEnv
    NoEnv = NoEnv
    Types = {"integer"}
    Lang = Lang
    Unbound = Unbound
    Null = Null
    Free = Free
    NoJump = NoJump
    CallerPromises = FALSE
    MaxDots = 1
    MaxDepth = 4
    MaxCalls = 3
    MaxArgs = 1
INVARIANTS
    WholeInv
    FileCountsClosures
    
PROPERTIES
    ImplementsLedger
    ProbesAdvance
    ProbesEnd
