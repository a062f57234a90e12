SPECIFICATION Spec
CONSTANTS
    Promises = {p1}
    NonPromises = {missingArg}
    Ops = {"f", "g", "sum", "return"}
    OpType <- MCOpType
    NumFormals <- MCNumFormals
    DotsAt <- MCDotsAt
    ReturnOp = "return"
    Addr = {a1, a2}
    Ctxts = {c1}
    Envs = {e1, e2, e3, e4, e5}
    GlobalEnv = GlobalEnv
    NoEnv = NoEnv
    Types = {"integer"}
    Lang = Lang
    Unbound = Unbound
    Null = Null
    Free = Free
    NoJump = NoJump
    CallerPromises = FALSE
    MaxDots = 1
    MaxDepth = 5
SYMMETRY MCSymmetry
INVARIANTS
    StackMirrorsR
    NoErrorLogged
    ForcedStaysAlive
    ExitReleasesAll
