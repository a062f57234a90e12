SPECIFICATION Spec
CONSTANTS
    Promises = {p1, p2}
    NonPromises = {missingArg}
    Ops = {"f", "g", "return"}
    OpType <- MCOpType
    NumFormals <- MCNumFormals
    DotsAt <- MCDotsAt
    ReturnOp = "return"
    Addr = {a1, a2, a3}
    Ctxts = {c1}
    Envs = {e1, e2, e3, e4}
    GlobalEnv = GlobalEnv
    NoEnv = NoEnv
    Types = {"integer"}
    Lang = Lang
    Unbound = Unbound
    Null = Null
    Free = Free
    NoJump = NoJump
    CallerPromises = FALSE
    MaxDots = 1
    MaxDepth = 3
SYMMETRY MCSymmetry
INVARIANTS
    MapMatchesActive
    NoDanglingValue
    NoDanglingArgument
    DeadHasOneHolder
    TracesAreCurrent
    IInv
PROPERTY ImplementsOwnership
