SPECIFICATION Spec
CONSTANTS
    Promises = {p1, p2}
    NonPromises = {}
    Ops = {"main", "f", "return"}
    OpType <- MCOpType
    NumFormals <- MCNumFormals
    DotsAt <- MCDotsAt
    ReturnOp = "return"
    Addr = {a1, a2}
    Ctxts = {c1}
    Envs = {e1, e2, e3, e4}
    GlobalEnv = GlobalEnv
    NoEnv = NoEnv
    Types = {"integer"}
    Lang = Lang
    Unbound = Unbound
    Null = Null
    Free = Free
    NoJump = NoJump
    CallerPromises = TRUE
    MaxDots = 1
    MaxDepth = 7
SYMMETRY MCSymmetry
INVARIANT OneNonLocalReturn
CONSTRAINT MCNestedPromises
