SPECIFICATION Spec
CONSTANTS
    Ops = {o1, o2, o3}
    Bodies <- MCBodies
    Type <- MCType
    Definition <- MCDefinition
    Ids <- MCIds
    Id <- MCId
    Addr = {a1, a2, a3, a4}
    None = None
    Null = Null
    Free = Free
    MaxCalls = 2
SYMMETRY MCSymmetry
INVARIANTS
    IInv
    OneFunctionPerId
    FunctionsFollowR
    CallsKnowTheirFunction
    CleanupFreesAll
