SPECIFICATION Spec
CONSTANTS
    Word = 32768
    StringHash <- MCStringHash
    Calls <- MCCalls
    FunctionHash <- MCFunctionHash
    Factors <- MCFactors
    CallShape <- MCCallShape
    Absent = Absent
    MaxDealt = 2
INVARIANTS
    RowsAreShapes
    HashIsProduct
PROPERTY
    ImplementsStore
