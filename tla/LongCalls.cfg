SPECIFICATION Spec
CONSTANTS
    Word = 16
    StringHash <- MCStringHash
    Calls <- MCLongCalls
    FunctionHash <- MCLongFunctionHash
    Factors <- MCLongFactors
    CallShape <- MCLongCallShape
    Absent = Absent
    MaxDealt = 2
INVARIANTS
    EveryCallSaved
