SPECIFICATION Spec
CONSTANTS
    force = force
    lookup_value = lookup_value
    PlainUses <- MCPlainUses
    ScopeUses = {self_scope_mutation}
    Forwarded <- MCPlainUses
    ForceUse = force
    MaxBinds = 3
    MaxUses = 4
INVARIANTS
    SplitAtFirstFreeUse
    ArgumentsKnowUses
\* A promise may never be used again.
CHECK_DEADLOCK FALSE
