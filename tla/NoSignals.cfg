SPECIFICATION Spec
CONSTANTS
    Traces <- MCTraces
    Hashes = {"h1", "h2"}
    Hash <- MCHash
    LastPos <- MCLastPos
    Absent = Absent
    Signals = FALSE
    MaxSeen = 3
INVARIANT EveryTraceCounted
