SPECIFICATION FairSpec
CONSTANTS
    Handles = {h1, h2}
    Tracers = {t1, t2}
    Folders <- MCFolders
    Dirs <- MCDirs
    Path <- MCPath
    Denied = {"s"}
    Null = Null
    Free = Free
    Nowhere = Nowhere
INVARIANTS
    IInv
    OnlyLateSignalsFault
    StatusMeansTraces
    StatusFromSecondOn
    ExitLeavesTraces
PROPERTIES
    WritersAdvance
    ExitCompletes
