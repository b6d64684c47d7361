CONSTANTS
    Requests = {r1, r2}
    Questions <- MCQuestions
    BaseSuffixes <- MCBaseSuffixes
    Before <- MCBefore
    WindowDuration = 2
    RecentWindowCount = 3
    EvaluateInterval = 1
    ConfirmWindows = 3
    NumCPU = 1
    Scale = 1
    MaxTime = 7
    MaxID = 3
    None = None
SYMMETRY Permuted
SPECIFICATION HotSpec
INVARIANTS GlobalIsOccupancy IdleNeverRefuses
PROPERTIES BurstsSpared
CHECK_DEADLOCK FALSE
