SPECIFICATION Spec
CONSTANTS
    Questions <- MCQuestions
    Zones <- MCZones
    Messages <- MCMessages
    Workers = {w1, w2}
    Hz = 2
    DefaultExpiration = 2
    MaxTime = 6
    MaxReplies = 2
    MaxStops = 1
    None = None
INVARIANT FastPathFresh
