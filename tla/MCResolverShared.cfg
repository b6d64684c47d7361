SPECIFICATION Spec
CONSTANTS
    Zones <- MCZones
    Records <- MCRecords
    NSNames <- SharedNSNames
    Glued <- MCGlued
    Styles <- SharedStyle
    Requests = {r1, r2}
    Questions <- SharedQuestion
    HostsMap <- MCHostsMap
    ForwardZones <- MCForwardZones
    ForwardRecords <- MCForwardRecords
    MaxIterations = 50
    WorkerLimits = {1}
    MaxExpiries = 1
INVARIANTS CacheTruthful ReplyCorrect Resolves
SYMMETRY Interchangeable
