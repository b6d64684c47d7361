SPECIFICATION FairSpec
CONSTANTS
    Zones <- MCZones
    Records <- MCRecords
    NSNames <- MCNSNames
    Glued <- MCGlued
    Styles <- AnyStyle
    Requests = {r1}
    Questions <- AnyQuestion
    HostsMap <- MCHostsMap
    ForwardZones <- MCForwardZones
    ForwardRecords <- MCForwardRecords
    MaxIterations = 50
    WorkerLimits = {1, 5}
    MaxExpiries = 0
INVARIANTS TypeOK ChainLeadsToQuestion  CacheTruthful ReplyCorrect Resolves
PROPERTY Answered

