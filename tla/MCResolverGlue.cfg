SPECIFICATION Spec
CONSTANTS
    Zones <- MCZones
    Records <- MCRecords
    NSNames <- MCNSNames
    Glued <- MCGlued
    Styles <- BareStyle
    Requests = {r1}
    Questions <- AliasQuestion
    HostsMap <- MCHostsMap
    ForwardZones <- MCForwardZones
    ForwardRecords <- MCForwardRecords
    MaxIterations = 50
    WorkerLimits = {1, 5}
    MaxExpiries = 0
INVARIANT Resolves

