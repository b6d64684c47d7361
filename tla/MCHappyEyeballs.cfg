CONSTANTS
    ConfiguredLimit = 2
    NumCPU = 4
    Calls = {c1, c2}
    Forwards = {f1}
    NumUpstreams = 2
SPECIFICATION FairSpec
INVARIANTS SlotAccounting GateBound StragglersLeaveRoom NoUndeservedBlame
PROPERTIES TurnedAwayByOthers CallsEnd
