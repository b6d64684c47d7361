CONSTANTS
    Happenings <- MCHappenings
    Sessions <- MCSessions
    MaxHistory = 2
SPECIFICATION FairSpec
INVARIANTS NoPhantomTrouble  PlaceKept
PROPERTIES Recovers
CHECK_DEADLOCK FALSE
