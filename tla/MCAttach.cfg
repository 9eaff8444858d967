CONSTANTS
    Commands = {c1, c2}
    Program = Program
    None = None
    Unset = Unset
    MaxEvents = 1
SPECIFICATION FairSpec
CHECK_DEADLOCK FALSE
INVARIANTS NoOrphanTracker QuietIsCoherent ExitEndsTracker
PROPERTIES TrackersOfOthersKept CommandsEnd
