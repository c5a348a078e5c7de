SPECIFICATION DispatchSpec
CONSTANTS
    TicksPerSecond = 1
    Slots <- MCSlots
    Triggers <- MCGrids
    Overlaps = {"skip-if-running"}
    Misfires = {"skip"}
    Actions = {"shell", "agent"}
    Verdicts = {"succeeded", "failed", "unknown", "blocked"}
    Lease = 1
    Timeout = 1
    MaxTime = 2
    MaxEdits = 1
    Dispatchers = {d1}
    Grace = 0
    CancelGrace = 1
    Batch = 2
    Commands = {"enable", "update", "remove", "runNow"}
    MaxCrashes = 1
INVARIANTS
    AtMostOnce
    EffectsOnRecord
PROPERTIES
    RemovalSettles
CHECK_DEADLOCK FALSE
