SPECIFICATION DispatchSpec
CONSTANTS
    TicksPerSecond = 1
    Slots <- MCSlots
    Triggers <- MCTriggers
    Overlaps = {"skip-if-running"}
    Misfires = {"skip"}
    Actions = {"shell", "agent"}
    Verdicts = {"succeeded", "failed", "unknown", "blocked", "waiting_approval", "skipped"}
    Lease = 1
    Timeout = 1
    MaxTime = 2
    MaxEdits = 0
    Dispatchers = {d1, d2}
    Grace = 0
    CancelGrace = 1
    Batch = 2
    Commands = {"cancel"}
    MaxCrashes = 1
INVARIANTS
    AtMostOnce
    HonestHistory
    NoOrphanedRun
SYMMETRY Twins
CHECK_DEADLOCK FALSE
