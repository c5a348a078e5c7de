SPECIFICATION FairDispatch
CONSTANTS
    TicksPerSecond = 1
    Slots <- MCSlots3
    Triggers <- MCTriggers
    Overlaps = {"skip-if-running"}
    Misfires = {"skip"}
    Actions = {"shell", "native"}
    Verdicts = {"succeeded", "failed", "unknown", "blocked"}
    Lease = 1
    Timeout = 1
    MaxTime = 2
    MaxEdits = 0
    Dispatchers = {d1}
    Grace = 0
    CancelGrace = 1
    Batch = 2
    Commands = {}
    MaxCrashes = 1
PROPERTIES
    EveryRunSettles
    EverySlotDecided
    HorizonKept
CHECK_DEADLOCK FALSE
