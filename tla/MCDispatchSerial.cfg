SPECIFICATION DispatchSpec
CONSTANTS
    TicksPerSecond = 2
    Slots <- MCHalves
    Triggers <- MCTriggers
    Overlaps = {"skip-if-running", "queue-one", "allow-concurrent"}
    Misfires = {"skip", "run-once"}
    Actions = {"shell"}
    Verdicts = {"failed", "unknown", "blocked"}
    Lease = 1
    Timeout = 1
    MaxTime = 5
    MaxEdits = 0
    Dispatchers = {d1}
    Grace = 0
    CancelGrace = 1
    Batch = 2
    Commands = {}
    MaxCrashes = 1
INVARIANTS
    NearHorizon
PROPERTIES
    NoCatchUpBurst
CHECK_DEADLOCK FALSE
