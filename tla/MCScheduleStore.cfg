SPECIFICATION Spec
CONSTANTS
    TicksPerSecond = 1
    Slots <- MCSlots
    Triggers <- MCTriggers
    Overlaps = {"skip-if-running", "queue-one"}
    Misfires = {"skip"}
    Actions = {"shell"}
    Verdicts = {"succeeded", "unknown", "skipped", "blocked"}
    Lease = 1
    Timeout = 1
    MaxTime = 2
    MaxEdits = 1
INVARIANTS
    TypeOK
    RowsAgree
    OneActiveRun
    LeaselessHasDeadline
PROPERTIES
    HistoryIsFinal
    ImplementsLifecycle
CHECK_DEADLOCK FALSE
