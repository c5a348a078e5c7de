SPECIFICATION Spec
CONSTANTS
    b1 = b1
    b2 = b2
    Boots = {b1, b2}
    NoBoot = NoBoot
    NoOutcome = NoOutcome
    RuntimeOf <- OneRuntime
    Mortal = {b1}
    Commands = {"submit", "shell", "cancel_turn", "quit", "retire", "cancel_task", "background", "io_error"}
    ProbeFails = TRUE
    Requests = 3
INVARIANTS
    TypeOK
    OneRunningTurn
    LiveTurnUntouched
    CancelWins
    LogOrdered
    OneTaskTerminal
PROPERTIES
    ImplementsFencedTask
CHECK_DEADLOCK FALSE
