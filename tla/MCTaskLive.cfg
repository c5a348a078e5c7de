SPECIFICATION FairSpec
CONSTANTS
    b1 = b1
    b2 = b2
    Boots = {b1, b2}
    NoBoot = NoBoot
    NoOutcome = NoOutcome
    RuntimeOf <- OneRuntime
    Mortal = {b1}
    Commands = {"submit", "cancel_turn", "cancel_task"}
    ProbeFails = FALSE
    Requests = 3
PROPERTIES
    CancelAnswered
    StartupSettles
CHECK_DEADLOCK FALSE
