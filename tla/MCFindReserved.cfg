SPECIFICATION Spec
CONSTANTS
    NoTask = NoTask
    Services = {s1, s2}
    Terminals = {}
    Workers = {w1}
    Operations = {"reconcile", "inspect"}
    Retain = 2
    MaxHosts = 2
    MaxFaults = 0
INVARIANT ReservationHeld
CHECK_DEADLOCK FALSE
