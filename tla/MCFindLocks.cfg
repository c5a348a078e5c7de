SPECIFICATION FairSpec
CONSTANTS
    NoTask = NoTask
    Services = {s1, s2}
    Terminals = {}
    Workers = {w1, w2}
    Operations = {}
    Retain = 2
    MaxHosts = 1
    MaxFaults = 0
PROPERTY ExitAlwaysRecorded
CHECK_DEADLOCK FALSE
