SPECIFICATION FairSpec
CONSTANTS
    NoTask = NoTask
    Services = {s1}
    Terminals = {}
    Workers = {w1, w2}
    Operations = {"reconcile", "inspect", "release"}
    Retain = 1
    MaxHosts = 2
    MaxFaults = 1
INVARIANTS
    ProcessOnRecord
PROPERTIES
    DroppedUnlaunched
    ExitRecorded
    EvidenceSettles
CHECK_DEADLOCK FALSE
