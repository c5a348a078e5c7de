SPECIFICATION Spec
CONSTANTS
    NoTask = NoTask
    Services = {s1}
    Terminals = {t1}
    Workers = {w1, w2}
    Operations = {"reconcile", "inspect"}
    Retain = 1
    MaxHosts = 2
    MaxFaults = 0
INVARIANTS
    TypeOK
    ProcessOnRecord
PROPERTIES
    NoReplay
    SettledOnEvidence
    DroppedUnlaunched
SYMMETRY Twins
CHECK_DEADLOCK FALSE
