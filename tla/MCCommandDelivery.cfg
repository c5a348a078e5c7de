SPECIFICATION FairSpec
CONSTANTS
    Boots = {b1, b2}
    NoBoot = NoBoot
    Attempts = {a1, a2, a3}
    NoAttempt = NoAttempt
    Mortal = {b1}
    Settings = {TRUE, FALSE}
    MaxFaults = 2
INVARIANTS
    TypeOK
    EffectAtMostOnce
    AnswersAgree
PROPERTIES
    UnresolvableOnce
    ClientAnswered
CHECK_DEADLOCK FALSE
