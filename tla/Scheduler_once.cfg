CONSTANTS
    often = often
    rare = rare
    NoSchedule = NoSchedule
    NoFiring = NoFiring
    NoRun = NoRun
    Off = Off
    Sched = {s1, s2}
    Cron = {often, rare}
    Fires <- Occurrences
    Horizon = 3
    RuntimeOn = FALSE
    OnceOn = TRUE
    MaxThrows = 1
SPECIFICATION FairSpec
INVARIANTS
    OncePerOccurrence
PROPERTIES
    DueIsServed
CHECK_DEADLOCK FALSE
