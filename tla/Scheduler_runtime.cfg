CONSTANTS
    often = often
    rare = rare
    NoSchedule = NoSchedule
    NoFiring = NoFiring
    NoRun = NoRun
    Off = Off
    Sched = {s1}
    Cron = {often, rare}
    Fires <- Occurrences
    Horizon = 3
    RuntimeOn = TRUE
    OnceOn = FALSE
    MaxThrows = 0
SPECIFICATION Spec
INVARIANTS
    NextRunAfterLast
CHECK_DEADLOCK FALSE
