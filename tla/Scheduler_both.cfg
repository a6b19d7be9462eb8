CONSTANTS
    often = often
    rare = rare
    NoSchedule = NoSchedule
    NoFiring = NoFiring
    NoRun = NoRun
    Off = Off
    Sched = {s1, s2}
    Cron = {often, rare}
    Fires <- Occurrences
    Horizon = 2
    RuntimeOn = TRUE
    OnceOn = TRUE
    MaxThrows = 1
SPECIFICATION Spec
SYMMETRY Symmetry
INVARIANTS
    LastRunHasJob
PROPERTIES
    RunKeepsEdits
CHECK_DEADLOCK FALSE
