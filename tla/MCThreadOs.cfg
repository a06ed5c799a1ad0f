SPECIFICATION ThreadOsSpec
CONSTANTS
    NTask = 3
    MaxCpu = 2
    BOOT = BOOT
    NoTask = NoTask
INVARIANTS OwnStack MutualExclusion
PROPERTIES ThreadsSpec Progress Scheduled
