CONSTANTS
    Tcb = {u1, k1}
    Idle = Idle
    Reaper = Reaper
    NULL = NULL
    KernelPd = KernelPd
    BootUser = {u1}
    BootKernel = {k1}
    Spawning = FALSE
    TickRate = 2
    PitCrystal = 3
    SleepTimes = {0, 1}
    MaxTicks = 6
SPECIFICATION FairSpec
PROPERTIES RunnableRuns SleeperWakes ZombieReaped
