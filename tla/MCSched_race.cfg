CONSTANTS
    Tcb = {u1, u2}
    Idle = Idle
    Reaper = Reaper
    NULL = NULL
    KernelPd = KernelPd
    BootUser = {u1, u2}
    BootKernel = {}
    Spawning = FALSE
    TickRate = 2
    PitCrystal = 3
    SleepTimes = {1}
    MaxTicks = 3
SPECIFICATION Spec
INVARIANT NoZombieLost
