CONSTANTS
    Tcb = {u1, u2, k1}
    Idle = Idle
    Reaper = Reaper
    NULL = NULL
    KernelPd = KernelPd
    BootUser = {u1, u2}
    BootKernel = {k1}
    Spawning = TRUE
    TickRate = 2
    PitCrystal = 3
    SleepTimes = {0, 1}
    MaxTicks = 5
SPECIFICATION Spec
SYMMETRY Symmetry
INVARIANTS QueuesExact AddressSpaceOK StatusOK NoUseAfterFree NoLostWakeup
PROPERTIES WakeOnTime LifeSpec
