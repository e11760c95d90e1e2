CONSTANTS
    Thread = {t1, t2}
    Devices = {0, 1, 4, 9, 15}
    Drivers = {1, 7, 9, 15}
    Spurious = {7, 15}
    MaskLines = {1, 2, 9}
SPECIFICATION FairSpec
INVARIANTS NoneInService MasterMaskHonoured
PROPERTY TimerServed
