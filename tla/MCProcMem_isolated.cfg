CONSTANTS
    Entries = 4
    PdeCount = 14
    KernelPde = 7
    Bios <- BiosDef
    Layouts <- LayoutsDef
    Dir = {KernelPd, p1, p2}
    KernelPd = KernelPd
    NoMap = NoMap
    Process = {p1, p2}
    Kthread = {k1}
    Exits = {k1}
    Elves <- Programs
    Unit = 2
SPECIFICATION PSpec
INVARIANT Isolated
