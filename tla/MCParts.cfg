CONSTANTS
    PageSize = 2
    KernelStart = 4
    KernelEnd = 11
    EarlyEnd = 24
    Machines <- After
    MaxTables = 1
    PageMapPages = 2
    Rows = 2
    Cols = 2
    Writer = {w1}
    Char = {x}
    Color = {white, red}
    MaxText = 6
    IntBits = 3
    Items <- ItemsDef
    MaxItems = 2
    Size = 12
    MaxCount = 11
    Node = {a, b, c, d}
    Keys = {0, 1, 2}
    Heads = {g, h}
    MaxLen = 4
    Word = 8
    TickRate = 3
    PitCrystal = 5
    SleepTimes = {0, 1, 2}
    FirstLoad = {"lo", "hi"}
    MaxTicks = 30
    Entries = 8
    PdeCount = 5
    KernelPde = 1
    Bios <- BiosDef
    Layouts <- LayoutsDef
    Dir = {KernelPd}
    KernelPd = KernelPd
    NoMap = NoMap
SPECIFICATION PartsSpec
INVARIANTS LoadedStays BootsWithRoom ScreenShowsText InBuffer PrintsMeant StoresExactly ListLinksOK SleepsRight KernelDirectoryOK
PROPERTIES QueuesSpec StacksSpec WalksAsAsked
