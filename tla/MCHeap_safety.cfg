CONSTANTS
    PageCount = 3
    Sizes = {0, 1964, 1968, 2048, 3000, 4096}
    MaxHeld = 3
    NULL = NULL
SPECIFICATION Spec
INVARIANTS ChunksTile BucketsExact HeldExact Accounting HeapRestored
