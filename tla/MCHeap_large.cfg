CONSTANTS
    PageCount = 2
    Sizes = {0, 2048, 3000}
    MaxHeld = 2
    NULL = NULL
SPECIFICATION Spec
INVARIANT LargeRedirected
