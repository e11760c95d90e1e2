CONSTANTS
    MaxOrder = 2
    PageN = 9
    EndPage = 9
    Placement = 6
    Requests = {0, 1}
SPECIFICATION Spec
INVARIANT Restored
