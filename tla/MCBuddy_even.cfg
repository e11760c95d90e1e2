CONSTANTS
    MaxOrder = 2
    PageN = 14
    EndPage = 14
    Placement = 5
    Requests = {0, 1, 2}
SPECIFICATION Spec
INVARIANTS BlocksPartition MapAgrees Restored
PROPERTIES PagesSpec
