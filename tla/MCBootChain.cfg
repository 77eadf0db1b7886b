SPECIFICATION Spec
CONSTANTS
    LastFrame = 19
    Frames <- MCFrames
    LoaderFrames <- MCFrames
    Low = 7
    ImagePages = 2
    MaxRanges = 3
    LargePages = 4
    HugePages = 8
    Unset = unset
    HeaderLists <- MCHeaderLists
    FilePages = 2
    PageUnits = 4
    TableSize = 2
    DirSize = 2
    DirectCount = 2
    ModeLists <- MCModeLists
    RsdpLists <- MCRsdpLists
    Garbage = {0, 4, 9}
    MaxDescriptors = 9
    Orders <- MCOrders
    Layouts <- MCLayouts
INVARIANTS
    HandoverTrue
    TableExact
    IdentityEnds
    DescriptorsSurvive
    KernelFramesKept
CHECK_DEADLOCK FALSE
