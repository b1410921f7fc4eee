SPECIFICATION Spec
CONSTANTS
    NumOverlays = 3
    Choosing <- Upper
    Covering <- Both
    NumSlots = 2
    ChildLengths <- OneAndTwo
INVARIANTS
    CallbacksOrdered
    ResetsReach
    TimeKept
    SelectionFollowed
    PictureCurrent
    OnlyVisibleServed
