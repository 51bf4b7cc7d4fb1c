SPECIFICATION KeysSpec
CONSTANTS
    nil = nil
    Node <- Slots9
    Value <- Keys
    Payload <- Pinned8
    AllowDuplicates = FALSE
    UseDirty = FALSE
    UseMarker = FALSE
    Positional = FALSE
    EnablesMarking = FALSE
    MaxDetached = 1
INVARIANTS
    TypeOK
    LinksOK
    SentinelIntact
    NoRedRed
    AssertsHold
    RotationBound
    OneTree
    Sorted
    BlackBalanced
    HeightBound
    InductiveInvariant
PROPERTIES
    StableHandles
    CallsAdvance
