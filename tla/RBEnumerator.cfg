SPECIFICATION EnumSpec
CONSTANTS
    nil = nil
    Node <- Slots4
    Value <- Slots4
    Payload <- PinnedOrTwo
    AllowDuplicates = TRUE
    UseDirty = FALSE
    UseMarker = FALSE
    Positional = FALSE
    EnablesMarking = FALSE
    MaxDetached = 1
    Owned = FALSE
    UseExtra = FALSE
INVARIANTS
    RoverInTree
    NoneSkippedNoneTwice
