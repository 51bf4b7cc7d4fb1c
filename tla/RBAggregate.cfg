SPECIFICATION AggKeysSpec
CONSTANTS
    nil = nil
    Node <- Slots7
    Value <- Keys
    Payload <- Pinned5
    AllowDuplicates = FALSE
    UseDirty = TRUE
    UseMarker = FALSE
    Positional = FALSE
    EnablesMarking = FALSE
    MaxDetached = 1
INVARIANTS
    FreshWhereClean
    DirtyPropagates
PROPERTIES
    CleanAfterWalk
