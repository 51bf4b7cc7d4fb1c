SPECIFICATION Spec
CONSTANTS
    nil = nil
    Node <- Slots5
    Value <- Values4
    Payload <- PinnedButLast
    AllowDuplicates = FALSE
    UseDirty = TRUE
    UseMarker = FALSE
    Positional = FALSE
    EnablesMarking = FALSE
    MaxDetached = 2
INVARIANTS
    KeysUnique
    InductiveOrder
PROPERTIES
    ImplementsOrderedNodes
