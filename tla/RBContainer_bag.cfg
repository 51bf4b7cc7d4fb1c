SPECIFICATION FairContainerSpec
CONSTANTS
    nil = nil
    Node <- Slots5
    Value <- Values2
    Payload <- TwoOfEach
    AllowDuplicates = TRUE
    UseDirty = FALSE
    UseMarker = FALSE
    Positional = FALSE
    EnablesMarking = FALSE
    MaxDetached = 1
    Owned = TRUE
    UseExtra = FALSE
INVARIANTS
    RetainedOncePerNode
PROPERTIES
    ImplementsValueBag
