SPECIFICATION FairContainerSpec
CONSTANTS
    nil = nil
    Node <- Slots5
    Value <- Values4
    Payload <- PinnedButLast
    AllowDuplicates = FALSE
    UseDirty = TRUE
    UseMarker = FALSE
    Positional = FALSE
    EnablesMarking = FALSE
    MaxDetached = 1
    Owned = TRUE
    UseExtra = FALSE
INVARIANTS
    ContainerTypeOK
    RetainedOncePerNode
    DoneReleasesAll
    CleanBetweenCalls
PROPERTIES
    ImplementsValueBag
