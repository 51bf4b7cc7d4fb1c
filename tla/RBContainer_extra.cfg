SPECIFICATION FairContainerSpec
CONSTANTS
    nil = nil
    Node = {n1, n2}
    Value <- Values2
    Payload <- Anything
    AllowDuplicates = FALSE
    UseDirty = FALSE
    UseMarker = FALSE
    Positional = FALSE
    EnablesMarking = FALSE
    MaxDetached = 1
    Owned = TRUE
    UseExtra = TRUE
INVARIANTS
    DoneReleasesAll
