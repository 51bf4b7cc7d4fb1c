SPECIFICATION FairSpec
CONSTANTS
    nil = nil
    Node <- Slots6
    Value <- Keys
    Payload <- EvenOrEight
    AllowDuplicates = TRUE
    UseDirty = FALSE
    UseMarker = FALSE
    Positional = FALSE
    EnablesMarking = FALSE
    MaxDetached = 1
INVARIANTS
    NeighboursFollowOrder
    SearchFindsWhatIsThere
    SearchStartsRange
    CountIsExact
PROPERTIES
    Termination
    ImplementsFairly
