SPECIFICATION Spec
CONSTANTS
    nil = nil
    Node = {n1, n2}
    Value = {1}
    Payload <- Anything
    AllowDuplicates = FALSE
    UseDirty = FALSE
    UseMarker = FALSE
    Positional = FALSE
    EnablesMarking = FALSE
    MaxDetached = 2
INVARIANTS
    ReturnsAsDocumented
