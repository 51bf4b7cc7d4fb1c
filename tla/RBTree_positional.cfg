SPECIFICATION Spec
CONSTANTS
    nil = nil
    Node = {n1, n2, n3, n4, n5, n6}
    Value = {1}
    Payload <- Anything
    AllowDuplicates = TRUE
    UseDirty = FALSE
    UseMarker = FALSE
    Positional = TRUE
    EnablesMarking = TRUE
    MaxDetached = 1
SYMMETRY SlotSymmetry
PROPERTIES
    ImplementsOrderedNodes
    MarksTouched
