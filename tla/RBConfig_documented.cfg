SPECIFICATION ConfSpec
CONSTANTS
    Word = 8
    USHRT_MAX = 65535
    NodeExtras <- SmallExtras
    Capacities <- EdgeCapacities
    ValueSizes <- SmallSizes
INVARIANTS
    DocumentedExtraHoldsValue
