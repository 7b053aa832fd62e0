SPECIFICATION Spec
CONSTANTS
    Operators = {me, other}
    SlotsPerEpoch = 4
    HandoverSlots = 1
    AnchorIdLag = 2
    MaxOffset = 8
    FirstHead = 5
    LastSlot = 7
    MaxNumber = 2
    Environments <- UsualEnvironments
SYMMETRY OperatorSymmetry
INVARIANTS
    TypeOK
    AnchorsGrow
    AcceptableToTheEnd
