SPECIFICATION Spec
CONSTANTS
    Me = me
    Operators = {me, other}
    SlotsPerEpoch = 3
    HandoverSlots = 1
    SubslotsPerSlot = 2
    HandoverBuffer = 1
    AnchorIdLag = 3
    LastEpoch = 2
    Environments <- FaultyEnvironments
INVARIANT BuildsInTurn
