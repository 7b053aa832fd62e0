SPECIFICATION Spec
CONSTANTS
    Me = me
    Operators = {me, other}
    SlotsPerEpoch = 2
    HandoverSlots = 2
    SubslotsPerSlot = 2
    HandoverBuffer = 1
    AnchorIdLag = 2
    LastEpoch = 2
    Environments <- TimelyEnvironments
INVARIANTS
    BuildsInTurnIfTolerable
    HandoverWaits
PROPERTY WaitCostsNoTurn
