SPECIFICATION Spec
CONSTANTS
    Me = me
    Operators = {me, other}
    SlotsPerEpoch = 5
    HandoverSlots = 3
    MaxBlocksPerBatch = 2
    AnchorIdLag = 5
    MaxOffset = 8
    MaxTimeShift = 3
    ProposeTimeout = 3
    FirstSlots = {1, 3}
    LastSlot = 10
    MaxNumber = 3
    BlocksPerSlot = 1
    MaxCrashes = 1
    Environments <- CongestedEnvironments
PROPERTY OneProposal
