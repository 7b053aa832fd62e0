SPECIFICATION Spec
CONSTANTS
    Me = me
    Operators = {me, other}
    SlotsPerEpoch = 6
    HandoverSlots = 2
    SubslotsPerSlot = 3
    HandoverBuffer = 1
    AnchorIdLag = 3
    LastEpoch = 2
    Environments <- UsualEnvironments
INVARIANTS
    TypeOK
    BuildsInTurnIfTolerable
    AnchorFresh
    TimelyInv
    PromptInv
PROPERTIES
    DecidesByWindow
    TakesItsTurn
    RecoversFromSlowStart
