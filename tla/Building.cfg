CONSTANTS
    Slots = 3
    Buffer = 1
    OtherBlocks = 2
    Environments <- UsualEnvironments
SPECIFICATION Spec
INVARIANTS
    TypeOK
    BuildsOnEndIfSynced
    HandsOverIfCalm
PROPERTIES
    KeepsItsBlocksIfPrompt
    HeaderIsStored
    SyncComes
