CONSTANTS
    Anchor = anchor
    FieldBytes = 5
    MaxIterations = 2
    TimeShiftWidth = 4
    Gaps = {0, 1, 3, 4}
    Counts = {0, 2}
    MaxLength = 88
    Chains <- MCChains
    Streams <- MCStreams
SPECIFICATION Spec
INVARIANTS
    TypeOK
    FieldsCanonical
    DerivesBlocksIfFit
    VerifierAgreesIfAlike
