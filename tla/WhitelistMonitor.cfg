SPECIFICATION Spec
CONSTANTS
    Operators = {me, other, third}
    NoOperator = none
    LastEpoch = 6
INVARIANTS
    TypeOK
    OnePerEpoch
    ReadsAgree
PROPERTY ImplementsSpec
