SPECIFICATION Spec
CONSTANTS
    MaxNumber = 3
    MaxFork = 2
    MaxBatches = 2
    Environments <- UsualEnvironments
INVARIANTS
    TypeOK
    CacheUnconfirmed
PROPERTIES
    ConfirmedGrows
    AlarmIsTrueIfCalm
    ComesToMirror
