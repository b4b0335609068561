SPECIFICATION Spec
CONSTANTS
    NumQueries = 3
    Configs <- MCConfigs
    PanicUnwinds = TRUE
INVARIANTS
    TypeOK
    NothingLostInFlight
    SuccessMeansComplete
PROPERTIES
    EndsWithoutChrome
