SPECIFICATION Spec
CONSTANTS
    NumQueries = 3
    Configs <- MCConfigs
    PanicUnwinds = TRUE
INVARIANTS
    TypeOK
    BudgetKept
    NoChromeOutlivesReport
    SomebodyCanMove
    NeverStuck
PROPERTIES
    KeepsPromise
