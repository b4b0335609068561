SPECIFICATION Spec
CONSTANTS
    Commands = {"single", "multi", "deep"}
INVARIANTS
    TypeOK
    CodeNamesFirstSignal
    MainLeavesNoChrome
    TimeoutIsReported
    DocumentsBounded
PROPERTIES
    AlwaysExits
