SPECIFICATION Spec
CONSTANTS
    Commands = {"single", "multi", "deep"}
INVARIANTS
    CancelledRunExits130Or143
