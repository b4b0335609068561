SPECIFICATION Spec
CONSTANTS
    Commands = {"deep"}
INVARIANTS
    AtMostOneEnvelope
