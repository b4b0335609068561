SPECIFICATION Spec
CONSTANTS
    i1 = i1
    i2 = i2
    s1 = s1
    s2 = s2
    s3 = s3
    Invocations <- MCInvocations
    Sessions <- MCSessions
    InvocationOf <- MCInvocationOf
    Displays = {1}
    Platform = "linux"
    Interrupted = {i1}
    Headed = {s1}
    Fragile = {s1}
    Reused = {s1}
INVARIANTS
    TypeOK
    UnregisteredIsLaunching
    
    
PROPERTIES
    InvocationsEnd
