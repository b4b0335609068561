SPECIFICATION Spec
CONSTANTS
    i1 = i1
    i2 = i2
    s1 = s1
    s2 = s2
    s3 = s3
    Invocations <- MCInvocations
    Sessions <- MCSessions
    InvocationOf <- MCInvocationOf
    Displays = {1, 2}
    Platform = "linux"
    Interrupted = {}
    Headed = {s1, s2, s3}
    Fragile = {}
    Reused = {}
INVARIANTS
    PrivateDisplay
