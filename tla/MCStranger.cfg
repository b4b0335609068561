SPECIFICATION Spec
CONSTANTS
    i1 = i1
    i2 = i2
    s1 = s1
    s2 = s2
    s3 = s3
    Invocations <- MCInvocations
    Sessions <- MCSessions
    InvocationOf <- MCInvocationOf
    Displays = {1}
    Platform = "unix"
    Interrupted = {i1, i2}
    Headed = {}
    Fragile = {s1, s2, s3}
    Reused = {s1, s2, s3}
PROPERTIES
    NoStrangerKilled
