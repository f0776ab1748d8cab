SPECIFICATION FairSpec
CONSTANTS
    a = a
    b = b
    c = c
    Runtimes = {a, b, c}
    Takeovers = {b, c}
    MaxMishaps = 1
INVARIANTS StatusAgrees OneReplacer
PROPERTIES ShutdownObeyed
CHECK_DEADLOCK FALSE
