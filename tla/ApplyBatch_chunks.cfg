SPECIFICATION ApplySpec
CONSTANTS
    N = 7
    WriteLimit = 3
    MaxAttempts = 4
INVARIANTS
    ReturnMeansApplied
    NoResend
PROPERTY ApplySettles
