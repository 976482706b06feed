CONSTANTS
    Callers = {c1, c2}
    Keys = {r1, w1}
    r1 = r1
    w1 = w1
    Mutating = {w1}
    Retryable = {r1}
    MaxGen = 2
    NoOwner = NoOwner
    Nothing = Nothing
SPECIFICATION FairSpec
INVARIANTS MutatesOnce MutationNotDenied OneHandlerPerClaim CacheCommitted
PROPERTIES ImplementsDecidedOutcome CallsReturn
