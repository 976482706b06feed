CONSTANTS
    Tasks = {t1}
    Workers = {w1, w2}
    w1 = w1
    w2 = w2
    o1 = o1
    o2 = o2
    Owners = {o1, o2}
    NoOwner = NoOwner
    OwnerOf <- SharedId
    MaxAttempts = 2
    Isolated = TRUE
    MaxCrashes = 2
SPECIFICATION FairSpec
INVARIANTS OneLease ResultOfNewestClaim AttemptsBounded AnswerStands
PROPERTIES DecidedOnce EventuallyDecided
