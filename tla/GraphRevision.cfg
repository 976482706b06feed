CONSTANTS
    MaxCalls = 3
    Proposals = {a, b}
    MaxRevisions = 2
    MaxFaults = 2
    NoGraph = NoGraph
SPECIFICATION FairSpec
INVARIANTS GateIsClaimed  PendingRecoverable SettledAgree
PROPERTIES ImplementsRevisionLog HeadAdvances CallsReturn 
