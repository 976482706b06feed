CONSTANTS
    Queries = {q1, q2}
    CoreSql = {q1}
    Sqls = {s1, s2}
    GoodSql = {s1}
    NoSql = NoSql
    Compiled = Compiled
    MaxWorkers = 1
    MaxRepairs = 1
    MaxSubmissions = 2
    BranchContractLimit = 2
    BranchDorisLimit = 1
    DorisLimit = 2
    MaxCalls = 2
SPECIFICATION FairSpec
CHECK_DEADLOCK FALSE
PROPERTY BatchReturns
