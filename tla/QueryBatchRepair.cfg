CONSTANTS
    Queries = {q1, q2}
    CoreSql = {q1}
    Sqls = {s1, s2}
    GoodSql = {s1}
    NoSql = NoSql
    Compiled = Compiled
    MaxWorkers = 2
    MaxRepairs = 1
    MaxSubmissions = 2
    BranchContractLimit = 2
    BranchDorisLimit = 2
    DorisLimit = 4
    MaxCalls = 1
SPECIFICATION Spec
CHECK_DEADLOCK FALSE
INVARIANT RepairReachesBranch
