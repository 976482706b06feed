CONSTANTS
    Calls = {t1, t2}
    Contracts = {c1, c2}
    CoreSql = {c1}
    Sqls = {s1, s2, s3}
    GoodSql = {s1, s2}
    NoSql = NoSql
    Compiled = Compiled
    None = None
    MaxRepairs = 1
    MaxSubmissions = 2
    DorisLimit = 2
SPECIFICATION FairSpec
CHECK_DEADLOCK FALSE
INVARIANTS TypeOK SubmissionsBounded LedgerOfContract RowsOnce ReportNotOlder
PROPERTY CallsReturn
