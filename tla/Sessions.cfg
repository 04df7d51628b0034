SPECIFICATION FairSpec
INVARIANTS TypeOK CleanWhenIdle AnswersMatch OneRequestAtATime TellsTruth
PROPERTIES CtxHonoured
CONSTANTS
  c1 = c1  c2 = c2
  NoCaller = NoCaller
  Caller = {c1, c2}
  Kinds = {"prepare", "exec", "query", "begin", "commit", "rollback", "stmtExec", "stmtQuery", "stmtClose", "admin"}
  Pools = {TRUE, FALSE}
  Deadlines = {TRUE, FALSE}
  TxDeadlines = {FALSE}
  ClientDeadlines = {TRUE}
  MaxOps = 4
  MaxParts = 1
  MaxTries = 1
  MaxBreaks = 1
CHECK_DEADLOCK FALSE
