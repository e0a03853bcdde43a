CONSTANTS
  Query = {q1, q2, q3}
  Worker = {w1, w2}
  NoQuery = NoQuery
  Spurious = TRUE
  MaxRun = 2
  select = select
  call = call
  multi = multi
  large = large
  Stmt = {select, call, multi, large}
  AnswerOf <- MCAnswerOf
  IsLarge <- MCIsLarge
  NoSet = NoSet
  NoStmt = NoStmt
  BlobSize = 5
  Chunk = 2
  MaxRowNum = 2
  MaxStmts = 3
SPECIFICATION MCSpec
CHECK_DEADLOCK FALSE
INVARIANTS
  AsleepOnlyIfMissed
  RowsRight
  LeaksNamed
PROPERTIES
  ServiceSpec
  Progress
