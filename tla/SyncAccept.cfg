SPECIFICATION Spec
CONSTANTS
  s1 = s1
  s2 = s2
  t1 = t1
  t2 = t2
  AcceptSession = {s1, s2}
  ConnectSession = {}
  IoThread = {t1}
  MaxAccept = 1
  QueueSize = 2
  RecvSize = 2
  HasTimeOut = FALSE
  AppOps = {}
  MaxConns = 3
  MaxSent = 1
  NULL = NULL
INVARIANTS
  CountAgrees
  SessionsRight
PROPERTIES
  ImplementsLists
  ImplementsObjects
