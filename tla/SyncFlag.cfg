SPECIFICATION Spec
CONSTANTS
  s1 = s1
  s2 = s2
  t1 = t1
  t2 = t2
  AcceptSession = {s1}
  ConnectSession = {}
  IoThread = {t1}
  MaxAccept = 1
  QueueSize = 1
  RecvSize = 1
  HasTimeOut = FALSE
  AppOps = {}
  MaxConns = 2
  MaxSent = 1
  NULL = NULL
PROPERTIES
  AcceptResetsFlag
