SPECIFICATION Spec
CONSTANTS
  s1 = s1
  s2 = s2
  t1 = t1
  t2 = t2
  AcceptSession = {s1}
  ConnectSession = {}
  IoThread = {t1, t2}
  MaxAccept = 1
  QueueSize = 2
  RecvSize = 2
  HasTimeOut = TRUE
  AppOps = {"send", "order"}
  MaxConns = 1
  MaxSent = 2
  NULL = NULL
INVARIANTS
  StreamIntact
  SendNotStuck
