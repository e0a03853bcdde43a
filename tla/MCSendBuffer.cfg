CONSTANTS
  Element <- MCElement
  Traffic <- MCTraffic
  Blank = Blank
  Size = 7
  ExtraSize = 3
  HeaderSize = 2
  SocketSize = 3
  MaxEvents = 2
  IoThread = {t1, t2}
  QueueSize = 4
  MaxPosts = 6
SPECIFICATION MCSpec
CHECK_DEADLOCK FALSE
INVARIANTS
  EventTypeOK
  SentWhole
  BacklogHeard
  SleepersWereBusy
PROPERTIES
  SentOrDisarmed
  Progress
