CONSTANTS
  Client = {}
  Port = {5001}
  User <- MCUser
  Text = {"login"}
  MaxSends = 0
  MaxRun = 2
  Fault = {"crash", "break", "refuse"}
  NoUser = NoUser
SPECIFICATION MCSpec
CHECK_DEADLOCK FALSE
INVARIANTS
  SessionBack
PROPERTIES
  LinkedOrLost
  Served
