CONSTANTS
  Client = {1, 2}
  Port = {5001, 5002}
  User <- MCUser
  Text = {"login"}
  MaxSends = 2
  NoUser = NoUser
  MaxRun = 1
  Fault = {}
SPECIFICATION Spec
CHECK_DEADLOCK FALSE
INVARIANTS
  TablesRight
  AnswerToPort
  AnswersRight
