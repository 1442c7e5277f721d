SPECIFICATION FairSpec
CONSTANTS
  Keys = {a}
  Cmd = Cmd
  Char = Char
  Letter = Letter
  QueueCap = 2
  PasteBatch = 1
  TextLen = 1
  MaxConnect = 2
  MaxEdit = 1
  Acts = {"key", "repeat", "cmd", "paste", "panel in paste"}
INVARIANT NoInputFromOtherSession
PROPERTIES
  NeverRevived
  SessionSettles
CHECK_DEADLOCK FALSE
