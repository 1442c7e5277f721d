SPECIFICATION Spec
CONSTANTS
  Keys = {a}
  Cmd = Cmd
  Char = Char
  Letter = Letter
  QueueCap = 4
  PasteBatch = 2
  TextLen = 1
  MaxConnect = 1
  MaxEdit = 2
  Acts = {"cmd", "paste", "panel", "panel in paste"}
INVARIANT OnlyTrackedKeysDown
CHECK_DEADLOCK FALSE
