SPECIFICATION Spec
CONSTANTS
  Keys = {a}
  Cmd = Cmd
  Char = Char
  Letter = Letter
  QueueCap = 2
  PasteBatch = 1
  TextLen = 1
  MaxConnect = 1
  MaxEdit = 2
  Acts = {"key", "mouse", "cmd", "focus", "panel", "copy", "paste"}
INVARIANTS
  TypeOK
  OnlyTrackedKeysDown
  
CHECK_DEADLOCK FALSE
