SPECIFICATION Spec
CONSTANTS
  Sources = {1, 2}
  SeqSpace = 8
  TsSpace = 8
  HOLD = 1
  IDLE = 2
  AGE = 3
  DISCOVERY = 1
  QUIET = 1
  ADOPT = 2
  CANDIDATE = 1
  MAX_GROUPS = 2
  MAX_GROUP_BYTES = 2
  MAX_PENDING_BYTES = 3
  TileCounts = {1}
  Plans <- OneStream
  MaxReoffer = 0
INVARIANT LossNotCleared
CHECK_DEADLOCK FALSE
