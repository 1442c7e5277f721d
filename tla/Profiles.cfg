SPECIFICATION Spec
CONSTANTS
  mac1 = mac1
  mac2 = mac2
  pw1 = pw1
  pw2 = pw2
  Dests = {mac1, mac2}
  NoDest = NoDest
  BadPort = BadPort
  Passwords = {pw1, pw2}
  NoPw = NoPw
  LegacyFiles <- LeftBehind
  MaxLaunches = 2
  MaxEdits = 1
INVARIANTS
  RestartReads
PROPERTIES
  AutoAsGranted
CHECK_DEADLOCK FALSE
