SPECIFICATION Spec
CONSTANTS
  Sources = {s1, s2}
  Half = 2
  Window = 2
  MaxRoc = 2
  MaxSources = 1
INVARIANTS
  TypeOK
  OnceAsSent
  WindowExact
  InReachAccepted
SYMMETRY Symmetry
