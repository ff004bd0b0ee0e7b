SPECIFICATION Spec
CONSTANTS
  Pods = {p1, p2}
  Conns = {c1, c2}
  None = None
  MaxFaults = 0
  MaxSends = 1
SYMMETRY Symmetry
CHECK_DEADLOCK FALSE
INVARIANT LiveAgentIsListed
