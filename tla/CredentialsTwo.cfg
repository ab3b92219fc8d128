SPECIFICATION Spec
CONSTANTS
  u = u
  p1 = p1
  p2 = p2
  q1 = q1
  Users = {u}
  Ops = {p1, p2}
  Sweeps = {q1}
  MaxQueued = 1
  Races = {"abort"}
SYMMETRY Symmetry
CHECK_DEADLOCK FALSE
INVARIANTS TypeOK NothingLeftOn GoneIsOff
