SPECIFICATION FairSpec
CONSTANTS
  u = u
  p1 = p1
  p2 = p2
  q1 = q1
  Users = {u}
  Ops = {p1}
  Sweeps = {q1}
  MaxQueued = 1
  Races = {}

CHECK_DEADLOCK FALSE
PROPERTIES LiveIsServed DeadIsOff SignedOutGoes
