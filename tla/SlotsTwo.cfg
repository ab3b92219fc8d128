\* Two devices on a plan of one, two requests in flight.
SPECIFICATION Spec
CONSTANTS
  s1 = s1
  s2 = s2
  r1 = r1
  r2 = r2
  NoSession = NoSession
  Sessions = {s1, s2}
  Requests = {r1, r2}
  Grants = {1, 2, 3, 4, 5}
  Limits = {1}
  StaleAfter = 0
  OperatorSets = {"ACTIVE"}
SYMMETRY Symmetry
INVARIANTS TypeOK SlotLimit LockHandedOn
PROPERTIES NeverStoppedWithRoom LateReleaseFreesNothing
