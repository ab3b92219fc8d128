\* Three devices under a plan that changes: unlimited, one, two.
SPECIFICATION Spec
CONSTANTS
  s1 = s1
  s2 = s2
  s3 = s3
  r1 = r1
  NoSession = NoSession
  Sessions = {s1, s2, s3}
  Requests = {r1}
  Grants = {1, 2, 3}
  Limits = {0, 1, 2}
  StaleAfter = 0
  OperatorSets = {}
SYMMETRY Symmetry
PROPERTIES OnlyAsManyAsItTakes ImplementsSlotSet
