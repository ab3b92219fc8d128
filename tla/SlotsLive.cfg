\* Two devices on a plan of one, left alone eventually.
SPECIFICATION FairSpec
CONSTANTS
  s1 = s1
  s2 = s2
  r1 = r1
  NoSession = NoSession
  Sessions = {s1, s2}
  Requests = {r1}
  Grants = {1, 2, 3, 4}
  Limits = {1}
  StaleAfter = 1
  OperatorSets = {"ACTIVE", "SUSPENDED"}
PROPERTIES UseConverges SlotRegained
