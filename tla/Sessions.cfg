\* Two sign-ins, two changes of the account, two renewals of each session.
SPECIFICATION Spec
CONSTANTS
  r1 = r1
  r2 = r2
  Apps <- MCApps
  Requests <- MCRequests
  Of <- MCOf
  MaxSessions = 2
  MaxVersion = 2
  MaxIssued = 2
  Races = {"late"}
CHECK_DEADLOCK FALSE
SYMMETRY MCSymmetry
INVARIANTS TypeOK OneRenewal RefusedForCause LiveIsCurrent
