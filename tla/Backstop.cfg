SPECIFICATION FairSpec
CONSTANTS
  pc = pc
  phone = phone
  Devices = {pc, phone}
  Apps = {pc, phone}
  Shared = {}
  Limit = 1
  Period = 2
  Phases <- MCPhases
  Fresh = 3
  Gap = 2
  Lease = 6
  MaxLost = 1
  Starts <- MCStarts
  Races = {}
INVARIANTS TypeOK
PROPERTIES NeverCutsBelowLimit NoTurns OverLimitEnds HeldComesBack
