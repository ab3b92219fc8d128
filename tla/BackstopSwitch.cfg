SPECIFICATION Spec
CONSTANTS
  pc = pc
  phone = phone
  Devices = {pc, phone}
  Apps = {}
  Shared = {}
  Limit = 1
  Period = 3
  Phases <- MCPhases
  Fresh = 4
  Gap = 2
  Lease = 9
  MaxLost = 0
  Starts <- MCOneAtATime
  Races = {}
INVARIANT CleanSwitchHoldsNobody
