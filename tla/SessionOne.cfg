SPECIFICATION Spec
CONSTANTS
  Handles = {1, 2, 3}
  MaxCalls = 2
  Races = {}
CHECK_DEADLOCK FALSE
INVARIANTS TypeOK OffIsGivenBack RefusedTunnelIsOwed
PROPERTIES NeverFreesItsOwn ChosenNotInTheWay
