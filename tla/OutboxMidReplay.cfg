SPECIFICATION Spec
CONSTANTS
  MaxCommands = 2
  MaxCalls = 2
  Kinds = {"on", "off"}
  Outcomes = {"ACKED"}
  Races = {"mid_replay"}
CHECK_DEADLOCK FALSE
INVARIANTS LastCommandDecides
