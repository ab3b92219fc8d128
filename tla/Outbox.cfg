\* Two commands, two calls, commands issued during a replay too: what is stored
\* gets there, and in order as long as nothing overlapped since the last rest.
SPECIFICATION FairSpec
CONSTANTS
  MaxCommands = 2
  MaxCalls = 2
  Kinds = {"on", "off"}
  Outcomes = {"ACKED", "FAILED"}
  Races = {"mid_replay"}
CHECK_DEADLOCK FALSE
INVARIANTS TypeOK LiveCallRegistered NothingStranded LastOrderlyDecides StrippedNeverReplayed
PROPERTIES EveryCommandAttempted
