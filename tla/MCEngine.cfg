CONSTANTS
  Flag = {"-game", "-server", "-dedicated", "-v", "-x"}
  Word = {"base", ""}
  MaxArguments = 5
SPECIFICATION EngineSpec
INVARIANTS EngineInv NothingLeftBehind GameIsServed ParsedRight
PROPERTIES WalkSeesSameMap
CHECK_DEADLOCK FALSE
