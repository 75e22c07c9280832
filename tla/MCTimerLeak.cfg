CONSTANTS
  SimMod = 8
  IdMod = 4
  UsPerMs = 2
  Elapsed = {1}
  MaxTimers = 3
  Event = {1}
  Wait = {0}
  MaxSimMS = 0
  Throwing = {"delegate", "network"}
SPECIFICATION LoopSpec
INVARIANT TickTimerIsUppermost
CHECK_DEADLOCK FALSE
