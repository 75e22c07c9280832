CONSTANTS
  SimMod = 6
  IdMod = 3
  UsPerMs = 2
  Elapsed = {1}
  MaxTimers = 4
  Event = {1, 2}
  Wait = {0, 1}
  MaxSimMS = 0
  Throwing = {"delegate", "network"}
SPECIFICATION FairLoopSpec
INVARIANT SimTimeIsBusyTime
PROPERTIES OnlyUppermostCounts FrozenOnceLeaked NeverEarlyInLoop DueEventRuns LoopServesJobs
CHECK_DEADLOCK FALSE
