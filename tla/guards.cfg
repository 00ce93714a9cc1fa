SPECIFICATION Spec
CONSTANTS
  e1 = e1
  e2 = e2
  k1 = k1
  MinDwell = 2
  Brief = 1
  Stability = 4
  Samples <- MCSamples
  Equities = {0, 8, 9, 10}
  MaxDailyLossPct = 10
  MaxDrawdownPct = 20
  MaxConsecutiveLosses = 2
  Executions = {e1, e2}
  ClientIds = {k1}
  ClientOf <- MCClientOf
  Schedule <- MCSchedule
  Stoppers = {"gui", "agent"}
  Loops = {"t1", "t2", "t3"}
  NoThread = "none"
  alarm = alarm
  fill = fill
  note = note
  Keys = {alarm, fill, note}
  Priority <- MCPriority
  MaxSize = 2
  Rate = 1
  Minute = 1
  MaxRetry = 1
  MaxPublished = 4
  NoKey = none
  Threads = {"loop", "operator"}
  Loop = "loop"
  BaseBackoff = 1
  MaxBackoff = 1
INVARIANTS TypeOK CriticalCoolsDown NoEntryInTheRed BlocksUntilOver OneSupervisor PaperUnlessLive
PROPERTIES UrgentKept UrgentTold Recovers
