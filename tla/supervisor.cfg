SPECIFICATION FairSpec
CONSTANTS
  N = 2
  Background = {2}
  Timeout <- MCTimeout
  Grace = 1
  StuckAfter <- MCStuckAfter
  MaxAttempts <- MCMaxAttempts
  MaxEvents = 2
  Window = 1
  MaxRunning = 1
INVARIANTS TypeOK AttemptsWithinLimit ClosedMeansRoom ParkedMeansSafeMode
PROPERTIES NoHealingInStorm SilenceIsNoticed
