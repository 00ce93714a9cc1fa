SPECIFICATION FairSpec
CONSTANTS
  x = x
  Contexts = {x}
  Roots <- MCRoots
  Handlers <- MCHandlers
  Capacity = 4
  PoisonThreshold = 2
  MaxRaises = 2
  MaxLapses = 1
  MaxCrashes = 1
INVARIANTS TypeOK CheckpointFirst HandledOnce LostOnlyByRaising
PROPERTIES EndedStaysEnded LoopCloses
