SPECIFICATION FairSpec
CONSTANTS
  Intents <- MCIntents
  MaxQty = 2
  Modes = {"PAPER", "LIVE"}
  Adapter = "tokocrypto"
  MaxExecs = 2
  MaxOrders = 2
  CreatedAt <- MCClock
  None = None
INVARIANTS IInv GateOnlyDuringLiveCall
PROPERTIES ImplementsLedger PaperLeavesVenueAlone RecoveryLeavesNoneInFlight
