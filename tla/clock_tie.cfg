SPECIFICATION Spec
CONSTANTS
  Intents <- MCIntents
  MaxQty = 1
  Modes = {"LIVE"}
  Adapter = "tokocrypto"
  MaxExecs = 3
  MaxOrders = 2
  CreatedAt <- MCStoppedClock
  None = None
INVARIANTS OneClaimPerClientId
