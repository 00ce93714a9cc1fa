SPECIFICATION Spec
CONSTANTS
  Intents <- MCIntents
  MaxQty = 1
  Modes = {"LIVE"}
  Adapter = "ccxt"
  MaxExecs = 2
  MaxOrders = 2
  CreatedAt <- MCClock
  None = None
INVARIANTS OneOrderPerExecution
