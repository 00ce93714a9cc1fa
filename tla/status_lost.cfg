SPECIFICATION Spec
CONSTANTS
  Intents <- MCIntents
  MaxQty = 1
  Modes = {"LIVE"}
  Adapter = "tokocrypto"
  MaxExecs = 2
  MaxOrders = 2
  CreatedAt <- MCClock
  None = None
PROPERTIES StatusAsAtVenue
