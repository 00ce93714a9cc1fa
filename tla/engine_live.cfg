SPECIFICATION FairSpec
CONSTANTS
  Intents <- MCIntents
  MaxQty = 2
  Modes = {"LIVE"}
  Adapter = "ccxt"
  MaxExecs = 2
  MaxOrders = 2
  CreatedAt <- MCClock
  None = None
INVARIANTS OneClaimPerClientId PersistedBeforeSent OwnOrder VenueDecides
PROPERTIES ImplementsLedger CallsEnd
