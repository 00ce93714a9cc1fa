SPECIFICATION GateSpec
CONSTANTS
  Threads = {"loop", "operator"}
  Loop = "loop"
  BaseBackoff = 1
  MaxBackoff = 1
PROPERTY HardStopRequiresHuman
