\* Three threads share the port; every command is written up to twice.
CONSTANTS
  Callers = {gui, watchdog}
  Gui = gui
  Telemetry = telemetry
  MaxTries = 2
  Loops = 2
  DataVals = {"FF"}
  StackSize = 1
  MaxRequests = 2
  MaxOnLine = 1
SPECIFICATION Spec
INVARIANTS
  TypeOK
  VerdictSound
  AtMostMaxTries
PROPERTY
  ChannelSpec
CHECK_DEADLOCK TRUE
