\* Liveness on a small instance: two callers and the telemetry thread.
CONSTANTS
  Callers = {gui, watchdog}
  Gui = gui
  Telemetry = telemetry
  MaxTries = 1
  Loops = 2
  DataVals = {"FF"}
  StackSize = 1
  MaxRequests = 2
  MaxOnLine = 1
SPECIFICATION FairSpec
PROPERTY EveryCallReturns
CHECK_DEADLOCK TRUE
