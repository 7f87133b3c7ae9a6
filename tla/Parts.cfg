\* One mode of each kind that the inhibit table tells apart; small tables, stacks and texts.
CONSTANTS
  f1 = f1
  f2 = f2
  Freqs = {f1, f2}
  Modes = {"USB", "CW", "AM"}
  Widths = {0, 2, 3, 7, 8}
  Start <- MCStart
  Presets <- MCPresets
  MaxCalls = 5
  MaxSettings = 3
  MaxNoops = 2
  StackSize = 3
  Chars = {"E", " "}
  MaxTyped = 2
  LISTSIZE = 4
  StoredFreqs = {1, 2}
  StoredModes = {"USB", "CW"}
  Starts = {1, 2, 3}
  Ports <- MCPorts
  BuiltIn <- MCBuiltIn
  Base = 2
  nD = 3
  MaxKeys = 5
  MaxNbr = 3
  RxModes = {"USB", "CW", "AM"}
  Levels = {0, 200}
  Depths = {0, 100}
  Speeds = {128, 250}
  MaxUses = 5
SPECIFICATION PartsSpec
INVARIANTS
  PartsTypeOK
  KeyedIsShown
  OwnPacketWhole
  ArrivesOrOvertaken
  StaysInArray
  RestingMeterShowsZero
  KeyedAsTyped
  LinesAreTheList
  PortOfNearestStart
  ShownIsTuned
  LoggedAsGiven
  ConnectMeansConnected
PROPERTIES
  KeepsAgreement
  PairingResyncs
  KeepsSettings
  NeverGoesBack
CHECK_DEADLOCK FALSE
