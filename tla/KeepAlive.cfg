\* The reloads 150 and 1500 scaled to 3 and 7, a call of up to two ticks, and up to
\* two calls in succession that cannot be written.
CONSTANTS
  Senders = {gui, cw}
  Watchdog = watchdog
  WdReload = 3
  SendReload = 7
  CallTicks = 2
  MaxDeaf = 2
SPECIFICATION FairSpec
INVARIANTS
  TypeOK
  ZeroIsSeen
  SilenceBounded
PROPERTY RadioHearsFromUs
CHECK_DEADLOCK TRUE
