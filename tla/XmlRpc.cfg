\* Two calls, each with a timeout or without; the server stops up to twice: a retry can meet a
\* second stop, and a call can begin on a connection that a stop has closed.
CONSTANTS
  MaxCalls = 2
  MaxCrashes = 2
SPECIFICATION FairSpec
INVARIANTS
  TypeOK
  AnswersItsOwnCall
  OncePerLife
  FailsForACause
PROPERTIES
  RemoteCallSpec
  CallsReturn
CHECK_DEADLOCK FALSE
