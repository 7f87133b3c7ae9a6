\* The last section of cbExit joins a thread that has already ended.
CONSTANTS
  MaxElements = 1
  MaxRequests = 1
SPECIFICATION Spec
INVARIANT ClientClosedAfterLastUse
CHECK_DEADLOCK FALSE
