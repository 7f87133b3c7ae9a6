\* Exit requested at any moment; a character of up to two elements, two requests a round.
CONSTANTS
  MaxElements = 2
  MaxRequests = 2
SPECIFICATION FairSpec
INVARIANTS
  TypeOK
  PortClosedAfterLastUse
PROPERTY QuitEnds
CHECK_DEADLOCK FALSE
