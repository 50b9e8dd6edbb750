SPECIFICATION FairSpec
CONSTANTS
  Timeout = 2
  MaxAge = 3
  Backlog = 1
  MaxNonces = 1
  MaxRequests = 3
  MaxDeaths = 1
INVARIANT TypeOK
PROPERTIES ImplementsInputPort BegunInTime CallsEnd
CHECK_DEADLOCK FALSE
