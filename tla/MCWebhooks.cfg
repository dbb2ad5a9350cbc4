SPECIFICATION FairSpec
CONSTANTS
  confirming = confirming
  confirmed = confirmed
  Events = {confirming, confirmed}
  Followed = {confirmed}
  Base = 1
  Cap = 2
  Target = 2
  MaxRetries = 1
  Timeout = 1
  Grace = 1
  MaxAge = 8
  MaxOutage = 3
  Faults = {"insert", "add", "parked", "record", "crash", "workerDies", "behind", "reapAdd", "reapCrash"}
  MaxFaults = 1
  None = None
INVARIANTS
  HeldInOrder
PROPERTIES
  NeverRacesQueue
  
  LoggedIsDelivered
CHECK_DEADLOCK FALSE
