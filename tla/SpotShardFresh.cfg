SPECIFICATION FairPublishSpec
CONSTANTS
  MaxId = 5
  Bids = {"b"}
  Asks = {"a"}
  VenueBook <- MCVenueBook
  MaxEvents = 2
  MaxAttempts = 2
  Cooldown = 2
  QueueCap = 3
  RestLag = 0
INVARIANT NoMissedDelta
PROPERTY StaleIsRecovered
CHECK_DEADLOCK FALSE
