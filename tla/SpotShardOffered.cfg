SPECIFICATION PublishSpec
CONSTANTS
  MaxId = 4
  Bids = {"b"}
  Asks = {"a"}
  VenueBook <- MCVenueBook
  MaxEvents = 2
  MaxAttempts = 2
  Cooldown = 1
  QueueCap = 2
  RestLag = 1
CHECK_DEADLOCK FALSE
PROPERTY AppliedIsOffered
