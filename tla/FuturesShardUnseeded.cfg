SPECIFICATION FairSpec
CONSTANTS
  MaxId = 4
  Bids = {"b"}
  Asks = {"a"}
  VenueBook <- MCVenueBook
  MaxEvents = 2
  MaxAttempts = 2
  Cooldown = 1
  QueueCap = 2
  RestLag = 1
  SeedsBook = FALSE
PROPERTY BookIsSeeded
CHECK_DEADLOCK FALSE
