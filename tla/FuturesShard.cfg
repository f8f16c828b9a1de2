SPECIFICATION Spec
CONSTANTS
  MaxId = 5
  Bids = {"b"}
  Asks = {"a"}
  VenueBook <- MCVenueBook
  MaxEvents = 2
  MaxAttempts = 2
  Cooldown = 1
  QueueCap = 2
  RestLag = 2
  SeedsBook = TRUE
INVARIANTS
  BookIsVenueBook
  MissesOnlyByLag
PROPERTY FollowsVenue
CHECK_DEADLOCK FALSE
