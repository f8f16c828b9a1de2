SPECIFICATION PublishSpec
CONSTANTS
  MaxId = 5
  Bids = {"b"}
  Asks = {"a"}
  VenueBook <- MCVenueBook
  MaxEvents = 2
  MaxAttempts = 2
  Cooldown = 1
  QueueCap = 3
  RestLag = 2
INVARIANTS
  TypeOK
  BookIsVenueBook
  LiveMeansFresh
  CircuitCountsFailures
  SubscriberInStep
PROPERTY FollowsVenue
CHECK_DEADLOCK FALSE
