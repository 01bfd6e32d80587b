SPECIFICATION FairSpec
CONSTANTS
  Events = {e1, e2}
  Workers = {w1, w2}
  Limit = 2
  MaxTroubles = 1
  MaxDeaths = 1
INVARIANTS TypeOK PublishedIsDelivered DuplicatesExplained
PROPERTIES PublishedStays EventsArePublished
CHECK_DEADLOCK FALSE
