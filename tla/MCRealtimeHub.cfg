CONSTANTS
  h1 = h1
  h2 = h2
  c1 = c1
  Null = Null
  Hubs <- TwoHubs
  Clients <- OneClient
  Wanted <- Everything
  MaxEvents = 2
  StreamMax = 1
  QueueMax = 2
  LocalMax = 1
  MaxOutages = 1
SPECIFICATION HSpec
INVARIANTS FramesInOrder PumpArmed
PROPERTIES BacklogsDrain HubsResubscribe
CHECK_DEADLOCK FALSE
