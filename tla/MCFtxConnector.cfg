SPECIFICATION ConnectorSpec
CONSTANTS
  s1 = s1
  s2 = s2
  c1 = c1
  Subs <- MCSubs
  Channels <- MCChannels
  Topic <- MCTopic
  None = None
  HasAuth = TRUE
  MaxInbound = 2
  MaxFaults = 2
SYMMETRY Symmetry
CHECK_DEADLOCK FALSE
INVARIANTS
  ConnectorTypeOK
  NoStaleFrames
  LoginLeads
  OnePingAtATime
  NoOrphanSubscription
  HandoverClean
PROPERTIES
  ImplementsConnection
