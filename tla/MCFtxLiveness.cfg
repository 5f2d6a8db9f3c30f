SPECIFICATION FairSpec
CONSTANTS
  s1 = s1
  s2 = s2
  c1 = c1
  Subs <- MCSubs
  Channels <- MCChannels
  Topic <- MCTopic
  None = None
  HasAuth = TRUE
  MaxInbound = 1
  MaxFaults = 1
CHECK_DEADLOCK FALSE
PROPERTIES
  TeardownCompletes
  StopTerminates
  SubscriptionOpens
  StopReleases
