SPECIFICATION MCSpec
CONSTANTS
  s1 = s1
  s2 = s2
  s3 = s3
  s4 = s4
  c1 = c1
  c2 = c2
  Subs <- MCSubs
  Channels <- MCChannels
  Topic <- MCTopic
  None = None
  p1 = p1
  p2 = p2
  p3 = p3
  Poppers <- MCPoppers
  Capacities <- MCCapacities
  MaxItems = 3
  Waiters = {w1, w2, w3}
  Prices <- MCPrices
  Depths <- MCDepths
  Limits <- MCLimits
  KeyObjects = {k1, k2, k3}
  Documents <- MCDocuments
  Tree <- MCTree
  Written <- MCWritten
  Indexes <- MCIndexes
  JsonValues <- MCJsonValues
  Depth <- MCDepth
  NameOrder <- MCNameOrder
  PathOrder <- MCPathOrder
  Ordinal <- MCOrdinal
  MaxIndex = 2
INVARIANTS
  TypeOK
  InterestCovers
  HandlerLive
  WakeLostOnlyToStop
  ClosingOnlyOnStop
  WokenCoverItems
  Descending
  LevelsCurrent
  FixedKeysResolve
  EqualIffSameUse
  EntitiesUsableAsKeys
PROPERTIES
  NobodySleepsOnItem
  SetReleasesAll
  KeepsBest
  GrowsToLimit
