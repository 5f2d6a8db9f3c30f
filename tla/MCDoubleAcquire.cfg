SPECIFICATION Spec
CONSTANTS
  s1 = s1
  s2 = s2
  s3 = s3
  s4 = s4
  c1 = c1
  c2 = c2
  Subs <- MCSubs
  Channels <- MCChannels
  Topic <- MCTopic
  None = None

INVARIANT ReleaseFindsAcquired
