SPECIFICATION FairSpec
CONSTANTS
  Holders = {h1, h2}
  MaxResults = 4
  Urls <- MCUrls
  UrlsDialled <- MCUrlsDialled
CHECK_DEADLOCK FALSE
INVARIANTS
  RaceKeepsOneSocket
  FailsOnlyIfAllFailed
  StoppedOnceAfterStart
  AliveWhileRunning
  SleepersKnow
  DropLostOnlyWhileDialling
  DecodesAsReference
PROPERTIES
  ImplementsConnection
  RaceIsDecided
  ReleasedIsDestroyed
