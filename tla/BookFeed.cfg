SPECIFICATION FairSpec
CONSTANTS
  t1 = t1
  t2 = t2
  t3 = t3
  Tokens = {t1, t2, t3}
  MaxFollowed = 2
  Pipelines = {p1}
  Refresher = r
  Scopes <- MCScopes
INVARIANTS
  TypeOK
  CaughtUp
  BestIsGenuine
PROPERTIES
  FollowedIsSubscribed
