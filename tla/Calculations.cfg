SPECIFICATION Spec
CONSTANTS
  None = None
  t1 = t1
  t2 = t2
  Now <- Moment
  CopyCases <- CopySet
  LaterBooks <- Moved
  Dealings <- DealSet
  PositionCases <- PositionSet
  SigningCases <- SigningSet
  Environments <- EnvSet
  Tokens = {t1, t2}
  WordSize = 2
  ByteValues = 16
INVARIANTS
  CopyWithinCaps
  LimitReachesTouch
  PaperFillIsHonest
  DisagreementReported
  SignedWithinLimit
  RealOrdersOnlyFullyArmed
CHECK_DEADLOCK FALSE
