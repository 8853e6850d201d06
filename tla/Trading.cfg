\* Two pipelines, two API requests at a time, one open-order slot; limits that
\* two orders exceed together.
CONSTANTS
  feed = feed
  demo = demo
  h1 = h1
  h2 = h2
  Pipelines = {feed, demo}
  Feed = feed
  Handlers = {h1, h2}
  Reconcilers = {r1}
  Limits <- TightLimits
  Wallet <- CopyAll
  Sources = {2}
  Prices = {1, 2}
  MaxLost = 3
  Deployments <- FourWays
SPECIFICATION FairSpec
INVARIANTS
  TypeOK
  AtMostOneAfterHalt
  AtMostOneAfterBudget
  AtMostOneAfterRemoval
  SlotsOverrunOnlyByOverlap
  SharesOverrunOnlyByOverlap
  RegistryAgrees
PROPERTIES
  UnreportedPositionHalts
CHECK_DEADLOCK FALSE
