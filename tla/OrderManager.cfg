\* A GTC order g and an IOC order i with one book feed, and g alone with two,
\* under either adapter, with one cancel_all caller; the paper venue may report
\* one more than was asked.
CONSTANTS
  g = g
  i = i
  f1 = f1
  f2 = f2
  None = None
  Orders = {g, i}
  Gtc = {g}
  Quantity = 2
  MaxReport = 3
  Cancellers = {c1}
  Feeders = {f1, f2}
  Modes = {TRUE, FALSE}
  Scopes <- MCScopes
SPECIFICATION FairSpec
INVARIANTS
  TypeOK
  NeverOverstated
  RejectedNeverTraded
  CancelledNotResting
  ImmediateConservation
PROPERTIES
  UnknownKept
  CancelAllClears
  SubmissionSettles
CHECK_DEADLOCK FALSE
