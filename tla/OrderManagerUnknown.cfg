\* An ambiguous submission on the live adapter, with the reconciler as the
\* cancel_all caller.
CONSTANTS
  g = g
  i = i
  f1 = f1
  f2 = f2
  None = None
  Orders = {i}
  Gtc = {}
  Quantity = 2
  MaxReport = 2
  Cancellers = {c1}
  Feeders = {f1}
  Modes = {TRUE}
  Scopes <- Whole
SPECIFICATION FairSpec
PROPERTY UnknownResolves
CHECK_DEADLOCK FALSE
