\* An IOC order on the paper adapter, with one cancel_all caller.
CONSTANTS
  g = g
  i = i
  f1 = f1
  f2 = f2
  None = None
  Orders = {i}
  Gtc = {}
  Quantity = 2
  MaxReport = 2
  Cancellers = {c1}
  Feeders = {f1}
  Modes = {FALSE}
  Scopes <- Whole
SPECIFICATION Spec
INVARIANT ImmediateCloses
CHECK_DEADLOCK FALSE
