\* Terminal states against a cancel_all and a book feed, on the paper adapter.
CONSTANTS
  g = g
  i = i
  f1 = f1
  f2 = f2
  None = None
  Orders = {g}
  Gtc = {g}
  Quantity = 2
  MaxReport = 2
  Cancellers = {c1}
  Feeders = {f1}
  Modes = {FALSE}
  Scopes <- Whole
SPECIFICATION Spec
PROPERTY TerminalAbsorbing
CHECK_DEADLOCK FALSE
