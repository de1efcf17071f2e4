\* Sales of two products in opposite orders beside adjustments, with a lock wait that times
\* out and a deadlock, while the owner changes the setting.
SPECIFICATION FloorSpec
CONSTANTS
  Handlers = {h1, h2}
  p1 = p1
  p2 = p2
  Products = {p1, p2}
  Sales = {s1, s2}
  Purchases = {}
  Received = {}
  Orders <- Crossed
  FirstOrder <- FirstSingle
  Opening <- Two
  Changes <- Down
  Modes = {"disable", "enforce"}
  Ops = {"sale", "adjust"}
  NoQuantity = NoQuantity
  NoBill = NoBill
  Manual = Manual
  MaxQuantity = 2
  MaxTimeouts = 1
  MaxDeadlocks = 1
SYMMETRY StockSymmetry
INVARIANTS
  LedgerInv
