\* A purchase bill and an adjustment.
SPECIFICATION Spec
CONSTANTS
  Handlers = {h1, h2}
  p1 = p1
  p2 = p2
  Products = {p1}
  Sales = {s1, s2}
  Purchases = {b1, b2}
  Received = {b1}
  Orders <- Single
  FirstOrder <- FirstSingle
  Opening <- Two
  Changes <- UpDown
  Modes = {"enforce"}
  Ops = {"adjust", "add_purchase"}
  NoQuantity = NoQuantity
  NoBill = NoBill
  Manual = Manual
  MaxQuantity = 3
  MaxTimeouts = 0
  MaxDeadlocks = 0
SYMMETRY StockSymmetry
INVARIANTS
  QuantityIsLedger
