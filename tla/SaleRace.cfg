\* Two requests at a time over two bills and two identities in one branch.
SPECIFICATION Spec
CONSTANTS
  Handlers = {h1, h2}
  Bills = {b1, b2}
  Keys = {k1, k2}
  NoKey = NoKey
  paid = paid
  unpaid = unpaid
  Contents = {paid, unpaid}
  NoContent = NoContent
  north = north
  south = south
  Branches = {north}
  BranchOf <- OneBranch
  Paid <- PaidOnly
  NoBill = NoBill
  MaxDeadlocks = 1
SYMMETRY SaleSymmetry
INVARIANTS
  IndInv
  NumbersGapless
  ConflictIsReal
