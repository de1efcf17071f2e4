\* Two branches, where no stock is tracked: sales that share an identity and no counter are
\* written whole and answered, and the book of issued invoices is implemented.
SPECIFICATION FairSpec
CONSTANTS
  Handlers = {h1, h2}
  Bills = {b1, b2}
  Keys = {k1}
  NoKey = NoKey
  paid = paid
  unpaid = unpaid
  Contents = {paid, unpaid}
  NoContent = NoContent
  north = north
  south = south
  Branches = {north, south}
  BranchOf <- TwoBranches
  Paid <- PaidOnly
  NoBill = NoBill
  MaxDeadlocks = 0
INVARIANTS
  WrittenWhole
  EventIffSale
  SuccessIsRecorded
  SoldOnce
  LostRaceFindsRecord
PROPERTIES
  FinalIsImmutable
  ImplementsBook
  EveryRequestAnswered
