\* The services beside the core, each in its own instances.
SPECIFICATION Spec
CONSTANTS
  Handlers = {h1, h2}
  NoQuantity = NoQuantity
  Foci = {"sessions", "resets", "admins", "failed reads", "signups", "files", "branch links", "store links", "clearance", "branches", "onboarding", "parties", "orders", "lists", "token", "forms", "ledger", "reports", "dashboard", "stock papers", "stock edits", "stock drafts", "vehicles", "failed lookups"}
SYMMETRY HandlerSymmetry
INVARIANTS
  SessionsEnded
  LastAdminGuard
  WholeFiles
  LinksKept
  WholeOrders
  RowsOnce
  TokenStays
  LedgerSums
  FiguresHold
  PapersExplain
  LedgerOfSales
  OnceCounted
  VehiclesAsked
CHECK_DEADLOCK FALSE
