\* Two administrators, each removed or demoted by another at the same time.
SPECIFICATION Spec
CONSTANTS
  Handlers = {h1, h2}
  NoQuantity = NoQuantity
  Foci = {"admins"}
SYMMETRY HandlerSymmetry
INVARIANTS
  SomeAdmin
CHECK_DEADLOCK FALSE
