\* Two commands at a time over two vouchers, of a manager and of a clerk.
SPECIFICATION Spec
CONSTANTS
  Handlers = {h1, h2}
  Users = {boss, clerk}
  Managers = {boss}
  Vouchers = {v1, v2}
  outgoing = outgoing
  incoming = incoming
  box = box
  Contents = {outgoing, incoming, box}
  TypeOf <- Types
  Numbers = {1, 2, 3}
  Nobody = Nobody
  NoVoucher = NoVoucher
  NoContent = NoContent
SYMMETRY VoucherSymmetry
INVARIANTS
  ApproverIffApproved
  PostedAnswerIsTrue
  CountedInOneTotal
PROPERTIES
  ImplementsVoucherBook
