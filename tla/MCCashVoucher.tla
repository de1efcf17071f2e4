--------------------------- MODULE MCCashVoucher ---------------------------
(* Instances of CashVoucher for TLC. *)
EXTENDS CashVoucher, TLC

CONSTANTS outgoing, incoming, box     \* contents, one of each type

Types == [c \in Contents |-> CASE c = outgoing -> "disbursement"
                               [] c = incoming -> "receipt"
                               [] OTHER -> "cash_box"]

VoucherSymmetry == Permutations(Handlers) \cup Permutations(Vouchers)
=============================================================================
