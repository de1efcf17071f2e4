----------------------------- MODULE VoucherBook -----------------------------
(***************************************************************************)
(* What the cash vouchers promise ("Workflow: Draft (0) -> Approved (1) -> *)
(* Posted (2)" in pkg/handlers/cash_vouchar.go): only a draft is edited or *)
(* deleted, a manager approves it, what is posted is what was approved,    *)
(* and posting is irreversible.                                            *)
(***************************************************************************)
CONSTANTS Vouchers, Users, Managers, Contents,
          NoContent,          \* the content of a voucher that does not exist
          Nobody              \* no user: the approver of a draft

VARIABLE entry

Absent(s) == [state |-> s, owner |-> Nobody, content |-> NoContent, approver |-> Nobody]

BookInit == entry = [v \in Vouchers |-> Absent("none")]

Draft(v, u, c) ==
  /\ entry[v].state = "none"
  /\ entry' = [entry EXCEPT ![v] =
       [state |-> "draft", owner |-> u, content |-> c, approver |-> Nobody]]
Edit(v, c) ==
  /\ entry[v].state = "draft"
  /\ entry' = [entry EXCEPT ![v] = [@ EXCEPT !.content = c]]
Drop(v) ==
  /\ entry[v].state = "draft"
  /\ entry' = [entry EXCEPT ![v] = Absent("deleted")]
Approve(v, m) ==
  /\ entry[v].state = "draft"
  /\ entry' = [entry EXCEPT ![v] = [@ EXCEPT !.state = "approved", !.approver = m]]
Post(v) ==
  /\ entry[v].state = "approved"
  /\ entry' = [entry EXCEPT ![v] = [@ EXCEPT !.state = "posted"]]

BookNext ==
  \E v \in Vouchers :
    \/ \E c \in Contents : (\E u \in Users : Draft(v, u, c)) \/ Edit(v, c)
    \/ \E m \in Managers : Approve(v, m)
    \/ Drop(v) \/ Post(v)

BookSpec == BookInit /\ [][BookNext]_entry
=============================================================================
