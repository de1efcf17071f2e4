----------------------------- MODULE InvoiceBook -----------------------------
(***************************************************************************)
(* What the sale command promises: the book of issued invoices.  A request *)
(* identity (pos_id, bill_request_id) is entered at most once, with the    *)
(* content it was sent with, the bill that carries it and the next number  *)
(* of the series of the content's branch; and an entry is never changed.   *)
(***************************************************************************)
EXTENDS Naturals, FiniteSets

CONSTANTS Keys,           \* request identities
          Contents,       \* request contents, as the fingerprint tells them apart
          Bills,
          BranchOf,       \* the branch in which a content is sold
          NotIssued       \* the entry of an identity that was not used yet

VARIABLE book             \* the entry of every request identity

Series(branch) ==
  {k \in Keys : book[k] # NotIssued /\ BranchOf[book[k].content] = branch}

BookInit == book = [k \in Keys |-> NotIssued]

Issue(k, b, c) ==
  /\ book[k] = NotIssued
  /\ \A j \in Keys : book[j] # NotIssued => book[j].bill # b
  /\ book' = [book EXCEPT ![k] =
       [bill |-> b, content |-> c, number |-> Cardinality(Series(BranchOf[c])) + 1]]

BookNext == \E k \in Keys, b \in Bills, c \in Contents : Issue(k, b, c)

BookSpec == BookInit /\ [][BookNext]_book
=============================================================================
