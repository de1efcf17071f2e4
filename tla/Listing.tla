------------------------------- MODULE Listing -------------------------------
(***************************************************************************)
(* Cursor pagination (pkg/pagination, pkg/handlers/list_helpers.go) and    *)
(* the lists that use it.  A client walks a list page by page; between two *)
(* pages rows come, go and change.  A page is one query: the rows behind   *)
(* the cursor in the order of the list's key, one more than the limit, so  *)
(* that the extra row tells whether there is another page.                 *)
(*                                                                         *)
(* An operator whose comment begins "A bug:" is a mutant: it changes the   *)
(* definition that follows it, and no part of Spec uses it.                *)
(***************************************************************************)
EXTENDS Integers, FiniteSets, Sequences, SequencesExt

CONSTANTS
  Lists,       \* the lists this instance walks
  Ids, Dates,  \* bounds: row ids, and the dates that order rows
  Sizes,       \* what clients send as limit and page_size; 0 when left out
  DefaultLimit, MaxLimit,
  MaxChanges   \* bound: changes of the table during a walk

VARIABLES
  list, stock, \* the list that is walked, and the stock filter, of products only
  rows,        \* by id: the date, whether a credit note exists, whether in stock
  cursor,      \* the cursor the client holds
  shown,       \* the entries the client was given
  walk,        \* "on"; "over" when there was no further page
  quiet,       \* history: the entries since the walk began that nothing changed
  changes

vars == <<list, stock, rows, cursor, shown, walk, quiet, changes>>

\* The canonical sort of each list.
Sort(l) ==
  CASE l \in {"users", "branches"} -> "id"
    [] l \in {"suppliers", "products"} -> "-id"
    [] l \in {"bills", "purchase_bills", "vouchers"} -> "-effective_date"
    [] l = "orders" -> "-created_at"
    [] l = "clients" -> "-updated_at"
Dated == {"-effective_date", "-created_at", "-updated_at"}

\* What BuildEnvelope puts into a cursor: id, or date and id, or for bills date,
\* id and whether the entry is the credit note's.
Key(l, e) ==
  CASE Sort(l) \notin Dated -> <<e.id>>
    [] l = "bills" -> <<e.date, e.id, e.credit>>
    [] OTHER -> <<e.date, e.id>>

\* A bill with a credit note is listed twice.
Entries(l, rs) ==
  {[id |-> i, date |-> rs[i].date, credit |-> 0] : i \in DOMAIN rs}
  \cup IF l = "bills" THEN {[id |-> i, date |-> rs[i].date, credit |-> 1] : i \in {i \in DOMAIN rs : rs[i].credit}}
       ELSE {}

Init ==
  /\ list \in Lists
  /\ stock \in IF list = "products" THEN {"", "in"} ELSE {""}
  /\ \E D \in SUBSET Ids :
       /\ \A i \in D, j \in Ids : j < i => j \in D
       /\ rows \in [D -> [date : IF Sort(list) \in Dated THEN Dates ELSE {1},
                          credit : IF list = "bills" THEN BOOLEAN ELSE {FALSE},
                          stocked : IF stock = "" THEN {TRUE} ELSE BOOLEAN]]
  /\ cursor = [k |-> <<>>, s |-> ""]
  /\ shown = <<>>
  /\ walk = "on"
  /\ quiet = Entries(list, rows)
  /\ changes = 0
----------------------------------------------------------------------------
(* One page. *)

\* EffectiveLimit: the limit, else page_size, else the default, and no more than
\* the maximum.
EffectiveLimit(r) ==
  LET n == IF r.limit > 0 THEN r.limit ELSE r.page_size
  IN  CASE n <= 0 -> DefaultLimit [] n > MaxLimit -> MaxLimit [] OTHER -> n

\* Validate: only limit is held against the maximum; the sort of the cursor is
\* compared when the request names a sort that is not the list's.
Validate(l, r) ==
  LET want == IF r.sort = "" THEN Sort(l) ELSE r.sort IN
  /\ r.limit <= MaxLimit
  /\ r.cursor.k = <<>> \/ r.cursor.s = want \/ want = Sort(l)

\* The key that a cursor says to go on from: empty for the first page, or refused.
After(k) == [ok |-> TRUE, after |-> k]
Refused == [ok |-> FALSE, after |-> <<>>]
LastID(c) == c.k[Len(c.k)]
cursorIDOnly(c) == IF c.k # <<>> /\ LastID(c) > 0 THEN After(<<LastID(c)>>) ELSE After(<<>>)
cursorDateAndID(c) ==
  IF c.k = <<>> THEN After(<<>>)
  ELSE IF Len(c.k) = 1 \/ LastID(c) = 0 THEN Refused ELSE After(<<c.k[1], LastID(c)>>)
decodeBillCursor(c) ==
  IF Len(c.k) < 3 THEN After(<<>>)
  ELSE IF c.k[2] = 0 THEN Refused ELSE After(c.k)
Position(l, c) ==
  CASE Sort(l) \notin Dated -> cursorIDOnly(c)
    [] l = "bills" -> decodeBillCursor(c)
    [] OTHER -> cursorDateAndID(c)

\* The order of the queries: all columns of a key rise, or all fall.
Before(l, x, y) == IF Sort(l) = "id" THEN x < y ELSE x > y
Comes(l, a, b) ==
  \E i \in DOMAIN a : Before(l, a[i], b[i]) /\ \A j \in 1..(i - 1) : a[j] = b[j]

\* Their seek predicate says the same of the cursor and a row.
\* A bug: rows of the cursor's date are passed over.
SeekByDate(l, after, k) == after = <<>> \/ Before(l, after[1], k[1])
Seek(l, after, k) == after = <<>> \/ Comes(l, after, k)

\* The query: what the predicate admits in that order, at most n rows.
Query(l, rs, after, n) ==
  LET behind == {e \in Entries(l, rs) : Seek(l, after, Key(l, e))}
      place(e) == 1 + Cardinality({d \in behind : Comes(l, Key(l, d), Key(l, e))})
      size == Cardinality(behind)
  IN  [p \in 1..(IF n < size THEN n ELSE size) |-> CHOOSE e \in behind : place(e) = p]

\* applyProductStockFilter, after the query.
InStock(found) ==
  IF stock = "" THEN found
  ELSE FoldLeft(LAMBDA out, e : IF rows[e.id].stocked THEN Append(out, e) ELSE out, <<>>, found)

\* BuildEnvelope.
Envelope(found, limit) ==
  LET more == Len(found) > limit
      items == IF more THEN SubSeq(found, 1, limit) ELSE found
  IN  [items |-> items, more |-> more,
       next |-> IF more /\ items # <<>>
                THEN [k |-> Key(list, items[Len(items)]), s |-> Sort(list)]
                ELSE [k |-> <<>>, s |-> ""]]

Page(r) == Envelope(InStock(Query(list, rows, Position(list, r.cursor).after, EffectiveLimit(r) + 1)),
                    EffectiveLimit(r))

\* The client asks for the next page; a refused request leaves it where it was.
NextPage ==
  /\ walk = "on"
  /\ \E size \in Sizes, sort \in {"", Sort(list)} :
       LET r == [limit |-> size[1], page_size |-> size[2], cursor |-> cursor, sort |-> sort]
           page == Page(r)
       IN
         /\ Validate(list, r) /\ Position(list, cursor).ok
         /\ shown' = shown \o page.items
         /\ cursor' = page.next
         /\ walk' = IF page.more THEN "on" ELSE "over"
  /\ UNCHANGED <<list, stock, rows, quiet, changes>>
----------------------------------------------------------------------------
(* The table changes. *)

Change(new) ==
  /\ walk = "on" /\ changes < MaxChanges
  /\ changes' = changes + 1
  /\ rows' = new
  /\ quiet' = quiet \cap Entries(list, new)
  /\ UNCHANGED <<list, stock, cursor, shown, walk>>

\* A new row has the next id; where dates are given by hand it may have any.
NewDates == IF Sort(list) \in {"-created_at", "-updated_at"} THEN {CHOOSE d \in Dates : \A x \in Dates : x <= d} ELSE Dates
Insert ==
  \E i \in Ids, d \in NewDates, s \in BOOLEAN :
    /\ \A j \in DOMAIN rows : j < i
    /\ s \/ stock # ""
    /\ Change([j \in DOMAIN rows \cup {i} |->
                 IF j = i THEN [date |-> d, credit |-> FALSE, stocked |-> s] ELSE rows[j]])

\* A row is deleted, or no longer meets the filter.
Delete == \E i \in DOMAIN rows : Change([j \in DOMAIN rows \ {i} |-> rows[j]])

\* A document gets another date, or a client is updated; orders keep theirs.
Redate ==
  /\ list # "orders" /\ Sort(list) \in Dated
  /\ \E i \in DOMAIN rows, d \in NewDates : d # rows[i].date /\ Change([rows EXCEPT ![i].date = d])

\* A bill gets its credit note.
CreditNote ==
  /\ list = "bills"
  /\ \E i \in {i \in DOMAIN rows : ~ rows[i].credit} : Change([rows EXCEPT ![i].credit = TRUE])

Next == NextPage \/ Insert \/ Delete \/ Redate \/ CreditNote

Spec == Init /\ [][Next]_vars
----------------------------------------------------------------------------
Times(e) == Cardinality({i \in DOMAIN shown : shown[i] = e})

\* An entry that was there when the walk began and that nothing changed since is
\* shown at most once, and exactly once when the walk is over, whatever else is
\* inserted, deleted or moved between two pages and whatever sizes the pages
\* have.  The stock filter of products is left out: it is applied to a page
\* after the query has cut it (product.go:217).
EachRowOnce ==
  \A e \in quiet : Times(e) <= 1 /\ (walk = "over" /\ stock = "" => Times(e) = 1)
=============================================================================
