---------------------------- MODULE RecordsProofs ----------------------------
(***************************************************************************)
(* Proofs about the services that keep records beside the core, each for   *)
(* any number of handlers, rows and faults: files, the directory of        *)
(* branches, stores and papers, settings, vehicles, orders, the dashboard, *)
(* lists, and the ledger and the reports of suppliers.                     *)
(***************************************************************************)
EXTENDS Sequences, Induction, TLAPS

CONSTANTS
  Handlers, MaxFaults,
  Keys, Bills, PdfSettings,                      \* of Files
  Ops, Branches, Stores, Papers, Parties, Names, MaxBreaks, \* of Directory
  Saves, FormKeys, Tokens, Users, MaxNotes, MaxSent, \* of Settings
  Vins, YearAt, Parts, Pages, MaxMisses,         \* of Vehicles
  Ids, Numbers, Carts,                           \* of Orders
  Views, MonthLengths, Dates, Todays, Spans, Accounts, MaxChanges, \* of Dashboard
  Lists, RowIds, RowDates, Sizes, DefaultLimit, MaxLimit, MaxMoves, \* of Listing
  Clerks, Sheets, Suppliers, NoSupplier, Slips, Instants, Now, MaxSlips, MaxLost \* of Statements

VARIABLES
  pc, req, faults, got, work, answer,
  uploaded_files, disk, purchase_bill, attachments, setting, known, lost,
  branches, store, papers, zatca, client, supplier, company_name, mail, given,
  settings, notification_settings, notifications, media, sent, typed, stale,
  vin_cache, orders, order_items, today, sold, bought, pending, changes, asked,
  list, stock, rows, cursor, shown, walk, quiet, cash_voucher

F == INSTANCE Files
D == INSTANCE Directory WITH MaxFaults <- MaxBreaks
W == INSTANCE Settings WITH Ops <- Saves
V == INSTANCE Vehicles WITH Numbers <- Vins, MaxFaults <- MaxMisses
O == INSTANCE Orders
B == INSTANCE Dashboard WITH Ops <- Views
P == INSTANCE Listing WITH Ids <- RowIds, Dates <- RowDates, MaxChanges <- MaxMoves
G == INSTANCE Statements WITH Handlers <- Clerks, Ops <- Sheets, Papers <- Slips,
       MaxChanges <- MaxSlips, MaxFaults <- MaxLost
-----------------------------------------------------------------------------
(* Sequences: folds, what is kept of one, and how often it has an element. *)

\* The recursion has a solution, with values where the steps stay.
LEMMA FoldExists ==
  ASSUME NEW Values, NEW S, NEW s \in Seq(S), NEW base \in Values, NEW step \in [Values \X S -> Values]
  PROVE  \E g \in [SUBSET DOMAIN s -> Values] : FoldFits(g, base, step, s, SUBSET DOMAIN s)
<1> DEFINE Small(n) == {T \in SUBSET DOMAIN s : Cardinality(T) <= n}
           Rest(T) == T \ {LastOf(T)}
           Good == {n \in Nat : \E g \in [Small(n) -> Values] : FoldFits(g, base, step, s, Small(n))}
<1>0. DOMAIN s = 1..Len(s) /\ Len(s) \in Nat /\ IsFiniteSet(DOMAIN s)
  BY FS_Interval
<1>1. ASSUME NEW T \in SUBSET DOMAIN s PROVE Cardinality(T) \in Nat /\ IsFiniteSet(T)
  BY <1>0, FS_Subset, FS_CardinalityType
<1>2. ASSUME NEW T \in SUBSET DOMAIN s, T # {}
      PROVE  /\ Rest(T) \in SUBSET DOMAIN s /\ Cardinality(Rest(T)) = Cardinality(T) - 1
             /\ s[LastOf(T)] \in S
  <2>1. LastOf(T) \in T
    BY <1>0, <1>2, LastIn
  <2> QED
    BY <1>0, <1>1, <2>1, FS_RemoveElement
<1>3. 0 \in Good
  <2>1. \A T \in Small(0) : T = {}
    BY <1>1, FS_EmptySet
  <2>2. FoldFits([T \in Small(0) |-> base], base, step, s, Small(0))
    BY <2>1 DEF FoldFits, Taken
  <2> QED
    BY <2>2
<1>4. ASSUME NEW n \in Good PROVE n + 1 \in Good
  <2>1. PICK g \in [Small(n) -> Values] : FoldFits(g, base, step, s, Small(n))
    OBVIOUS
  <2> DEFINE new == [T \in Small(n + 1) |-> Taken(g, base, step, s, T)]
  <2>2. ASSUME NEW T \in Small(n + 1)
        PROVE  Taken(new, base, step, s, T) = Taken(g, base, step, s, T) /\ Taken(g, base, step, s, T) \in Values
    <3>1. CASE T = {}
      BY <3>1 DEF Taken
    <3>2. CASE T # {}
      <4>0. T \in SUBSET DOMAIN s /\ Cardinality(T) <= n + 1
        OBVIOUS
      <4>1. Rest(T) \in Small(n) /\ Rest(T) \in Small(n + 1) /\ s[LastOf(T)] \in S
        <5>1. /\ Rest(T) \in SUBSET DOMAIN s /\ Cardinality(Rest(T)) = Cardinality(T) - 1
              /\ s[LastOf(T)] \in S
          <6> HIDE DEF Rest
          <6> QED
            BY <1>2, <3>2, <4>0
        <5>2. Cardinality(T) \in Nat
          BY <1>1, <4>0
        <5> HIDE DEF Rest
        <5> QED
          BY <4>0, <5>1, <5>2
      <4>2. g[Rest(T)] = Taken(g, base, step, s, Rest(T)) /\ g[Rest(T)] \in Values
        <5> HIDE DEF Rest, Small
        <5> QED
          BY <2>1, <4>1, FoldAt
      <4>3. new[Rest(T)] = g[Rest(T)]
        <5> HIDE DEF Rest, Small
        <5> QED
          BY <4>1, <4>2
      <4>4. step[<<g[Rest(T)], s[LastOf(T)]>>] \in Values
        <5> HIDE DEF Rest, Small
        <5> QED
          BY <4>1, <4>2
      <4> HIDE DEF new
      <4> QED
        BY <3>2, <4>3, <4>4 DEF Taken
    <3> QED
      BY <3>1, <3>2
  <2>3. FoldFits(new, base, step, s, Small(n + 1)) /\ new \in [Small(n + 1) -> Values]
    <3> HIDE DEF Small
    <3> QED
      BY <2>2 DEF FoldFits
  <2> HIDE DEF Small, new
  <2> QED
    BY <2>3
<1>5. Good = Nat
  <2> HIDE DEF Good
  <2> QED
    BY <1>3, <1>4, NatInduct, Good \subseteq Nat DEF Good
<1>6. Small(Cardinality(DOMAIN s)) = SUBSET DOMAIN s
  BY <1>0, FS_Subset, FS_CardinalityType
<1> QED
  <2>1. Cardinality(DOMAIN s) \in Good
    BY <1>0, <1>5, FS_CardinalityType
  <2> HIDE DEF Small
  <2> QED
    BY <2>1, <1>6

\* A sequence kept from the first i elements of s: without repetition, and the same when
\* it has as many.
KeptFrom(o, S, s, i) ==
  /\ o \in Seq(S) /\ Len(o) <= i
  /\ Len(o) = i => \A p \in 1..i : o[p] = s[p]
  /\ \A p, r \in 1..Len(o) : o[p] = o[r] => p = r
  /\ \A p \in 1..Len(o) : \E j \in 1..i : o[p] = s[j]

\* One more element, kept or left out.
LEMMA KeepOne ==
  ASSUME NEW S, NEW s \in Seq(S), \A i, j \in DOMAIN s : s[i] = s[j] => i = j,
         NEW i \in Nat, i + 1 <= Len(s), NEW o, KeptFrom(o, S, s, i)
  PROVE  KeptFrom(o, S, s, i + 1) /\ KeptFrom(Append(o, s[i + 1]), S, s, i + 1)
<1> DEFINE x == s[i + 1]
           new == Append(o, x)
           m == Len(o)
<1>1. o \in Seq(S) /\ x \in S /\ DOMAIN s = 1..Len(s) /\ Len(s) \in Nat /\ m \in Nat /\ m <= i
  BY DEF KeptFrom
<1>2. new \in Seq(S) /\ Len(new) = m + 1 /\ new[m + 1] = x /\ \A p \in 1..m : new[p] = o[p]
  <2> HIDE DEF x
  <2> QED
    BY <1>1
<1>3. /\ m = i => \A p \in 1..i : o[p] = s[p]
      /\ \A p, r \in 1..m : o[p] = o[r] => p = r
      /\ \A p \in 1..m : \E j \in 1..i : o[p] = s[j]
  BY DEF KeptFrom
<1>4. ASSUME NEW p \in 1..m PROVE o[p] # x
  <2>1. PICK j \in 1..i : o[p] = s[j]
    BY <1>3
  <2> QED
    BY <1>1, <2>1
<1> HIDE DEF new, m
<1>5. ASSUME NEW p \in 1..(m + 1) PROVE p \in 1..m \/ p = m + 1
  BY <1>1
<1>6. \A p \in 1..(m + 1) : \E j \in 1..(i + 1) : new[p] = s[j]
  <2>1. i + 1 \in 1..(i + 1) /\ \A j \in 1..i : j \in 1..(i + 1)
    OBVIOUS
  <2>2. new[m + 1] = s[i + 1]
    BY <1>2
  <2> QED
    BY <1>2, <1>3, <1>5, <2>1, <2>2
<1>7. \A p, r \in 1..(m + 1) : new[p] = new[r] => p = r
  <2> HIDE DEF x
  <2> QED
    BY <1>2, <1>3, <1>4, <1>5
<1>8. m + 1 = i + 1 => \A p \in 1..(i + 1) : new[p] = s[p]
  <2>1. ASSUME m + 1 = i + 1, NEW p \in 1..(i + 1) PROVE new[p] = s[p]
    <3>1. m = i
      BY <1>1, <2>1
    <3> QED
      BY <1>2, <1>3, <1>5, <2>1, <3>1
  <2> QED
    BY <2>1
<1>9. KeptFrom(new, S, s, i + 1)
  BY <1>1, <1>2, <1>6, <1>7, <1>8 DEF KeptFrom
<1>10. KeptFrom(o, S, s, i + 1)
  <2>1. \A p \in 1..m : \E j \in 1..(i + 1) : o[p] = s[j]
    BY <1>3
  <2> QED
    BY <1>1, <1>3, <2>1 DEF KeptFrom, m
<1> QED
  BY <1>9, <1>10 DEF new

\* What is kept from a whole sequence, element by element.
LEMMA KeptAll ==
  ASSUME NEW S, NEW s \in Seq(S), \A i, j \in DOMAIN s : s[i] = s[j] => i = j,
         NEW r, r[0] = <<>>,
         \A i \in Nat : i + 1 <= Len(s) => r[i + 1] = r[i] \/ r[i + 1] = Append(r[i], s[i + 1])
  PROVE  KeptFrom(r[Len(s)], S, s, Len(s))
<1> DEFINE Good == {i \in Nat : i <= Len(s) => KeptFrom(r[i], S, s, i)}
<1>1. KeptFrom(<<>>, S, s, 0)
  BY DEF KeptFrom
<1>2. 0 \in Good
  BY <1>1
<1>3. ASSUME NEW i \in Good, i + 1 <= Len(s) PROVE KeptFrom(r[i + 1], S, s, i + 1)
  <2>1. i \in Nat /\ KeptFrom(r[i], S, s, i)
    BY <1>3, Len(s) \in Nat
  <2> HIDE DEF Good
  <2> QED
    BY <1>3, <2>1, KeepOne
<1>4. Good = Nat
  <2>1. Good \subseteq Nat /\ \A i \in Good : i + 1 \in Good
    BY <1>3
  <2> HIDE DEF Good
  <2> QED
    BY <1>2, <2>1, NatInduct
<1> QED
  BY <1>4, Len(s) \in Nat

\* How often an element is in a sequence, when distinct ones are added.
HowOften(s, e) == Cardinality({i \in DOMAIN s : s[i] = e})
LEMMA TimesAdd ==
  ASSUME NEW S, NEW s \in Seq(S), NEW t \in Seq(S), NEW e,
         \A i, j \in DOMAIN t : t[i] = t[j] => i = j
  PROVE  HowOften(s \o t, e) = HowOften(s, e) + IF \E j \in DOMAIN t : t[j] = e THEN 1 ELSE 0
<1> DEFINE In(u) == {i \in DOMAIN u : u[i] = e}
<1>0. HowOften(s, e) = Cardinality(In(s)) /\ HowOften(s \o t, e) = Cardinality(In(s \o t))
  BY DEF HowOften
<1>1. /\ DOMAIN s = 1..Len(s) /\ DOMAIN t = 1..Len(t) /\ Len(s) \in Nat /\ Len(t) \in Nat
      /\ DOMAIN (s \o t) = 1..(Len(s) + Len(t))
      /\ \A i \in 1..Len(s) : (s \o t)[i] = s[i]
      /\ \A i \in 1..Len(t) : (s \o t)[Len(s) + i] = t[i]
  OBVIOUS
<1>2. IsFiniteSet(In(s)) /\ Cardinality(In(s)) \in Nat
  <2>1. IsFiniteSet(1..Len(s)) /\ In(s) \in SUBSET (1..Len(s))
    BY <1>1, FS_Interval, 1 \in Int
  <2> QED
    BY <2>1, FS_Subset, FS_CardinalityType
<1>3. CASE \E j \in DOMAIN t : t[j] = e
  <2>1. PICK j \in DOMAIN t : t[j] = e
    BY <1>3
  <2>2. In(s \o t) = In(s) \cup {Len(s) + j} /\ Len(s) + j \notin In(s)
    BY <1>1, <2>1
  <2>3. Cardinality(In(s) \cup {Len(s) + j}) = Cardinality(In(s)) + 1
    <3> HIDE DEF In
    <3> QED
      BY <1>2, <2>2, FS_AddElement
  <2> QED
    BY <1>0, <1>3, <2>2, <2>3
<1>4. CASE ~ \E j \in DOMAIN t : t[j] = e
  <2>1. In(s \o t) = In(s)
    <3>1. ASSUME NEW i \in DOMAIN (s \o t), (s \o t)[i] = e PROVE i \in In(s)
      <4>1. CASE i \in 1..Len(s)
        BY <1>1, <3>1, <4>1
      <4>2. CASE i \notin 1..Len(s)
        <5>1. i - Len(s) \in 1..Len(t) /\ i = Len(s) + (i - Len(s))
          BY <1>1, <4>2
        <5> QED
          BY <1>1, <1>4, <3>1, <5>1
      <4> QED
        BY <4>1, <4>2
    <3>2. \A i \in In(s) : i \in DOMAIN (s \o t) /\ (s \o t)[i] = e
      BY <1>1
    <3> QED
      BY <3>1, <3>2
  <2>2. Cardinality(In(s \o t)) = Cardinality(In(s)) /\ Cardinality(In(s)) = Cardinality(In(s)) + 0
    <3> HIDE DEF In
    <3> QED
      BY <1>2, <2>1
  <2> QED
    BY <1>0, <1>4, <2>2
<1> QED
  BY <1>3, <1>4

\* A function on the first numbers is a sequence.
LEMMA TupleIn == ASSUME NEW T, NEW n \in Nat, NEW f \in [1..n -> T] PROVE f \in Seq(T)
  OBVIOUS
-----------------------------------------------------------------------------
(* Files: a row of uploaded_files stands for a whole file. *)

Uploading(h) == pc[h] \in {"copy", "insert"}

\* Each column keeps its range, and each handler has a place and a request.
FileTypes ==
  /\ uploaded_files \subseteq Keys /\ known \subseteq Keys
  /\ disk \in [Keys -> {"nothing", "part", "whole"}]
  /\ DOMAIN pc = Handlers /\ DOMAIN req = Handlers

\* A stored row is of a key that a client was told, or its insert was reported
\* to have failed; never both.
RowInv ==
  /\ uploaded_files \subseteq known \cup lost
  /\ known \cap lost = {}

\* A row that is not lost has its whole file, and no client knows a broken one.
DiskInv ==
  /\ \A k \in uploaded_files \ lost : disk[k] = "whole"
  /\ \A k \in known : disk[k] \in {"whole", "nothing"}

\* The key of an upload under way is its own: nobody knows it or stored it.
UploadInv ==
  \A h \in Handlers : Uploading(h) =>
    /\ req[h].op = "upload" /\ req[h].key \in Keys
    /\ req[h].key \notin known \cup uploaded_files \cup lost
    /\ pc[h] = "insert" => disk[req[h].key] = "whole"
    /\ \A i \in Handlers \ {h} : Uploading(i) => req[i].key # req[h].key

\* Downloads and deletions are of known keys; a file is unlinked after its row.
KnownInv ==
  \A h \in Handlers :
    /\ pc[h] \in {"row", "serve", "drop", "unlink"} => req[h].key \in known
    /\ pc[h] = "unlink" => req[h].key \notin uploaded_files

FileInv == FileTypes /\ RowInv /\ DiskInv /\ UploadInv /\ KnownInv
-----------------------------------------------------------------------------
\* At the start no file is stored and no request is served.
LEMMA FileInit == F!Init => FileInv
  BY DEF F!Init, FileInv, FileTypes, RowInv, DiskInv, UploadInv, KnownInv, Uploading, F!Idle

\* A request comes in: what clients ask for is of keys they know.
LEMMA FileReceiveKeeps == ASSUME FileInv, NEW h \in Handlers, F!Receive(h) PROVE FileInv'
  BY DEF FileInv, FileTypes, RowInv, DiskInv, UploadInv, KnownInv, Uploading, F!Receive, F!Requests,
         F!Learn, F!At, F!tables

\* A fresh key for an upload (generateFileKey).
LEMMA CreateKeeps == ASSUME FileInv, NEW h \in Handlers, F!CreateOnDisk(h) PROVE FileInv'
  BY DEF FileInv, FileTypes, RowInv, DiskInv, UploadInv, KnownInv, Uploading, F!CreateOnDisk,
         F!Learn, F!At, F!tables

\* The copy, or what is left of it removed.
LEMMA CopyKeeps == ASSUME FileInv, NEW h \in Handlers, F!Copy(h) PROVE FileInv'
<1> DEFINE k == req[h].key
<1>1. /\ k \in Keys /\ k \notin known \cup uploaded_files \cup lost
      /\ \A i \in Handlers \ {h} : Uploading(i) => req[i].key # k
  BY DEF FileInv, UploadInv, Uploading, F!Copy, F!At
<1>2. /\ UNCHANGED <<uploaded_files, known, lost>>
      /\ \A i \in Handlers \ {h} : pc'[i] = pc[i] /\ req'[i] = req[i]
      /\ DOMAIN pc' = DOMAIN pc /\ DOMAIN req' = DOMAIN req
      /\ \E content \in {"nothing", "whole"} : disk' = [disk EXCEPT ![k] = content]
  BY DEF FileInv, FileTypes, F!Copy, F!Learn, F!Goto, F!Answer, F!tables
<1>3. \/ pc'[h] = "idle"
      \/ pc'[h] = "insert" /\ req'[h] = req[h] /\ disk' = [disk EXCEPT ![k] = "whole"]
  BY DEF FileInv, FileTypes, F!Copy, F!Learn, F!Goto, F!Answer
<1>4. req[h].op = "upload"
  BY DEF FileInv, UploadInv, Uploading, F!Copy, F!At
<1>5. FileTypes' /\ RowInv' /\ DiskInv'
  BY <1>1, <1>2 DEF FileInv, FileTypes, RowInv, DiskInv
<1>6. UploadInv'
  BY <1>1, <1>2, <1>3, <1>4 DEF FileInv, FileTypes, UploadInv, Uploading
<1>7. KnownInv'
  BY <1>2, <1>3 DEF FileInv, KnownInv
<1> QED
  BY <1>5, <1>6, <1>7 DEF FileInv

\* The row, reported or not.
LEMMA InsertKeeps == ASSUME FileInv, NEW h \in Handlers, F!InsertFile(h) PROVE FileInv'
<1> DEFINE k == req[h].key
<1>1. /\ k \in Keys /\ k \notin known \cup uploaded_files \cup lost /\ disk[k] = "whole"
      /\ \A i \in Handlers \ {h} : Uploading(i) => req[i].key # k
  BY DEF FileInv, UploadInv, Uploading, F!InsertFile, F!At
<1>2. /\ pc'[h] = "idle"
      /\ \A i \in Handlers \ {h} : pc'[i] = pc[i] /\ req'[i] = req[i]
      /\ DOMAIN pc' = DOMAIN pc /\ DOMAIN req' = DOMAIN req
  BY DEF FileInv, FileTypes, F!InsertFile, F!Learn, F!Answer
<1>3. CASE uploaded_files' = uploaded_files \cup {k} /\ known' = known \cup {k} /\ UNCHANGED <<disk, lost>>
  <2>1. FileTypes' /\ RowInv' /\ DiskInv'
    BY <1>1, <1>2, <1>3 DEF FileInv, FileTypes, RowInv, DiskInv
  <2>2. UploadInv' /\ KnownInv'
    BY <1>1, <1>2, <1>3 DEF FileInv, UploadInv, KnownInv, Uploading
  <2> QED
    BY <2>1, <2>2 DEF FileInv
<1>4. CASE /\ disk' = [disk EXCEPT ![k] = "nothing"] /\ UNCHANGED known
           /\ \/ UNCHANGED <<uploaded_files, lost>>
              \/ uploaded_files' = uploaded_files \cup {k} /\ lost' = lost \cup {k}
  <2>1. FileTypes' /\ RowInv' /\ DiskInv'
    BY <1>1, <1>2, <1>4 DEF FileInv, FileTypes, RowInv, DiskInv
  <2>2. UploadInv'
    BY <1>1, <1>2, <1>4 DEF FileInv, FileTypes, UploadInv, Uploading
  <2>3. KnownInv'
    BY <1>1, <1>2, <1>4 DEF FileInv, KnownInv
  <2> QED
    BY <2>1, <2>2, <2>3 DEF FileInv
<1> QED
  BY <1>3, <1>4 DEF F!InsertFile

\* A deletion drops the row and goes on to the file.
LEMMA DropRowKeeps == ASSUME FileInv, NEW h \in Handlers, F!DropRow(h) PROVE FileInv'
  BY DEF FileInv, FileTypes, RowInv, DiskInv, UploadInv, KnownInv, Uploading, F!DropRow, F!Learn, F!Goto,
         F!Answer, F!Idle, F!At

\* The file goes, whose row went before.
LEMMA UnlinkKeeps == ASSUME FileInv, NEW h \in Handlers, F!Unlink(h) PROVE FileInv'
<1> DEFINE k == req[h].key
<1>1. k \in known \ uploaded_files
  BY DEF FileInv, KnownInv, F!Unlink, F!At
<1>2. /\ UNCHANGED <<uploaded_files, known, lost>>
      /\ disk' = disk \/ disk' = [disk EXCEPT ![k] = "nothing"]
      /\ pc'[h] = "idle"
      /\ \A i \in Handlers \ {h} : pc'[i] = pc[i] /\ req'[i] = req[i]
      /\ DOMAIN pc' = DOMAIN pc /\ DOMAIN req' = DOMAIN req
  BY DEF FileInv, FileTypes, F!Unlink, F!Learn, F!Answer, F!tables
<1>3. FileTypes' /\ RowInv'
  BY <1>1, <1>2 DEF FileInv, FileTypes, RowInv
<1>4. DiskInv'
  BY <1>1, <1>2 DEF FileInv, FileTypes, DiskInv
<1>5. UploadInv'
  BY <1>1, <1>2 DEF FileInv, FileTypes, UploadInv, Uploading
<1>6. KnownInv'
  BY <1>2 DEF FileInv, KnownInv
<1> QED
  BY <1>3, <1>4, <1>5, <1>6 DEF FileInv

\* A download asks for the row and serves the file.
LEMMA DownloadKeeps ==
  ASSUME FileInv, NEW h \in Handlers, F!DownloadRow(h) \/ F!Serve(h) PROVE FileInv'
  BY DEF FileInv, FileTypes, RowInv, DiskInv, UploadInv, KnownInv, Uploading, F!DownloadRow, F!Serve,
         F!Learn, F!Goto, F!Answer, F!Idle, F!At, F!tables

\* Purchase bills point at files and change none.
LEMMA BillKeeps ==
  ASSUME FileInv, NEW h \in Handlers,
         F!CheckPdf(h) \/ F!StoreBill(h) \/ F!VerifyPdf(h) \/ F!LinkPdf(h) \/ F!Attach(h)
  PROVE  FileInv'
  BY DEF FileInv, FileTypes, RowInv, DiskInv, UploadInv, KnownInv, Uploading, F!CheckPdf, F!StoreBill,
         F!VerifyPdf, F!LinkPdf, F!Attach, F!Learn, F!Goto, F!Answer, F!Idle, F!At, F!tables

\* A crash ends every request; a setting concerns none.
LEMMA FileOutsideKeeps == ASSUME FileInv, F!ChangeSetting \/ F!Crash PROVE FileInv'
  BY DEF FileInv, FileTypes, RowInv, DiskInv, UploadInv, KnownInv, Uploading, F!ChangeSetting, F!Crash,
         F!Idle, F!tables

\* FileInv is inductive.
THEOREM FilesInductive == F!Spec => []FileInv
<1>1. F!Init => FileInv
  BY FileInit
<1>2. FileInv /\ [F!Next]_(F!vars) => FileInv'
  <2> SUFFICES ASSUME FileInv, [F!Next]_(F!vars) PROVE FileInv'
    OBVIOUS
  <2>1. CASE F!ChangeSetting \/ F!Crash
    BY <2>1, FileOutsideKeeps
  <2>2. ASSUME NEW h \in Handlers,
               F!Receive(h) \/ F!CreateOnDisk(h) \/ F!Copy(h) \/ F!InsertFile(h) \/ F!DownloadRow(h) \/ F!Serve(h)
        PROVE  FileInv'
    BY <2>2, FileReceiveKeeps, CreateKeeps, CopyKeeps, InsertKeeps, DownloadKeeps
  <2>3. ASSUME NEW h \in Handlers,
               \/ F!DropRow(h) \/ F!Unlink(h) \/ F!CheckPdf(h) \/ F!StoreBill(h) \/ F!VerifyPdf(h)
               \/ F!LinkPdf(h) \/ F!Attach(h)
        PROVE  FileInv'
    BY <2>3, DropRowKeeps, UnlinkKeeps, BillKeeps
  <2>4. CASE UNCHANGED F!vars
    BY <2>4 DEF F!vars, FileInv, FileTypes, RowInv, DiskInv, UploadInv, KnownInv, Uploading
  <2> QED
    BY <2>1, <2>2, <2>3, <2>4 DEF F!Next
<1> QED
  BY <1>1, <1>2, PTL DEF F!Spec

\* A file with a row is whole on disk, except where the insert was reported to
\* have failed; a download that found the row gives the file or nothing
\* (file.go:271).
THEOREM WholeFiles == F!Spec => []F!RowsHaveWholeFiles
<1>1. FileInv => F!RowsHaveWholeFiles
  BY DEF FileInv, DiskInv, KnownInv, F!RowsHaveWholeFiles, F!At
<1> QED
  BY <1>1, FilesInductive, PTL
-----------------------------------------------------------------------------
(* Directory: what names a branch or a store. *)

\* Every paper has its kind and what it names.
PaperShape == \A p \in DOMAIN papers : DOMAIN papers[p] = {"kind", "store"}

\* Only rows that are there are named where a foreign key asks for it.
RefInv == D!ReferencesHold /\ PaperShape

\* The actions of branches and stores keep what stores and configurations name.
LEMMA PlacesKeep ==
  ASSUME RefInv, NEW h \in Handlers,
         D!CreateBranch(h) \/ D!UpdateBranch(h) \/ D!DeleteBranch(h) \/ D!WriteStore(h)
  PROVE  RefInv'
<1>1. papers' = papers
  BY DEF D!CreateBranch, D!UpdateBranch, D!DeleteBranch, D!WriteStore
<1>2. CASE D!CreateBranch(h)
  BY <1>1, <1>2 DEF RefInv, PaperShape, D!ReferencesHold, D!CreateBranch, D!Put
<1>3. CASE D!UpdateBranch(h)
  <2>1. DOMAIN branches' = DOMAIN branches /\ store' = store /\ zatca' = zatca
    BY <1>3 DEF D!UpdateBranch
  <2> QED
    BY <1>1, <2>1 DEF RefInv, PaperShape, D!ReferencesHold
<1>4. CASE D!DeleteBranch(h)
  <2> DEFINE b == req[h].branch
  <2>1. /\ DOMAIN branches' = DOMAIN branches \ {b} /\ DOMAIN zatca' = DOMAIN zatca \ {b}
        /\ store' = [s \in DOMAIN store |-> store[s] \ {b}]
    BY <1>4 DEF D!DeleteBranch, D!Without
  <2> HIDE DEF b
  <2> QED
    BY <1>1, <2>1 DEF RefInv, PaperShape, D!ReferencesHold
<1>5. CASE D!WriteStore(h)
  <2>1. branches' = branches /\ zatca' = zatca
    BY <1>5 DEF D!WriteStore
  <2> DEFINE home == req[h].home
  <2>2. \/ store' = store
        \/ home \subseteq DOMAIN branches /\ \E s \in DOMAIN store : store' = [store EXCEPT ![s] = home]
        \/ home \subseteq DOMAIN branches /\ \E s \in Stores : store' = D!Put(store, s, home)
    BY <1>5, Zenon DEF D!WriteStore
  <2> HIDE DEF home
  <2>3. DOMAIN store \subseteq DOMAIN store'
    BY <2>2 DEF D!Put
  <2>4. \A s \in DOMAIN store' : store'[s] \subseteq DOMAIN branches
    BY <2>2 DEF D!Put, RefInv, D!ReferencesHold
  <2> QED
    BY <1>1, <2>1, <2>3, <2>4 DEF RefInv, PaperShape, D!ReferencesHold
<1> QED
  BY <1>2, <1>3, <1>4, <1>5

\* The deletion of a store: no voucher names it, and no order does any more.
LEMMA DeletedStoreKeeps == ASSUME RefInv, NEW h \in Handlers, D!DeleteStore(h) PROVE RefInv'
<1> DEFINE s == req[h].store
<1>1. branches' = branches /\ zatca' = zatca
  BY DEF D!DeleteStore
<1>2. CASE UNCHANGED <<store, papers>>
  BY <1>1, <1>2 DEF RefInv, PaperShape, D!ReferencesHold
<1>3. ASSUME D!OfKind("voucher", s) = {}, store' = D!Without(store, s),
             papers' = [p \in DOMAIN papers |->
                          IF papers[p].kind = "order" THEN [papers[p] EXCEPT !.store = @ \ {s}] ELSE papers[p]]
      PROVE  RefInv'
  <2>1. DOMAIN store' = DOMAIN store \ {s} /\ \A t \in DOMAIN store' : store'[t] = store[t]
    BY <1>3 DEF D!Without
  <2>2. /\ DOMAIN papers' = DOMAIN papers
        /\ \A p \in DOMAIN papers :
             /\ DOMAIN papers'[p] = {"kind", "store"} /\ papers'[p].kind = papers[p].kind
             /\ papers'[p].store =
                  IF papers[p].kind = "order" THEN papers[p].store \ {s} ELSE papers[p].store
    BY <1>3 DEF RefInv, PaperShape
  <2>3. \A p \in DOMAIN papers : papers[p].kind = "voucher" => s \notin papers[p].store
    BY <1>3 DEF D!OfKind
  <2> HIDE DEF s
  <2> QED
    BY <1>1, <2>1, <2>2, <2>3 DEF RefInv, PaperShape, D!ReferencesHold
<1> QED
  BY <1>2, <1>3 DEF D!DeleteStore

\* A paper is written: an order or a voucher only where its store is.
LEMMA PaperKeeps == ASSUME RefInv, NEW h \in Handlers, D!WritePaper(h) PROVE RefInv'
<1> DEFINE r == req[h]
<1>1. branches' = branches /\ zatca' = zatca /\ store' = store
  BY DEF D!WritePaper
<1>2. CASE papers' = papers
  BY <1>1, <1>2 DEF RefInv, PaperShape, D!ReferencesHold
<1>3. CASE papers' = D!Without(papers, r.paper)
  BY <1>1, <1>3 DEF RefInv, PaperShape, D!ReferencesHold, D!Without
<1>4. ASSUME NEW p \in Papers, papers' = D!Put(papers, p, [kind |-> r.kind, store |-> {r.store}]),
             r.kind \in {"order", "voucher"} => r.store \in DOMAIN store
      PROVE  RefInv'
  <2> DEFINE row == [kind |-> r.kind, store |-> {r.store}]
  <2>1. DOMAIN row = {"kind", "store"} /\ (row.kind \in {"order", "voucher"} => row.store \subseteq DOMAIN store)
    BY <1>4
  <2>2. papers' = [x \in DOMAIN papers \cup {p} |-> IF x = p THEN row ELSE papers[x]]
    BY <1>4 DEF D!Put
  <2> HIDE DEF row
  <2> QED
    BY <1>1, <2>1, <2>2 DEF RefInv, PaperShape, D!ReferencesHold
<1> QED
  BY <1>2, <1>3, <1>4 DEF D!WritePaper

\* Configurations are written for branches that are there.
LEMMA ConfigKeeps ==
  ASSUME RefInv, NEW h \in Handlers, D!SaveConfig(h) \/ D!DaemonAnswers(h)
  PROVE  RefInv'
<1>1. branches' = branches /\ store' = store /\ papers' = papers
  BY DEF D!SaveConfig, D!DaemonAnswers
<1>2. zatca' = zatca \/ \E b \in DOMAIN branches : \E v : zatca' = D!Put(zatca, b, v)
  BY DEF D!SaveConfig, D!DaemonAnswers
<1>3. DOMAIN zatca' \subseteq DOMAIN branches
  BY <1>2 DEF RefInv, D!ReferencesHold, D!Put
<1> QED
  BY <1>1, <1>3 DEF RefInv, PaperShape, D!ReferencesHold

\* What names a branch or a store through a foreign key names one that is there, however
\* deletions, checks and writes of other requests follow one another (DeleteBranch, DeleteStore).
THEOREM ReferencesKept == D!Spec => []D!ReferencesHold
<1>1. D!Init => RefInv
  BY DEF D!Init, RefInv, PaperShape, D!ReferencesHold
<1>2. RefInv /\ [D!Next]_(D!vars) => RefInv'
  <2> SUFFICES ASSUME RefInv, [D!Next]_(D!vars) PROVE RefInv'
    OBVIOUS
  <2>1. CASE UNCHANGED D!places
    BY <2>1 DEF D!places, RefInv, PaperShape, D!ReferencesHold
  <2>2. ASSUME NEW h \in Handlers,
               \/ D!Receive(h) \/ D!GetBranch(h) \/ D!CountLinks(h) \/ D!CheckBranch(h)
               \/ D!CheckStore(h) \/ D!AskDaemon(h) \/ D!OnboardAnswer(h) \/ D!WriteClient(h)
               \/ D!WriteSupplier(h) \/ D!DeletePartner(h) \/ D!UpdateCompany(h)
        PROVE  UNCHANGED D!places
    BY <2>2 DEF D!Receive, D!GetBranch, D!CountLinks, D!CheckBranch, D!CheckStore, D!AskDaemon,
       D!OnboardAnswer, D!WriteClient, D!WriteSupplier, D!DeletePartner, D!UpdateCompany, D!places
  <2>3. CASE UNCHANGED D!vars
    BY <2>1, <2>3 DEF D!vars, D!places
  <2> QED
    BY <2>1, <2>2, <2>3, PlacesKeep, DeletedStoreKeeps, PaperKeeps, ConfigKeeps DEF D!Next
<1>3. RefInv => D!ReferencesHold
  BY DEF RefInv
<1> QED
  BY <1>1, <1>2, <1>3, PTL DEF D!Spec

\* Where requests come one at a time, and no statement fails.
OneAtATime == (\A g, h \in Handlers : g = h) /\ MaxBreaks = 0

\* Bills and products name stores that are there.
CountedInv ==
  \A p \in DOMAIN papers : papers[p].kind \in {"bill", "product"} => papers[p].store \subseteq DOMAIN store

\* What the handler has checked or counted still holds.
Checking(h) ==
  /\ pc[h] = "write" /\ req[h].op = "paper" => req[h].store \in DOMAIN store
  /\ pc[h] = "count" => req[h].op \in {"delete branch", "delete store"}
  /\ pc[h] = "count products" =>
       req[h].op = "delete store" /\ D!OfKind("bill", req[h].store) = {}
  /\ pc[h] = "delete" /\ req[h].op = "delete store" =>
       D!OfKind("bill", req[h].store) = {} /\ D!OfKind("product", req[h].store) = {}
  /\ pc[h] = "delete" /\ req[h].op = "delete branch" => D!StoresOf(req[h].branch) = {}

LoneInv ==
  /\ DOMAIN pc = Handlers /\ DOMAIN req = Handlers /\ faults = 0
  /\ PaperShape /\ CountedInv /\ \A h \in Handlers : Checking(h)

\* A request that is answered has nothing left that it relies on.
LEMMA LoneAnswers ==
  ASSUME LoneInv, OneAtATime, NEW h \in Handlers, D!Answer(h), faults' = 0, PaperShape', CountedInv'
  PROVE  LoneInv'
<1>1. DOMAIN pc' = Handlers /\ DOMAIN req' = Handlers /\ pc'[h] = "idle"
  BY DEF D!Answer, LoneInv
<1>2. \A g \in Handlers : Checking(g)'
  BY <1>1 DEF OneAtATime, Checking
<1> QED
  BY <1>1, <1>2 DEF LoneInv

\* A handler that moves on relies on what it read, while no row moves.
LEMMA LoneMoves ==
  ASSUME LoneInv, OneAtATime, NEW h \in Handlers, UNCHANGED D!places, faults' = 0,
         DOMAIN pc' = Handlers, DOMAIN req' = Handlers, Checking(h)'
  PROVE  LoneInv'
<1>1. PaperShape' /\ CountedInv'
  BY DEF LoneInv, D!places, PaperShape, CountedInv
<1>2. \A g \in Handlers : g = h
  BY DEF OneAtATime
<1>3. \A g \in Handlers : Checking(g)'
  BY <1>2
<1> QED
  BY <1>1, <1>3 DEF LoneInv

\* No statement fails.
LEMMA NoFailure == ASSUME LoneInv, OneAtATime PROVE ~ D!Fail
  BY DEF LoneInv, OneAtATime, D!Fail

\* A count of nothing is remembered by going on.
LEMMA LoneCounts ==
  ASSUME LoneInv, OneAtATime, NEW h \in Handlers, D!CountLinks(h) PROVE LoneInv'
<1>1. UNCHANGED D!places /\ faults' = 0 /\ Checking(h)
  BY NoFailure DEF D!CountLinks, LoneInv
<1>2. CASE D!Answer(h)
  <2>1. PaperShape' /\ CountedInv'
    BY <1>1 DEF LoneInv, D!places, PaperShape, CountedInv
  <2> QED
    BY <1>1, <1>2, <2>1, LoneAnswers
<1> DEFINE next == IF pc[h] = "count" /\ req[h].op = "delete store" THEN "count products" ELSE "delete"
<1>3. CASE D!Counted(h) = {} /\ D!Goto(h, next)
  <2>1. DOMAIN pc' = Handlers /\ DOMAIN req' = Handlers /\ pc'[h] = next /\ req' = req
    BY <1>3 DEF D!Goto, LoneInv
  <2>2. pc[h] \in {"count", "count products"}
    BY DEF D!CountLinks
  <2>3. D!StoresOf(req[h].branch)' = D!StoresOf(req[h].branch)
    BY <1>1, <2>1 DEF D!StoresOf, D!places
  <2>4. \A kind : D!OfKind(kind, req[h].store)' = D!OfKind(kind, req[h].store)
    BY <1>1, <2>1 DEF D!OfKind, D!places
  <2>5. CASE req[h].op = "delete branch"
    <3>1. pc'[h] = "delete" /\ D!StoresOf(req[h].branch) = {}
      BY <1>1, <1>3, <2>1, <2>2, <2>5 DEF Checking, D!Counted
    <3>2. Checking(h)'
      BY <2>1, <2>3, <2>5, <3>1 DEF Checking
    <3> QED
      BY <1>1, <2>1, <3>2, LoneMoves
  <2>6. CASE pc[h] = "count" /\ req[h].op = "delete store"
    <3>1. pc'[h] = "count products" /\ D!OfKind("bill", req[h].store) = {}
      BY <1>3, <2>1, <2>6 DEF D!Counted
    <3>2. Checking(h)'
      BY <2>1, <2>4, <2>6, <3>1 DEF Checking
    <3> QED
      BY <1>1, <2>1, <3>2, LoneMoves
  <2>7. CASE pc[h] = "count products"
    <3>1. /\ pc'[h] = "delete" /\ req[h].op = "delete store"
          /\ D!OfKind("bill", req[h].store) = {} /\ D!OfKind("product", req[h].store) = {}
      BY <1>1, <1>3, <2>1, <2>7 DEF Checking, D!Counted
    <3>2. Checking(h)'
      BY <2>1, <2>4, <3>1 DEF Checking
    <3> QED
      BY <1>1, <2>1, <3>2, LoneMoves
  <2> QED
    BY <1>1, <2>2, <2>5, <2>6, <2>7 DEF Checking
<1> QED
  BY <1>2, <1>3, NoFailure DEF D!CountLinks

\* A store that is deleted was named by no bill and no product.
LEMMA LoneDeletes ==
  ASSUME LoneInv, OneAtATime, NEW h \in Handlers, D!DeleteStore(h) PROVE LoneInv'
<1> DEFINE s == req[h].store
<1>1. faults' = 0 /\ D!Answer(h) /\ \A p \in DOMAIN papers :
        papers[p].kind \in {"bill", "product"} => s \notin papers[p].store
  BY DEF D!DeleteStore, D!At, LoneInv, Checking, D!OfKind
<1>2. CASE UNCHANGED <<store, papers>>
  <2>1. PaperShape' /\ CountedInv'
    BY <1>2 DEF LoneInv, PaperShape, CountedInv
  <2> QED
    BY <1>1, <2>1, LoneAnswers
<1>3. ASSUME store' = D!Without(store, s),
             papers' = [p \in DOMAIN papers |->
                          IF papers[p].kind = "order" THEN [papers[p] EXCEPT !.store = @ \ {s}] ELSE papers[p]]
      PROVE  LoneInv'
  <2>1. DOMAIN store' = DOMAIN store \ {s}
    BY <1>3 DEF D!Without
  <2>2. /\ DOMAIN papers' = DOMAIN papers
        /\ \A p \in DOMAIN papers :
             /\ DOMAIN papers'[p] = {"kind", "store"} /\ papers'[p].kind = papers[p].kind
             /\ papers[p].kind # "order" => papers'[p].store = papers[p].store
    BY <1>3 DEF LoneInv, PaperShape
  <2> HIDE DEF s
  <2>3. PaperShape' /\ CountedInv'
    BY <1>1, <2>1, <2>2 DEF LoneInv, PaperShape, CountedInv
  <2> QED
    BY <1>1, <2>3, LoneAnswers
<1> QED
  BY <1>2, <1>3 DEF D!DeleteStore

\* A paper is written for the store that was found.
LEMMA LoneWrites ==
  ASSUME LoneInv, OneAtATime, NEW h \in Handlers, D!WritePaper(h) PROVE LoneInv'
<1> DEFINE r == req[h]
<1>1. faults' = 0 /\ D!Answer(h) /\ store' = store /\ pc[h] = "write" /\ Checking(h)
  BY DEF D!WritePaper, LoneInv
<1>2. CASE papers' = papers
  <2>1. PaperShape' /\ CountedInv'
    BY <1>1, <1>2 DEF LoneInv, PaperShape, CountedInv
  <2> QED
    BY <1>1, <2>1, LoneAnswers
<1>3. CASE papers' = D!Without(papers, r.paper)
  <2>1. PaperShape' /\ CountedInv'
    BY <1>1, <1>3 DEF LoneInv, PaperShape, CountedInv, D!Without
  <2> QED
    BY <1>1, <2>1, LoneAnswers
<1>4. ASSUME NEW p \in Papers, papers' = D!Put(papers, p, [kind |-> r.kind, store |-> {r.store}]),
             r.op = "paper"
      PROVE  LoneInv'
  <2> DEFINE row == [kind |-> r.kind, store |-> {r.store}]
  <2>1. DOMAIN row = {"kind", "store"} /\ row.store \subseteq DOMAIN store
    BY <1>1, <1>4 DEF Checking
  <2>2. papers' = [x \in DOMAIN papers \cup {p} |-> IF x = p THEN row ELSE papers[x]]
    BY <1>4 DEF D!Put
  <2> HIDE DEF row
  <2>3. PaperShape' /\ CountedInv'
    BY <1>1, <2>1, <2>2 DEF LoneInv, PaperShape, CountedInv
  <2> QED
    BY <1>1, <2>3, LoneAnswers
<1> QED
  BY <1>2, <1>3, <1>4 DEF D!WritePaper

\* A request arrives, or a check lets it go on.
LEMMA LoneArrives ==
  ASSUME LoneInv, OneAtATime, NEW h \in Handlers, D!Receive(h) \/ D!CheckStore(h) \/ D!CheckBranch(h)
  PROVE  LoneInv'
<1>1. UNCHANGED D!places /\ faults' = 0
  BY NoFailure DEF D!Receive, D!CheckStore, D!CheckBranch, LoneInv
<1>2. PaperShape' /\ CountedInv'
  BY <1>1 DEF LoneInv, D!places, PaperShape, CountedInv
<1>3. CASE D!Receive(h)
  <2>1. PICK r \in D!Requests : pc' = [pc EXCEPT ![h] = D!FirstPlace(r)] /\ req' = [req EXCEPT ![h] = r]
    BY <1>3 DEF D!Receive
  <2>2. /\ DOMAIN pc' = Handlers /\ DOMAIN req' = Handlers
        /\ pc'[h] = D!FirstPlace(r) /\ req'[h] = r
    BY <2>1 DEF LoneInv
  <2>3. /\ D!FirstPlace(r) \in {"count", "check", "write"}
        /\ D!FirstPlace(r) = "write" => r.op # "paper"
        /\ D!FirstPlace(r) = "count" => r.op \in {"delete branch", "delete store"}
    BY DEF D!FirstPlace, D!Checked
  <2>4. Checking(h)'
    BY <2>2, <2>3 DEF Checking
  <2> QED
    BY <1>1, <2>2, <2>4, LoneMoves
<1>4. CASE D!Answer(h)
  BY <1>1, <1>2, <1>4, LoneAnswers
<1>5. CASE \/ D!CheckStore(h) /\ D!Goto(h, "write") /\ req[h].store \in DOMAIN store
           \/ D!CheckBranch(h) /\ D!Goto(h, "write")
  <2>1. DOMAIN pc' = Handlers /\ DOMAIN req' = Handlers /\ pc'[h] = "write" /\ req' = req
    BY <1>5 DEF D!Goto, LoneInv
  <2>2. Checking(h)'
    BY <1>1, <1>5, <2>1 DEF Checking, D!places, D!CheckBranch
  <2> QED
    BY <1>1, <2>1, <2>2, LoneMoves
<1> QED
  BY <1>3, <1>4, <1>5, NoFailure DEF D!CheckStore, D!CheckBranch

\* The other actions take no store away and write no paper.
LEMMA LoneOthers ==
  ASSUME LoneInv, OneAtATime, NEW h \in Handlers,
         \/ D!CreateBranch(h) \/ D!UpdateBranch(h) \/ D!GetBranch(h) \/ D!DeleteBranch(h)
         \/ D!WriteStore(h) \/ D!SaveConfig(h) \/ D!AskDaemon(h) \/ D!DaemonAnswers(h)
         \/ D!OnboardAnswer(h) \/ D!WriteClient(h) \/ D!WriteSupplier(h) \/ D!DeletePartner(h)
         \/ D!UpdateCompany(h)
  PROVE  LoneInv'
<1>1. /\ papers' = papers /\ faults' = 0 /\ DOMAIN store \subseteq DOMAIN store'
  BY NoFailure DEF D!CreateBranch, D!UpdateBranch, D!GetBranch, D!DeleteBranch, D!WriteStore, D!Put,
     D!SaveConfig, D!AskDaemon, D!DaemonAnswers, D!OnboardAnswer, D!WriteClient, D!WriteSupplier,
     D!DeletePartner, D!UpdateCompany, D!places, LoneInv
<1>2. PaperShape' /\ CountedInv'
  BY <1>1 DEF LoneInv, PaperShape, CountedInv
<1>3. CASE D!Answer(h)
  BY <1>1, <1>2, <1>3, LoneAnswers
<1>4. CASE D!Goto(h, "stores") \/ D!Goto(h, "wait")
  <2>1. DOMAIN pc' = Handlers /\ DOMAIN req' = Handlers /\ pc'[h] \in {"stores", "wait"}
    BY <1>4 DEF D!Goto, LoneInv
  <2>2. \A g \in Handlers : Checking(g)'
    BY <2>1 DEF Checking, OneAtATime
  <2> QED
    BY <1>1, <1>2, <2>1, <2>2 DEF LoneInv
<1>5. CASE D!DaemonAnswers(h)
  <2>1. UNCHANGED <<pc, req, store, papers>> /\ pc[h] = "wait"
    BY <1>5 DEF D!DaemonAnswers, D!At
  <2>2. \A g \in Handlers : Checking(g)'
    BY <2>1 DEF Checking, OneAtATime
  <2> QED
    BY <1>1, <1>2, <2>1, <2>2 DEF LoneInv
<1>6. CASE \/ D!CreateBranch(h) \/ D!UpdateBranch(h) \/ D!DeleteBranch(h) \/ D!WriteStore(h)
           \/ D!SaveConfig(h) \/ D!OnboardAnswer(h) \/ D!WriteClient(h) \/ D!WriteSupplier(h)
           \/ D!DeletePartner(h) \/ D!UpdateCompany(h)
  <2>1. D!Answer(h)
    BY <1>6, Zenon DEF D!CreateBranch, D!UpdateBranch, D!DeleteBranch, D!WriteStore, D!SaveConfig,
       D!OnboardAnswer, D!WriteClient, D!WriteSupplier, D!DeletePartner, D!UpdateCompany
  <2> QED
    BY <1>3, <2>1
<1>7. CASE D!GetBranch(h) \/ D!AskDaemon(h)
  <2>1. CASE D!GetBranch(h)
    <3>1. D!Goto(h, "stores") \/ D!Answer(h)
      BY <2>1 DEF D!GetBranch
    <3> QED
      BY <1>3, <1>4, <3>1
  <2>2. CASE D!AskDaemon(h)
    <3>1. D!Goto(h, "wait") \/ D!Answer(h)
      BY <2>2, Zenon DEF D!AskDaemon
    <3> QED
      BY <1>3, <1>4, <3>1
  <2> QED
    BY <1>7, <2>1, <2>2
<1> QED
  BY <1>5, <1>6, <1>7

\* Where requests come one at a time and none of their statements fails, the deletion of a store
\* takes it from no bill and no product, and that of a branch from no store: the two counts and
\* the check of each request are enough (DeleteStore, DeleteBranch).
THEOREM DeletionsTakeNothing == ASSUME OneAtATime PROVE D!Spec => []D!DeletionTakesNothing
<1>1. D!Init => LoneInv
  BY DEF D!Init, LoneInv, PaperShape, CountedInv, Checking
<1>2. LoneInv /\ [D!Next]_(D!vars) => LoneInv'
  <2> SUFFICES ASSUME LoneInv, [D!Next]_(D!vars) PROVE LoneInv'
    OBVIOUS
  <2>1. CASE UNCHANGED D!vars
    BY <2>1 DEF D!vars, LoneInv, PaperShape, CountedInv, Checking, D!OfKind, D!StoresOf
  <2> QED
    BY <2>1, LoneArrives, LoneCounts, LoneDeletes, LoneWrites, LoneOthers DEF D!Next
<1>3. LoneInv => D!DeletionTakesNothing
  BY DEF LoneInv, CountedInv, Checking, D!DeletionTakesNothing, D!At
<1> QED
  BY <1>1, <1>2, <1>3, PTL DEF D!Spec
-----------------------------------------------------------------------------
(* Settings: the access token that was typed. *)

\* The values of a form that is being saved are values of their keys.
FormInv ==
  \A h \in Handlers : pc[h] \in {"start", "write back"} /\ req[h].op = "save" =>
    /\ "form" \in DOMAIN req[h]
    /\ \A k \in DOMAIN req[h].form : req[h].form[k] \in W!Values(k)

\* What is stored is blank or was typed, and so is what a handler has read of it.
TokenInv ==
  /\ settings[W!Token] \in Tokens \cup {""}
  /\ \A h \in Handlers : pc[h] \in {"write back", "upload", "message"} => got[h] \in Tokens

SettingInv ==
  /\ DOMAIN pc = Handlers /\ DOMAIN req = Handlers /\ DOMAIN got = Handlers
  /\ DOMAIN settings = W!Keys
  /\ FormInv /\ TokenInv /\ W!TokenKept /\ W!SentWithTypedToken

\* A step of one handler leaves what the others hold in memory.
HandlerMoves(h) ==
  /\ DOMAIN pc' = Handlers /\ DOMAIN req' = Handlers /\ DOMAIN got' = Handlers
  /\ \A g \in Handlers \ {h} : pc'[g] = pc[g] /\ req'[g] = req[g] /\ got'[g] = got[g]

\* Nothing is stored and nobody is served at the start.
LEMMA SettingInit == W!Init => SettingInv
  BY DEF W!Init, SettingInv, FormInv, TokenInv, W!TokenKept, W!SentWithTypedToken, W!Keys, W!Token, W!Enabled, W!Other

\* Learning is a step of one handler.
LEMMA LearnMoves ==
  ASSUME SettingInv, NEW h \in Handlers, NEW place, NEW r, NEW token, W!Learn(h, place, r, token)
  PROVE  HandlerMoves(h) /\ pc'[h] = place /\ req'[h] = r /\ got'[h] = token
BY DEF SettingInv, HandlerMoves, W!Learn

\* What a step of one handler must keep of it.
LEMMA MovesKeep ==
  ASSUME SettingInv, NEW h \in Handlers, HandlerMoves(h), DOMAIN settings' = W!Keys,
         settings'[W!Token] \in Tokens \cup {""}, W!TokenKept', W!SentWithTypedToken',
         pc'[h] \in {"write back", "upload", "message"} => got'[h] \in Tokens,
         pc'[h] \in {"start", "write back"} /\ req'[h].op = "save" =>
           /\ "form" \in DOMAIN req'[h]
           /\ \A k \in DOMAIN req'[h].form : req'[h].form[k] \in W!Values(k)
  PROVE  SettingInv'
<1>1. FormInv'
  <2> SUFFICES ASSUME NEW g \in Handlers, pc'[g] \in {"start", "write back"}, req'[g].op = "save"
               PROVE  /\ "form" \in DOMAIN req'[g]
                      /\ \A k \in DOMAIN req'[g].form : req'[g].form[k] \in W!Values(k)
    BY DEF FormInv, W!Values
  <2>1. CASE g = h
    BY <2>1
  <2>2. CASE g # h
    BY <2>2 DEF HandlerMoves, SettingInv, FormInv
  <2> QED
    BY <2>1, <2>2
<1>2. TokenInv'
  BY DEF HandlerMoves, SettingInv, TokenInv
<1> QED
  BY <1>1, <1>2 DEF HandlerMoves, SettingInv

\* A handler that answers keeps what the tables keep.
LEMMA SettingAnswerKeeps ==
  ASSUME SettingInv, NEW h \in Handlers, W!Answer(h), DOMAIN settings' = W!Keys,
         settings'[W!Token] \in Tokens \cup {""}, W!TokenKept', W!SentWithTypedToken'
  PROVE  SettingInv'
<1>1. HandlerMoves(h) /\ pc'[h] = "idle"
  BY LearnMoves DEF W!Answer
<1> QED
  BY <1>1, MovesKeep

\* A request comes in.
LEMMA SettingReceiveKeeps ==
  ASSUME SettingInv, NEW h \in Handlers, W!Receive(h) PROVE SettingInv'
<1>1. PICK r \in W!Requests : W!Learn(h, "start", r, "")
  BY DEF W!Receive
<1>2. HandlerMoves(h) /\ pc'[h] = "start" /\ req'[h] = r
  BY <1>1, LearnMoves
<1>3. r.op = "save" => "form" \in DOMAIN r /\ \A k \in DOMAIN r.form : r.form[k] \in W!Values(k)
  BY DEF W!Requests
<1>4. UNCHANGED <<settings, typed, stale, sent, media>>
  BY DEF W!Receive, W!tables, W!whatsapp, W!history
<1>5. DOMAIN settings' = W!Keys /\ settings'[W!Token] \in Tokens \cup {""} /\ W!TokenKept' /\ W!SentWithTypedToken'
  BY <1>4 DEF SettingInv, TokenInv, W!TokenKept, W!SentWithTypedToken
<1> QED
  BY <1>2, <1>3, <1>5, MovesKeep

\* The rest of a form has values of its keys as well.
LEMMA SettingContinues ==
  ASSUME SettingInv, NEW h \in Handlers, NEW k, W!Continue(h, k),
         pc[h] \in {"start", "write back"}, req[h].op = "save", DOMAIN settings' = W!Keys,
         settings'[W!Token] \in Tokens \cup {""}, W!TokenKept', W!SentWithTypedToken'
  PROVE  SettingInv'
<1>1. HandlerMoves(h) /\ pc'[h] = "start" /\ req'[h] = W!Rest(req[h], k)
  BY LearnMoves DEF W!Continue
<1>2. "form" \in DOMAIN req[h] /\ \A j \in DOMAIN req[h].form : req[h].form[j] \in W!Values(j)
  BY DEF SettingInv, FormInv
<1>3. DOMAIN req'[h] = DOMAIN req[h]
      /\ req'[h].form = [j \in W!Allowed(req[h]) \ {k} |-> req[h].form[j]]
  BY <1>1, <1>2 DEF W!Rest
<1>4. \A j \in DOMAIN req'[h].form : req'[h].form[j] \in W!Values(j)
  BY <1>2, <1>3 DEF W!Allowed
<1> QED
  BY <1>1, <1>2, <1>3, <1>4, MovesKeep

\* A key of the form: what is not kept as it was is typed.
LEMMA SaveKeyKeeps == ASSUME SettingInv, NEW h \in Handlers, W!SaveKey(h) PROVE SettingInv'
<1>1. PICK k \in W!Allowed(req[h]) :
        /\ ~ W!Preserves(k, req[h].form[k])
        /\ \/ /\ settings' = [settings EXCEPT ![k] = req[h].form[k]]
              /\ typed' = IF k = W!Token /\ req[h].form[k] \in Tokens THEN req[h].form[k] ELSE typed
              /\ stale' = IF k = W!Token THEN FALSE ELSE stale
           \/ UNCHANGED <<settings, W!history>>
        /\ W!Continue(h, k)
  BY DEF W!SaveKey
<1> DEFINE value == req[h].form[k]
<1>2. req[h].op = "save" /\ pc[h] = "start" /\ UNCHANGED <<sent, media>>
  BY DEF W!SaveKey, W!At, W!whatsapp
<1>3. k \in DOMAIN req[h].form
  BY DEF W!Allowed
<1>4. value \in W!Values(k)
  BY <1>2, <1>3 DEF SettingInv, FormInv
<1>5. k = W!Token => value \in Tokens
  BY <1>1, <1>4 DEF W!Values, W!Preserves
<1>6. W!SentWithTypedToken'
  BY <1>2 DEF SettingInv, W!SentWithTypedToken
<1>7. W!Token \in DOMAIN settings
  BY DEF SettingInv, W!Keys
<1>8. CASE /\ settings' = [settings EXCEPT ![k] = req[h].form[k]]
           /\ typed' = IF k = W!Token /\ req[h].form[k] \in Tokens THEN req[h].form[k] ELSE typed
           /\ stale' = IF k = W!Token THEN FALSE ELSE stale
  <2>1. DOMAIN settings' = W!Keys
    BY <1>8 DEF SettingInv
  <2>2. settings'[W!Token] = IF k = W!Token THEN value ELSE settings[W!Token]
    BY <1>7, <1>8
  <2>3. W!TokenKept'
    <3>1. CASE k = W!Token
      <4>1. settings'[W!Token] = value /\ typed' = value
        BY <1>5, <1>8, <2>2, <3>1
      <4> QED
        BY <4>1 DEF W!TokenKept
    <3>2. CASE k # W!Token
      <4>1. settings'[W!Token] = settings[W!Token] /\ typed' = typed
        BY <1>8, <2>2, <3>2
      <4>2. stale' = stale
        BY <1>8, <3>2, Zenon
      <4> QED
        BY <4>1, <4>2 DEF SettingInv, W!TokenKept
    <3> QED
      BY <3>1, <3>2
  <2>4. settings'[W!Token] \in Tokens \cup {""}
    BY <1>5, <2>2 DEF SettingInv, TokenInv
  <2> QED
    BY <1>1, <1>2, <1>6, <2>1, <2>3, <2>4, SettingContinues
<1>9. CASE UNCHANGED <<settings, W!history>>
  <2>1. DOMAIN settings' = W!Keys /\ settings'[W!Token] \in Tokens \cup {""} /\ W!TokenKept'
    BY <1>9 DEF SettingInv, TokenInv, W!TokenKept, W!history
  <2> QED
    BY <1>1, <1>2, <1>6, <2>1, SettingContinues
<1> QED
  BY <1>1, <1>8, <1>9

\* The mask or a blank: the token that is stored is read.
LEMMA ReadTokenKeeps == ASSUME SettingInv, NEW h \in Handlers, W!ReadToken(h) PROVE SettingInv'
<1>1. /\ req[h].op = "save" /\ pc[h] = "start"
      /\ UNCHANGED <<settings, typed, stale, sent, media>>
      /\ \/ W!Continue(h, W!Token)
         \/ settings[W!Token] # "" /\ W!Learn(h, "write back", req[h], settings[W!Token])
  BY DEF W!ReadToken, W!At, W!tables, W!whatsapp, W!history
<1>2. DOMAIN settings' = W!Keys /\ settings'[W!Token] \in Tokens \cup {""} /\ W!TokenKept' /\ W!SentWithTypedToken'
  BY <1>1 DEF SettingInv, TokenInv, W!TokenKept, W!SentWithTypedToken
<1>3. CASE W!Continue(h, W!Token)
  BY <1>1, <1>2, <1>3, SettingContinues
<1>4. CASE settings[W!Token] # "" /\ W!Learn(h, "write back", req[h], settings[W!Token])
  <2>1. HandlerMoves(h) /\ pc'[h] = "write back" /\ req'[h] = req[h] /\ got'[h] = settings[W!Token]
    BY <1>4, LearnMoves
  <2>2. settings[W!Token] \in Tokens
    BY <1>4 DEF SettingInv, TokenInv
  <2>3. "form" \in DOMAIN req[h] /\ \A k \in DOMAIN req[h].form : req[h].form[k] \in W!Values(k)
    BY <1>1 DEF SettingInv, FormInv
  <2> QED
    BY <1>2, <2>1, <2>2, <2>3, MovesKeep
<1> QED
  BY <1>1, <1>3, <1>4

\* What is written back was stored, and is stale when another was typed since.
LEMMA WriteBackKeeps == ASSUME SettingInv, NEW h \in Handlers, W!WriteTokenBack(h) PROVE SettingInv'
<1>1. /\ req[h].op = "save" /\ pc[h] = "write back" /\ W!Continue(h, W!Token)
      /\ UNCHANGED <<typed, sent, media>>
      /\ \/ settings' = [settings EXCEPT ![W!Token] = got[h]] /\ stale' = (got[h] # typed)
         \/ UNCHANGED <<settings, stale>>
  BY DEF W!WriteTokenBack, W!At, W!whatsapp
<1>2. got[h] \in Tokens /\ W!Token \in DOMAIN settings
  BY <1>1 DEF SettingInv, TokenInv, W!Keys
<1>3. DOMAIN settings' = W!Keys /\ settings'[W!Token] \in Tokens \cup {""}
  BY <1>1, <1>2 DEF SettingInv, TokenInv
<1>4. W!TokenKept'
  <2>1. CASE settings' = [settings EXCEPT ![W!Token] = got[h]] /\ stale' = (got[h] # typed)
    BY <1>1, <1>2, <2>1 DEF W!TokenKept
  <2>2. CASE UNCHANGED <<settings, stale>>
    BY <1>1, <2>2 DEF SettingInv, W!TokenKept
  <2> QED
    BY <1>1, <2>1, <2>2
<1>5. W!SentWithTypedToken'
  BY <1>1 DEF SettingInv, W!SentWithTypedToken
<1> QED
  BY <1>1, <1>3, <1>4, <1>5, SettingContinues

\* A message is checked, its document uploaded and the message sent.
LEMMA SettingSendKeeps ==
  ASSUME SettingInv, NEW h \in Handlers,
         W!SendCheck(h) \/ W!Upload(h) \/ W!SendMessage(h) \/ W!MessageRefused(h)
  PROVE  SettingInv'
<1>1. UNCHANGED <<settings, typed, stale>>
  BY DEF W!SendCheck, W!Upload, W!SendMessage, W!MessageRefused, W!tables, W!history
<1>2. DOMAIN settings' = W!Keys /\ settings'[W!Token] \in Tokens \cup {""} /\ W!TokenKept'
  BY <1>1 DEF SettingInv, TokenInv, W!TokenKept
<1>3. req[h].op = "send"
  BY DEF W!SendCheck, W!Upload, W!SendMessage, W!MessageRefused, W!At
<1>4. W!SentWithTypedToken'
  <2>1. CASE UNCHANGED <<sent, media>>
    BY <2>1 DEF SettingInv, W!SentWithTypedToken
  <2> DEFINE token == got[h]
  <2>a. pc[h] \in {"upload", "message"} => token \in Tokens
    BY DEF SettingInv, TokenInv
  <2>b. \A m \in sent \cup media : m.token \in Tokens
    BY DEF SettingInv, W!SentWithTypedToken
  <2>2. CASE pc[h] = "upload" /\ sent' = sent
             /\ media' = media \cup {[bill |-> req[h].bill, token |-> got[h]]}
    <3>1. \A m \in sent' \cup media' : m \in sent \cup media \/ m.token = token
      BY <2>2
    <3> QED
      BY <2>2, <2>a, <2>b, <3>1 DEF W!SentWithTypedToken
  <2>3. CASE pc[h] = "message" /\ media' = media
             /\ sent' = sent \cup {[n |-> W!Cardinality(sent) + 1, bill |-> req[h].bill, token |-> got[h]]}
    <3>1. \A m \in sent' \cup media' : m \in sent \cup media \/ m.token = token
      BY <2>3
    <3> QED
      BY <2>3, <2>a, <2>b, <3>1 DEF W!SentWithTypedToken
  <2> QED
    BY <2>1, <2>2, <2>3 DEF W!SendCheck, W!Upload, W!SendMessage, W!MessageRefused, W!At, W!whatsapp
<1>5. CASE W!Answer(h)
  BY <1>2, <1>4, <1>5, SettingAnswerKeeps
<1>6. CASE \/ settings[W!Token] # "" /\ W!Learn(h, "upload", req[h], settings[W!Token])
           \/ pc[h] = "upload" /\ W!Learn(h, "message", req[h], got[h])
  <2>1. /\ HandlerMoves(h) /\ pc'[h] \in {"upload", "message"} /\ req'[h] = req[h]
        /\ got'[h] \in Tokens
    <3>1. CASE settings[W!Token] # "" /\ W!Learn(h, "upload", req[h], settings[W!Token])
      <4>1. settings[W!Token] \in Tokens
        BY <3>1 DEF SettingInv, TokenInv
      <4> QED
        BY <3>1, <4>1, LearnMoves
    <3>2. CASE pc[h] = "upload" /\ W!Learn(h, "message", req[h], got[h])
      <4>1. got[h] \in Tokens
        BY <3>2 DEF SettingInv, TokenInv
      <4> QED
        BY <3>2, <4>1, LearnMoves
    <3> QED
      BY <1>6, <3>1, <3>2
  <2> QED
    BY <1>2, <1>3, <1>4, <2>1, MovesKeep
<1> QED
  BY <1>5, <1>6 DEF W!SendCheck, W!Upload, W!SendMessage, W!MessageRefused, W!At

\* The other answers concern no token.
LEMMA AnswersKeep ==
  ASSUME SettingInv, NEW h \in Handlers, W!SaveDone(h) \/ W!SavePreferences(h) \/ W!MarkRead(h)
  PROVE  SettingInv'
<1>1. W!Answer(h) /\ UNCHANGED <<settings, typed, stale, sent, media>>
  BY DEF W!SaveDone, W!SavePreferences, W!MarkRead, W!tables, W!whatsapp, W!history
<1>2. DOMAIN settings' = W!Keys /\ settings'[W!Token] \in Tokens \cup {""} /\ W!TokenKept' /\ W!SentWithTypedToken'
  BY <1>1 DEF SettingInv, TokenInv, W!TokenKept, W!SentWithTypedToken
<1> QED
  BY <1>1, <1>2, SettingAnswerKeeps

\* SettingInv is inductive.
THEOREM SettingInductive == W!Spec => []SettingInv
<1>1. SettingInv /\ [W!Next]_(W!vars) => SettingInv'
  <2> SUFFICES ASSUME SettingInv, [W!Next]_(W!vars) PROVE SettingInv'
    OBVIOUS
  <2>1. CASE W!Next
    BY <2>1, SettingReceiveKeeps, SaveKeyKeeps, ReadTokenKeeps, WriteBackKeeps, SettingSendKeeps, AnswersKeep DEF W!Next
  <2>2. CASE UNCHANGED W!vars
    BY <2>2 DEF W!vars, SettingInv, FormInv, TokenInv, W!TokenKept, W!SentWithTypedToken, W!Values
  <2> QED
    BY <2>1, <2>2
<1> QED
  BY <1>1, SettingInit, PTL DEF W!Spec

\* Saving a form that shows the mask does not lose the access token, unless it is
\* written back after another one was typed (setting.go:228).
THEOREM TokenStays == W!Spec => []W!TokenKept
<1>1. SettingInv => W!TokenKept
  BY DEF SettingInv
<1> QED
  BY <1>1, SettingInductive, PTL

\* Whatever is sent is sent with a token that was typed (whatsapp.go).
THEOREM SentTyped == W!Spec => []W!SentWithTypedToken
<1>1. SettingInv => W!SentWithTypedToken
  BY DEF SettingInv
<1> QED
  BY <1>1, SettingInductive, PTL
-----------------------------------------------------------------------------
(* Vehicles: what was said of a number answers for it. *)

\* The places at which a handler has what it will answer with.
Found == {"save", "decode", "catalogue"}

\* What may be answered with, when n was asked: what was said of a vehicle that begins as n says,
\* and of n itself when n is whole.
Suits(n, of) == V!BeginsAs(n, of) /\ (V!Whole(n) => of = n)

\* What a handler has found fits what it was asked; what it got from a service is of the very
\* number, and is there.
BodyInv ==
  \A h \in Handlers :
    /\ pc[h] # "idle" => req[h].number \in Vins
    /\ pc[h] \in Found => \A body \in got[h] : Suits(req[h].number, body.of)
    /\ pc[h] = "save" => got[h] # {} /\ \A body \in got[h] : body.of = req[h].number

\* A row says what was said of its own number, which clients asked for.
CacheInv == \A n \in DOMAIN vin_cache : n \in Vins /\ vin_cache[n].of = n

\* An answer speaks of a vehicle that fits, and its year is that vehicle's.
AnswerFits(a) ==
  a.kind \in {"vehicle", "body", "parts"} =>
    \A body \in a.body :
      /\ Suits(a.number, body.of)
      /\ a.kind = "vehicle" /\ (\A j \in 1..YearAt : a.number[j] \notin V!Wild) =>
           a.year = V!getYear(body.of[YearAt])

VehicleInv ==
  /\ DOMAIN pc = Handlers /\ DOMAIN req = Handlers
  /\ DOMAIN got = Handlers /\ DOMAIN answer = Handlers
  /\ BodyInv /\ CacheInv /\ \A h \in Handlers : AnswerFits(answer[h])

\* A step of one handler leaves what the others hold in memory.
LookupMoves(h) ==
  /\ DOMAIN pc' = Handlers /\ DOMAIN req' = Handlers
  /\ DOMAIN got' = Handlers /\ DOMAIN answer' = Handlers
  /\ \A g \in Handlers \ {h} :
       pc'[g] = pc[g] /\ req'[g] = req[g] /\ got'[g] = got[g] /\ answer'[g] = answer[g]

\* A number begins as itself.
LEMMA SuitsItself == ASSUME NEW n \in Seq(Int) PROVE Suits(n, n)
  BY DEF Suits, V!BeginsAs

\* LIKE cuts a row at every character of the pattern up to its first wildcard: the row that it
\* finds begins as the number says.
LEMMA LikeBegins ==
  ASSUME NEW n \in Seq(Int), NEW row \in Seq(Int), V!Matches(row, n)
  PROVE  V!BeginsAs(n, row)
<1> DEFINE p == Append(n, V!AnyMany)
           Plain(i) == \A j \in 1..i : n[j] \notin V!Wild
<1>1. PICK cut \in [0..Len(p) -> 0..Len(row)] :
        /\ cut[0] = 0
        /\ \A i \in 1..Len(p) :
             IF p[i] = V!AnyMany
             THEN cut[i - 1] <= cut[i]
             ELSE cut[i] = cut[i - 1] + 1 /\ p[i] \in {V!AnyOne, row[cut[i]]}
  BY DEF V!Matches, V!Like
<1>2. Len(p) = Len(n) + 1 /\ Len(n) \in Nat /\ \A i \in 1..Len(n) : p[i] = n[i]
  BY DEF V!AnyMany
<1> HIDE DEF p
<1>3. \A i \in 1..Len(n) : n[i] \notin V!Wild =>
        cut[i] = cut[i - 1] + 1 /\ n[i] = row[cut[i]] /\ cut[i] \in 0..Len(row)
  <2>1. SUFFICES ASSUME NEW i \in 1..Len(n), n[i] \notin V!Wild
                 PROVE  cut[i] = cut[i - 1] + 1 /\ n[i] = row[cut[i]] /\ cut[i] \in 0..Len(row)
    OBVIOUS
  <2>2. i \in 1..Len(p) /\ p[i] = n[i]
    BY <1>2
  <2>3. p[i] # V!AnyMany /\ p[i] # V!AnyOne
    BY <2>1, <2>2, Zenon DEF V!Wild
  <2>4. cut[i] = cut[i - 1] + 1 /\ p[i] \in {V!AnyOne, row[cut[i]]}
    BY <1>1, <2>2, <2>3
  <2>5. cut[i] \in 0..Len(row)
    <3>1. i \in 0..Len(p)
      BY <1>2, <2>2
    <3> QED
      BY <1>1, <3>1
  <2> QED
    BY <2>2, <2>3, <2>4, <2>5
<1> DEFINE Good == {i \in Nat : i <= Len(n) /\ Plain(i) => cut[i] = i}
<1>4. Good = Nat
  <2>1. 0 \in Good
    BY <1>1
  <2>2. ASSUME NEW i \in Good PROVE i + 1 \in Good
    <3>1. SUFFICES ASSUME i + 1 <= Len(n), Plain(i + 1) PROVE cut[i + 1] = i + 1
      OBVIOUS
    <3>2. i <= Len(n) /\ Plain(i) /\ i + 1 \in 1..Len(n) /\ n[i + 1] \notin V!Wild
      BY <1>2, <3>1
    <3>3. cut[i] = i
      BY <3>2
    <3> QED
      BY <1>3, <3>2, <3>3
  <2> QED
    BY <2>1, <2>2, NatInduct
<1>5. ASSUME NEW i \in 1..Len(n), Plain(i) PROVE i <= Len(row) /\ row[i] = n[i]
  <2>1. i \in Good
    BY <1>2, <1>4
  <2>2. cut[i] = i /\ n[i] \notin V!Wild
    BY <1>2, <1>5, <2>1
  <2> QED
    BY <1>2, <1>3, <2>2
<1> QED
  BY <1>5 DEF V!BeginsAs

\* So a row that is found fits.
LEMMA MatchFits ==
  ASSUME Vins \subseteq Seq(Int), NEW n \in Vins, NEW row \in Vins, V!Matches(row, n)
  PROVE  Suits(n, row)
<1>1. n \in Seq(Int) /\ row \in Seq(Int)
  OBVIOUS
<1>2. V!BeginsAs(n, row)
  BY <1>1, LikeBegins
<1>3. ASSUME V!Whole(n) PROVE row = n
  <2>1. Len(row) <= Len(n) /\ \A i \in 1..Len(n) : n[i] \notin V!Wild
    BY <1>3 DEF V!Whole
  <2>2. Len(n) \in Nat /\ Len(row) \in Nat
    BY <1>1
  <2>3. \A i \in 1..Len(n) : i <= Len(row) /\ row[i] = n[i]
    BY <1>2, <2>1, <2>2 DEF V!BeginsAs
  <2>4. Len(row) = Len(n)
    BY <2>1, <2>2, <2>3
  <2> QED
    BY <1>1, <2>3, <2>4
<1> QED
  BY <1>2, <1>3 DEF Suits

\* Learning moves a handler on with its request.
LEMMA LookupLearns ==
  ASSUME VehicleInv, NEW h \in Handlers, NEW place, NEW body, V!Learn(h, place, body)
  PROVE  /\ LookupMoves(h) /\ pc'[h] = place /\ got'[h] = body
         /\ req'[h] = req[h] /\ answer'[h] = answer[h]
BY DEF VehicleInv, LookupMoves, V!Learn

\* A reply ends the request.
LEMMA LookupReplies ==
  ASSUME VehicleInv, NEW h \in Handlers, NEW a, V!Reply(h, a)
  PROVE  LookupMoves(h) /\ pc'[h] = "idle" /\ answer'[h] = a
BY DEF VehicleInv, LookupMoves, V!Reply

\* What a step of one handler must keep of it.
LEMMA LookupKeeps ==
  ASSUME VehicleInv, NEW h \in Handlers, LookupMoves(h), CacheInv',
         pc'[h] # "idle" => req'[h].number \in Vins,
         pc'[h] \in Found => \A body \in got'[h] : Suits(req'[h].number, body.of),
         pc'[h] = "save" => got'[h] # {} /\ \A body \in got'[h] : body.of = req'[h].number,
         AnswerFits(answer'[h])
  PROVE  VehicleInv'
<1>1. BodyInv'
  <2> SUFFICES ASSUME NEW g \in Handlers
               PROVE  /\ pc'[g] # "idle" => req'[g].number \in Vins
                      /\ pc'[g] \in Found => \A body \in got'[g] : Suits(req'[g].number, body.of)
                      /\ pc'[g] = "save" =>
                           got'[g] # {} /\ \A body \in got'[g] : body.of = req'[g].number
    BY DEF BodyInv, Found, Suits, V!BeginsAs, V!Whole
  <2>1. CASE g = h
    BY <2>1
  <2>2. CASE g # h
    BY <2>2 DEF LookupMoves, VehicleInv, BodyInv
  <2> QED
    BY <2>1, <2>2
<1>2. \A g \in Handlers : AnswerFits(answer'[g])
  <2> SUFFICES ASSUME NEW g \in Handlers PROVE AnswerFits(answer'[g])
    OBVIOUS
  <2>1. CASE g = h
    BY <2>1
  <2>2. CASE g # h
    <3>1. answer'[g] = answer[g] /\ AnswerFits(answer[g])
      BY <2>2 DEF LookupMoves, VehicleInv
    <3> QED
      BY <3>1
  <2> QED
    BY <2>1, <2>2
<1> QED
  BY <1>1, <1>2 DEF LookupMoves, VehicleInv

\* A lookup arrives: its number is one that clients ask for.
LEMMA LookupArrives == ASSUME VehicleInv, NEW h \in Handlers, V!Receive(h) PROVE VehicleInv'
<1>1. /\ LookupMoves(h) /\ pc'[h] \in {"global", "cache"} /\ req'[h].number \in Vins
      /\ answer'[h] = V!NoAnswer /\ vin_cache' = vin_cache
  BY DEF V!Receive, VehicleInv, LookupMoves
<1>2. CacheInv'
  BY <1>1 DEF VehicleInv, CacheInv
<1>3. AnswerFits(answer'[h])
  BY <1>1 DEF V!NoAnswer, AnswerFits
<1> QED
  BY <1>1, <1>2, <1>3, LookupKeeps DEF Found

\* A row that LIKE finds fits, and is of its own number.
LEMMA CacheRead ==
  ASSUME VehicleInv, Vins \subseteq Seq(Int), NEW h \in Handlers, V!ReadCache(h)
  PROVE  VehicleInv'
<1>1. /\ vin_cache' = vin_cache /\ pc[h] = "cache"
      /\ \/ \E n \in DOMAIN vin_cache : V!Matches(n, req[h].number) /\ V!Learn(h, "decode", {vin_cache[n]})
         \/ V!Learn(h, "global", {})
  BY DEF V!ReadCache
<1>2. CacheInv' /\ req[h].number \in Vins /\ AnswerFits(answer[h])
  BY <1>1 DEF VehicleInv, CacheInv, BodyInv
<1>3. CASE V!Learn(h, "global", {})
  BY <1>2, <1>3, LookupLearns, LookupKeeps DEF Found
<1>4. ASSUME NEW n \in DOMAIN vin_cache, V!Matches(n, req[h].number), V!Learn(h, "decode", {vin_cache[n]})
      PROVE  VehicleInv'
  <2>1. n \in Vins /\ vin_cache[n].of = n
    BY DEF VehicleInv, CacheInv
  <2>2. \A body \in {vin_cache[n]} : Suits(req[h].number, body.of)
    BY <1>2, <1>4, <2>1, MatchFits
  <2> QED
    BY <1>2, <1>4, <2>2, LookupLearns, LookupKeeps
<1> QED
  BY <1>1, <1>3, <1>4

\* A service answers for the number it was asked for.
LEMMA ServiceAsked ==
  ASSUME VehicleInv, Vins \subseteq Seq(Int), NEW h \in Handlers, V!AskService(h)
  PROVE  VehicleInv'
<1> DEFINE said == {[of |-> req[h].number, layout |-> pc[h]]}
<1>1. /\ vin_cache' = vin_cache /\ pc[h] \in {"global", "europe"}
      /\ V!Learn(h, "save", said) \/ \E place \in {"europe", "decode"} : V!Learn(h, place, {})
  BY DEF V!AskService
<1>2. CacheInv' /\ req[h].number \in Vins /\ AnswerFits(answer[h])
  BY <1>1 DEF VehicleInv, CacheInv, BodyInv
<1>3. ASSUME NEW place \in {"europe", "decode"}, V!Learn(h, place, {}) PROVE VehicleInv'
  BY <1>2, <1>3, LookupLearns, LookupKeeps DEF Found
<1>4. CASE V!Learn(h, "save", said)
  <2>1. Suits(req[h].number, req[h].number)
    BY <1>2, SuitsItself
  <2>2. said # {} /\ \A body \in said : body.of = req[h].number
    OBVIOUS
  <2> HIDE DEF said
  <2>3. /\ LookupMoves(h) /\ pc'[h] = "save" /\ got'[h] = said
        /\ req'[h] = req[h] /\ answer'[h] = answer[h]
    BY <1>4, LookupLearns
  <2>4. \A body \in said : Suits(req[h].number, body.of)
    BY <2>1, <2>2
  <2> QED
    BY <1>2, <2>2, <2>3, <2>4, LookupKeeps
<1> QED
  BY <1>1, <1>3, <1>4

\* The row that is inserted is under the number the service was asked for.
LEMMA RequestSaved == ASSUME VehicleInv, NEW h \in Handlers, V!SaveRequest(h) PROVE VehicleInv'
<1> DEFINE n == req[h].number
           body0 == CHOOSE body \in got[h] : TRUE
<1>1. /\ n \in Vins /\ got[h] # {} /\ AnswerFits(answer[h])
      /\ \A body \in got[h] : body.of = n /\ Suits(n, body.of)
  BY DEF V!SaveRequest, VehicleInv, BodyInv, Found
<1>2. body0.of = n
  BY <1>1
<1>3. CacheInv'
  <2>1. \/ vin_cache' = vin_cache
        \/ vin_cache' = [m \in DOMAIN vin_cache \cup {n} |-> IF m = n THEN body0 ELSE vin_cache[m]]
    BY DEF V!SaveRequest
  <2> HIDE DEF body0, n
  <2> QED
    BY <1>1, <1>2, <2>1 DEF VehicleInv, CacheInv
<1>4. V!Learn(h, "decode", got[h])
  BY DEF V!SaveRequest
<1> QED
  BY <1>1, <1>3, <1>4, LookupLearns, LookupKeeps

\* What is answered is what was found; the year is read in the number that was sent, which says
\* what the vehicle's says up to there.
LEMMA LookupAnswered ==
  ASSUME VehicleInv, YearAt \in Nat \ {0}, Vins \subseteq Seq(Int), NEW h \in Handlers,
         V!Decode(h) \/ V!ReadParts(h)
  PROVE  VehicleInv'
<1> DEFINE n == req[h].number
<1>1. vin_cache' = vin_cache /\ pc[h] \in {"decode", "catalogue"}
  BY DEF V!Decode, V!ReadParts
<1>2. /\ CacheInv' /\ n \in Vins /\ AnswerFits(answer[h])
      /\ \A body \in got[h] : Suits(n, body.of)
  BY <1>1 DEF VehicleInv, CacheInv, BodyInv, Found
<1>3. CASE V!Learn(h, "catalogue", got[h])
  BY <1>2, <1>3, LookupLearns, LookupKeeps
<1>4. ASSUME NEW a, V!Reply(h, a), AnswerFits(a) PROVE VehicleInv'
  BY <1>2, <1>4, LookupReplies, LookupKeeps DEF Found
<1>5. CASE V!Decode(h)
  <2>1. CASE V!Reply(h, [kind |-> "refused"]) \/ V!Reply(h, [kind |-> "panic"])
    BY <1>4, <2>1 DEF AnswerFits
  <2>2. CASE V!Reply(h, [kind |-> "body", number |-> n, body |-> got[h]])
    BY <1>2, <1>4, <2>2 DEF AnswerFits
  <2> DEFINE a == [kind |-> "vehicle", number |-> n, body |-> got[h], year |-> V!getYear(n[YearAt])]
  <2>3. CASE V!Reply(h, a) /\ ~ Len(n) < YearAt
    <3>1. Len(n) \in Nat
      BY <1>2
    <3>2. YearAt \in 1..Len(n)
      BY <2>3, <3>1
    <3>3. ASSUME NEW body \in got[h], \A j \in 1..YearAt : n[j] \notin V!Wild
          PROVE  body.of[YearAt] = n[YearAt]
      BY <1>2, <3>2, <3>3 DEF Suits, V!BeginsAs
    <3>4. AnswerFits(a)
      BY <1>2, <3>3 DEF AnswerFits
    <3> QED
      BY <1>4, <2>3, <3>4
  <2> QED
    BY <1>3, <1>5, <2>1, <2>2, <2>3 DEF V!Decode
<1>6. CASE V!ReadParts(h)
  <2>1. PICK parts : V!Reply(h, [kind |-> "parts", number |-> n, body |-> got[h], parts |-> parts])
    BY <1>6 DEF V!ReadParts
  <2>2. AnswerFits([kind |-> "parts", number |-> n, body |-> got[h], parts |-> parts])
    BY <1>2 DEF AnswerFits
  <2> QED
    BY <1>4, <2>1, <2>2
<1> QED
  BY <1>5, <1>6

\* Numbers are sequences of characters, and the year has a place in them.
NumbersHaveYears == Vins \subseteq Seq(Int) /\ YearAt \in Nat \ {0}

\* VehicleInv is inductive.
THEOREM VehicleInductive == ASSUME NumbersHaveYears PROVE V!Spec => []VehicleInv
<1>1. V!Init => VehicleInv
  BY DEF V!Init, VehicleInv, BodyInv, CacheInv, AnswerFits, V!NoAnswer, Found
<1>2. VehicleInv /\ [V!Next]_(V!vars) => VehicleInv'
  <2> SUFFICES ASSUME VehicleInv, [V!Next]_(V!vars) PROVE VehicleInv'
    OBVIOUS
  <2>1. CASE V!Next
    BY <2>1, LookupArrives, CacheRead, ServiceAsked, RequestSaved, LookupAnswered
       DEF V!Next, NumbersHaveYears
  <2>2. CASE UNCHANGED V!vars
    <3>1. \A h \in Handlers : AnswerFits(answer'[h])
      BY <2>2 DEF V!vars, VehicleInv
    <3> QED
      BY <2>2, <3>1 DEF V!vars, VehicleInv, BodyInv, CacheInv
  <2> QED
    BY <2>1, <2>2
<1> QED
  BY <1>1, <1>2, PTL DEF V!Spec

\* A lookup by a whole number is answered with its own vehicle; by any other, with one that
\* begins as the number says up to its first wildcard (vin.go:87 asks with LIKE); and the year
\* that is answered is the vehicle's unless a wildcard stands before its place: for any numbers,
\* any services' answers and any cache they filled.
THEOREM AskedVehicle == ASSUME NumbersHaveYears PROVE V!Spec => []V!VehicleIsAsked
<1>1. VehicleInv => V!VehicleIsAsked
  BY DEF VehicleInv, AnswerFits, Suits, V!VehicleIsAsked
<1> QED
  BY <1>1, VehicleInductive, PTL
-----------------------------------------------------------------------------
(* Orders: the lines of an order and its total. *)

\* A sum in Orders, and one in Dashboard, is the sum of Induction.
LEMMA OrderSums ==
  ASSUME NEW f, NEW T
  PROVE  O!SumFunctionOnSet(f, T) = SumFunctionOnSet(f, T)
BY DEF O!SumFunctionOnSet, SumFunctionOnSet, O!FoldFunctionOnSet, FoldFunctionOnSet,
       O!MapThenFoldSet, MapThenFoldSet

LEMMA DashboardSums ==
  ASSUME NEW f, NEW T
  PROVE  B!SumFunctionOnSet(f, T) = SumFunctionOnSet(f, T)
BY DEF B!SumFunctionOnSet, SumFunctionOnSet, B!FoldFunctionOnSet, FoldFunctionOnSet,
       B!MapThenFoldSet, MapThenFoldSet

\* What is ordered: lines of whole quantities and prices.
CartsAreLines == Carts \subseteq Seq([quantity : Int, price : Int])

\* An empty cart, and one of two equal lines, are such.
LEMMA SmallCarts ==
  ASSUME NEW line \in [quantity : Int, price : Int], Carts = {<<>>, <<line, line>>}
  PROVE  CartsAreLines
<1> DEFINE L == [quantity : Int, price : Int]
<1>1. line \in L /\ CartsAreLines = (Carts \subseteq Seq(L))
  BY DEF CartsAreLines
<1> HIDE DEF L
<1>2. <<>> \in Seq(L) /\ <<line, line>> \in Seq(L)
  BY <1>1
<1> QED
  BY <1>1, <1>2

\* Rounding moves a value by at most half a step.
LEMMA RoundNear ==
  ASSUME NEW x \in Int
  PROVE  O!Round(x) \in Int /\ x - 4 <= 10 * O!Round(x) /\ 10 * O!Round(x) <= x + 5
BY DEF O!Round

\* The lines of a cart have whole values, and as many rounded ones.
LEMMA CartValues ==
  ASSUME NEW cart \in Seq([quantity : Int, price : Int])
  PROVE  /\ Len(cart) \in Nat /\ DOMAIN cart = 1..Len(cart)
         /\ \A i \in DOMAIN cart : O!Value(cart[i]) \in Int
         /\ O!LineTotals(cart) \in Seq(Int) /\ DOMAIN O!LineTotals(cart) = DOMAIN cart
         /\ \A i \in DOMAIN cart : O!LineTotals(cart)[i] = O!Round(O!Value(cart[i]))
<1>1. Len(cart) \in Nat /\ DOMAIN cart = 1..Len(cart)
  OBVIOUS
<1>2. ASSUME NEW i \in DOMAIN cart PROVE O!Value(cart[i]) \in Int
  <2> DEFINE L == [quantity : Int, price : Int]
  <2>1. cart[i] \in L
    <3>1. cart \in Seq(L)
      OBVIOUS
    <3> HIDE DEF L
    <3> QED
      BY <1>1, <3>1
  <2>2. cart[i].quantity \in Int /\ cart[i].price \in Int
    BY <2>1
  <2> QED
    BY <2>2 DEF O!Value
<1>3. \A i \in DOMAIN cart : O!Round(O!Value(cart[i])) \in Int
  BY <1>2, RoundNear
<1>4. O!LineTotals(cart) \in [1..Len(cart) -> Int]
  BY <1>1, <1>3 DEF O!LineTotals
<1> QED
  BY <1>1, <1>2, <1>4 DEF O!LineTotals

\* The rounded total differs from the sum of the rounded lines by at most half
\* of what each of them may be rounded by (order.go:380).
LEMMA RoundedSum ==
  ASSUME NEW cart \in Seq([quantity : Int, price : Int])
  PROVE  LET difference == O!OrderTotal(cart) - O!Sum(O!LineTotals(cart)) IN
         2 * difference <= Len(cart) + 1 /\ 2 * difference >= - (Len(cart) + 1)
<1> DEFINE n == Len(cart)
           S == 1..n
           v == [i \in DOMAIN cart |-> O!Value(cart[i])]
           r == O!LineTotals(cart)
           ten == [i \in S |-> 10 * r[i]]
           four == [i \in S |-> -4]
           five == [i \in S |-> 5]
           low == [i \in S |-> v[i] + four[i]]
           high == [i \in S |-> v[i] + five[i]]
           sum == SumFunctionOnSet(v, S)
           lines == SumFunctionOnSet(r, S)
<1>1. /\ n \in Nat /\ DOMAIN cart = S /\ DOMAIN r = S
      /\ \A i \in S : v[i] \in Int /\ r[i] = O!Round(v[i])
  BY CartValues
<1>2. \A i \in S : r[i] \in Int /\ v[i] - 4 <= 10 * r[i] /\ 10 * r[i] <= v[i] + 5
  BY <1>1, RoundNear
<1>3. IsFiniteSet(S) /\ Cardinality(S) = n
  BY <1>1, FS_Interval
<1>4. IntegersOn(v, S) /\ IntegersOn(r, S) /\ IntegersOn(four, S) /\ IntegersOn(five, S)
      /\ IntegersOn(ten, S) /\ IntegersOn(low, S) /\ IntegersOn(high, S)
  BY <1>1, <1>2, <1>3 DEF IntegersOn
<1>a. \A i \in S : /\ ten[i] = 10 * r[i] /\ four[i] = -4 /\ five[i] = 5
                   /\ low[i] = v[i] + four[i] /\ high[i] = v[i] + five[i]
  OBVIOUS
<1>b. \A i \in S : low[i] <= ten[i] /\ ten[i] <= high[i]
  BY <1>1, <1>2
<1>c. O!OrderTotal(cart) = O!Round(sum) /\ O!Sum(r) = lines
  BY <1>1, OrderSums DEF O!OrderTotal, O!Sum
<1> HIDE DEF v, r, ten, four, five, low, high, S
<1>5. SumFunctionOnSet(ten, S) = 10 * lines
  BY <1>4, <1>a, SumTimes
<1>6. SumFunctionOnSet(four, S) = (-4) * n
  <2>1. -4 \in Int /\ \A i \in S : four[i] = -4
    BY <1>a
  <2>2. SumFunctionOnSet(four, S) = (-4) * Cardinality(S)
    BY <1>3, <2>1, SumConstant
  <2> QED
    BY <2>2, <1>3
<1>7. SumFunctionOnSet(five, S) = 5 * n
  <2>1. 5 \in Int /\ \A i \in S : five[i] = 5
    BY <1>a
  <2>2. SumFunctionOnSet(five, S) = 5 * Cardinality(S)
    BY <1>3, <2>1, SumConstant
  <2> QED
    BY <2>2, <1>3
<1>8. /\ SumFunctionOnSet(low, S) = sum + SumFunctionOnSet(four, S)
      /\ SumFunctionOnSet(high, S) = sum + SumFunctionOnSet(five, S)
  BY <1>4, <1>a, SumPlus
<1>9. /\ SumFunctionOnSet(low, S) <= SumFunctionOnSet(ten, S)
      /\ SumFunctionOnSet(ten, S) <= SumFunctionOnSet(high, S)
  BY <1>4, <1>b, SumMonotone
<1>10. sum \in Int /\ lines \in Int
  BY <1>4, SumInt
<1> HIDE DEF sum, lines
<1>11. sum + (-4) * n <= 10 * lines /\ 10 * lines <= sum + 5 * n
  BY <1>5, <1>6, <1>7, <1>8, <1>9
<1>12. O!Round(sum) \in Int /\ sum - 4 <= 10 * O!Round(sum) /\ 10 * O!Round(sum) <= sum + 5
  BY <1>10, RoundNear
<1> DEFINE total == O!Round(sum)
<1> HIDE DEF total, n
<1>13. 2 * (total - lines) <= n + 1 /\ 2 * (total - lines) >= - (n + 1)
  BY <1>1, <1>10, <1>11, <1>12 DEF total
<1> QED
  BY <1>c, <1>13 DEF total, n, r
-----------------------------------------------------------------------------
\* The row that a request writes.
RowOf(r) == [number |-> r.number, store |-> r.store, total |-> O!OrderTotal(r.cart)]

Ordering(r) == r.op \in {"create", "update"}

\* What a transaction will commit: the row of its request, and no lines but those of it.
WorkOf(h) ==
  /\ "lines" \in DOMAIN work[h]
  /\ O!Open(h) => /\ Ordering(req[h]) /\ req[h].cart \in Carts
                /\ work[h].id \subseteq given
                /\ work[h].row \subseteq {RowOf(req[h])}
                /\ \A o, p \in work[h].id : o = p
  /\ pc[h] = "lines" => work[h].lines = <<>>
  /\ pc[h] = "commit" /\ work[h].row # {} => work[h].lines = O!LineTotals(req[h].cart)
  /\ pc[h] \in {"number", "row"} => Ordering(req[h]) /\ req[h].cart \in Carts
  /\ pc[h] \in {"number", "row"} /\ req[h].op = "update" => req[h].id \in given
  /\ pc[h] = "known" => req[h].op \in {"update", "delete"} /\ req[h].id \in given
  /\ pc[h] = "known" /\ req[h].op = "update" => req[h].cart \in Carts

\* Two transactions hold different numbers and different orders; nobody else has the
\* number that one of them will write.
LocksOf(h) ==
  O!Open(h) =>
    /\ \A i \in Handlers \ {h} : O!Open(i) => req[i].number # req[h].number /\ work[i].id \cap work[h].id = {}
    /\ work[h].row # {} => \A o \in DOMAIN orders \ work[h].id : orders[o].number # req[h].number

\* A row and its lines are those of one cart; no two rows have a number.
RowsInv ==
  /\ DOMAIN order_items = DOMAIN orders /\ DOMAIN orders \subseteq given
  /\ \A o \in DOMAIN orders : \E cart \in Carts :
       order_items[o] = O!LineTotals(cart) /\ orders[o].total = O!OrderTotal(cart)
  /\ \A o, p \in DOMAIN orders : o # p => orders[o].number # orders[p].number

OrderInv ==
  /\ DOMAIN pc = Handlers /\ DOMAIN req = Handlers /\ DOMAIN work = Handlers
  /\ RowsInv
  /\ \A h \in Handlers : WorkOf(h) /\ LocksOf(h)

\* A step of one handler leaves what the others hold in memory.
OrderMoves(h) ==
  /\ DOMAIN pc' = Handlers /\ DOMAIN req' = Handlers /\ DOMAIN work' = Handlers
  /\ \A i \in Handlers \ {h} : pc'[i] = pc[i] /\ req'[i] = req[i] /\ work'[i] = work[i]

\* Rows go, and those that stay keep their numbers, totals and lines.
RowsStay ==
  /\ DOMAIN orders' \subseteq DOMAIN orders /\ given \subseteq given'
  /\ DOMAIN order_items' = DOMAIN orders'
  /\ \A o \in DOMAIN orders' : /\ orders'[o].number = orders[o].number
                              /\ orders'[o].total = orders[o].total
                              /\ order_items'[o] = order_items[o]

LEMMA RowsStayRows == ASSUME RowsInv, RowsStay PROVE RowsInv'
  BY DEF RowsInv, RowsStay

LEMMA TablesStay == ASSUME RowsInv, UNCHANGED <<orders, order_items>>, given \subseteq given' PROVE RowsStay
  BY DEF RowsStay, RowsInv

\* What a handler that does not move has to commit stays what it was.
LEMMA WorkStays ==
  ASSUME NEW i, WorkOf(i), given \subseteq given', pc'[i] = pc[i], req'[i] = req[i], work'[i] = work[i]
  PROVE  WorkOf(i)'
BY DEF WorkOf, O!Open, Ordering, RowOf

\* A step of h after which h has no transaction, or the one it had, keeps what the others lock.
LEMMA OrderKeeps ==
  ASSUME OrderInv, NEW h \in Handlers, OrderMoves(h), RowsStay, WorkOf(h)',
         O!Open(h)' => O!Open(h) /\ req'[h] = req[h] /\ work'[h].id = work[h].id /\ work'[h].row = work[h].row
  PROVE  OrderInv'
<1>1. RowsInv'
  BY RowsStayRows DEF OrderInv
<1>2. ASSUME NEW i \in Handlers PROVE WorkOf(i)'
  <2>1. CASE i = h
    BY <2>1
  <2>2. CASE i # h
    BY <2>2, WorkStays DEF OrderInv, OrderMoves, RowsStay
  <2> QED
    BY <2>1, <2>2
<1>3. \A i \in Handlers : O!Open(i)' => /\ O!Open(i) /\ req'[i] = req[i]
                                     /\ work'[i].id = work[i].id /\ work'[i].row = work[i].row
  BY DEF OrderMoves, O!Open
<1>4. ASSUME NEW i \in Handlers PROVE LocksOf(i)'
  <2> SUFFICES ASSUME O!Open(i)' PROVE LocksOf(i)'
    BY DEF LocksOf
  <2>1. LocksOf(i) /\ O!Open(i)
    BY <1>3 DEF OrderInv
  <2>2. ASSUME NEW j \in Handlers \ {i}, O!Open(j)'
        PROVE  req'[j].number # req'[i].number /\ work'[j].id \cap work'[i].id = {}
    BY <1>3, <2>1, <2>2 DEF LocksOf
  <2>3. ASSUME work'[i].row # {}, NEW o \in DOMAIN orders' \ work'[i].id
        PROVE  orders'[o].number # req'[i].number
    BY <1>3, <2>1, <2>3 DEF LocksOf, RowsStay
  <2> QED
    BY <2>2, <2>3 DEF LocksOf
<1> QED
  BY <1>1, <1>2, <1>4 DEF OrderInv, OrderMoves

LEMMA OrderLearns ==
  ASSUME OrderInv, NEW h \in Handlers, NEW place, NEW w, O!Learn(h, place, w)
  PROVE  OrderMoves(h) /\ pc'[h] = place /\ work'[h] = w /\ req'[h] = req[h]
BY DEF OrderInv, OrderMoves, O!Learn

LEMMA OrderAnswers ==
  ASSUME OrderInv, NEW h \in Handlers, O!Answer(h)
  PROVE  OrderMoves(h) /\ pc'[h] = "idle" /\ "lines" \in DOMAIN work'[h]
BY DEF OrderInv, OrderMoves, O!Answer, O!NoWork

\* A handler that answers has nothing to commit.
LEMMA OrderAnswerKeeps ==
  ASSUME OrderInv, NEW h \in Handlers, O!Answer(h), RowsStay PROVE OrderInv'
<1>1. OrderMoves(h) /\ pc'[h] = "idle" /\ "lines" \in DOMAIN work'[h]
  BY OrderAnswers
<1>2. WorkOf(h)' /\ ~ O!Open(h)'
  BY <1>1 DEF WorkOf, O!Open
<1> QED
  BY <1>1, <1>2, OrderKeeps

\* A request arrives.
LEMMA OrderArrives == ASSUME OrderInv, NEW h \in Handlers, O!Receive(h) PROVE OrderInv'
<1>1. PICK r \in [op : {"create"}, number : Numbers, store : BOOLEAN, cart : Carts]
                 \cup [op : {"update"}, id : given, number : Numbers, store : BOOLEAN, cart : Carts]
                 \cup [op : {"delete", "get"}, id : given] :
        /\ pc' = [pc EXCEPT ![h] = CASE r.op = "create" -> "number" [] r.op = "get" -> "order" [] OTHER -> "known"]
        /\ req' = [req EXCEPT ![h] = r]
  BY DEF O!Receive
<1>2. UNCHANGED <<orders, order_items, given, work>>
  BY DEF O!Receive, O!tables
<1>3. /\ r.op \in {"create", "update"} => r.cart \in Carts
      /\ r.op \in {"update", "delete"} => r.id \in given
      /\ r.op \in {"create", "update", "delete", "get"}
  BY <1>1
<1>4. /\ OrderMoves(h) /\ req'[h] = r
      /\ pc'[h] \in {"number", "order", "known"}
      /\ pc'[h] = "number" => r.op = "create"
      /\ pc'[h] = "known" => r.op \in {"update", "delete"}
  BY <1>1, <1>2, <1>3 DEF OrderMoves, OrderInv
<1>a. WorkOf(h)
  BY DEF OrderInv
<1>5. WorkOf(h)' /\ ~ O!Open(h)'
  BY <1>2, <1>3, <1>4, <1>a DEF WorkOf, O!Open, Ordering
<1>6. RowsStay
  BY <1>2, TablesStay DEF OrderInv
<1> QED
  BY <1>4, <1>5, <1>6, OrderKeeps

\* The checks before the transaction, and the reads of an order.
LEMMA OrderChecks ==
  ASSUME OrderInv, NEW h \in Handlers, O!CheckKnown(h) \/ O!CheckNumber(h) \/ O!Get(h) PROVE OrderInv'
<1>1. RowsStay
  BY TablesStay DEF OrderInv, O!CheckKnown, O!CheckNumber, O!Get, O!tables
<1>2. CASE O!Answer(h)
  BY <1>1, <1>2, OrderAnswerKeeps
<1>3. CASE \/ pc[h] = "known" /\ O!Goto(h, IF req[h].op = "delete" THEN "delete" ELSE "number")
           \/ pc[h] = "number" /\ O!Goto(h, "row")
           \/ pc[h] \in {"order", "items"} /\ O!Goto(h, "items")
  <2>1. /\ OrderMoves(h) /\ req'[h] = req[h] /\ work'[h] = work[h]
        /\ pc'[h] \in {"delete", "number", "row", "items"}
        /\ pc'[h] = "number" => pc[h] = "known" /\ req[h].op # "delete"
        /\ pc'[h] = "row" => pc[h] = "number"
    BY <1>3, OrderLearns DEF O!Goto
  <2>2. WorkOf(h) /\ given \subseteq given'
    BY <1>1 DEF OrderInv, RowsStay
  <2>3. WorkOf(h)' /\ ~ O!Open(h)'
    BY <2>1, <2>2 DEF WorkOf, O!Open, Ordering
  <2> QED
    BY <1>1, <2>1, <2>3, OrderKeeps
<1> QED
  BY <1>2, <1>3 DEF O!CheckKnown, O!CheckNumber, O!Get

\* The statements of a transaction after its first.
LEMMA OrderLines ==
  ASSUME OrderInv, CartsAreLines, NEW h \in Handlers, O!ClearLines(h) \/ O!InsertLines(h)
  PROVE  OrderInv'
<1>1. RowsStay
  BY TablesStay DEF OrderInv, O!ClearLines, O!InsertLines, O!tables
<1>2. CASE O!Answer(h)
  BY <1>1, <1>2, OrderAnswerKeeps
<1>3. WorkOf(h) /\ given \subseteq given'
  BY <1>1 DEF OrderInv, RowsStay
<1>4. CASE pc[h] = "clear" /\ O!Learn(h, "lines", [work[h] EXCEPT !.lines = O!LinesCleared(h)])
  <2>1. /\ OrderMoves(h) /\ req'[h] = req[h] /\ pc'[h] = "lines"
        /\ work'[h] = [work[h] EXCEPT !.lines = <<>>]
    BY <1>4, OrderLearns DEF O!LinesCleared
  <2>2. /\ work'[h].id = work[h].id /\ work'[h].row = work[h].row
        /\ work'[h].lines = <<>> /\ "lines" \in DOMAIN work'[h]
    BY <1>3, <2>1 DEF WorkOf
  <2>3. WorkOf(h)'
    BY <1>3, <1>4, <2>1, <2>2 DEF WorkOf, O!Open, RowOf, Ordering
  <2> QED
    BY <1>1, <1>4, <2>1, <2>2, <2>3, OrderKeeps DEF O!Open
<1>5. CASE pc[h] = "lines" /\ O!Learn(h, "commit", [work[h] EXCEPT !.lines = @ \o O!LineTotals(req[h].cart)])
  <2>1. /\ OrderMoves(h) /\ req'[h] = req[h] /\ pc'[h] = "commit"
        /\ work'[h] = [work[h] EXCEPT !.lines = @ \o O!LineTotals(req[h].cart)]
    BY <1>5, OrderLearns
  <2>2. work[h].lines = <<>> /\ req[h].cart \in Carts /\ "lines" \in DOMAIN work[h]
    BY <1>3, <1>5 DEF WorkOf, O!Open
  <2>3. work[h].lines \o O!LineTotals(req[h].cart) = O!LineTotals(req[h].cart)
    <3>1. O!LineTotals(req[h].cart) \in Seq(Int)
      BY <2>2, CartValues DEF CartsAreLines
    <3> QED
      BY <2>2, <3>1
  <2>4. /\ work'[h].id = work[h].id /\ work'[h].row = work[h].row
        /\ work'[h].lines = O!LineTotals(req[h].cart) /\ "lines" \in DOMAIN work'[h]
    BY <2>1, <2>2, <2>3
  <2>5. WorkOf(h)'
    BY <1>3, <1>5, <2>1, <2>4 DEF WorkOf, O!Open, RowOf, Ordering
  <2> QED
    BY <1>1, <1>5, <2>1, <2>4, <2>5, OrderKeeps DEF O!Open
<1> QED
  BY <1>2, <1>4, <1>5 DEF O!ClearLines, O!InsertLines

\* A transaction opens with its first statement: nobody else holds its number or its order.
LEMMA OrderOpens ==
  ASSUME OrderInv, NEW h \in Handlers, NEW id, NEW row, NEW lines, NEW place \in {"clear", "lines"},
         pc[h] = "row", UNCHANGED <<orders, order_items>>, given \subseteq given',
         O!Learn(h, place, [id |-> id, row |-> row, lines |-> lines]),
         id \subseteq given', row \subseteq {RowOf(req[h])}, \A o, p \in id : o = p,
         place = "lines" => lines = <<>>,
         req[h].number \notin O!LockedNumbers(h), id \cap O!LockedIds(h) = {},
         row # {} => \A o \in DOMAIN orders \ id : orders[o].number # req[h].number
  PROVE  OrderInv'
<1>1. /\ OrderMoves(h) /\ req'[h] = req[h] /\ pc'[h] = place
      /\ work'[h] = [id |-> id, row |-> row, lines |-> lines]
  BY OrderLearns
<1>2. WorkOf(h) /\ ~ O!Open(h) /\ RowsStay
  BY TablesStay DEF OrderInv, O!Open
<1>3. WorkOf(h)' /\ O!Open(h)'
  BY <1>1, <1>2 DEF WorkOf, O!Open, RowOf, Ordering
<1>4. RowsInv'
  BY <1>2, RowsStayRows DEF OrderInv
<1>5. ASSUME NEW i \in Handlers \ {h}, O!Open(i)
      PROVE  req[i].number # req[h].number /\ work[i].id \cap id = {}
  BY <1>5 DEF O!LockedNumbers, O!LockedIds
<1>6. ASSUME NEW i \in Handlers PROVE WorkOf(i)'
  <2>1. CASE i = h
    BY <1>3, <2>1
  <2>2. CASE i # h
    BY <1>1, <2>2, WorkStays DEF OrderInv, OrderMoves
  <2> QED
    BY <2>1, <2>2
<1>7. \A i \in Handlers \ {h} : /\ O!Open(i)' <=> O!Open(i)
                                /\ req'[i] = req[i] /\ work'[i] = work[i]
  BY <1>1 DEF OrderMoves, O!Open
<1>8. ASSUME NEW i \in Handlers PROVE LocksOf(i)'
  <2>1. CASE i = h
    <3>1. \A j \in Handlers \ {h} : O!Open(j)' => req'[j].number # req'[h].number /\ work'[j].id \cap work'[h].id = {}
      BY <1>1, <1>5, <1>7
    <3>2. work'[h].row # {} => \A o \in DOMAIN orders' \ work'[h].id : orders'[o].number # req'[h].number
      BY <1>1
    <3> QED
      BY <2>1, <3>1, <3>2 DEF LocksOf
  <2>2. CASE i # h
    <3> SUFFICES ASSUME O!Open(i)' PROVE LocksOf(i)'
      BY DEF LocksOf
    <3>1. LocksOf(i) /\ O!Open(i) /\ req'[i] = req[i] /\ work'[i] = work[i]
      BY <1>7, <2>2 DEF OrderInv
    <3>2. ASSUME NEW j \in Handlers \ {i}, O!Open(j)'
          PROVE  req'[j].number # req'[i].number /\ work'[j].id \cap work'[i].id = {}
      <4>1. CASE j = h
        BY <1>1, <1>5, <2>2, <3>1, <4>1
      <4>2. CASE j # h
        BY <1>7, <3>1, <3>2, <4>2 DEF LocksOf
      <4> QED
        BY <4>1, <4>2
    <3>3. work'[i].row # {} => \A o \in DOMAIN orders' \ work'[i].id : orders'[o].number # req'[i].number
      BY <3>1 DEF LocksOf
    <3> QED
      BY <3>2, <3>3 DEF LocksOf
  <2> QED
    BY <2>1, <2>2
<1> QED
  BY <1>1, <1>4, <1>6, <1>8 DEF OrderInv, OrderMoves

\* The row of an order.
LEMMA OrderRow == ASSUME OrderInv, NEW h \in Handlers, O!WriteRow(h) PROVE OrderInv'
<1> DEFINE r == req[h]
           row == RowOf(r)
           own == IF r.op = "update" THEN {r.id} ELSE {}
<1>1. /\ pc[h] = "row" /\ UNCHANGED <<orders, order_items>> /\ given \subseteq given'
      /\ r.number \notin O!LockedNumbers(h) /\ own \cap O!LockedIds(h) = {}
  BY DEF O!WriteRow, O!UpdateRow
<1>2. WorkOf(h) /\ Ordering(r) /\ (r.op = "update" => r.id \in given)
  BY <1>1 DEF OrderInv, WorkOf
<1>3. CASE O!Answer(h)
  BY <1>1, <1>3, TablesStay, OrderAnswerKeeps DEF OrderInv
<1>4. ASSUME \A o \in DOMAIN orders \ own : orders[o].number # r.number, r.op = "update",
             \/ O!Learn(h, "clear", [id |-> own, row |-> {row}, lines |-> order_items[r.id]])
             \/ O!Learn(h, "clear", [O!NoWork EXCEPT !.id = own])
      PROVE  OrderInv'
  <2>1. \A x : [O!NoWork EXCEPT !.id = x] = [id |-> x, row |-> {}, lines |-> <<>>]
    BY DEF O!NoWork
  <2>2. \E some \in SUBSET {row} : \E lines : O!Learn(h, "clear", [id |-> own, row |-> some, lines |-> lines])
    <3>1. CASE O!Learn(h, "clear", [id |-> own, row |-> {row}, lines |-> order_items[r.id]])
      BY <3>1
    <3>2. CASE O!Learn(h, "clear", [O!NoWork EXCEPT !.id = own])
      <4>1. [O!NoWork EXCEPT !.id = own] = [id |-> own, row |-> {}, lines |-> <<>>]
        BY ONLY <2>1
      <4>2. O!Learn(h, "clear", [id |-> own, row |-> {}, lines |-> <<>>])
        BY ONLY <3>2, <4>1
      <4> QED
        BY <4>2
    <3> QED
      BY <1>4, <3>1, <3>2
  <2>6. PICK some \in SUBSET {row} : \E lines : O!Learn(h, "clear", [id |-> own, row |-> some, lines |-> lines])
    BY <2>2
  <2>7. PICK lines : O!Learn(h, "clear", [id |-> own, row |-> some, lines |-> lines])
    BY <2>6
  <2>3. own = {r.id}
    BY <1>4
  <2>4. own \subseteq given' /\ \A o, p \in own : o = p
    BY <1>1, <1>2, <1>4, <2>3
  <2> HIDE DEF own, row
  <2>5. some \subseteq {RowOf(req[h])}
    BY DEF row
  <2> QED
    BY <1>1, <1>4, <2>7, <2>4, <2>5, OrderOpens
<1>5. ASSUME \A o \in DOMAIN orders \ own : orders[o].number # r.number, r.op = "create",
             NEW o \in Ids \ given, given' = given \cup {o},
             O!Learn(h, "lines", [id |-> {o}, row |-> {row}, lines |-> <<>>])
      PROVE  OrderInv'
  <2>1. own = {}
    BY <1>5
  <2>2. \A p \in DOMAIN orders \ {o} : orders[p].number # r.number
    BY <1>5, <2>1
  <2>3. {o} \cap O!LockedIds(h) = {}
    <3>1. \A i \in Handlers : O!Open(i) => work[i].id \subseteq given
      BY DEF OrderInv, WorkOf
    <3> QED
      BY <1>5, <3>1 DEF O!LockedIds
  <2>4. {o} \subseteq given' /\ \A x, y \in {o} : x = y
    BY <1>5
  <2>5. {row} \subseteq {RowOf(req[h])}
    OBVIOUS
  <2> HIDE DEF row, own
  <2> QED
    BY <1>1, <1>5, <2>2, <2>3, <2>4, <2>5, OrderOpens
<1> QED
  <2>1. \/ O!Answer(h)
        \/ /\ \A o \in DOMAIN orders \ own : orders[o].number # r.number
           /\ r.op = "update"
           /\ \/ O!Learn(h, "clear", [id |-> own, row |-> {row}, lines |-> order_items[r.id]])
              \/ O!Learn(h, "clear", [O!NoWork EXCEPT !.id = own])
        \/ /\ \A o \in DOMAIN orders \ own : orders[o].number # r.number
           /\ r.op # "update"
           /\ \E o \in Ids \ given : /\ given' = given \cup {o}
                                    /\ O!Learn(h, "lines", [id |-> {o}, row |-> {row}, lines |-> <<>>])
    BY DEF O!WriteRow, O!UpdateRow, RowOf
  <2>2. r.op # "update" => r.op = "create"
    BY <1>2 DEF Ordering
  <2> HIDE DEF row, own, r
  <2> QED
    BY <1>3, <1>4, <1>5, <2>1, <2>2

\* The commit: the row and the lines of one request, under a number nobody else has.
LEMMA OrderCommits == ASSUME OrderInv, NEW h \in Handlers, O!Commit(h) PROVE OrderInv'
<1>1. pc[h] = "commit" /\ O!Answer(h) /\ given' = given
  BY DEF O!Commit
<1>2. CASE UNCHANGED <<orders, order_items>>
  BY <1>1, <1>2, TablesStay, OrderAnswerKeeps DEF OrderInv
<1>3. ASSUME NEW o \in work[h].id, NEW row \in work[h].row,
             orders' = O!Put(orders, o, row), order_items' = O!Put(order_items, o, work[h].lines)
      PROVE  OrderInv'
  <2>1. WorkOf(h) /\ LocksOf(h) /\ O!Open(h)
    BY <1>1 DEF OrderInv, O!Open
  <2>2. /\ row = RowOf(req[h]) /\ work[h].id = {o} /\ o \in given /\ work[h].row # {}
        /\ work[h].lines = O!LineTotals(req[h].cart) /\ req[h].cart \in Carts
    BY <1>1, <1>3, <2>1 DEF WorkOf
  <2>3. \A p \in DOMAIN orders \ {o} : orders[p].number # req[h].number
    BY <2>1, <2>2 DEF LocksOf
  <2>4. row.number = req[h].number /\ row.total = O!OrderTotal(req[h].cart)
    BY <2>2 DEF RowOf
  <2>5. /\ DOMAIN orders' = DOMAIN orders \cup {o} /\ DOMAIN order_items' = DOMAIN order_items \cup {o}
        /\ orders'[o] = row /\ order_items'[o] = work[h].lines
        /\ \A p \in DOMAIN orders \ {o} : orders'[p] = orders[p]
        /\ \A p \in DOMAIN order_items \ {o} : order_items'[p] = order_items[p]
    BY <1>3 DEF O!Put
  <2>6. RowsInv
    BY DEF OrderInv
  <2>7. RowsInv'
    <3>1. DOMAIN order_items' = DOMAIN orders' /\ DOMAIN orders' \subseteq given'
      BY <1>1, <2>2, <2>5, <2>6 DEF RowsInv
    <3>2. ASSUME NEW p \in DOMAIN orders'
          PROVE  \E cart \in Carts : order_items'[p] = O!LineTotals(cart) /\ orders'[p].total = O!OrderTotal(cart)
      <4>1. CASE p = o
        BY <2>2, <2>4, <2>5, <4>1
      <4>2. CASE p # o
        BY <2>5, <2>6, <3>2, <4>2 DEF RowsInv
      <4> QED
        BY <4>1, <4>2
    <3>3. \A p, q \in DOMAIN orders' : p # q => orders'[p].number # orders'[q].number
      <4>1. \A p \in DOMAIN orders' : p # o => p \in DOMAIN orders /\ orders'[p].number = orders[p].number
        BY <2>5
      <4>2. orders'[o].number = req[h].number
        BY <2>4, <2>5
      <4>3. \A p, q \in DOMAIN orders : p # q => orders[p].number # orders[q].number
        BY <2>6 DEF RowsInv
      <4> QED
        BY <2>3, <4>1, <4>2, <4>3
    <3> QED
      BY <3>1, <3>2, <3>3 DEF RowsInv
  <2>8. OrderMoves(h) /\ pc'[h] = "idle" /\ "lines" \in DOMAIN work'[h]
    BY <1>1, OrderAnswers
  <2>9. ASSUME NEW i \in Handlers PROVE WorkOf(i)' /\ LocksOf(i)'
    <3>1. CASE i = h
      BY <2>8, <3>1 DEF WorkOf, LocksOf, O!Open
    <3>2. CASE i # h
      <4>1. WorkOf(i)'
        BY <1>1, <2>8, <3>2, WorkStays DEF OrderInv, OrderMoves
      <4>2. LocksOf(i)'
        <5> SUFFICES ASSUME O!Open(i)' PROVE LocksOf(i)'
          BY DEF LocksOf
        <5>1. LocksOf(i) /\ O!Open(i) /\ req'[i] = req[i] /\ work'[i] = work[i]
          BY <2>8, <3>2 DEF OrderInv, OrderMoves, O!Open
        <5>2. ASSUME NEW j \in Handlers \ {i}, O!Open(j)'
              PROVE  req'[j].number # req'[i].number /\ work'[j].id \cap work'[i].id = {}
          <6>1. j # h /\ O!Open(j) /\ req'[j] = req[j] /\ work'[j] = work[j]
            BY <2>8, <5>2 DEF OrderMoves, O!Open
          <6> QED
            BY <5>1, <5>2, <6>1 DEF LocksOf
        <5>3. req[h].number # req[i].number
          BY <2>1, <3>2, <5>1 DEF LocksOf
        <5>4. ASSUME work'[i].row # {}, NEW p \in DOMAIN orders' \ work'[i].id
              PROVE  orders'[p].number # req'[i].number
          <6>1. CASE p = o
            BY <2>4, <2>5, <5>1, <5>3, <6>1
          <6>2. CASE p # o
            BY <2>5, <5>1, <5>4, <6>2 DEF LocksOf
          <6> QED
            BY <6>1, <6>2
        <5> QED
          BY <5>2, <5>4 DEF LocksOf
      <4> QED
        BY <4>1, <4>2
    <3> QED
      BY <3>1, <3>2
  <2> QED
    BY <2>7, <2>8, <2>9 DEF OrderInv, OrderMoves
<1> QED
  BY <1>2, <1>3 DEF O!Commit

\* A deleted order goes with its lines.
LEMMA OrderGoes == ASSUME OrderInv, NEW h \in Handlers, O!Delete(h) PROVE OrderInv'
<1>1. RowsStay
  BY DEF O!Delete, O!Without, OrderInv, RowsInv, RowsStay
<1> QED
  BY <1>1, OrderAnswerKeeps DEF O!Delete

\* A store that goes is no longer named; nothing else of an order changes.
LEMMA OrderStoreGone == ASSUME OrderInv, O!StoreGone PROVE OrderInv'
<1>1. UNCHANGED <<order_items, given, pc, req, work>>
  BY DEF O!StoreGone
<1>2. PICK S \in SUBSET {o \in DOMAIN orders : orders[o].store} :
        orders' = [o \in DOMAIN orders |-> IF o \in S THEN [orders[o] EXCEPT !.store = FALSE] ELSE orders[o]]
  BY DEF O!StoreGone
<1>3. DOMAIN orders' = DOMAIN orders
  BY <1>2
<1>4. ASSUME NEW o \in DOMAIN orders
      PROVE  orders'[o].number = orders[o].number /\ orders'[o].total = orders[o].total
  BY <1>2
<1>5. RowsStay
  BY <1>1, <1>3, <1>4 DEF OrderInv, RowsInv, RowsStay
<1>6. RowsInv'
  BY <1>5, RowsStayRows DEF OrderInv
<1>7. ASSUME NEW i \in Handlers PROVE WorkOf(i)' /\ LocksOf(i)'
  <2>1. WorkOf(i) /\ LocksOf(i)
    BY DEF OrderInv
  <2>2. WorkOf(i)'
    BY <1>1, <2>1, WorkStays
  <2>3. LocksOf(i)'
    BY <1>1, <1>3, <1>4, <2>1 DEF LocksOf, O!Open
  <2> QED
    BY <2>2, <2>3
<1> QED
  BY <1>1, <1>6, <1>7 DEF OrderInv

\* OrderInv is inductive.
THEOREM OrderInductive == ASSUME CartsAreLines PROVE O!Spec => []OrderInv
<1>1. O!Init => OrderInv
  BY DEF O!Init, OrderInv, RowsInv, WorkOf, LocksOf, O!Open, O!NoWork
<1>2. OrderInv /\ [O!Next]_(O!vars) => OrderInv'
  <2> SUFFICES ASSUME OrderInv, [O!Next]_(O!vars) PROVE OrderInv'
    OBVIOUS
  <2>1. CASE O!Next
    BY <2>1, OrderArrives, OrderChecks, OrderRow, OrderLines, OrderCommits, OrderGoes, OrderStoreGone DEF O!Next
  <2>2. CASE UNCHANGED O!vars
    <3>1. UNCHANGED <<orders, order_items, given, pc, req, work>>
      BY <2>2 DEF O!vars
    <3>2. \A i \in Handlers : WorkOf(i) => WorkOf(i)'
      BY <3>1, WorkStays
    <3>3. \A i \in Handlers : LocksOf(i) => LocksOf(i)'
      BY <3>1 DEF LocksOf, O!Open
    <3>4. RowsInv'
      BY <3>1 DEF OrderInv, RowsInv
    <3> QED
      BY <3>1, <3>2, <3>3, <3>4 DEF OrderInv
  <2> QED
    BY <2>1, <2>2
<1> QED
  BY <1>1, <1>2, PTL DEF O!Spec

\* Every order has the lines of one request and the total of those lines but for rounding,
\* and a number of its own, whatever fails or is deleted between the statements (order.go:380).
THEOREM WholeOrders == ASSUME CartsAreLines PROVE O!Spec => []O!OrdersWhole
<1>1. OrderInv => O!OrdersWhole
  <2> SUFFICES ASSUME RowsInv PROVE O!OrdersWhole
    BY DEF OrderInv
  <2>1. ASSUME NEW o \in DOMAIN orders
        PROVE  LET difference == orders[o].total - O!Sum(order_items[o]) IN
                 \E cart \in Carts :
                   /\ order_items[o] = O!LineTotals(cart) /\ orders[o].total = O!OrderTotal(cart)
                   /\ 2 * difference <= Len(cart) + 1 /\ 2 * difference >= - (Len(cart) + 1)
    <3>1. PICK cart \in Carts : order_items[o] = O!LineTotals(cart) /\ orders[o].total = O!OrderTotal(cart)
      BY DEF RowsInv
    <3>2. cart \in Seq([quantity : Int, price : Int])
      BY DEF CartsAreLines
    <3> DEFINE difference == orders[o].total - O!Sum(order_items[o])
    <3>3. difference = O!OrderTotal(cart) - O!Sum(O!LineTotals(cart))
      BY <3>1
    <3>4. 2 * difference <= Len(cart) + 1 /\ 2 * difference >= - (Len(cart) + 1)
      BY <3>2, <3>3, RoundedSum
    <3> HIDE DEF difference
    <3>5. \E c \in Carts :
             /\ order_items[o] = O!LineTotals(c) /\ orders[o].total = O!OrderTotal(c)
             /\ 2 * difference <= Len(c) + 1 /\ 2 * difference >= - (Len(c) + 1)
      BY <3>1, <3>4
    <3> QED
      BY <3>5 DEF difference
  <2> QED
    BY <2>1 DEF RowsInv, O!OrdersWhole
<1> QED
  BY <1>1, OrderInductive, PTL
-----------------------------------------------------------------------------
(* Dashboard: what a comparison and the charts show. *)

\* The days on which bills are dated are finitely many.
DatesAreDays == IsFiniteSet(Dates) /\ Dates \subseteq Int

\* Two days are finitely many.
LEMMA TwoDates == ASSUME NEW a \in Int, NEW b \in Int, Dates = {a, b} PROVE DatesAreDays
<1>1. IsFiniteSet({a}) /\ IsFiniteSet({b}) /\ {a, b} = {a} \cup {b}
  BY FS_Singleton
<1>2. IsFiniteSet({a, b})
  BY <1>1, FS_Union
<1> QED
  BY <1>2 DEF DatesAreDays

DailyBills == [Dates -> Nat]
Before(f, g) == \A d \in Dates : f[d] <= g[d]
Between(x, f, g, days) == x \in B!Total(f, days)..B!Total(g, days)

\* Bills are recorded and none goes; a request came at the store as it was, or earlier.
StoreInv ==
  /\ sold \in DailyBills /\ bought \in DailyBills
  /\ \A h \in Handlers : /\ asked[h].sold \in DailyBills /\ asked[h].bought \in DailyBills
                         /\ Before(asked[h].sold, sold) /\ Before(asked[h].bought, bought)

\* What a query of a comparison gave lies between the store at the request and the store now.
GivenOf(h) ==
  pc[h] = "queries" /\ req[h].op = "compare" =>
    /\ "aInv" \in DOMAIN work[h] => Between(work[h]["aInv"], asked[h].sold, sold, req[h].periods.a)
    /\ "bInv" \in DOMAIN work[h] => Between(work[h]["bInv"], asked[h].sold, sold, req[h].periods.b)
    /\ "aPurch" \in DOMAIN work[h] => Between(work[h]["aPurch"], asked[h].bought, bought, req[h].periods.a)
    /\ "bPurch" \in DOMAIN work[h] => Between(work[h]["bPurch"], asked[h].bought, bought, req[h].periods.b)

ShownOf(h) ==
  answer[h].kind = "compare" =>
    \A p \in {"a", "b"} :
      /\ Between(answer[h][p].revenue, asked[h].sold, sold, answer[h].periods[p])
      /\ Between(answer[h][p].purchases, asked[h].bought, bought, answer[h].periods[p])

CompareInv ==
  /\ DOMAIN pc = Handlers /\ DOMAIN req = Handlers /\ DOMAIN work = Handlers
  /\ DOMAIN answer = Handlers /\ DOMAIN asked = Handlers
  /\ StoreInv
  /\ \A h \in Handlers : GivenOf(h) /\ ShownOf(h)

\* Totals of bills are numbers, and grow with the bills.
LEMMA TotalGrows ==
  ASSUME DatesAreDays, NEW f \in DailyBills, NEW g \in DailyBills, Before(f, g), NEW days
  PROVE  B!Total(f, days) \in Int /\ B!Total(g, days) \in Int /\ B!Total(f, days) <= B!Total(g, days)
<1> DEFINE S == {d \in Dates : d \in days}
<1>1. B!Total(f, days) = SumFunctionOnSet(f, S) /\ B!Total(g, days) = SumFunctionOnSet(g, S)
  BY DashboardSums DEF B!Total, DailyBills
<1>2. S \subseteq Dates /\ IsFiniteSet(S)
  BY FS_Subset DEF DatesAreDays
<1>3. IntegersOn(f, S) /\ IntegersOn(g, S) /\ \A d \in S : f[d] <= g[d]
  BY <1>2 DEF IntegersOn, DailyBills, Before
<1> HIDE DEF S
<1> QED
  BY <1>1, <1>3, SumInt, SumMonotone

\* What lies between two stores lies between the first and any later one.
LEMMA BetweenGrows ==
  ASSUME DatesAreDays, NEW f \in DailyBills, NEW g \in DailyBills, NEW k \in DailyBills, Before(g, k),
         NEW x, NEW days, Between(x, f, g, days)
  PROVE  Between(x, f, k, days)
<1>1. B!Total(g, days) \in Int /\ B!Total(k, days) \in Int /\ B!Total(g, days) <= B!Total(k, days)
  BY TotalGrows
<1>2. Before(f, f)
  BY DEF Before, DailyBills
<1>3. B!Total(f, days) \in Int
  BY <1>2, TotalGrows
<1> QED
  BY <1>1, <1>3 DEF Between

\* The figure of the store as it is lies between what it was and what it is.
LEMMA BetweenNow ==
  ASSUME DatesAreDays, NEW f \in DailyBills, NEW g \in DailyBills, Before(f, g), NEW days
  PROVE  Between(B!Total(g, days), f, g, days)
BY TotalGrows DEF Between
-----------------------------------------------------------------------------
\* A request is launched, or answered without its queries.
LEMMA CompareStarts ==
  ASSUME CompareInv, NEW h \in Handlers,
         \/ \E r, queries : B!Launch(h, r, queries)
         \/ \E a : B!Reply(h, a) /\ a.kind # "compare"
  PROVE  CompareInv'
<1>1. UNCHANGED <<sold, bought>>
  BY DEF B!Launch, B!Reply, B!tables
<1>2. /\ DOMAIN pc' = Handlers /\ DOMAIN req' = Handlers /\ DOMAIN work' = Handlers
      /\ DOMAIN answer' = Handlers /\ DOMAIN asked' = Handlers
      /\ \A i \in Handlers \ {h} : /\ pc'[i] = pc[i] /\ req'[i] = req[i] /\ work'[i] = work[i]
                                   /\ answer'[i] = answer[i] /\ asked'[i] = asked[i]
  BY DEF B!Launch, B!Reply, CompareInv
<1>3. answer'[h].kind # "compare" /\ (pc'[h] = "queries" => work'[h] = B!Nothing)
      /\ (asked'[h] = asked[h] \/ asked'[h] = [sold |-> sold, bought |-> bought])
  BY DEF B!Launch, B!Reply, CompareInv, B!NoAnswer
<1>4. StoreInv'
  <2>1. \A i \in Handlers : asked'[i] = asked[i] \/ asked'[i] = [sold |-> sold, bought |-> bought]
    BY <1>2, <1>3
  <2>2. \A f \in DailyBills : Before(f, f)
    BY DEF Before, DailyBills
  <2> QED
    BY <1>1, <2>1, <2>2 DEF StoreInv, CompareInv, Before, DailyBills
<1>5. ASSUME NEW i \in Handlers PROVE GivenOf(i)' /\ ShownOf(i)'
  <2>1. CASE i = h
    BY <1>3, <2>1 DEF GivenOf, ShownOf, B!Nothing
  <2>2. CASE i # h
    BY <1>1, <1>2, <2>2 DEF CompareInv, GivenOf, ShownOf
  <2> QED
    BY <2>1, <2>2
<1> QED
  BY <1>2, <1>4, <1>5 DEF CompareInv

\* A bill is recorded: what lay between two stores still does.
LEMMA CompareRecord == ASSUME CompareInv, DatesAreDays, B!Record PROVE CompareInv'
<1>1. UNCHANGED <<pc, req, work, answer, asked>>
  BY DEF B!Record
<1>2. sold' \in DailyBills /\ bought' \in DailyBills /\ Before(sold, sold') /\ Before(bought, bought')
  BY DEF B!Record, CompareInv, StoreInv, DailyBills, Before
<1>3. StoreInv'
  <2>1. \A i \in Handlers : Before(asked[i].sold, sold') /\ Before(asked[i].bought, bought')
    BY <1>2 DEF CompareInv, StoreInv, Before, DailyBills
  <2> QED
    BY <1>1, <1>2, <2>1 DEF CompareInv, StoreInv
<1>4. ASSUME NEW i \in Handlers
      PROVE  /\ asked[i].sold \in DailyBills /\ asked[i].bought \in DailyBills
             /\ \A x, days : Between(x, asked[i].sold, sold, days) => Between(x, asked[i].sold, sold', days)
             /\ \A x, days : Between(x, asked[i].bought, bought, days) => Between(x, asked[i].bought, bought', days)
  BY <1>2, BetweenGrows DEF CompareInv, StoreInv
<1>5. ASSUME NEW i \in Handlers PROVE GivenOf(i)' /\ ShownOf(i)'
  BY <1>1, <1>4 DEF CompareInv, GivenOf, ShownOf
<1> QED
  BY <1>1, <1>3, <1>5 DEF CompareInv

\* A query ends with the store's figure, or with nothing.
LEMMA CompareQuery ==
  ASSUME CompareInv, DatesAreDays, NEW h \in Handlers, NEW q, B!Query(h, q) PROVE CompareInv'
<1>1. UNCHANGED <<sold, bought, pc, req, answer, asked>>
  BY DEF B!Query, B!tables
<1>2. StoreInv' /\ \A i \in Handlers : ShownOf(i)'
  BY <1>1 DEF CompareInv, StoreInv, ShownOf
<1>3. CASE work' = work
  BY <1>1, <1>2, <1>3 DEF CompareInv, GivenOf
<1>4. CASE B!Answered(h, q)
  <2> DEFINE periods == IF req[h].op = "dashboard" THEN 0 ELSE req[h].periods
  <2>1. /\ DOMAIN work' = Handlers /\ \A i \in Handlers \ {h} : work'[i] = work[i]
        /\ work'[h] = B!Give(work[h], q, B!Asked(q, periods))
    BY <1>4 DEF B!Answered, CompareInv
  <2>2. \A x : x \in DOMAIN work'[h] => IF x = q THEN work'[h][x] = B!Asked(q, periods)
                                              ELSE x \in DOMAIN work[h] /\ work'[h][x] = work[h][x]
    BY <2>1 DEF B!Give
  <2>3. /\ asked[h].sold \in DailyBills /\ asked[h].bought \in DailyBills /\ sold \in DailyBills /\ bought \in DailyBills
        /\ Before(asked[h].sold, sold) /\ Before(asked[h].bought, bought)
    BY DEF CompareInv, StoreInv
  <2>4. \A days : /\ Between(B!Total(sold, days), asked[h].sold, sold, days)
                  /\ Between(B!Total(bought, days), asked[h].bought, bought, days)
    BY <2>3, BetweenNow
  <2>5. /\ B!Asked("aInv", periods) = B!Total(sold, periods.a)
        /\ B!Asked("bInv", periods) = B!Total(sold, periods.b)
        /\ B!Asked("aPurch", periods) = B!Total(bought, periods.a)
        /\ B!Asked("bPurch", periods) = B!Total(bought, periods.b)
    BY DEF B!Asked
  <2>6. GivenOf(h)'
    BY <1>1, <2>2, <2>4, <2>5 DEF CompareInv, GivenOf
  <2>7. \A i \in Handlers \ {h} : GivenOf(i)'
    BY <1>1, <2>1 DEF CompareInv, GivenOf
  <2> QED
    BY <1>1, <1>2, <2>1, <2>6, <2>7 DEF CompareInv
<1> QED
  BY <1>3, <1>4 DEF B!Query, B!Failed

\* The answer of a comparison, with all four figures or none.
LEMMA CompareAnswered == ASSUME CompareInv, NEW h \in Handlers, B!AnswerCompare(h) PROVE CompareInv'
<1> DEFINE a == IF B!NoError(h)
                THEN [kind |-> "compare", periods |-> req[h].periods,
                      a |-> B!Compared(h, "aInv", "aPurch"), b |-> B!Compared(h, "bInv", "bPurch")]
                ELSE [kind |-> "error"]
<1>1. B!Reply(h, a) /\ pc[h] = "queries" /\ req[h].op = "compare"
  BY DEF B!AnswerCompare, B!Waited
<1>2. CASE ~ B!NoError(h)
  <2>1. a = [kind |-> "error"]
    BY <1>2
  <2> HIDE DEF a
  <2>2. a.kind # "compare"
    BY <2>1
  <2> QED
    BY <1>1, <2>2, CompareStarts
<1>3. CASE B!NoError(h)
  <2>1. a = [kind |-> "compare", periods |-> req[h].periods,
             a |-> B!Compared(h, "aInv", "aPurch"), b |-> B!Compared(h, "bInv", "bPurch")]
    BY <1>3
  <2> HIDE DEF a
  <2>2. /\ UNCHANGED <<sold, bought, asked>>
        /\ DOMAIN pc' = Handlers /\ DOMAIN req' = Handlers /\ DOMAIN work' = Handlers
        /\ DOMAIN answer' = Handlers /\ DOMAIN asked' = Handlers
        /\ answer'[h] = a /\ pc'[h] = "idle"
        /\ \A i \in Handlers \ {h} : /\ pc'[i] = pc[i] /\ req'[i] = req[i] /\ work'[i] = work[i]
                                     /\ answer'[i] = answer[i]
    BY <1>1 DEF B!Reply, CompareInv, B!tables
  <2>3. GivenOf(h)
    BY DEF CompareInv
  <2>4. /\ Between(work[h]["aInv"], asked[h].sold, sold, req[h].periods.a)
        /\ Between(work[h]["bInv"], asked[h].sold, sold, req[h].periods.b)
        /\ Between(work[h]["aPurch"], asked[h].bought, bought, req[h].periods.a)
        /\ Between(work[h]["bPurch"], asked[h].bought, bought, req[h].periods.b)
        /\ \A q \in B!CompareQueries : B!Figure(h, q) = work[h][q]
    BY <1>1, <1>3, <2>3 DEF GivenOf, B!NoError, B!CompareQueries, B!Figure
  <2>5. /\ a["a"].revenue = work[h]["aInv"] /\ a["a"].purchases = work[h]["aPurch"]
        /\ a["b"].revenue = work[h]["bInv"] /\ a["b"].purchases = work[h]["bPurch"]
        /\ a.periods = req[h].periods
    BY <2>1, <2>4 DEF B!Compared, B!CompareQueries
  <2>6. \A p \in {"a", "b"} :
          /\ Between(a[p].revenue, asked[h].sold, sold, a.periods[p])
          /\ Between(a[p].purchases, asked[h].bought, bought, a.periods[p])
    BY <2>4, <2>5
  <2>7. GivenOf(h)' /\ ShownOf(h)'
    BY <2>2, <2>6 DEF GivenOf, ShownOf
  <2>8. \A i \in Handlers \ {h} : GivenOf(i)' /\ ShownOf(i)'
    BY <2>2 DEF CompareInv, GivenOf, ShownOf
  <2>9. StoreInv'
    BY <2>2 DEF CompareInv, StoreInv
  <2> QED
    BY <2>2, <2>7, <2>8, <2>9 DEF CompareInv
<1> QED
  BY <1>2, <1>3

\* CompareInv is inductive.
THEOREM CompareInductive == ASSUME DatesAreDays PROVE B!Spec => []CompareInv
<1>1. B!Init => CompareInv
  BY DEF B!Init, CompareInv, StoreInv, GivenOf, ShownOf, B!NoAnswer, DailyBills, Before
<1>2. CompareInv /\ [B!Next]_(B!vars) => CompareInv'
  <2> SUFFICES ASSUME CompareInv, [B!Next]_(B!vars) PROVE CompareInv'
    OBVIOUS
  <2>1. ASSUME NEW h \in Handlers,
               B!GetDashboard(h) \/ B!GetDashboardAnalytics(h) \/ B!GetDashboardCompare(h)
        PROVE  CompareInv'
    <3>1. (\E r, queries : B!Launch(h, r, queries)) \/ B!Reply(h, [kind |-> "no dates"])
      BY <2>1 DEF B!GetDashboard, B!GetDashboardAnalytics, B!GetDashboardCompare
    <3>2. [kind |-> "no dates"].kind # "compare"
      OBVIOUS
    <3> QED
      BY <3>1, <3>2, CompareStarts
  <2>2. ASSUME NEW h \in Handlers, B!AnswerDashboard(h) \/ B!AnswerAnalytics(h) PROVE CompareInv'
    <3>1. \E a : B!Reply(h, a) /\ a.kind # "compare"
      BY <2>2 DEF B!AnswerDashboard, B!AnswerAnalytics
    <3> QED
      BY <3>1, CompareStarts
  <2>3. CASE UNCHANGED B!vars
    BY <2>3 DEF B!vars, CompareInv, StoreInv, GivenOf, ShownOf
  <2> QED
    BY <2>1, <2>2, <2>3, CompareQuery, CompareAnswered, CompareRecord DEF B!Next
<1> QED
  BY <1>1, <1>2, PTL DEF B!Spec

\* A comparison shows what the store held of both periods, at the request or after it:
\* no query that failed stands there as a zero (GetDashboardCompare).
THEOREM ComparisonHolds == ASSUME DatesAreDays PROVE B!Spec => []B!ComparedFromStore
<1>1. CompareInv => B!ComparedFromStore
  BY DEF CompareInv, ShownOf, Between, B!ComparedFromStore
<1> QED
  BY <1>1, CompareInductive, PTL
-----------------------------------------------------------------------------
(* The months of the charts *)

\* Months of 28 to 31 days, which reach as far back as the charts do.
CalendarReaches ==
  /\ MonthLengths \in Seq(28..31) /\ Todays \subseteq Int /\ Spans \subseteq Nat
  /\ \A t \in Todays : B!MonthOf(t) \in DOMAIN MonthLengths /\ \A n \in Spans : n <= B!MonthOf(t)

\* The last day of a month comes as many days after that of the month before.
LEMMA LastDays ==
  ASSUME MonthLengths \in Seq(28..31)
  PROVE  /\ B!LastDay(0) = 0
         /\ \A m \in 1..Len(MonthLengths) : B!LastDay(m) = MonthLengths[m] + B!LastDay(m - 1)
<1>1. B!LastDay(0) = 0
  <2>1. 1..0 = {}
    OBVIOUS
  <2> QED
    BY <2>1, SumEmpty, DashboardSums DEF B!LastDay
<1>2. ASSUME NEW m \in 1..Len(MonthLengths)
      PROVE  B!LastDay(m) = MonthLengths[m] + B!LastDay(m - 1)
  <2> DEFINE before == 1..(m - 1)
  <2>1. m \in Int /\ m - 1 \in Int /\ 1 \in Int /\ 1..m = before \cup {m} /\ m \notin before
    OBVIOUS
  <2>2. IsFiniteSet(1..m)
    BY <2>1, FS_Interval
  <2>3. \A k \in 1..m : MonthLengths[k] \in Int
    <3>1. \A k \in 1..m : MonthLengths[k] \in 28..31
      BY <2>1
    <3> QED
      BY <3>1
  <2>4. IntegersOn(MonthLengths, before \cup {m})
    BY <2>1, <2>2, <2>3 DEF IntegersOn
  <2>5. B!LastDay(m) = SumFunctionOnSet(MonthLengths, before \cup {m})
    BY <2>1, DashboardSums DEF B!LastDay
  <2>6. B!LastDay(m - 1) = SumFunctionOnSet(MonthLengths, before)
    BY DashboardSums DEF B!LastDay
  <2> HIDE DEF before
  <2> QED
    BY <2>1, <2>4, <2>5, <2>6, SumAdd
<1> QED
  BY <1>1, <1>2

\* A calendar of the first quarter reaches the days of March, and three months back.
LEMMA FirstQuarter ==
  ASSUME MonthLengths = <<31, 28, 31>>, Todays = {80, 90}, Spans = {3}
  PROVE  CalendarReaches
<1>1. /\ MonthLengths \in Seq(28..31) /\ Len(MonthLengths) = 3 /\ DOMAIN MonthLengths = 1..3
      /\ MonthLengths[1] = 31 /\ MonthLengths[2] = 28 /\ MonthLengths[3] = 31
  OBVIOUS
<1> DEFINE L(m) == B!LastDay(m)
<1>2. L(0) = 0 /\ \A m \in 1..3 : L(m) = MonthLengths[m] + L(m - 1)
  BY <1>1, LastDays
<1>3. L(0) = 0 /\ L(1) = 31 /\ L(2) = 59 /\ L(3) = 90
  <2>1. L(1) = 31 + L(0) /\ L(2) = 28 + L(1) /\ L(3) = 31 + L(2)
    BY <1>1, <1>2
  <2> QED
    BY <1>2, <2>1
<1>4. ASSUME NEW d \in {80, 90} PROVE B!MonthOf(d) = 3
  <2>2. B!MonthOf(d) = CHOOSE m \in 1..3 : L(m - 1) < d /\ d <= L(m)
    BY <1>1 DEF B!MonthOf
  <2> HIDE DEF L
  <2>1. \A m \in 1..3 : L(m - 1) < d /\ d <= L(m) <=> m = 3
    BY <1>3
  <2> QED
    BY <2>1, <2>2
<1> QED
  BY <1>1, <1>4 DEF CalendarReaches

\* A request for charts is of some span, and so are the labels that are shown.
ChartInv ==
  /\ today \in Todays
  /\ DOMAIN pc = Handlers /\ DOMAIN req = Handlers /\ DOMAIN answer = Handlers
  /\ \A h \in Handlers :
       /\ pc[h] = "queries" /\ req[h].op \in {"dashboard", "analytics"} => req[h].months \in Spans
       /\ answer[h].kind \in {"dashboard", "analytics"} =>
            \E n \in Spans : answer[h].labels = B!buildMonthLabels(today, n)

\* A day that every month has leads back to the months before, one by one.
LEMMA MonthsBack ==
  ASSUME CalendarReaches, NEW t \in Todays, B!DayOf(t) <= 28, NEW n \in Spans, NEW i \in 0..(n - 1)
  PROVE  B!MonthBack(t, i) = B!MonthOf(t) - i
<1> DEFINE m == B!MonthOf(t)
<1>1. /\ Len(MonthLengths) \in Nat /\ DOMAIN MonthLengths = 1..Len(MonthLengths)
      /\ \A k \in DOMAIN MonthLengths : MonthLengths[k] \in 28..31
      /\ m \in DOMAIN MonthLengths /\ n \in Nat /\ n <= m /\ t \in Int
  BY DEF CalendarReaches
<1>2. m - i \in DOMAIN MonthLengths
  BY <1>1
<1>3. B!LastDay(m - 1) \in Int
  <2>1. IsFiniteSet(1..(m - 1)) /\ \A k \in 1..(m - 1) : MonthLengths[k] \in Int
    <3> HIDE DEF m
    <3>1. 1 \in Int /\ m - 1 \in Int
      BY <1>1
    <3>2. IsFiniteSet(1..(m - 1))
      BY <3>1, FS_Interval
    <3>3. \A k \in 1..(m - 1) : k \in DOMAIN MonthLengths
      BY <1>1
    <3>4. \A k \in DOMAIN MonthLengths : MonthLengths[k] \in Int
      BY <1>1
    <3> QED
      BY <3>2, <3>3, <3>4
  <2> QED
    BY <2>1, SumInt, DashboardSums DEF B!LastDay, IntegersOn
<1>4. B!DayOf(t) \in Int
  BY <1>1, <1>3 DEF B!DayOf
<1>5. MonthLengths[m - i] \in 28..31
  BY <1>1, <1>2
<1>6. ~ (B!DayOf(t) > MonthLengths[m - i])
  BY <1>4, <1>5
<1> QED
  BY <1>6 DEF B!MonthBack

\* A step of one handler that keeps what is said of it.
LEMMA ChartMoves ==
  ASSUME ChartInv, NEW h \in Handlers, NEW a,
         \/ \E r, queries : /\ B!Launch(h, r, queries)
                            /\ r.op \in {"dashboard", "analytics"} => r.months \in Spans
         \/ /\ B!Reply(h, a)
            /\ a.kind \in {"dashboard", "analytics"} =>
                 \E n \in Spans : a.labels = B!buildMonthLabels(today, n)
  PROVE  ChartInv'
<1>1. /\ today' = today
      /\ DOMAIN pc' = Handlers /\ DOMAIN req' = Handlers /\ DOMAIN answer' = Handlers
      /\ \A i \in Handlers \ {h} : pc'[i] = pc[i] /\ req'[i] = req[i] /\ answer'[i] = answer[i]
  BY DEF B!Launch, B!Reply, ChartInv
<1>2. /\ pc'[h] = "queries" /\ req'[h].op \in {"dashboard", "analytics"} => req'[h].months \in Spans
      /\ answer'[h].kind \in {"dashboard", "analytics"} =>
           \E n \in Spans : answer'[h].labels = B!buildMonthLabels(today, n)
  BY DEF B!Launch, B!Reply, ChartInv, B!NoAnswer
<1>3. \A n : B!buildMonthLabels(today', n) = B!buildMonthLabels(today, n)
  BY <1>1
<1>4. ASSUME NEW i \in Handlers
      PROVE  /\ pc'[i] = "queries" /\ req'[i].op \in {"dashboard", "analytics"} => req'[i].months \in Spans
             /\ answer'[i].kind \in {"dashboard", "analytics"} =>
                  \E n \in Spans : answer'[i].labels = B!buildMonthLabels(today, n)
  <2>1. CASE i = h
    BY <1>2, <2>1
  <2>2. CASE i # h
    BY <1>1, <2>2 DEF ChartInv
  <2> QED
    BY <2>1, <2>2
<1> QED
  BY <1>1, <1>3, <1>4 DEF ChartInv

\* ChartInv is inductive.
THEOREM ChartInductive == B!Spec => []ChartInv
<1>1. B!Init => ChartInv
  BY DEF B!Init, ChartInv, B!NoAnswer
<1>2. ChartInv /\ [B!Next]_(B!vars) => ChartInv'
  <2> SUFFICES ASSUME ChartInv, [B!Next]_(B!vars) PROVE ChartInv'
    OBVIOUS
  <2>1. ASSUME NEW h \in Handlers, B!GetDashboard(h) PROVE ChartInv'
    <3>1. PICK n \in Spans : B!Launch(h, [op |-> "dashboard", months |-> n], B!DashboardQueries)
      BY <2>1 DEF B!GetDashboard
    <3>2. [op |-> "dashboard", months |-> n].months \in Spans
      OBVIOUS
    <3> QED
      BY <3>1, <3>2, ChartMoves
  <2>2. ASSUME NEW h \in Handlers, B!GetDashboardAnalytics(h) PROVE ChartInv'
    <3>1. PICK n \in Spans :
            \E periods : B!Launch(h, [op |-> "analytics", months |-> n, periods |-> periods], B!AnalyticsQueries)
      BY <2>2 DEF B!GetDashboardAnalytics
    <3>3. PICK periods : B!Launch(h, [op |-> "analytics", months |-> n, periods |-> periods], B!AnalyticsQueries)
      BY <3>1
    <3>2. [op |-> "analytics", months |-> n, periods |-> periods].months \in Spans
      OBVIOUS
    <3> QED
      BY <3>3, <3>2, ChartMoves
  <2>3. ASSUME NEW h \in Handlers, B!GetDashboardCompare(h) PROVE ChartInv'
    <3>1. \/ \E periods : B!Launch(h, [op |-> "compare", periods |-> periods], B!CompareQueries)
          \/ B!Reply(h, [kind |-> "no dates"])
      BY <2>3 DEF B!GetDashboardCompare
    <3>2. /\ \A periods : [op |-> "compare", periods |-> periods].op \notin {"dashboard", "analytics"}
          /\ [kind |-> "no dates"].kind \notin {"dashboard", "analytics"}
      OBVIOUS
    <3>3. CASE B!Reply(h, [kind |-> "no dates"])
      BY <3>2, <3>3, ChartMoves
    <3>4. ASSUME NEW periods, B!Launch(h, [op |-> "compare", periods |-> periods], B!CompareQueries) PROVE ChartInv'
      BY <3>2, <3>4, ChartMoves
    <3> QED
      BY <3>1, <3>3, <3>4
  <2>4. ASSUME NEW h \in Handlers, B!AnswerDashboard(h) PROVE ChartInv'
    <3>1. PICK a : B!Reply(h, a) /\ a.labels = B!buildMonthLabels(today, req[h].months)
      BY <2>4 DEF B!AnswerDashboard
    <3>2. req[h].months \in Spans
      BY <2>4 DEF B!AnswerDashboard, B!Waited, ChartInv
    <3> QED
      BY <3>1, <3>2, ChartMoves
  <2>5. ASSUME NEW h \in Handlers, B!AnswerAnalytics(h) PROVE ChartInv'
    <3>1. PICK a : B!Reply(h, a) /\ a.labels = B!buildMonthLabels(today, req[h].months)
      BY <2>5 DEF B!AnswerAnalytics
    <3>2. req[h].months \in Spans
      BY <2>5 DEF B!AnswerAnalytics, B!Waited, ChartInv
    <3> QED
      BY <3>1, <3>2, ChartMoves
  <2>6. ASSUME NEW h \in Handlers, B!AnswerCompare(h) PROVE ChartInv'
    <3>1. PICK a : B!Reply(h, a) /\ a.kind \in {"compare", "error"}
      BY <2>6 DEF B!AnswerCompare
    <3> QED
      BY <3>1, ChartMoves
  <2>7. CASE UNCHANGED <<today, pc, req, answer>>
    <3>1. \A n : B!buildMonthLabels(today', n) = B!buildMonthLabels(today, n)
      BY <2>7
    <3> QED
      BY <2>7, <3>1 DEF ChartInv
  <2>8. ASSUME NEW h \in Handlers, NEW q, B!Query(h, q) PROVE UNCHANGED <<today, pc, req, answer>>
    BY <2>8 DEF B!Query
  <2> QED
    BY <2>1, <2>2, <2>3, <2>4, <2>5, <2>6, <2>7, <2>8 DEF B!Next, B!Record, B!vars
<1> QED
  BY <1>1, <1>2, PTL DEF B!Spec

\* Up to the 28th of a month the charts show the last months, each once
\* (dashboard.go:858).
THEOREM ChartsTrail == ASSUME CalendarReaches PROVE B!Spec => []B!MonthsTrail
<1>1. ChartInv => B!MonthsTrail
  <2> SUFFICES ASSUME ChartInv, NEW h \in Handlers, answer[h].kind \in {"dashboard", "analytics"},
                      B!DayOf(today) <= 28, NEW i \in DOMAIN answer[h].labels
               PROVE  answer[h].labels[i] = B!MonthOf(today) - (Len(answer[h].labels) - i)
    BY DEF B!MonthsTrail
  <2>1. PICK n \in Spans : answer[h].labels = B!buildMonthLabels(today, n)
    BY DEF ChartInv
  <2>2. n \in Nat /\ today \in Todays
    BY DEF CalendarReaches, ChartInv
  <2> DEFINE l == answer[h].labels
  <2>3. l = [j \in 1..n |-> B!MonthBack(today, n - j)]
    BY <2>1 DEF B!buildMonthLabels
  <2>4. Len(l) = n /\ i \in 1..n /\ l[i] = B!MonthBack(today, n - i)
    BY <2>2, <2>3
  <2>5. n - i \in 0..(n - 1)
    BY <2>2, <2>4
  <2>6. B!MonthBack(today, n - i) = B!MonthOf(today) - (n - i)
    BY <2>2, <2>5, MonthsBack
  <2> QED
    BY <2>4, <2>6
<1> QED
  BY <1>1, ChartInductive, PTL
-----------------------------------------------------------------------------
(* Lists: a walk shows a row that nothing changed once. *)

\* Rows have positive ids, a page has at least one row.
PagesAreBounded ==
  /\ IsFiniteSet(RowIds) /\ RowIds \subseteq Nat \ {0}
  /\ RowDates \subseteq Int /\ \E d \in RowDates : \A x \in RowDates : x <= d
  /\ Sizes \subseteq Int \X Int /\ DefaultLimit \in Nat \ {0} /\ MaxLimit \in Nat \ {0}

\* The day of a row of a list that is not ordered by date.
RowDays == RowDates \cup {1}

\* The rows of the table, and the entries of them that nothing changed.
ListTypes ==
  /\ DOMAIN rows \subseteq RowIds
  /\ \A i \in DOMAIN rows : rows[i] \in [date : RowDays, credit : BOOLEAN, stocked : BOOLEAN]
  /\ shown \in Seq([id : RowIds, date : RowDays, credit : {0, 1}])
  /\ quiet \subseteq P!Entries(list, rows)

\* The columns of a list's key.
Columns == IF P!Sort(list) \notin P!Dated THEN 1 ELSE IF list = "bills" THEN 3 ELSE 2

\* The cursor is the first page's, or the key of a row.
CursorInv ==
  \/ cursor.k = <<>> /\ shown = <<>>
  \/ /\ cursor.s = P!Sort(list) /\ cursor.k \in Seq(Int) /\ Len(cursor.k) = Columns
     /\ IF P!Sort(list) \notin P!Dated THEN cursor.k[1] > 0 ELSE cursor.k[2] > 0

\* The rows up to the cursor: an entry that nothing changed was shown once when it
\* is one of them, and is still to be shown when it is not.
Passed(e) == ~ P!Seek(list, cursor.k, P!Key(list, e))
ShownInv == \A e \in quiet : P!Times(e) = IF Passed(e) THEN 1 ELSE 0

\* What holds of a walk: where it stands says what was shown.
ListInv ==
  /\ ListTypes
  /\ walk \in {"on", "over"}
  /\ walk = "on" => CursorInv /\ ShownInv
  /\ P!EachRowOnce
-----------------------------------------------------------------------------
\* The lexicographic order of keys of n columns, rising or falling.
LEMMA KeysInOrder ==
  ASSUME NEW l, NEW n \in Nat
  PROVE  /\ \A a \in [1..n -> Int] : ~ P!Comes(l, a, a)
         /\ \A a, b, c \in [1..n -> Int] : P!Comes(l, a, b) /\ P!Comes(l, b, c) => P!Comes(l, a, c)
         /\ \A a, b \in [1..n -> Int] : a = b \/ P!Comes(l, a, b) \/ P!Comes(l, b, a)
<1>1. ASSUME NEW a \in [1..n -> Int] PROVE ~ P!Comes(l, a, a)
  BY DEF P!Comes, P!Before
<1>2. ASSUME NEW a \in [1..n -> Int], NEW b \in [1..n -> Int], NEW c \in [1..n -> Int],
             P!Comes(l, a, b), P!Comes(l, b, c)
      PROVE  P!Comes(l, a, c)
  <2>1. PICK i \in 1..n : P!Before(l, a[i], b[i]) /\ \A j \in 1..(i - 1) : a[j] = b[j]
    BY <1>2 DEF P!Comes
  <2>2. PICK k \in 1..n : P!Before(l, b[k], c[k]) /\ \A j \in 1..(k - 1) : b[j] = c[j]
    BY <1>2 DEF P!Comes
  <2>3. CASE i <= k
    <3>1. P!Before(l, a[i], c[i])
      BY <2>1, <2>2, <2>3 DEF P!Before
    <3>2. \A j \in 1..(i - 1) : a[j] = c[j]
      BY <2>1, <2>2, <2>3
    <3> QED
      BY <3>1, <3>2 DEF P!Comes
  <2>4. CASE k < i
    <3>1. P!Before(l, a[k], c[k])
      BY <2>1, <2>2, <2>4 DEF P!Before
    <3>2. \A j \in 1..(k - 1) : a[j] = c[j]
      BY <2>1, <2>2, <2>4
    <3> QED
      BY <3>1, <3>2 DEF P!Comes
  <2> QED
    BY <2>3, <2>4
<1>3. ASSUME NEW a \in [1..n -> Int], NEW b \in [1..n -> Int], a # b
      PROVE  P!Comes(l, a, b) \/ P!Comes(l, b, a)
  <2> DEFINE Unlike == {i \in 1..n : a[i] # b[i]}
  <2>1. Unlike \subseteq Nat /\ Unlike # {}
    BY <1>3
  <2>2. PICK m \in Unlike : \A i \in Unlike : m <= i
    <3> HIDE DEF Unlike
    <3> QED
      BY <2>1, LeastNat
  <2>3. \A j \in 1..(m - 1) : a[j] = b[j]
    BY <2>2
  <2>4. a[m] < b[m] \/ a[m] > b[m]
    BY <2>2
  <2> QED
    BY <2>3, <2>4 DEF P!Comes, P!Before
<1> QED
  BY <1>1, <1>2, <1>3

\* Bills are ordered by date.
LEMMA BillsDated == P!Sort("bills") \in P!Dated
  BY DEF P!Sort, P!Dated

\* Each entry has a key of its own.
LEMMA KeyOf ==
  ASSUME PagesAreBounded, ListTypes, NEW e \in P!Entries(list, rows)
  PROVE  /\ e \in [id : RowIds, date : RowDays, credit : {0, 1}]
         /\ e.date = rows[e.id].date /\ (list # "bills" => e.credit = 0)
         /\ P!Key(list, e) \in [1..Columns -> Int]
         /\ IF P!Sort(list) \notin P!Dated THEN P!Key(list, e)[1] > 0 ELSE P!Key(list, e)[2] > 0
<1>1. /\ e \in [id : RowIds, date : RowDays, credit : {0, 1}]
      /\ e.date = rows[e.id].date /\ (list # "bills" => e.credit = 0)
  BY DEF P!Entries, ListTypes
<1>2. e.id \in Int /\ e.id > 0 /\ e.date \in Int /\ e.credit \in Int
  <2>1. e.id \in RowIds /\ e.date \in RowDays /\ e.credit \in {0, 1}
    BY <1>1
  <2>2. \A i \in RowIds : i \in Int /\ i > 0
    BY DEF PagesAreBounded
  <2>3. e.id \in Int /\ e.id > 0
    BY <2>1, <2>2
  <2>4. e.date \in Int
    BY <2>1, 1 \in Int DEF PagesAreBounded, RowDays
  <2>5. e.credit \in Int
    BY <2>1
  <2> QED
    BY <2>3, <2>4, <2>5
<1>0. list = "bills" => P!Sort(list) \in P!Dated
  BY BillsDated
<1>3. CASE P!Sort(list) \notin P!Dated
  <2>1. P!Key(list, e) = <<e.id>> /\ Columns = 1
    BY <1>0, <1>3 DEF P!Key, Columns
  <2> QED
    BY <1>1, <1>2, <1>3, <2>1
<1>4. CASE P!Sort(list) \in P!Dated /\ list = "bills"
  <2>1. P!Key(list, e) = <<e.date, e.id, e.credit>> /\ Columns = 3
    BY <1>4 DEF P!Key, Columns
  <2> QED
    BY <1>1, <1>2, <1>4, <2>1
<1>5. CASE P!Sort(list) \in P!Dated /\ list # "bills"
  <2>1. P!Key(list, e) = <<e.date, e.id>> /\ Columns = 2
    BY <1>5 DEF P!Key, Columns
  <2> QED
    BY <1>1, <1>2, <1>5, <2>1
<1> QED
  BY <1>3, <1>4, <1>5

\* No two entries have the same key.
LEMMA KeysDiffer ==
  ASSUME PagesAreBounded, ListTypes, NEW d \in P!Entries(list, rows), NEW e \in P!Entries(list, rows),
         P!Key(list, d) = P!Key(list, e)
  PROVE  d = e
<1>1. list = "bills" => P!Sort(list) \in P!Dated
  BY BillsDated
<1>2. d.id = e.id /\ (list = "bills" => d.credit = e.credit)
  BY <1>1 DEF P!Key
<1> QED
  BY <1>2, KeyOf

\* There are finitely many entries.
LEMMA FewEntries ==
  ASSUME PagesAreBounded, ListTypes
  PROVE  IsFiniteSet(P!Entries(list, rows))
<1> DEFINE E == P!Entries(list, rows)
           name == [e \in E |-> <<e.id, e.credit>>]
<1>1. \A e \in E : /\ e \in [id : RowIds, date : RowDays, credit : {0, 1}]
                   /\ e.date = rows[e.id].date
  BY KeyOf
<1> HIDE DEF E
<1>2. name \in Injection(E, RowIds \X {0, 1})
  BY <1>1 DEF Injection, IsInjective
<1>3. IsFiniteSet({0, 1}) /\ IsFiniteSet(RowIds)
  <2>1. IsFiniteSet({0})
    BY FS_Singleton
  <2>2. IsFiniteSet({0} \cup {1}) /\ {0} \cup {1} = {0, 1}
    BY <2>1, FS_AddElement
  <2> QED
    BY <2>2 DEF PagesAreBounded
<1>4. IsFiniteSet(RowIds \X {0, 1})
  BY <1>3, FS_Product
<1> HIDE DEF name
<1>5. IsFiniteSet(E)
  BY <1>2, <1>4, FS_Injection
<1> QED
  BY <1>5 DEF E

\* The entries behind a cursor's key, and the first of them in order: a page's query.
Behind(k) == {e \in P!Entries(list, rows) : P!Seek(list, k, P!Key(list, e))}

\* A query answers the entries behind the key in their order, the first n of them.
LEMMA QueryIs ==
  ASSUME PagesAreBounded, ListTypes, NEW k, NEW n \in Nat
  PROVE  \E place \in [Behind(k) -> Nat] :
           LET q == P!Query(list, rows, k, n) IN
           /\ q \in Seq(Behind(k))
           /\ Len(q) <= n /\ (Len(q) < n => \A e \in Behind(k) : place[e] <= Len(q))
           /\ \A p \in DOMAIN q : place[q[p]] = p
           /\ \A e \in Behind(k) : place[e] <= Len(q) => place[e] \in DOMAIN q /\ q[place[e]] = e
           /\ \A d, e \in Behind(k) : P!Comes(list, P!Key(list, d), P!Key(list, e)) <=> place[d] < place[e]
<1> DEFINE Ahead == Behind(k)
           lt == {x \in Ahead \X Ahead : P!Comes(list, P!Key(list, x[1]), P!Key(list, x[2]))}
           size == Cardinality(Ahead)
           m == IF n < size THEN n ELSE size
           q == P!Query(list, rows, k, n)
           place == [e \in Ahead |-> PlaceIn(lt, Ahead, e)]
<1>1. IsFiniteSet(Ahead) /\ size \in Nat
  <2>1. Ahead \in SUBSET P!Entries(list, rows)
    BY DEF Behind
  <2> HIDE DEF Ahead
  <2> QED
    BY <2>1, FewEntries, FS_Subset, FS_CardinalityType
<1>2. \A d, e \in Ahead : <<d, e>> \in lt <=> P!Comes(list, P!Key(list, d), P!Key(list, e))
  <2> HIDE DEF Ahead
  <2> QED
    OBVIOUS
<1>3. PutsInOrder(lt, Ahead)
  <2>1. \A e \in Ahead : P!Key(list, e) \in [1..Columns -> Int] /\ e \in P!Entries(list, rows)
    BY KeyOf DEF Behind
  <2>2. Columns \in Nat
    BY DEF Columns
  <2>3. \A d, e \in Ahead : P!Key(list, d) = P!Key(list, e) => d = e
    BY <2>1, KeysDiffer
  <2> HIDE DEF Ahead, lt
  <2> QED
    BY <1>2, <2>1, <2>2, <2>3, KeysInOrder DEF PutsInOrder
<1>4. \A e \in Ahead : PlaceIn(lt, Ahead, e) = 1 + Cardinality({d \in Ahead : P!Comes(list, P!Key(list, d), P!Key(list, e))})
  <2>1. ASSUME NEW e \in Ahead
        PROVE  {d \in Ahead : <<d, e>> \in lt} = {d \in Ahead : P!Comes(list, P!Key(list, d), P!Key(list, e))}
    <3> HIDE DEF Ahead, lt
    <3> QED
      BY <1>2
  <2> HIDE DEF Ahead, lt
  <2> QED
    BY <2>1 DEF PlaceIn
<1>5. q = [p \in 1..m |-> CHOOSE e \in Ahead :
             1 + Cardinality({d \in Ahead : P!Comes(list, P!Key(list, d), P!Key(list, e))}) = p]
  BY DEF P!Query, Behind, P!Cardinality, Cardinality
<1> HIDE DEF Ahead, lt, q
<1>6. /\ \A e \in Ahead : place[e] \in 1..size
      /\ \A d, e \in Ahead : <<d, e>> \in lt <=> place[d] < place[e]
      /\ \A d, e \in Ahead : place[d] = place[e] => d = e
      /\ \A p \in 1..size : \E e \in Ahead : place[e] = p
  BY <1>1, <1>3, Places
<1>7. m \in Nat /\ m <= size /\ m <= n /\ (m < n => m = size)
  BY <1>1
<1>8. \A e \in Ahead : place[e] = 1 + Cardinality({d \in Ahead : P!Comes(list, P!Key(list, d), P!Key(list, e))})
  BY <1>4
<1>9. place \in [Ahead -> Nat]
  BY <1>6
<1> HIDE DEF place, m, size
<1>10. ASSUME NEW p \in 1..m PROVE q[p] \in Ahead /\ place[q[p]] = p
  <2>1. p \in 1..size
    BY <1>1, <1>7
  <2>2. PICK e \in Ahead : place[e] = p
    BY <1>6, <2>1
  <2> DEFINE Is(d) == 1 + Cardinality({c \in Ahead : P!Comes(list, P!Key(list, c), P!Key(list, d))}) = p
  <2>3. q[p] = CHOOSE d \in Ahead : Is(d)
    BY <1>5
  <2>4. Is(e)
    BY <1>8, <2>2
  <2> HIDE DEF Is
  <2>5. q[p] \in Ahead /\ Is(q[p])
    BY <2>3, <2>4
  <2> QED
    BY <1>8, <2>5 DEF Is
<1>11. q \in [1..m -> Ahead] /\ q \in Seq(Ahead) /\ Len(q) = m /\ DOMAIN q = 1..m
  <2>1. q \in [1..m -> Ahead]
    BY <1>5, <1>10
  <2> QED
    BY <1>7, <2>1
<1>12. ASSUME NEW e \in Ahead, place[e] <= m PROVE place[e] \in 1..m /\ q[place[e]] = e
  <2>1. place[e] \in 1..m
    BY <1>1, <1>6, <1>7, <1>12
  <2> QED
    BY <2>1, <1>6, <1>10
<1>13. m < n => \A e \in Ahead : place[e] <= m
  BY <1>1, <1>6, <1>7
<1>14. q = P!Query(list, rows, k, n) /\ Ahead = Behind(k)
  BY DEF q, Ahead
<1> QED
  BY <1>2, <1>6, <1>7, <1>9, <1>10, <1>11, <1>12, <1>13, <1>14

\* The stock filter keeps rows of the page, in their places when it keeps them all.
KeptOf(g, found) ==
  g = [T \in SUBSET DOMAIN found |->
         IF T = {} THEN <<>>
         ELSE IF rows[found[LastOf(T)].id].stocked
              THEN Append(g[T \ {LastOf(T)}], found[LastOf(T)]) ELSE g[T \ {LastOf(T)}]]

\* The filter is that recursion.
LEMMA KeptIs ==
  ASSUME NEW found, stock # ""
  PROVE  P!InStock(found) = (CHOOSE g : KeptOf(g, found))[DOMAIN found]
  BY DEF P!InStock, P!FoldLeft, P!MapThenFoldSet, P!Max, KeptOf, LastOf

\* That recursion has a solution.
LEMMA KeptExists ==
  ASSUME NEW S, NEW found \in Seq(S)
  PROVE  KeptOf(CHOOSE g : KeptOf(g, found), found)
<1> DEFINE step == [a \in Seq(S) \X S |-> IF rows[a[2].id].stocked THEN Append(a[1], a[2]) ELSE a[1]]
<1>1. step \in [Seq(S) \X S -> Seq(S)] /\ <<>> \in Seq(S)
  OBVIOUS
<1>2. ASSUME NEW x \in Seq(S), NEW y \in S
      PROVE  step[<<x, y>>] = IF rows[y.id].stocked THEN Append(x, y) ELSE x
  OBVIOUS
<1> HIDE DEF step
<1>3. PICK g \in [SUBSET DOMAIN found -> Seq(S)] : FoldFits(g, <<>>, step, found, SUBSET DOMAIN found)
  BY <1>1, FoldExists
<1>4. ASSUME NEW T \in SUBSET DOMAIN found, T # {}
      PROVE  LastOf(T) \in DOMAIN found /\ found[LastOf(T)] \in S /\ g[T \ {LastOf(T)}] \in Seq(S)
  <2>1. DOMAIN found = 1..Len(found) /\ Len(found) \in Nat
    OBVIOUS
  <2>2. LastOf(T) \in T
    BY <1>4, <2>1, LastIn
  <2> QED
    BY <1>3, <2>2
<1>5. ASSUME NEW T \in SUBSET DOMAIN found
      PROVE  Taken(g, <<>>, step, found, T)
               = IF T = {} THEN <<>>
                 ELSE IF rows[found[LastOf(T)].id].stocked
                      THEN Append(g[T \ {LastOf(T)}], found[LastOf(T)]) ELSE g[T \ {LastOf(T)}]
  BY <1>2, <1>4 DEF Taken
<1>6. KeptOf(g, found)
  BY <1>3, <1>5 DEF FoldFits, KeptOf
<1> QED
  BY <1>6

\* One step of it.
LEMMA KeptAt ==
  ASSUME NEW g, NEW found, KeptOf(g, found), NEW T \in SUBSET DOMAIN found
  PROVE  g[T] = IF T = {} THEN <<>>
                ELSE IF rows[found[LastOf(T)].id].stocked
                     THEN Append(g[T \ {LastOf(T)}], found[LastOf(T)]) ELSE g[T \ {LastOf(T)}]
  BY DEF KeptOf

\* The stock filter keeps rows of the page, each once and in order; without it, all.
LEMMA KeptRows ==
  ASSUME NEW S, NEW found \in Seq(S), \A i, j \in DOMAIN found : found[i] = found[j] => i = j
  PROVE  KeptFrom(P!InStock(found), S, found, Len(found)) /\ (stock = "" => P!InStock(found) = found)
<1>1. CASE stock = ""
  <2>1. P!InStock(found) = found
    BY <1>1 DEF P!InStock
  <2>2. KeptFrom(found, S, found, Len(found))
    BY DEF KeptFrom
  <2> QED
    BY <2>1, <2>2
<1>2. CASE stock # ""
  <2> DEFINE g == CHOOSE h : KeptOf(h, found)
             n == Len(found)
             r == [i \in 0..n |-> g[1..i]]
  <2>1. KeptOf(g, found) /\ n \in Nat /\ DOMAIN found = 1..n
    BY KeptExists
  <2>2. P!InStock(found) = g[1..n]
    BY <1>2, <2>1, KeptIs
  <2> HIDE DEF g
  <2>3. g[1..0] = <<>>
    <3>1. 1..0 = {}
      OBVIOUS
    <3>2. PICK T \in SUBSET DOMAIN found : T = {}
      OBVIOUS
    <3>3. g[T] = <<>>
      BY <2>1, <3>2, KeptAt
    <3> QED
      BY <3>1, <3>2, <3>3, Zenon
  <2>4. ASSUME NEW i \in Nat, i + 1 <= n
        PROVE  g[1..(i + 1)] = g[1..i] \/ g[1..(i + 1)] = Append(g[1..i], found[i + 1])
    <3>1. i + 1 \in Nat /\ i + 1 > 0 /\ (i + 1) - 1 = i
      OBVIOUS
    <3>2. LastOf(1..(i + 1)) = i + 1 /\ (1..(i + 1)) \ {i + 1} = 1..i
      BY <3>1, LastIs
    <3>3. PICK T \in SUBSET DOMAIN found : T = 1..(i + 1)
      BY <2>1, <2>4
    <3>4. g[T] = IF T = {} THEN <<>>
                 ELSE IF rows[found[LastOf(T)].id].stocked
                      THEN Append(g[T \ {LastOf(T)}], found[LastOf(T)]) ELSE g[T \ {LastOf(T)}]
      BY <2>1, KeptAt
    <3>5. T # {} /\ LastOf(T) = i + 1 /\ T \ {i + 1} = 1..i
      <4>1. i + 1 \in T
        BY <3>1, <3>3
      <4>2. LastOf(T) = i + 1 /\ T \ {i + 1} = 1..i
        BY <3>2, <3>3, Zenon
      <4> QED
        BY <4>1, <4>2
    <3>6. g[T] = g[1..i] \/ g[T] = Append(g[1..i], found[i + 1])
      BY <3>4, <3>5
    <3> QED
      BY <3>3, <3>6
  <2>5. r[0] = <<>> /\ r[n] = g[1..n]
    BY <2>1, <2>3
  <2>6. \A i \in Nat : i + 1 <= n => r[i + 1] = r[i] \/ r[i + 1] = Append(r[i], found[i + 1])
    <3>1. ASSUME NEW i \in Nat, i + 1 <= n PROVE r[i + 1] = g[1..(i + 1)] /\ r[i] = g[1..i]
      BY <2>1, <3>1
    <3> HIDE DEF r
    <3> QED
      BY <2>4, <3>1
  <2> HIDE DEF r
  <2>7. KeptFrom(r[n], S, found, n)
    BY <2>5, <2>6, KeptAll
  <2> QED
    BY <1>2, <2>2, <2>5, <2>7
<1> QED
  BY <1>1, <1>2

\* The size of a set is the same in the instance.
LEMMA ListSizes == \A S : P!Cardinality(S) = Cardinality(S)
  BY DEF P!Cardinality, Cardinality

\* A page goes on from the cursor's key.
LEMMA GoesOn == ASSUME CursorInv PROVE P!Position(list, cursor).after = cursor.k
<1>1. CASE cursor.k = <<>>
  BY <1>1 DEF P!Position, P!cursorIDOnly, P!decodeBillCursor, P!cursorDateAndID, P!After
<1>2. CASE cursor.k # <<>> /\ P!Sort(list) \notin P!Dated
  <2>1. cursor.k \in Seq(Int) /\ Len(cursor.k) = 1 /\ cursor.k[1] > 0
    BY <1>2 DEF CursorInv, Columns
  <2>2. cursor.k = <<cursor.k[1]>>
    BY <2>1
  <2>3. P!Position(list, cursor) = P!cursorIDOnly(cursor)
    BY <1>2, BillsDated DEF P!Position
  <2>4. P!LastID(cursor) = cursor.k[1]
    BY <2>1 DEF P!LastID
  <2> QED
    BY <1>2, <2>1, <2>2, <2>3, <2>4 DEF P!cursorIDOnly, P!After
<1>3. CASE cursor.k # <<>> /\ P!Sort(list) \in P!Dated /\ list = "bills"
  <2>1. cursor.k \in Seq(Int) /\ Len(cursor.k) = 3 /\ cursor.k[2] > 0 /\ cursor.k[2] \in Int
    BY <1>3 DEF CursorInv, Columns
  <2>2. P!Position(list, cursor) = P!decodeBillCursor(cursor)
    BY <1>3 DEF P!Position
  <2> QED
    BY <2>1, <2>2 DEF P!decodeBillCursor, P!After
<1>4. CASE cursor.k # <<>> /\ P!Sort(list) \in P!Dated /\ list # "bills"
  <2>1. cursor.k \in Seq(Int) /\ Len(cursor.k) = 2 /\ cursor.k[2] > 0 /\ cursor.k[2] \in Int
    BY <1>4 DEF CursorInv, Columns
  <2>2. P!Position(list, cursor) = P!cursorDateAndID(cursor)
    BY <1>4 DEF P!Position
  <2>3. P!LastID(cursor) = cursor.k[2] /\ cursor.k = <<cursor.k[1], cursor.k[2]>>
    BY <2>1 DEF P!LastID
  <2> QED
    BY <1>4, <2>1, <2>2, <2>3 DEF P!cursorDateAndID, P!After
<1> QED
  BY <1>1, <1>2, <1>3, <1>4

\* What a page shows of the entries Ahead behind the cursor: the first of them, each once, and the
\* key of the last of those for the next page; all of them when there is no next page, unless
\* the stock filter leaves some out.
PageFits(page, Ahead) ==
  /\ page.items \in Seq(Ahead)
  /\ \A i, j \in DOMAIN page.items : page.items[i] = page.items[j] => i = j
  /\ page.more =>
       \E last \in DOMAIN page.items :
         /\ page.next = [k |-> P!Key(list, page.items[last]), s |-> P!Sort(list)]
         /\ \A e \in Ahead : (\E i \in DOMAIN page.items : page.items[i] = e)
                           <=> ~ P!Comes(list, P!Key(list, page.items[last]), P!Key(list, e))
  /\ ~ page.more /\ stock = "" => \A e \in Ahead : \E i \in DOMAIN page.items : page.items[i] = e

\* The page that a request gets, whatever limit it names.
LEMMA PageIs ==
  ASSUME PagesAreBounded, ListTypes, CursorInv, NEW size \in Sizes, NEW r,
         r.limit = size[1], r.page_size = size[2], r.cursor = cursor
  PROVE  PageFits(P!Page(r), Behind(cursor.k))
<1> DEFINE page == P!Page(r)
           items == page.items
           Ahead == Behind(cursor.k)
           lim == P!EffectiveLimit(r)
           q == P!Query(list, rows, cursor.k, lim + 1)
           found == P!InStock(q)
           more == Len(found) > lim
<1>1. lim \in Nat /\ lim > 0
  <2>1. size[1] \in Int /\ size[2] \in Int
    BY DEF PagesAreBounded
  <2>2. DefaultLimit \in Nat /\ DefaultLimit > 0 /\ MaxLimit \in Nat /\ MaxLimit > 0
    BY DEF PagesAreBounded
  <2> QED
    BY <2>1, <2>2 DEF P!EffectiveLimit
<1>2. page = P!Envelope(found, lim)
  BY GoesOn DEF P!Page
<1> HIDE DEF lim, Ahead, found, page
<1>9. /\ items = IF Len(found) > lim THEN SubSeq(found, 1, lim) ELSE found
      /\ (page.more <=> Len(found) > lim)
      /\ page.next = IF Len(found) > lim /\ items # <<>>
                     THEN [k |-> P!Key(list, items[Len(items)]), s |-> P!Sort(list)]
                     ELSE [k |-> <<>>, s |-> ""]
  <2> DEFINE cut == IF Len(found) > lim THEN SubSeq(found, 1, lim) ELSE found
  <2>1. page = [items |-> cut, more |-> Len(found) > lim,
                next |-> IF Len(found) > lim /\ cut # <<>>
                         THEN [k |-> P!Key(list, cut[Len(cut)]), s |-> P!Sort(list)]
                         ELSE [k |-> <<>>, s |-> ""]]
    BY <1>2 DEF P!Envelope
  <2> HIDE DEF cut
  <2>2. items = cut
    BY <2>1
  <2>3. page.more = (Len(found) > lim)
    BY <2>1, Zenon
  <2>4. page.next = IF Len(found) > lim /\ cut # <<>>
                    THEN [k |-> P!Key(list, cut[Len(cut)]), s |-> P!Sort(list)]
                    ELSE [k |-> <<>>, s |-> ""]
    BY <2>1
  <2>5. (page.more <=> Len(found) > lim)
    BY <2>3, Zenon
  <2> QED
    BY <2>2, <2>4, <2>5 DEF cut
<1>3. PICK place \in [Ahead -> Nat] :
        /\ q \in Seq(Ahead)
        /\ Len(q) <= lim + 1 /\ (Len(q) < lim + 1 => \A e \in Ahead : place[e] <= Len(q))
        /\ \A p \in DOMAIN q : place[q[p]] = p
        /\ \A e \in Ahead : place[e] <= Len(q) => place[e] \in DOMAIN q /\ q[place[e]] = e
        /\ \A d, e \in Ahead : P!Comes(list, P!Key(list, d), P!Key(list, e)) <=> place[d] < place[e]
  <2>1. lim + 1 \in Nat
    BY <1>1
  <2>2. Ahead = Behind(cursor.k) /\ q = P!Query(list, rows, cursor.k, lim + 1)
    BY DEF Ahead
  <2> HIDE DEF q
  <2> QED
    BY <2>1, <2>2, QueryIs
<1>4. \A i, j \in DOMAIN q : q[i] = q[j] => i = j
  BY <1>3
<1>5. KeptFrom(found, Ahead, q, Len(q)) /\ (stock = "" => found = q)
  <2>1. found = P!InStock(q)
    BY DEF found
  <2> HIDE DEF q
  <2> QED
    BY <2>1, <1>3, <1>4, KeptRows
<1> HIDE DEF q, items
<1>6. found \in Seq(Ahead) /\ Len(found) <= Len(q) /\ \A i, j \in 1..Len(found) : found[i] = found[j] => i = j
  BY <1>5 DEF KeptFrom
<1>7. CASE ~ more
  <2>1. items = found /\ ~ page.more
    BY <1>7, <1>9
  <2>2. stock = "" => \A e \in Ahead : \E i \in DOMAIN items : items[i] = e
    <3>1. ASSUME stock = "", NEW e \in Ahead PROVE \E i \in DOMAIN items : items[i] = e
      <4>1. found = q /\ Len(q) < lim + 1
        <5>1. found = q
          BY <1>5, <3>1
        <5>2. Len(q) \in Nat /\ lim \in Nat
          BY <1>1, <1>3
        <5>3. ~ (Len(q) > lim)
          BY <1>7, <5>1
        <5> QED
          BY <5>1, <5>2, <5>3
      <4>2. place[e] \in DOMAIN q /\ q[place[e]] = e
        BY <1>3, <4>1
      <4> QED
        BY <2>1, <4>1, <4>2
    <3> QED
      BY <3>1
  <2>3. items \in Seq(Ahead) /\ \A i, j \in DOMAIN items : items[i] = items[j] => i = j
    BY <1>6, <2>1
  <2> QED
    BY <1>9, <2>1, <2>2, <2>3 DEF page, items, Ahead, PageFits
<1>8. CASE more
  <2>1. items = SubSeq(found, 1, lim) /\ page.more
    BY <1>8, <1>9
  <2>2. Len(found) = lim + 1 /\ Len(q) = lim + 1 /\ \A p \in 1..(lim + 1) : found[p] = q[p]
    <3>1. Len(found) \in Nat /\ Len(q) \in Nat
      BY <1>3, <1>6
    <3>2. Len(found) = lim + 1 /\ Len(q) = lim + 1
      BY <1>1, <1>3, <1>6, <1>8, <3>1
    <3> QED
      BY <1>5, <3>2 DEF KeptFrom
  <2>3. items \in Seq(Ahead) /\ Len(items) = lim /\ DOMAIN items = 1..lim /\ \A p \in 1..lim : items[p] = q[p]
    BY <1>1, <1>6, <2>1, <2>2
  <2>4. page.next = [k |-> P!Key(list, items[lim]), s |-> P!Sort(list)]
    <3>1. items # <<>>
      BY <1>1, <2>3
    <3> QED
      BY <1>8, <1>9, <2>3, <3>1
  <2>5. \A i, j \in DOMAIN items : items[i] = items[j] => i = j
    BY <1>4, <2>2, <2>3
  <2>6. lim \in DOMAIN items /\ items[lim] \in Ahead /\ place[items[lim]] = lim
    BY <1>1, <1>3, <2>2, <2>3
  <2>7. ASSUME NEW e \in Ahead
        PROVE  (\E i \in DOMAIN items : items[i] = e)
                 <=> ~ P!Comes(list, P!Key(list, items[lim]), P!Key(list, e))
    <3>1. place[e] \in Nat /\ (P!Comes(list, P!Key(list, items[lim]), P!Key(list, e)) <=> lim < place[e])
      BY <1>3, <2>6
    <3>2. ASSUME NEW i \in DOMAIN items, items[i] = e PROVE place[e] <= lim
      BY <1>1, <1>3, <2>2, <2>3, <3>2
    <3>3. ASSUME place[e] <= lim PROVE \E i \in DOMAIN items : items[i] = e
      <4>1. place[e] \in 1..(lim + 1) /\ q[place[e]] = e
        BY <1>1, <1>3, <2>2, <3>1, <3>3
      <4>2. place[e] \in 1..lim
        BY <1>1, <3>3, <4>1
      <4> QED
        BY <2>3, <4>1, <4>2
    <3> QED
      BY <1>1, <3>1, <3>2, <3>3
  <2>8. \E last \in DOMAIN items :
          /\ page.next = [k |-> P!Key(list, items[last]), s |-> P!Sort(list)]
          /\ \A e \in Ahead : (\E i \in DOMAIN items : items[i] = e)
                            <=> ~ P!Comes(list, P!Key(list, items[last]), P!Key(list, e))
    BY <2>4, <2>6, <2>7
  <2> QED
    BY <1>9, <2>1, <2>3, <2>5, <2>8 DEF page, items, Ahead, PageFits
<1> QED
  BY <1>7, <1>8

\* A walk starts with nothing shown and every entry to be shown.
LEMMA ListStarts == ASSUME PagesAreBounded, P!Init PROVE ListInv
<1>1. PICK Present \in SUBSET RowIds :
        rows \in [Present -> [date : IF P!Sort(list) \in P!Dated THEN RowDates ELSE {1},
                        credit : IF list = "bills" THEN BOOLEAN ELSE {FALSE},
                        stocked : IF stock = "" THEN {TRUE} ELSE BOOLEAN]]
  BY DEF P!Init
<1>2. shown = <<>> /\ walk = "on"
  BY DEF P!Init
<1>9. cursor = [k |-> <<>>, s |-> ""] /\ quiet = P!Entries(list, rows)
  BY DEF P!Init
<1>3. DOMAIN rows \subseteq RowIds /\ \A i \in DOMAIN rows : rows[i] \in [date : RowDays, credit : BOOLEAN, stocked : BOOLEAN]
  <2>1. DOMAIN rows = Present
    BY <1>1
  <2>2. \A i \in Present : rows[i] \in [date : IF P!Sort(list) \in P!Dated THEN RowDates ELSE {1},
                                  credit : IF list = "bills" THEN BOOLEAN ELSE {FALSE},
                                  stocked : IF stock = "" THEN {TRUE} ELSE BOOLEAN]
    BY <1>1
  <2>3. ASSUME NEW i \in Present PROVE rows[i] \in [date : RowDays, credit : BOOLEAN, stocked : BOOLEAN]
    BY <2>2 DEF RowDays
  <2> QED
    BY <2>1, <2>3
<1>4. ListTypes
  <2>1. shown \in Seq([id : RowIds, date : RowDays, credit : {0, 1}])
    BY <1>2
  <2>2. quiet \subseteq P!Entries(list, rows)
    BY <1>9
  <2> QED
    BY <1>3, <2>1, <2>2 DEF ListTypes
<1>5. CursorInv
  BY <1>2, <1>9 DEF CursorInv
<1>6. \A e : P!Times(e) = 0
  <2>1. DOMAIN shown = {}
    BY <1>2
  <2>2. Cardinality({}) = 0
    BY FS_EmptySet
  <2>3. ASSUME NEW e PROVE P!Times(e) = 0
    <3>1. {i \in DOMAIN shown : shown[i] = e} = {}
      BY <2>1
    <3> QED
      BY <3>1, <2>2, ListSizes DEF P!Times
  <2> QED
    BY <2>3
<1>7. ShownInv
  BY <1>9, <1>6 DEF ShownInv, Passed, P!Seek
<1>8. P!EachRowOnce
  <2>1. walk # "over" /\ \A e \in quiet : P!Times(e) <= 1
    BY <1>2, <1>6
  <2> QED
    BY <2>1 DEF P!EachRowOnce
<1> QED
  BY <1>2, <1>4, <1>5, <1>7, <1>8 DEF ListInv

\* A change of the table leaves the walk, and fewer entries that nothing changed.
LEMMA ChangeKeeps ==
  ASSUME ListInv, NEW new, DOMAIN new \subseteq RowIds,
         \A i \in DOMAIN new : new[i] \in [date : RowDays, credit : BOOLEAN, stocked : BOOLEAN],
         P!Change(new)
  PROVE  ListInv'
<1>1. /\ walk = "on" /\ rows' = new /\ quiet' = quiet \cap P!Entries(list, new)
      /\ list' = list /\ stock' = stock /\ cursor' = cursor /\ shown' = shown /\ walk' = walk
  BY DEF P!Change
<1>2. ListTypes'
  BY <1>1 DEF ListInv, ListTypes
<1>3. CursorInv' /\ ShownInv'
  BY <1>1 DEF ListInv, CursorInv, Columns, ShownInv, Passed, P!Times
<1>4. P!EachRowOnce'
  BY <1>1 DEF ListInv, P!EachRowOnce, P!Times
<1> QED
  BY <1>1, <1>2, <1>3, <1>4 DEF ListInv

\* A new row gets a day that rows may have.
LEMMA NewDay == ASSUME PagesAreBounded PROVE P!NewDates \subseteq RowDays
<1>1. PICK m \in RowDates : m = CHOOSE d \in RowDates : \A x \in RowDates : x <= d
  BY DEF PagesAreBounded
<1> QED
  BY <1>1 DEF P!NewDates, RowDays

\* The changes of the table: an insertion, a deletion, another date, a credit note.
LEMMA TableChangeKeeps ==
  ASSUME PagesAreBounded, ListInv, P!Insert \/ P!Delete \/ P!Redate \/ P!CreditNote
  PROVE  ListInv'
<1> DEFINE Rows == [date : RowDays, credit : BOOLEAN, stocked : BOOLEAN]
<1>1. DOMAIN rows \subseteq RowIds /\ \A i \in DOMAIN rows : rows[i] \in Rows
  BY DEF ListInv, ListTypes
<1>2. CASE P!Insert
  <2>1. PICK i \in RowIds, d \in P!NewDates, s \in BOOLEAN :
          P!Change([j \in DOMAIN rows \cup {i} |->
                      IF j = i THEN [date |-> d, credit |-> FALSE, stocked |-> s] ELSE rows[j]])
    BY <1>2 DEF P!Insert
  <2> DEFINE new == [j \in DOMAIN rows \cup {i} |->
                       IF j = i THEN [date |-> d, credit |-> FALSE, stocked |-> s] ELSE rows[j]]
  <2>2. DOMAIN new \subseteq RowIds /\ \A j \in DOMAIN new : new[j] \in Rows
    BY <1>1, NewDay
  <2> HIDE DEF new
  <2> QED
    BY <2>1, <2>2, ChangeKeeps DEF new
<1>3. CASE P!Delete
  <2>1. PICK i \in DOMAIN rows : P!Change([j \in DOMAIN rows \ {i} |-> rows[j]])
    BY <1>3 DEF P!Delete
  <2> QED
    BY <1>1, <2>1, ChangeKeeps
<1>4. CASE P!Redate
  <2>1. PICK i \in DOMAIN rows, d \in P!NewDates : P!Change([rows EXCEPT ![i].date = d])
    BY <1>4 DEF P!Redate
  <2> DEFINE new == [rows EXCEPT ![i].date = d]
  <2>3. DOMAIN new \subseteq RowIds /\ \A j \in DOMAIN new : new[j] \in Rows
    BY <1>1, NewDay
  <2> HIDE DEF new
  <2> QED
    BY <2>1, <2>3, ChangeKeeps DEF new
<1>5. CASE P!CreditNote
  <2>1. PICK i \in DOMAIN rows : P!Change([rows EXCEPT ![i].credit = TRUE])
    BY <1>5 DEF P!CreditNote
  <2> DEFINE new == [rows EXCEPT ![i].credit = TRUE]
  <2>3. DOMAIN new \subseteq RowIds /\ \A j \in DOMAIN new : new[j] \in Rows
    BY <1>1
  <2> HIDE DEF new
  <2> QED
    BY <2>1, <2>3, ChangeKeeps DEF new
<1> QED
  BY <1>2, <1>3, <1>4, <1>5

\* A page shows the entries it takes from behind the cursor, and the cursor passes them.
LEMMA NextPageKeeps == ASSUME PagesAreBounded, ListInv, P!NextPage PROVE ListInv'
<1> DEFINE Entry == [id : RowIds, date : RowDays, credit : {0, 1}]
           Ahead == Behind(cursor.k)
           Whole == stock = ""
<1>1. \E size \in Sizes : \E r :
        /\ r.limit = size[1] /\ r.page_size = size[2] /\ r.cursor = cursor
        /\ shown' = shown \o P!Page(r).items
        /\ cursor' = P!Page(r).next
        /\ walk' = IF P!Page(r).more THEN "on" ELSE "over"
  <2>1. PICK size \in Sizes, sort \in {"", P!Sort(list)} :
          LET r == [limit |-> size[1], page_size |-> size[2], cursor |-> cursor, sort |-> sort]
          IN  /\ shown' = shown \o P!Page(r).items
              /\ cursor' = P!Page(r).next
              /\ walk' = IF P!Page(r).more THEN "on" ELSE "over"
    BY DEF P!NextPage
  <2> DEFINE r == [limit |-> size[1], page_size |-> size[2], cursor |-> cursor, sort |-> sort]
  <2>2. r.limit = size[1] /\ r.page_size = size[2] /\ r.cursor = cursor
    OBVIOUS
  <2> HIDE DEF r
  <2> QED
    BY <2>1, <2>2 DEF r
<1>0. PICK size \in Sizes : \E r :
        /\ r.limit = size[1] /\ r.page_size = size[2] /\ r.cursor = cursor
        /\ shown' = shown \o P!Page(r).items
        /\ cursor' = P!Page(r).next
        /\ walk' = IF P!Page(r).more THEN "on" ELSE "over"
  BY <1>1
<1>5. PICK r :
        /\ r.limit = size[1] /\ r.page_size = size[2] /\ r.cursor = cursor
        /\ shown' = shown \o P!Page(r).items
        /\ cursor' = P!Page(r).next
        /\ walk' = IF P!Page(r).more THEN "on" ELSE "over"
  BY <1>0
<1> DEFINE page == P!Page(r)
           items == page.items
<1>2. /\ walk = "on" /\ list' = list /\ stock' = stock /\ rows' = rows /\ quiet' = quiet
  BY DEF P!NextPage
<1>3. shown' = shown \o items /\ cursor' = page.next /\ walk' = IF page.more THEN "on" ELSE "over"
  BY <1>5
<1>4. ListTypes /\ CursorInv /\ ShownInv
  BY <1>2 DEF ListInv
<1>6. /\ items \in Seq(Ahead) /\ \A i, j \in DOMAIN items : items[i] = items[j] => i = j
      /\ page.more =>
           \E last \in DOMAIN items :
             /\ page.next = [k |-> P!Key(list, items[last]), s |-> P!Sort(list)]
             /\ \A e \in Ahead : (\E i \in DOMAIN items : items[i] = e)
                               <=> ~ P!Comes(list, P!Key(list, items[last]), P!Key(list, e))
      /\ ~ page.more /\ Whole => \A e \in Ahead : \E i \in DOMAIN items : items[i] = e
  <2>1. PageFits(page, Ahead)
    BY <1>4, <1>5, PageIs
  <2> HIDE DEF page, Ahead
  <2> QED
    BY <2>1 DEF PageFits
<1> HIDE DEF page, items, Ahead, Whole
<1>7. \A e \in P!Entries(list, rows) : e \in Entry
  BY <1>4, KeyOf DEF Entry
<1> HIDE DEF Entry
<1>8. Ahead \subseteq P!Entries(list, rows) /\ Ahead \subseteq Entry
  BY <1>7 DEF Behind, Ahead
<1>9. shown \in Seq(Entry) /\ items \in Seq(Entry)
  <2>1. shown \in Seq(Entry)
    BY <1>4 DEF ListTypes, Entry
  <2>2. items \in Seq(Entry)
    BY <1>6, <1>8
  <2> QED
    BY <2>1, <2>2
<1>10. ListTypes'
  <2>1. shown' \in Seq(Entry)
    BY <1>3, <1>9
  <2> QED
    BY <1>2, <1>4, <2>1 DEF ListTypes, Entry
<1>11. ASSUME NEW e \in quiet
       PROVE  P!Times(e)' = IF e \notin Ahead \/ \E j \in DOMAIN items : items[j] = e THEN 1 ELSE 0
  <2>1. e \in P!Entries(list, rows)
    BY <1>4 DEF ListTypes
  <2>2. Passed(e) <=> e \notin Ahead
    BY <2>1 DEF Passed, Behind, Ahead
  <2>3. P!Times(e) = IF Passed(e) THEN 1 ELSE 0
    BY <1>4 DEF ShownInv
  <2>4. P!Times(e) = HowOften(shown, e)
    BY ListSizes DEF P!Times, HowOften
  <2>5. P!Times(e)' = HowOften(shown', e)
    BY ListSizes DEF P!Times, HowOften
  <2>6. P!Times(e)' = P!Times(e) + IF \E j \in DOMAIN items : items[j] = e THEN 1 ELSE 0
    <3>1. shown' = shown \o items
      BY <1>3
    <3>2. \A i, j \in DOMAIN items : items[i] = items[j] => i = j
      BY <1>6
    <3>3. HowOften(shown \o items, e)
            = HowOften(shown, e) + IF \E j \in DOMAIN items : items[j] = e THEN 1 ELSE 0
      BY <1>9, <3>2, TimesAdd
    <3> QED
      BY <2>4, <2>5, <3>1, <3>3, Zenon
  <2>7. (\E j \in DOMAIN items : items[j] = e) => e \in Ahead
    BY <1>6
  <2>8. CASE e \notin Ahead
    <3>1. P!Times(e) = 1
      BY <2>2, <2>3, <2>8
    <3>2. P!Times(e)' = 1 + 0
      BY <2>6, <2>7, <2>8, <3>1
    <3> QED
      BY <2>8, <3>2
  <2>9. CASE e \in Ahead
    <3>1. P!Times(e) = 0
      BY <2>2, <2>3, <2>9
    <3>2. P!Times(e)' = 0 + IF \E j \in DOMAIN items : items[j] = e THEN 1 ELSE 0
      BY <2>6, <3>1
    <3> QED
      BY <2>9, <3>2
  <2> QED
    BY <2>8, <2>9
<1>12. CASE ~ page.more
  <2>1. walk' = "over"
    BY <1>3, <1>12
  <2>2. ASSUME NEW e \in quiet PROVE P!Times(e)' <= 1 /\ (Whole => P!Times(e)' = 1)
    BY <1>6, <1>11, <1>12
  <2>3. P!EachRowOnce'
    BY <1>2, <2>1, <2>2 DEF P!EachRowOnce, Whole
  <2> QED
    BY <1>10, <2>1, <2>3 DEF ListInv
<1>13. CASE page.more
  <2>1. walk' = "on"
    BY <1>3, <1>13
  <2>2. PICK last \in DOMAIN items :
          /\ page.next = [k |-> P!Key(list, items[last]), s |-> P!Sort(list)]
          /\ \A e \in Ahead : (\E i \in DOMAIN items : items[i] = e)
                            <=> ~ P!Comes(list, P!Key(list, items[last]), P!Key(list, e))
    BY <1>6, <1>13
  <2> DEFINE k == P!Key(list, items[last])
  <2>3. items[last] \in Ahead /\ items[last] \in P!Entries(list, rows)
    BY <1>6, <1>8
  <2>4. Columns \in Nat /\ Columns > 0
    BY DEF Columns
  <2>5. /\ k \in [1..Columns -> Int]
        /\ IF P!Sort(list) \notin P!Dated THEN k[1] > 0 ELSE k[2] > 0
    BY <1>4, <2>3, KeyOf
  <2> HIDE DEF k
  <2>6. k \in Seq(Int) /\ Len(k) = Columns /\ k # <<>>
    <3>1. k \in Seq(Int) /\ Len(k) = Columns
      BY <2>4, <2>5
    <3>2. Len(<<>>) = 0
      OBVIOUS
    <3> QED
      BY <2>4, <3>1, <3>2
  <2>7. cursor'.k = k /\ cursor'.s = P!Sort(list)
    <3>1. cursor' = [k |-> k, s |-> P!Sort(list)]
      BY <1>3, <2>2 DEF k
    <3> QED
      BY <3>1
  <2>8. CursorInv'
    BY <1>2, <2>5, <2>6, <2>7 DEF CursorInv, Columns
  <2>9. ASSUME NEW e \in quiet PROVE P!Times(e)' = IF Passed(e)' THEN 1 ELSE 0
    <3>1. e \in P!Entries(list, rows) /\ P!Key(list, e) \in [1..Columns -> Int]
      BY <1>4, KeyOf DEF ListTypes
    <3>2. Passed(e)' <=> ~ P!Comes(list, k, P!Key(list, e))
      BY <1>2, <2>6, <2>7 DEF Passed, P!Seek
    <3>3. CASE e \in Ahead
      <4>1. (\E i \in DOMAIN items : items[i] = e) <=> ~ P!Comes(list, k, P!Key(list, e))
        BY <2>2, <3>3 DEF k
      <4> QED
        BY <1>11, <3>2, <3>3, <4>1
    <3>4. CASE e \notin Ahead
      <4>1. cursor.k # <<>> /\ ~ P!Comes(list, cursor.k, P!Key(list, e))
        BY <3>1, <3>4 DEF Ahead, Behind, P!Seek
      <4>2. cursor.k \in [1..Columns -> Int]
        <5>1. cursor.k \in Seq(Int) /\ Len(cursor.k) = Columns
          BY <1>4, <4>1 DEF CursorInv
        <5> QED
          BY <2>4, <5>1
      <4>3. P!Comes(list, cursor.k, k)
        BY <2>3, <4>1 DEF Ahead, Behind, P!Seek, k
      <4>4. ~ P!Comes(list, k, P!Key(list, e))
        <5>1. Columns \in Nat
          BY <2>4
        <5> QED
          BY <2>5, <3>1, <4>1, <4>2, <4>3, <5>1, KeysInOrder
      <4> QED
        BY <1>11, <3>2, <3>4, <4>4
    <3> QED
      BY <3>3, <3>4
  <2>10. ShownInv'
    BY <1>2, <2>9 DEF ShownInv
  <2>11. P!EachRowOnce'
    <3>1. ASSUME NEW e \in quiet PROVE P!Times(e)' <= 1
      <4>1. P!Times(e)' \in {0, 1}
        BY <2>9
      <4> QED
        BY <4>1
    <3> QED
      BY <1>2, <2>1, <3>1 DEF P!EachRowOnce
  <2> QED
    BY <1>10, <2>1, <2>8, <2>10, <2>11 DEF ListInv
<1> QED
  BY <1>12, <1>13

\* The inductive invariant of a walk.
THEOREM ListInductive == ASSUME PagesAreBounded PROVE P!Spec => []ListInv
<1>1. P!Init => ListInv
  BY ListStarts
<1>2. ListInv /\ [P!Next]_P!vars => ListInv'
  <2> SUFFICES ASSUME ListInv, [P!Next]_P!vars PROVE ListInv'
    OBVIOUS
  <2>1. CASE P!NextPage
    BY <2>1, NextPageKeeps
  <2>2. CASE P!Insert \/ P!Delete \/ P!Redate \/ P!CreditNote
    BY <2>2, TableChangeKeeps
  <2>3. CASE UNCHANGED P!vars
    BY <2>3 DEF P!vars, ListInv, ListTypes, CursorInv, Columns, ShownInv, Passed, P!EachRowOnce, P!Times
  <2> QED
    BY <2>1, <2>2, <2>3 DEF P!Next
<1> QED
  BY <1>1, <1>2, PTL DEF P!Spec

\* An entry that nothing changed is shown at most once, and once when the walk is over
\* (pkg/pagination, list_helpers.go), for any rows, dates, page sizes and number of changes.
THEOREM WalkOnce == ASSUME PagesAreBounded PROVE P!Spec => []P!EachRowOnce
<1>1. ListInv => P!EachRowOnce
  BY DEF ListInv
<1> QED
  BY <1>1, ListInductive, PTL
-----------------------------------------------------------------------------
(* The general ledger and the reports: what is answered adds up. *)

\* Sums are the same in the instance.
LEMMA StatementSums == ASSUME NEW f, NEW T PROVE G!SumFunctionOnSet(f, T) = SumFunctionOnSet(f, T)
BY DEF G!SumFunctionOnSet, SumFunctionOnSet, G!FoldFunctionOnSet, FoldFunctionOnSet,
       G!MapThenFoldSet, MapThenFoldSet

\* The size of a set, too.
LEMMA StatementSizes == ASSUME NEW T PROVE G!Cardinality(T) = Cardinality(T)
  BY DEF G!Cardinality, Cardinality

\* Rows that a statement read: finitely many, each with an id of its own.
RowsRead(read) ==
  /\ IsFiniteSet(read) /\ \A r \in read : r.id \in Int
  /\ \A q, r \in read : q.id = r.id => q = r

\* An entry has its columns, and numbers in them.
IsEntry(e) ==
  /\ {"type", "debit", "credit", "balance"} \subseteq DOMAIN e
  /\ e.debit \in Int /\ e.credit \in Int

\* The entries of a reading.
OfBills(reading) == {G!Entry("bill", b) : b \in reading.bills}
OfPayments(reading) == {G!Entry("payment", v) : v \in {p \in reading.payments : p.supplier # NoSupplier}}

\* An entry has its type, the id of its row and numbers.
LEMMA EntryIs ==
  ASSUME NEW r, r.id \in Int
  PROVE  /\ G!Entry("bill", r).type = "bill" /\ G!Entry("bill", r).id = r.id
         /\ G!Entry("payment", r).type = "payment"
         /\ IsEntry(G!Entry("bill", r)) /\ IsEntry(G!Entry("payment", r))
  BY 0 \in Int DEF G!Entry, IsEntry

\* A reading has finitely many entries: one of each bill, at most one of each payment.
LEMMA FewLines ==
  ASSUME NEW reading, RowsRead(reading.bills), RowsRead(reading.payments)
  PROVE  /\ IsFiniteSet(G!EntriesOf(reading))
         /\ G!EntriesOf(reading) = OfBills(reading) \cup OfPayments(reading)
         /\ \A e \in OfBills(reading) : e.type = "bill" /\ IsEntry(e)
         /\ \A e \in OfPayments(reading) : e.type = "payment" /\ IsEntry(e)
         /\ Cardinality(OfBills(reading)) = Cardinality(reading.bills)
         /\ Cardinality(OfPayments(reading)) <= Cardinality(reading.payments)
<1> DEFINE bills == reading.bills
           paid == {p \in reading.payments : p.supplier # NoSupplier}
           billed == [b \in bills |-> G!Entry("bill", b)]
           credited == [v \in paid |-> G!Entry("payment", v)]
<1>1. /\ IsFiniteSet(bills) /\ \A r \in bills : r.id \in Int
      /\ \A q, r \in bills : q.id = r.id => q = r
  BY DEF RowsRead
<1>2. /\ IsFiniteSet(paid) /\ Cardinality(paid) <= Cardinality(reading.payments)
      /\ \A r \in paid : r.id \in Int
      /\ Cardinality(paid) \in Nat /\ Cardinality(reading.payments) \in Nat
  BY FS_Subset, FS_CardinalityType DEF RowsRead
<1>3. G!EntriesOf(reading) = OfBills(reading) \cup OfPayments(reading)
  BY DEF G!EntriesOf, OfBills, OfPayments
<1>4. OfBills(reading) = {G!Entry("bill", b) : b \in bills} /\ OfPayments(reading) = {G!Entry("payment", v) : v \in paid}
  BY DEF OfBills, OfPayments
<1> HIDE DEF bills, paid
<1>5. \A e \in OfBills(reading) : e.type = "bill" /\ IsEntry(e)
  <2>1. ASSUME NEW b \in bills
        PROVE  G!Entry("bill", b).type = "bill" /\ IsEntry(G!Entry("bill", b))
    <3>1. b.id \in Int
      BY <1>1
    <3> QED
      BY <3>1, EntryIs
  <2> QED
    BY <1>4, <2>1
<1>6. \A e \in OfPayments(reading) : e.type = "payment" /\ IsEntry(e)
  <2>1. ASSUME NEW v \in paid
        PROVE  G!Entry("payment", v).type = "payment" /\ IsEntry(G!Entry("payment", v))
    <3>1. v.id \in Int
      BY <1>2
    <3> QED
      BY <3>1, EntryIs
  <2> QED
    BY <1>4, <2>1
<1>7. IsFiniteSet(OfBills(reading)) /\ Cardinality(OfBills(reading)) = Cardinality(bills)
  <2>1. billed \in [bills -> OfBills(reading)] /\ \A e \in OfBills(reading) : \E b \in bills : billed[b] = e
    BY <1>4
  <2>2. ASSUME NEW b \in bills, NEW c \in bills, billed[b] = billed[c] PROVE b = c
    <3>1. G!Entry("bill", b).id = b.id /\ G!Entry("bill", c).id = c.id
      BY <1>1, EntryIs
    <3> QED
      BY <1>1, <2>2, <3>1
  <2> HIDE DEF billed
  <2> QED
    BY <1>1, <2>1, <2>2, SameSize
<1>8. IsFiniteSet(OfPayments(reading)) /\ Cardinality(OfPayments(reading)) <= Cardinality(paid)
  <2>1. credited \in [paid -> OfPayments(reading)] /\ \A e \in OfPayments(reading) : \E v \in paid : credited[v] = e
    BY <1>4
  <2> HIDE DEF credited
  <2> QED
    BY <1>2, <2>1, ImageSize
<1>9. IsFiniteSet(G!EntriesOf(reading))
  BY <1>3, <1>7, <1>8, FS_Union
<1>10. Cardinality(OfPayments(reading)) <= Cardinality(reading.payments)
  BY <1>2, <1>8, FS_CardinalityType
<1> QED
  BY <1>3, <1>5, <1>6, <1>7, <1>9, <1>10 DEF bills

\* Entries that can be summed, and what each adds to a balance.
CanBeSummed(entries) == IsFiniteSet(entries) /\ \A e \in entries : IsEntry(e)
NetOf(entries) == [e \in entries |-> e.debit - e.credit]

\* The debits less the credits are the sum of what the entries add.
LEMMA DebitLessCredit ==
  ASSUME NEW entries, CanBeSummed(entries)
  PROVE  /\ IntegersOn(NetOf(entries), entries)
         /\ SumFunctionOnSet(NetOf(entries), entries) \in Int
         /\ G!Debit(entries) - G!Credit(entries) = SumFunctionOnSet(NetOf(entries), entries)
<1> DEFINE d == [e \in entries |-> e.debit]
           c == [e \in entries |-> e.credit]
           n == NetOf(entries)
<1>1. IntegersOn(d, entries) /\ IntegersOn(c, entries) /\ IntegersOn(n, entries)
  BY DEF CanBeSummed, IsEntry, IntegersOn, NetOf
<1>2. \A e \in entries : d[e] = n[e] + c[e]
  BY DEF CanBeSummed, IsEntry, NetOf
<1>3. G!Debit(entries) = SumFunctionOnSet(d, entries) /\ G!Credit(entries) = SumFunctionOnSet(c, entries)
  BY StatementSums DEF G!Debit, G!Credit
<1> HIDE DEF d, c, n
<1>4. SumFunctionOnSet(d, entries) = SumFunctionOnSet(n, entries) + SumFunctionOnSet(c, entries)
  BY <1>1, <1>2, SumPlus
<1>5. SumFunctionOnSet(n, entries) \in Int /\ SumFunctionOnSet(c, entries) \in Int
  BY <1>1, SumInt
<1> QED
  BY <1>1, <1>3, <1>4, <1>5 DEF n

\* A feed holds each entry at one place.
LEMMA FeedIs ==
  ASSUME NEW entries, IsFiniteSet(entries), NEW feed \in G!Feeds(entries)
  PROVE  LET n == Cardinality(entries) IN
         /\ n \in Nat /\ feed \in [1..n -> entries]
         /\ \A i, j \in 1..n : feed[i] = feed[j] => i = j
         /\ \A e \in entries : \E i \in 1..n : feed[i] = e
<1> DEFINE n == Cardinality(entries)
<1>1. n \in Nat
  BY FS_CardinalityType
<1>2. feed \in [1..n -> entries] /\ \A i, j \in 1..n : feed[i] = feed[j] => i = j
  BY StatementSizes DEF G!Feeds
<1>3. feed \in Injection(1..n, entries)
  BY <1>2 DEF Injection, IsInjective
<1>4. IsFiniteSet(1..n) /\ Cardinality(1..n) = n
  BY <1>1, 1 \in Int, FS_Interval
<1>5. feed \in Surjection(1..n, entries)
  BY <1>3, <1>4, FS_Injection
<1> QED
  BY <1>1, <1>2, <1>5 DEF Surjection

\* The running balance: its steps, and its last value.
LEMMA BalanceRuns ==
  ASSUME NEW entries, CanBeSummed(entries), NEW feed \in G!Feeds(entries)
  PROVE  LET n == Cardinality(entries)
             l == G!withRunningBalance(feed)
         IN  /\ n \in Nat /\ DOMAIN l = 1..n /\ l = [i \in 1..n |-> l[i]]
             /\ \A i \in 1..n : l[i].debit = feed[i].debit /\ l[i].credit = feed[i].credit
             /\ \A i \in 1..n : l[i].type = feed[i].type
             /\ \A i \in 1..n : l[i].balance = (IF i = 1 THEN 0 ELSE l[i - 1].balance) + l[i].debit - l[i].credit
             /\ n > 0 => l[n].balance = SumFunctionOnSet(NetOf(entries), entries)
<1> DEFINE n == Cardinality(entries)
           l == G!withRunningBalance(feed)
           net == G!Net(feed)
<1>1. /\ n \in Nat /\ feed \in [1..n -> entries] /\ DOMAIN feed = 1..n
      /\ \A i, j \in 1..n : feed[i] = feed[j] => i = j
      /\ \A e \in entries : \E i \in 1..n : feed[i] = e
  BY FeedIs DEF CanBeSummed
<1> HIDE DEF n
<1>2. ASSUME NEW i \in 1..n
      PROVE  feed[i] \in entries /\ net[i] = feed[i].debit - feed[i].credit /\ net[i] \in Int
  <2>1. feed[i] \in entries /\ feed[i].debit \in Int /\ feed[i].credit \in Int
    BY <1>1 DEF CanBeSummed, IsEntry
  <2> QED
    BY <1>1, <2>1 DEF G!Net
<1>3. \A m \in 0..n : IntegersOn(net, 1..m)
  <2>1. ASSUME NEW m \in 0..n PROVE IsFiniteSet(1..m) /\ \A i \in 1..m : i \in 1..n
    BY 1 \in Int, <1>1, FS_Interval
  <2> HIDE DEF net
  <2> QED
    BY <1>2, <2>1 DEF IntegersOn
<1>4. /\ l = [i \in 1..n |-> l[i]] /\ DOMAIN l = 1..n
      /\ \A i \in 1..n : l[i] = [feed[i] EXCEPT !.balance = SumFunctionOnSet(net, 1..i)]
  <2>1. l = [i \in 1..n |-> [feed[i] EXCEPT !.balance = SumFunctionOnSet(net, 1..i)]]
    BY <1>1, StatementSums DEF G!withRunningBalance
  <2> HIDE DEF l, net
  <2> QED
    BY <2>1
<1>5. ASSUME NEW i \in 1..n
      PROVE  /\ l[i].debit = feed[i].debit /\ l[i].credit = feed[i].credit /\ l[i].type = feed[i].type
             /\ l[i].balance = SumFunctionOnSet(net, 1..i)
  <2>1. {"type", "debit", "credit", "balance"} \subseteq DOMAIN feed[i]
    BY <1>2 DEF CanBeSummed, IsEntry
  <2>2. l[i] = [feed[i] EXCEPT !.balance = SumFunctionOnSet(net, 1..i)]
    BY <1>4
  <2> HIDE DEF l, net
  <2> QED
    BY <2>1, <2>2
<1> HIDE DEF l, net
<1>6. ASSUME NEW i \in 1..n
      PROVE  l[i].balance = (IF i = 1 THEN 0 ELSE l[i - 1].balance) + l[i].debit - l[i].credit
  <2>1. i \in Nat /\ i \in 0..n /\ i - 1 \in 0..n
    BY <1>1
  <2>2. SumFunctionOnSet(net, 1..i) = net[i] + SumFunctionOnSet(net, 1..(i - 1))
    <3>1. (1..(i - 1)) \cup {i} = 1..i /\ i \notin 1..(i - 1)
      BY <2>1
    <3>2. IntegersOn(net, (1..(i - 1)) \cup {i})
      BY <1>3, <2>1, <3>1
    <3>3. SumFunctionOnSet(net, (1..(i - 1)) \cup {i}) = net[i] + SumFunctionOnSet(net, 1..(i - 1))
      BY <3>1, <3>2, SumAdd
    <3> QED
      BY <3>1, <3>3, Zenon
  <2>3. net[i] = l[i].debit - l[i].credit /\ l[i].debit \in Int /\ l[i].credit \in Int
    BY <1>2, <1>5 DEF CanBeSummed, IsEntry
  <2>4. SumFunctionOnSet(net, 1..(i - 1)) \in Int
    BY <1>3, <2>1, SumInt
  <2>5. SumFunctionOnSet(net, 1..(i - 1)) = IF i = 1 THEN 0 ELSE l[i - 1].balance
    <3>1. CASE i = 1
      <4>1. 1..(i - 1) = {}
        BY <3>1
      <4>2. SumFunctionOnSet(net, 1..(i - 1)) = 0
        BY <4>1, SumEmpty, Zenon
      <4> QED
        BY <3>1, <4>2
    <3>2. CASE i # 1
      <4>1. i - 1 \in 1..n
        BY <1>1, <3>2
      <4> QED
        BY <1>5, <3>2, <4>1
    <3> QED
      BY <3>1, <3>2
  <2>6. l[i].balance = SumFunctionOnSet(net, 1..i)
    BY <1>5
  <2> QED
    BY <2>2, <2>3, <2>4, <2>5, <2>6
<1>7. ASSUME n > 0 PROVE l[n].balance = SumFunctionOnSet(NetOf(entries), entries)
  <2>1. n \in 1..n
    BY <1>1, <1>7
  <2>2. \A i \in 1..n : net[i] \in Int /\ NetOf(entries)[feed[i]] = net[i]
    BY <1>2 DEF NetOf
  <2>3. IsFiniteSet(1..n)
    BY <1>1, 1 \in Int, FS_Interval
  <2>4. SumFunctionOnSet(NetOf(entries), entries) = SumFunctionOnSet(net, 1..n)
    BY <1>1, <2>2, <2>3, SumRenamed
  <2> QED
    BY <1>5, <2>1, <2>4
<1> QED
  BY <1>1, <1>4, <1>5, <1>6, <1>7 DEF n, l

\* The balances of the suppliers sum to that of all entries.
LEMMA BreakdownsSum ==
  ASSUME NEW entries, CanBeSummed(entries)
  PROVE  LET A == G!Breakdowns(entries)
         IN  SumFunctionOnSet([s \in A |-> s.balance], A) = SumFunctionOnSet(NetOf(entries), entries)
<1> DEFINE A == G!Breakdowns(entries)
           K == {e.supplier : e \in entries}
           kind == [e \in entries |-> e.supplier]
           Own(k) == {e \in entries : e.supplier = k}
           part == [k \in K |-> G!Debit(Own(k)) - G!Credit(Own(k))]
           record == [k \in K |-> [supplier |-> k, balance |-> part[k]]]
           balance == [s \in A |-> s.balance]
<1>1. IsFiniteSet(entries) /\ \A e \in entries : IsEntry(e)
  BY DEF CanBeSummed
<1>2. IsFiniteSet(K) /\ \A e \in entries : kind[e] \in K
  <2>1. kind \in [entries -> K] /\ \A k \in K : \E e \in entries : kind[e] = k
    OBVIOUS
  <2> HIDE DEF kind, K
  <2> QED
    BY <1>1, <2>1, ImageSize
<1>3. IntegersOn(NetOf(entries), entries)
  BY DebitLessCredit
<1>4. ASSUME NEW k \in K
      PROVE  part[k] = SumFunctionOnSet(NetOf(entries), {e \in entries : kind[e] = k}) /\ part[k] \in Int
  <2>1. Own(k) = {e \in entries : kind[e] = k} /\ Own(k) \in SUBSET entries
    OBVIOUS
  <2>2. part[k] = G!Debit(Own(k)) - G!Credit(Own(k))
    OBVIOUS
  <2> HIDE DEF Own, part, kind, K
  <2>3. CanBeSummed(Own(k))
    BY <1>1, <2>1, FS_Subset DEF CanBeSummed
  <2>4. part[k] = SumFunctionOnSet(NetOf(Own(k)), Own(k)) /\ part[k] \in Int
    BY <2>2, <2>3, DebitLessCredit
  <2>5. SumFunctionOnSet(NetOf(Own(k)), Own(k)) = SumFunctionOnSet(NetOf(entries), Own(k))
    <3>1. IntegersOn(NetOf(entries), Own(k))
      BY <1>3, <2>1, FewerNumbers
    <3>2. \A e \in Own(k) : NetOf(Own(k))[e] = NetOf(entries)[e]
      BY <2>1 DEF NetOf
    <3> QED
      BY <3>1, <3>2, SumSame
  <2> QED
    BY <2>1, <2>4, <2>5
<1>5. SumFunctionOnSet(part, K) = SumFunctionOnSet(NetOf(entries), entries)
  <2> HIDE DEF part, kind, K
  <2> QED
    BY <1>2, <1>3, <1>4, SumByKind
<1>6. A = {[supplier |-> k, balance |-> G!Debit(Own(k)) - G!Credit(Own(k))] : k \in K}
  BY DEF G!Breakdowns
<1>7. record \in [K -> A] /\ \A s \in A : \E k \in K : record[k] = s
  <2> HIDE DEF A, K, Own
  <2> QED
    BY <1>6
<1>8. \A j, k \in K : record[j] = record[k] => j = k
  <2>1. \A k \in K : record[k].supplier = k
    <3> HIDE DEF K, part
    <3> QED
      OBVIOUS
  <2> HIDE DEF record, K
  <2> QED
    BY <2>1
<1>9. \A k \in K : part[k] \in Int /\ balance[record[k]] = part[k]
  <2>1. \A k \in K : record[k].balance = part[k]
    <3> HIDE DEF K, part
    <3> QED
      OBVIOUS
  <2>2. \A k \in K : part[k] \in Int
    BY <1>4
  <2> HIDE DEF record, K, part, A
  <2> QED
    BY <1>7, <2>1, <2>2
<1> HIDE DEF record, K, part, A, balance
<1>10. SumFunctionOnSet(balance, A) = SumFunctionOnSet(part, K)
  BY <1>2, <1>7, <1>8, <1>9, SumRenamed
<1> QED
  BY <1>5, <1>10 DEF A, balance

\* Each bill read has a line, and each payment at most one.
LEMMA LinesCount ==
  ASSUME NEW reading, RowsRead(reading.bills), RowsRead(reading.payments),
         NEW feed \in G!Feeds(G!EntriesOf(reading))
  PROVE  LET l == G!withRunningBalance(feed)
             Lines(type) == {i \in DOMAIN l : l[i].type = type}
         IN  /\ Cardinality(Lines("bill")) = Cardinality(reading.bills)
             /\ Cardinality(Lines("payment")) <= Cardinality(reading.payments)
<1> DEFINE entries == G!EntriesOf(reading)
           l == G!withRunningBalance(feed)
           n == Cardinality(entries)
           Lines(type) == {i \in DOMAIN l : l[i].type = type}
<1>1. /\ IsFiniteSet(entries) /\ entries = OfBills(reading) \cup OfPayments(reading)
      /\ \A e \in OfBills(reading) : e.type = "bill" /\ IsEntry(e)
      /\ \A e \in OfPayments(reading) : e.type = "payment" /\ IsEntry(e)
      /\ Cardinality(OfBills(reading)) = Cardinality(reading.bills)
      /\ Cardinality(OfPayments(reading)) <= Cardinality(reading.payments)
  BY FewLines
<1> HIDE DEF entries
<1>2. CanBeSummed(entries)
  BY <1>1 DEF CanBeSummed
<1>3. /\ n \in Nat /\ feed \in [1..n -> entries]
      /\ \A i, j \in 1..n : feed[i] = feed[j] => i = j
      /\ \A e \in entries : \E i \in 1..n : feed[i] = e
  <2>1. feed \in G!Feeds(entries)
    BY DEF entries
  <2>2. IsFiniteSet(entries)
    BY <1>1
  <2> HIDE DEF l, Lines
  <2> QED
    BY <2>1, <2>2, FeedIs
<1>4. DOMAIN l = 1..n /\ \A i \in 1..n : l[i].type = feed[i].type
  BY <1>2, BalanceRuns DEF entries
<1> HIDE DEF l, n
<1>5. ASSUME NEW type, NEW E, E = {e \in entries : e.type = type}
      PROVE  Cardinality(Lines(type)) = Cardinality(E)
  <2> DEFINE place == [i \in Lines(type) |-> feed[i]]
  <2>1. place \in [Lines(type) -> E]
    BY <1>3, <1>4, <1>5
  <2>2. \A i, j \in Lines(type) : place[i] = place[j] => i = j
    BY <1>3, <1>4
  <2>3. \A e \in E : \E i \in Lines(type) : place[i] = e
    BY <1>3, <1>4, <1>5
  <2>4. IsFiniteSet(Lines(type))
    <3>1. Lines(type) \in SUBSET (1..n) /\ IsFiniteSet(1..n)
      BY <1>3, <1>4, 1 \in Int, FS_Interval
    <3> HIDE DEF Lines
    <3> QED
      BY <3>1, FS_Subset
  <2> HIDE DEF place, Lines
  <2> QED
    BY <2>1, <2>2, <2>3, <2>4, SameSize
<1>6. OfBills(reading) = {e \in entries : e.type = "bill"}
  BY <1>1
<1>7. OfPayments(reading) = {e \in entries : e.type = "payment"}
  BY <1>1
<1>8. Cardinality(Lines("bill")) = Cardinality(OfBills(reading))
  <2> HIDE DEF Lines
  <2> QED
    BY <1>5, <1>6
<1>9. Cardinality(Lines("payment")) = Cardinality(OfPayments(reading))
  <2> HIDE DEF Lines
  <2> QED
    BY <1>5, <1>7
<1> QED
  BY <1>1, <1>8, <1>9 DEF l

\* The answer of the ledger adds up.
LEMMA LedgerAnswer ==
  ASSUME NEW reading, RowsRead(reading.bills), RowsRead(reading.payments),
         NEW feed \in G!Feeds(G!EntriesOf(reading)), NEW own, own = G!Breakdowns(G!EntriesOf(reading)) \/ own = {}
  PROVE  LET l == G!withRunningBalance(feed)
             closing == G!Debit(G!EntriesOf(reading)) - G!Credit(G!EntriesOf(reading))
             Lines(type) == {i \in DOMAIN l : l[i].type = type}
         IN  /\ \A i \in DOMAIN l : l[i].balance = (IF i = 1 THEN 0 ELSE l[i - 1].balance) + l[i].debit - l[i].credit
             /\ l = <<>> \/ l[Len(l)].balance = closing
             /\ own # {} => G!SumFunctionOnSet([s \in own |-> s.balance], own) = closing
             /\ G!Cardinality(Lines("bill")) = G!Cardinality(reading.bills)
             /\ G!Cardinality(Lines("payment")) <= G!Cardinality(reading.payments)
<1> DEFINE entries == G!EntriesOf(reading)
           l == G!withRunningBalance(feed)
           n == Cardinality(entries)
           closing == G!Debit(entries) - G!Credit(entries)
           Lines(type) == {i \in DOMAIN l : l[i].type = type}
<1>1. CanBeSummed(entries)
  BY FewLines DEF CanBeSummed
<1>2. closing = SumFunctionOnSet(NetOf(entries), entries)
  BY <1>1, DebitLessCredit
<1>3. /\ Cardinality(Lines("bill")) = Cardinality(reading.bills)
      /\ Cardinality(Lines("payment")) <= Cardinality(reading.payments)
  BY LinesCount
<1>4. own # {} => G!SumFunctionOnSet([s \in own |-> s.balance], own) = closing
  <2> SUFFICES ASSUME own # {} PROVE G!SumFunctionOnSet([s \in own |-> s.balance], own) = closing
    OBVIOUS
  <2>1. own = G!Breakdowns(entries)
    OBVIOUS
  <2> HIDE DEF entries, closing
  <2>2. SumFunctionOnSet([s \in own |-> s.balance], own) = SumFunctionOnSet(NetOf(entries), entries)
    BY <1>1, <2>1, BreakdownsSum
  <2> QED
    BY <1>2, <2>2, StatementSums
<1> HIDE DEF entries, closing
<1>5. /\ n \in Nat /\ DOMAIN l = 1..n /\ l = [i \in 1..n |-> l[i]]
      /\ \A i \in 1..n : l[i].balance = (IF i = 1 THEN 0 ELSE l[i - 1].balance) + l[i].debit - l[i].credit
      /\ n > 0 => l[n].balance = SumFunctionOnSet(NetOf(entries), entries)
  <2>1. feed \in G!Feeds(entries)
    BY DEF entries
  <2> QED
    BY <1>1, <2>1, BalanceRuns
<1> HIDE DEF l, n
<1>6. l = <<>> \/ l[Len(l)].balance = closing
  <2>1. CASE n = 0
    <3>1. DOMAIN l = {}
      BY <1>5, <2>1
    <3>2. l = <<>>
      BY <1>5, <3>1
    <3> QED
      BY <3>2
  <2>2. CASE n > 0
    <3>1. Len(l) = n
      BY <1>5
    <3> QED
      BY <1>2, <1>5, <2>2, <3>1
  <2> QED
    BY <1>5, <2>1, <2>2
<1>7. G!Cardinality(Lines("bill")) = G!Cardinality(reading.bills)
      /\ G!Cardinality(Lines("payment")) <= G!Cardinality(reading.payments)
  <2> HIDE DEF Lines
  <2> QED
    BY <1>3, StatementSizes
<1> QED
  BY <1>4, <1>5, <1>6, <1>7 DEF l, closing, entries

\* The read have ids that are numbers.
SlipsAreNumbers == Slips \subseteq Int
-----------------------------------------------------------------------------
\* The reports of some of the first n that are asked for, in their order.
Follows(reports, ids, n) ==
  \E place \in [DOMAIN reports -> 1..n] :
    /\ \A i \in DOMAIN reports : reports[i].supplier = ids[place[i]]
    /\ \A i, j \in DOMAIN reports : i < j => place[i] < place[j]
IsSequence(s) == \E T : s \in Seq(T)
Distinct(ids) == \A i, j \in DOMAIN ids : ids[i] = ids[j] => i = j

\* The next supplier may be left out.
LEMMA FollowsOn ==
  ASSUME NEW reports, NEW ids, NEW n \in Nat, Follows(reports, ids, n)
  PROVE  Follows(reports, ids, n + 1)
<1>1. PICK place \in [DOMAIN reports -> 1..n] :
        /\ \A i \in DOMAIN reports : reports[i].supplier = ids[place[i]]
        /\ \A i, j \in DOMAIN reports : i < j => place[i] < place[j]
  BY DEF Follows
<1>2. 1..n \subseteq 1..(n + 1)
  OBVIOUS
<1>3. place \in [DOMAIN reports -> 1..(n + 1)]
  BY <1>2
<1> QED
  BY <1>1, <1>3 DEF Follows

\* The next supplier's report comes behind the others.
LEMMA FollowsNext ==
  ASSUME NEW reports, IsSequence(reports), NEW ids, NEW n \in Nat, Follows(reports, ids, n),
         NEW x, x.supplier = ids[n + 1]
  PROVE  /\ IsSequence(Append(reports, x)) /\ Follows(Append(reports, x), ids, n + 1)
         /\ Len(Append(reports, x)) = Len(reports) + 1
<1>1. PICK place \in [DOMAIN reports -> 1..n] :
        /\ \A i \in DOMAIN reports : reports[i].supplier = ids[place[i]]
        /\ \A i, j \in DOMAIN reports : i < j => place[i] < place[j]
  BY DEF Follows
<1>2. PICK T : reports \in Seq(T)
  BY DEF IsSequence
<1> DEFINE U == T \cup {x}
           m == Len(reports)
           new == Append(reports, x)
           next == [i \in 1..(m + 1) |-> IF i = m + 1 THEN n + 1 ELSE place[i]]
<1>3. reports \in Seq(U) /\ x \in U /\ m \in Nat /\ DOMAIN reports = 1..m
  BY <1>2
<1> HIDE DEF U
<1>4. new \in Seq(U) /\ Len(new) = m + 1 /\ DOMAIN new = 1..(m + 1)
      /\ new[m + 1] = x /\ \A i \in 1..m : new[i] = reports[i]
  BY <1>3
<1> HIDE DEF new, m
<1>5. next \in [1..(m + 1) -> 1..(n + 1)]
  <2>1. ASSUME NEW i \in 1..(m + 1), i # m + 1 PROVE place[i] \in 1..(n + 1)
    <3>1. i \in 1..m
      BY <1>3, <2>1
    <3>2. place[i] \in 1..n
      BY <1>1, <1>3, <3>1
    <3> QED
      BY <3>2
  <2>2. n + 1 \in 1..(n + 1)
    OBVIOUS
  <2> QED
    BY <2>1, <2>2
<1>6. ASSUME NEW i \in 1..(m + 1) PROVE new[i].supplier = ids[next[i]]
  <2>1. CASE i = m + 1
    BY <1>4, <2>1
  <2>2. CASE i # m + 1
    <3>1. i \in 1..m
      BY <1>3, <2>2
    <3> QED
      BY <1>1, <1>3, <1>4, <2>2, <3>1
  <2> QED
    BY <2>1, <2>2
<1>7. ASSUME NEW i \in 1..(m + 1), NEW j \in 1..(m + 1), i < j PROVE next[i] < next[j]
  <2>1. i \in 1..m /\ i # m + 1 /\ next[i] = place[i]
    BY <1>3, <1>7
  <2>2. place[i] \in 1..n
    BY <1>1, <1>3, <2>1
  <2>3. CASE j = m + 1
    BY <2>1, <2>2, <2>3
  <2>4. CASE j # m + 1
    <3>1. j \in 1..m /\ next[j] = place[j]
      BY <1>3, <2>4
    <3> QED
      BY <1>1, <1>3, <1>7, <2>1, <3>1
  <2> QED
    BY <2>3, <2>4
<1> HIDE DEF next
<1>8. Follows(new, ids, n + 1)
  BY <1>4, <1>5, <1>6, <1>7 DEF Follows
<1> QED
  BY <1>4, <1>8 DEF new, m, IsSequence

\* Of ids that differ, each has one report at most.
LEMMA FollowsOnce ==
  ASSUME NEW reports, NEW ids, NEW n \in Nat, DOMAIN ids = 1..n, Distinct(ids), Follows(reports, ids, n),
         IsSequence(reports)
  PROVE  \A i, j \in DOMAIN reports : reports[i].supplier = reports[j].supplier => i = j
<1>1. PICK place \in [DOMAIN reports -> 1..n] :
        /\ \A i \in DOMAIN reports : reports[i].supplier = ids[place[i]]
        /\ \A i, j \in DOMAIN reports : i < j => place[i] < place[j]
  BY DEF Follows
<1>2. DOMAIN reports \subseteq Int
  BY DEF IsSequence
<1> SUFFICES ASSUME NEW i \in DOMAIN reports, NEW j \in DOMAIN reports, reports[i].supplier = reports[j].supplier
             PROVE  i = j
  OBVIOUS
<1>3. place[i] = place[j] /\ place[i] \in Int
  BY <1>1 DEF Distinct
<1>4. ~ (i < j) /\ ~ (j < i)
  BY <1>1, <1>3
<1> QED
  BY <1>2, <1>4
-----------------------------------------------------------------------------
\* The ids of a request, each once: the fold, from the ids seen so far.
Seen(g, ids, T) ==
  IF T = {} THEN <<>>
  ELSE IF ids[LastOf(T)] \in G!ToSet(g[T \ {LastOf(T)}])
       THEN g[T \ {LastOf(T)}] ELSE Append(g[T \ {LastOf(T)}], ids[LastOf(T)])
SeenOf(g, ids) == g = [T \in SUBSET DOMAIN ids |-> Seen(g, ids, T)]

\* The ids of a list, each once, are that recursion.
LEMMA SeenIs ==
  ASSUME NEW ids
  PROVE  G!parseSupplierIDList(ids) = (CHOOSE g : SeenOf(g, ids))[DOMAIN ids]
  BY DEF G!parseSupplierIDList, G!FoldLeft, G!MapThenFoldSet, G!Max, SeenOf, Seen, LastOf

\* That recursion has a solution.
LEMMA SeenExists ==
  ASSUME NEW T, NEW ids \in Seq(T)
  PROVE  SeenOf(CHOOSE g : SeenOf(g, ids), ids)
<1> DEFINE step == [a \in Seq(T) \X T |-> IF a[2] \in G!ToSet(a[1]) THEN a[1] ELSE Append(a[1], a[2])]
<1>1. step \in [Seq(T) \X T -> Seq(T)] /\ <<>> \in Seq(T)
  OBVIOUS
<1>2. ASSUME NEW x \in Seq(T), NEW y \in T
      PROVE  step[<<x, y>>] = IF y \in G!ToSet(x) THEN x ELSE Append(x, y)
  OBVIOUS
<1> HIDE DEF step
<1>3. PICK g \in [SUBSET DOMAIN ids -> Seq(T)] : FoldFits(g, <<>>, step, ids, SUBSET DOMAIN ids)
  BY <1>1, FoldExists
<1>4. ASSUME NEW X \in SUBSET DOMAIN ids, X # {}
      PROVE  LastOf(X) \in DOMAIN ids /\ ids[LastOf(X)] \in T /\ g[X \ {LastOf(X)}] \in Seq(T)
  <2>1. DOMAIN ids = 1..Len(ids) /\ Len(ids) \in Nat
    OBVIOUS
  <2>2. LastOf(X) \in X
    BY <1>4, <2>1, LastIn
  <2> QED
    BY <1>3, <2>2
<1>5. ASSUME NEW X \in SUBSET DOMAIN ids
      PROVE  Taken(g, <<>>, step, ids, X) = Seen(g, ids, X)
  BY <1>2, <1>4 DEF Taken, Seen
<1>6. SeenOf(g, ids)
  BY <1>3, <1>5 DEF FoldFits, SeenOf
<1> QED
  BY <1>6

\* One step of it.
LEMMA SeenAt ==
  ASSUME NEW g, NEW ids, SeenOf(g, ids), NEW X \in SUBSET DOMAIN ids
  PROVE  g[X] = Seen(g, ids, X)
  BY DEF SeenOf

\* An id that is new is added.
LEMMA AddUnseen ==
  ASSUME NEW T, NEW s \in Seq(T), Distinct(s), NEW x \in T, x \notin G!ToSet(s)
  PROVE  Append(s, x) \in Seq(T) /\ Distinct(Append(s, x)) /\ Len(Append(s, x)) = Len(s) + 1
<1> DEFINE new == Append(s, x)
           m == Len(s)
<1>1. m \in Nat /\ DOMAIN s = 1..m /\ \A i \in 1..m : s[i] # x
  BY DEF G!ToSet
<1>2. new \in Seq(T) /\ Len(new) = m + 1 /\ DOMAIN new = 1..(m + 1)
      /\ new[m + 1] = x /\ \A i \in 1..m : new[i] = s[i]
  OBVIOUS
<1> HIDE DEF new, m
<1>3. \A i \in 1..(m + 1) : i \in 1..m \/ i = m + 1
  BY <1>1
<1>4. Distinct(new)
  BY <1>1, <1>2, <1>3 DEF Distinct
<1> QED
  BY <1>2, <1>4 DEF new, m

\* The ids of a list, each once: at least one and no more than are in the list.
LEMMA IdsOnce ==
  ASSUME NEW T, NEW ids \in Seq(T), ids # <<>>
  PROVE  LET seen == G!parseSupplierIDList(ids)
         IN  /\ seen \in Seq(T) /\ Distinct(seen)
             /\ Len(seen) >= 1 /\ Len(seen) <= Len(ids)
<1> DEFINE g == CHOOSE h : SeenOf(h, ids)
           n == Len(ids)
           Fine(s, i) == s \in Seq(T) /\ Distinct(s) /\ Len(s) <= i /\ (i > 0 => Len(s) >= 1)
           Good == {i \in Nat : i <= n => Fine(g[1..i], i)}
<1>1. SeenOf(g, ids) /\ n \in Nat /\ n > 0 /\ DOMAIN ids = 1..n
  <2>1. SeenOf(g, ids)
    BY SeenExists
  <2> HIDE DEF g
  <2> QED
    BY <2>1
<1>2. G!parseSupplierIDList(ids) = g[1..n]
  BY <1>1, SeenIs
<1> HIDE DEF g
<1>3. 0 \in Good
  <2>1. 1..0 = {}
    OBVIOUS
  <2>2. PICK X \in SUBSET DOMAIN ids : X = {}
    OBVIOUS
  <2>3. g[X] = <<>>
    BY <1>1, <2>2, SeenAt DEF Seen
  <2>4. g[1..0] = <<>>
    BY <2>1, <2>2, <2>3, Zenon
  <2>5. <<>> \in Seq(T) /\ Distinct(<<>>) /\ Len(<<>>) = 0
    BY DEF Distinct
  <2>6. Fine(g[1..0], 0)
    <3> DEFINE o == g[1..0]
    <3>1. o = <<>>
      BY <2>4
    <3> HIDE DEF o
    <3>2. Fine(o, 0)
      BY <2>5, <3>1
    <3> QED
      BY <3>2 DEF o
  <2> HIDE DEF Fine
  <2> QED
    BY <2>6
<1>4. ASSUME NEW i \in Good PROVE i + 1 \in Good
  <2>1. i \in Nat /\ i + 1 \in Nat
    OBVIOUS
  <2>2. ASSUME i + 1 <= n PROVE Fine(g[1..(i + 1)], i + 1)
    <3>1. i + 1 > 0 /\ (i + 1) - 1 = i /\ i <= n
      BY <1>1, <2>1, <2>2
    <3>2. LastOf(1..(i + 1)) = i + 1 /\ (1..(i + 1)) \ {i + 1} = 1..i
      BY <2>1, <3>1, LastIs
    <3>3. PICK X \in SUBSET DOMAIN ids : X = 1..(i + 1)
      BY <1>1, <2>1, <2>2
    <3>4. g[X] = Seen(g, ids, X)
      BY <1>1, SeenAt
    <3>5. X # {} /\ LastOf(X) = i + 1 /\ X \ {i + 1} = 1..i
      <4>1. i + 1 \in X
        BY <2>1, <3>3
      <4>2. LastOf(X) = i + 1 /\ X \ {i + 1} = 1..i
        BY <3>2, <3>3, Zenon
      <4> QED
        BY <4>1, <4>2
    <3> DEFINE o == g[1..i]
    <3>6. g[X] = IF ids[i + 1] \in G!ToSet(o) THEN o ELSE Append(o, ids[i + 1])
      BY <3>4, <3>5 DEF Seen
    <3>7. o \in Seq(T) /\ Distinct(o) /\ Len(o) <= i /\ (i > 0 => Len(o) >= 1)
      BY <3>1
    <3>8. ids[i + 1] \in T
      BY <1>1, <2>1, <2>2
    <3> HIDE DEF o
    <3>9. CASE ids[i + 1] \in G!ToSet(o)
      <4>1. g[X] = o
        BY <3>6, <3>9
      <4>2. i > 0
        <5>1. ASSUME i = 0 PROVE FALSE
          <6>1. Len(o) = 0
            BY <3>7, <5>1
          <6>2. DOMAIN o = {}
            BY <3>7, <6>1
          <6> QED
            BY <3>9, <6>2 DEF G!ToSet
        <5> QED
          BY <2>1, <5>1
      <4>3. Len(o) <= i + 1
        BY <2>1, <3>7
      <4> QED
        BY <3>3, <3>7, <4>1, <4>2, <4>3
    <3>10. CASE ids[i + 1] \notin G!ToSet(o)
      <4>1. g[X] = Append(o, ids[i + 1])
        BY <3>6, <3>10
      <4>2. /\ g[X] \in Seq(T) /\ Distinct(g[X]) /\ Len(g[X]) = Len(o) + 1
        BY <3>7, <3>8, <3>10, <4>1, AddUnseen
      <4>3. Len(g[X]) <= i + 1 /\ Len(g[X]) >= 1
        BY <2>1, <3>7, <4>2
      <4> QED
        BY <3>3, <4>2, <4>3
    <3> QED
      BY <3>9, <3>10
  <2> HIDE DEF Fine
  <2> QED
    BY <2>1, <2>2
<1>5. Good = Nat
  <2>1. Good \subseteq Nat /\ \A i \in Good : i + 1 \in Good
    BY <1>4
  <2> HIDE DEF Good
  <2> QED
    BY <1>3, <2>1, NatInduct
<1>6. Fine(g[1..n], n)
  <2>1. n \in Good
    BY <1>1, <1>5
  <2> HIDE DEF Fine
  <2> QED
    BY <1>1, <2>1
<1> QED
  BY <1>1, <1>2, <1>6
-----------------------------------------------------------------------------
\* The suppliers, and none.
Recipients == Suppliers \cup {NoSupplier}

\* A request for reports, and how far its reading has come.
ReportFits(r, w) ==
  LET done == Len(r.ids) - Len(w.left) IN
  /\ r.ids \in Seq(Recipients) /\ Distinct(r.ids) /\ (r.many \/ Len(r.ids) = 1)
  /\ w.left \in Seq(Recipients) /\ Len(w.left) > 0 /\ done \in Nat
  /\ \A i \in 1..Len(w.left) : w.left[i] = r.ids[done + i]
  /\ IsSequence(w.reports) /\ Follows(w.reports, r.ids, done)

\* What the properties say of one answer.
LedgerSumsUp(a) ==
  LET l == a.ledger
      Lines(type) == {i \in DOMAIN l : l[i].type = type}
  IN  /\ \A i \in DOMAIN l : l[i].balance = (IF i = 1 THEN 0 ELSE l[i - 1].balance) + l[i].debit - l[i].credit
      /\ l = <<>> \/ l[Len(l)].balance = a.closing_balance
      /\ a.suppliers # {} => G!SumFunctionOnSet([s \in a.suppliers |-> s.balance], a.suppliers) = a.closing_balance
      /\ G!Cardinality(Lines("bill")) = a.bill_count
      /\ G!Cardinality(Lines("payment")) <= a.payment_count
ReportsOrdered(a) ==
  /\ \E place \in [DOMAIN a.reports -> DOMAIN a.asked] :
       /\ \A i \in DOMAIN a.reports : a.reports[i].supplier = a.asked[place[i]]
       /\ \A i, j \in DOMAIN a.reports : i < j => place[i] < place[j]
  /\ \A i, j \in DOMAIN a.reports : a.reports[i].supplier = a.reports[j].supplier => i = j
  /\ a.many \/ Len(a.reports) = 1
AnswerHolds(a) == (a.kind = "ledger" => LedgerSumsUp(a)) /\ (a.kind = "report" => ReportsOrdered(a))

\* A reading of a request.
ReadingFits(r, w) ==
  /\ DOMAIN w = DOMAIN G!NoReading
  /\ r.op = "ledger" => RowsRead(w.bills) /\ RowsRead(w.payments)
  /\ r.op = "report" => ReportFits(r, w)

\* What holds of one handler, of the rows, and of the service.
ClerkInv(h) ==
  /\ pc[h] = "idle" => work[h] = G!NoReading
  /\ ReadingFits(req[h], work[h])
  /\ AnswerHolds(answer[h])
SlipsInv ==
  /\ IsFiniteSet(DOMAIN purchase_bill) /\ DOMAIN purchase_bill \subseteq Slips
  /\ IsFiniteSet(DOMAIN cash_voucher) /\ DOMAIN cash_voucher \subseteq Slips
StatementInv ==
  /\ DOMAIN pc = Clerks /\ DOMAIN req = Clerks /\ DOMAIN work = Clerks /\ DOMAIN answer = Clerks
  /\ SlipsInv
  /\ \A h \in Clerks : ClerkInv(h)
-----------------------------------------------------------------------------
\* The invariant says of every answer what the two properties say.
LEMMA AnswersHold == StatementInv => G!LedgerAddsUp /\ G!ReportsOfThoseAsked
<1> SUFFICES ASSUME StatementInv PROVE G!LedgerAddsUp /\ G!ReportsOfThoseAsked
  OBVIOUS
<1>1. \A h \in Clerks : AnswerHolds(answer[h])
  BY DEF StatementInv, ClerkInv
<1>2. ASSUME NEW h \in Clerks, answer[h].kind = "ledger" PROVE LedgerSumsUp(answer[h])
  BY <1>1, <1>2 DEF AnswerHolds
<1>3. ASSUME NEW h \in Clerks, answer[h].kind = "report" PROVE ReportsOrdered(answer[h])
  BY <1>1, <1>3 DEF AnswerHolds
<1>4. G!LedgerAddsUp
  BY <1>2, Zenon DEF LedgerSumsUp, G!LedgerAddsUp
<1>5. G!ReportsOfThoseAsked
  BY <1>3, Zenon DEF ReportsOrdered, G!ReportsOfThoseAsked
<1> QED
  BY <1>4, <1>5

\* At the start nothing is asked, read or answered.
LEMMA StatementsStart == G!Init => StatementInv
<1> SUFFICES ASSUME G!Init PROVE StatementInv
  OBVIOUS
<1>1. DOMAIN purchase_bill = {} /\ DOMAIN cash_voucher = {}
  BY DEF G!Init
<1>2. SlipsInv
  BY <1>1, FS_EmptySet DEF SlipsInv
<1>3. ASSUME NEW h \in Clerks
      PROVE  req[h] = G!Idle /\ work[h] = G!NoReading /\ answer[h] = G!NoAnswer
  BY DEF G!Init
<1>4. ASSUME NEW h \in Clerks PROVE ClerkInv(h)
  BY <1>3 DEF ClerkInv, ReadingFits, AnswerHolds, G!Idle, G!NoAnswer
<1>5. DOMAIN pc = Clerks /\ DOMAIN req = Clerks /\ DOMAIN work = Clerks /\ DOMAIN answer = Clerks
  BY DEF G!Init
<1> QED
  BY <1>2, <1>4, <1>5 DEF StatementInv

\* A step of one clerk.
OneClerkSteps(h) ==
  /\ DOMAIN pc' = Clerks /\ DOMAIN req' = Clerks /\ DOMAIN work' = Clerks /\ DOMAIN answer' = Clerks
  /\ \A i \in Clerks \ {h} :
       pc'[i] = pc[i] /\ req'[i] = req[i] /\ work'[i] = work[i] /\ answer'[i] = answer[i]
  /\ purchase_bill' = purchase_bill /\ cash_voucher' = cash_voucher

\* A step of one handler keeps the others.
LEMMA OneClerk == ASSUME StatementInv, NEW h \in Clerks, OneClerkSteps(h), ClerkInv(h)' PROVE StatementInv'
<1>1. \A i \in Clerks \ {h} : ClerkInv(i)'
  BY DEF StatementInv, OneClerkSteps, ClerkInv
<1>2. \A i \in Clerks : ClerkInv(i)'
  BY <1>1
<1>3. SlipsInv'
  BY DEF StatementInv, OneClerkSteps, SlipsInv
<1> QED
  BY <1>2, <1>3 DEF StatementInv, OneClerkSteps

\* A handler answers.
LEMMA ClerkReplies ==
  ASSUME StatementInv, NEW h \in Clerks, NEW a, G!Reply(h, a), AnswerHolds(a)
  PROVE  StatementInv'
<1>1. /\ pc' = [pc EXCEPT ![h] = "idle"] /\ req' = [req EXCEPT ![h] = G!Idle]
      /\ work' = [work EXCEPT ![h] = G!NoReading] /\ answer' = [answer EXCEPT ![h] = a]
      /\ purchase_bill' = purchase_bill /\ cash_voucher' = cash_voucher
  BY DEF G!Reply, G!tables
<1>2. DOMAIN pc = Clerks /\ DOMAIN req = Clerks /\ DOMAIN work = Clerks /\ DOMAIN answer = Clerks
  BY DEF StatementInv
<1>3. OneClerkSteps(h)
  BY <1>1, <1>2 DEF OneClerkSteps
<1>4. req'[h] = G!Idle /\ work'[h] = G!NoReading /\ answer'[h] = a
  BY <1>1, <1>2
<1>5. ClerkInv(h)'
  BY <1>4 DEF ClerkInv, ReadingFits, G!Idle
<1> QED
  BY <1>3, <1>5, OneClerk

\* It refuses a request, or gives it up.
LEMMA ClerkRefuses ==
  ASSUME StatementInv, NEW h \in Clerks, NEW detail, detail # "ledger", detail # "report",
         G!Reply(h, G!Refused(detail))
  PROVE  StatementInv'
<1>1. AnswerHolds(G!Refused(detail))
  BY DEF AnswerHolds, G!Refused
<1> QED
  BY <1>1, ClerkReplies

\* It goes on reading.
LEMMA ClerkMoves ==
  ASSUME StatementInv, NEW h \in Clerks, NEW place, place # "idle", NEW w, G!To(h, place, w), ReadingFits(req[h], w)
  PROVE  StatementInv'
<1>1. /\ pc' = [pc EXCEPT ![h] = place] /\ work' = [work EXCEPT ![h] = w]
      /\ req' = req /\ answer' = answer
      /\ purchase_bill' = purchase_bill /\ cash_voucher' = cash_voucher
  BY DEF G!To, G!tables
<1>2. DOMAIN pc = Clerks /\ DOMAIN req = Clerks /\ DOMAIN work = Clerks /\ DOMAIN answer = Clerks
      /\ AnswerHolds(answer[h])
  BY DEF StatementInv, ClerkInv
<1>3. OneClerkSteps(h)
  BY <1>1, <1>2 DEF OneClerkSteps
<1>4. pc'[h] = place /\ work'[h] = w /\ req'[h] = req[h] /\ answer'[h] = answer[h]
  BY <1>1, <1>2
<1>5. ClerkInv(h)'
  BY <1>2, <1>4 DEF ClerkInv
<1> QED
  BY <1>3, <1>5, OneClerk
-----------------------------------------------------------------------------
\* What a statement reads are rows with ids of their own.
LEMMA ReadIsRows ==
  ASSUME NEW ids, IsFiniteSet(ids), ids \subseteq Int, NEW table
  PROVE  RowsRead({G!With(b, table[b]) : b \in ids})
<1> DEFINE read == {G!With(b, table[b]) : b \in ids}
           name == [b \in ids |-> G!With(b, table[b])]
<1>1. \A b \in ids : G!With(b, table[b]).id = b
  BY DEF G!With
<1>2. name \in [ids -> read] /\ \A r \in read : \E b \in ids : name[b] = r
  OBVIOUS
<1>3. \A r \in read : \E b \in ids : r = G!With(b, table[b])
  OBVIOUS
<1> HIDE DEF read, name
<1>4. IsFiniteSet(read)
  BY <1>2, ImageSize
<1>5. \A r \in read : r.id \in Int
  BY <1>1, <1>3
<1>6. \A q, r \in read : q.id = r.id => q = r
  BY <1>1, <1>3
<1> QED
  BY <1>4, <1>5, <1>6 DEF RowsRead, read

\* The bills of the ledger.
LEMMA LedgerBillsKeeps ==
  ASSUME SlipsAreNumbers, StatementInv, NEW h \in Clerks, G!LedgerBills(h) PROVE StatementInv'
<1>1. req[h].op = "ledger" /\ ReadingFits(req[h], work[h])
  BY DEF G!LedgerBills, G!At, StatementInv, ClerkInv
<1>2. CASE G!Reply(h, G!Refused("failed to fetch ledger bills"))
  BY <1>2, ClerkRefuses
<1> DEFINE ids == G!Bills(req[h].supplier, req[h].range)
           read == {G!With(b, purchase_bill[b]) : b \in ids}
           w == [work[h] EXCEPT !.bills = read]
<1>3. CASE G!To(h, "payments", w)
  <2>1. ids \in SUBSET DOMAIN purchase_bill /\ IsFiniteSet(DOMAIN purchase_bill) /\ ids \subseteq Int
    BY DEF G!Bills, StatementInv, SlipsInv, SlipsAreNumbers
  <2> HIDE DEF ids
  <2>2. RowsRead(read)
    <3>1. IsFiniteSet(ids)
      BY <2>1, FS_Subset
    <3> QED
      BY <2>1, <3>1, ReadIsRows
  <2> HIDE DEF read
  <2>3. DOMAIN work[h] = DOMAIN G!NoReading /\ RowsRead(work[h].payments)
    BY <1>1 DEF ReadingFits
  <2>4. DOMAIN G!NoReading = {"bills", "payments", "supplier", "summary", "paid", "reports", "left"}
    BY DEF G!NoReading
  <2>5. DOMAIN w = DOMAIN G!NoReading /\ w.bills = read /\ w.payments = work[h].payments
    BY <2>3, <2>4
  <2>6. ReadingFits(req[h], w)
    BY <1>1, <2>2, <2>3, <2>5 DEF ReadingFits
  <2> HIDE DEF w
  <2> QED
    BY <1>3, <2>6, ClerkMoves
<1> QED
  BY <1>2, <1>3 DEF G!LedgerBills

\* The payments.
LEMMA LedgerPaymentsKeeps ==
  ASSUME SlipsAreNumbers, StatementInv, NEW h \in Clerks, G!LedgerPayments(h) PROVE StatementInv'
<1>1. req[h].op = "ledger" /\ ReadingFits(req[h], work[h])
  BY DEF G!LedgerPayments, G!At, StatementInv, ClerkInv
<1>2. CASE G!Reply(h, G!Refused("failed to fetch ledger payments"))
  BY <1>2, ClerkRefuses
<1> DEFINE ids == G!Payments(req[h].supplier, req[h].range)
           read == {G!With(v, cash_voucher[v]) : v \in ids}
           w == [work[h] EXCEPT !.payments = read]
<1>3. CASE G!To(h, "build", w)
  <2>1. ids \in SUBSET DOMAIN cash_voucher /\ IsFiniteSet(DOMAIN cash_voucher) /\ ids \subseteq Int
    BY DEF G!Payments, StatementInv, SlipsInv, SlipsAreNumbers
  <2> HIDE DEF ids
  <2>2. RowsRead(read)
    <3>1. IsFiniteSet(ids)
      BY <2>1, FS_Subset
    <3> QED
      BY <2>1, <3>1, ReadIsRows
  <2> HIDE DEF read
  <2>3. DOMAIN work[h] = DOMAIN G!NoReading /\ RowsRead(work[h].bills)
    BY <1>1 DEF ReadingFits
  <2>4. DOMAIN G!NoReading = {"bills", "payments", "supplier", "summary", "paid", "reports", "left"}
    BY DEF G!NoReading
  <2>5. DOMAIN w = DOMAIN G!NoReading /\ w.payments = read /\ w.bills = work[h].bills
    BY <2>3, <2>4
  <2>6. ReadingFits(req[h], w)
    BY <1>1, <2>2, <2>3, <2>5 DEF ReadingFits
  <2> HIDE DEF w
  <2> QED
    BY <1>3, <2>6, ClerkMoves
<1> QED
  BY <1>2, <1>3 DEF G!LedgerPayments

\* The answer of the ledger.
LEMMA LedgerBuildKeeps == ASSUME StatementInv, NEW h \in Clerks, G!LedgerBuild(h) PROVE StatementInv'
<1> DEFINE entries == G!EntriesOf(work[h])
           own == IF req[h].supplier \in G!Everyone THEN G!Breakdowns(entries) ELSE {}
           Built(feed) == [kind |-> "ledger", ledger |-> G!withRunningBalance(feed),
                           bill_count |-> G!Cardinality(work[h].bills),
                           payment_count |-> G!Cardinality(work[h].payments),
                           closing_balance |-> G!Debit(entries) - G!Credit(entries),
                           suppliers |-> own]
<1>1. PICK feed \in G!Feeds(entries) : G!Reply(h, Built(feed))
  BY DEF G!LedgerBuild
<1>2. req[h].op = "ledger" /\ ReadingFits(req[h], work[h])
  BY DEF G!LedgerBuild, G!At, StatementInv, ClerkInv
<1>3. RowsRead(work[h].bills) /\ RowsRead(work[h].payments)
  BY <1>2 DEF ReadingFits
<1>4. own = G!Breakdowns(G!EntriesOf(work[h])) \/ own = {}
  OBVIOUS
<1> DEFINE a == Built(feed)
<1>5. /\ a.kind = "ledger" /\ a.ledger = G!withRunningBalance(feed)
      /\ a.bill_count = G!Cardinality(work[h].bills) /\ a.payment_count = G!Cardinality(work[h].payments)
      /\ a.closing_balance = G!Debit(entries) - G!Credit(entries) /\ a.suppliers = own
  <2> HIDE DEF entries, own
  <2> QED
    OBVIOUS
<1> HIDE DEF own, a
<1>6. LedgerSumsUp(a)
  <2> DEFINE l == G!withRunningBalance(feed)
             closing == G!Debit(G!EntriesOf(work[h])) - G!Credit(G!EntriesOf(work[h]))
             Lines(type) == {i \in DOMAIN l : l[i].type = type}
  <2>1. /\ \A i \in DOMAIN l : l[i].balance = (IF i = 1 THEN 0 ELSE l[i - 1].balance) + l[i].debit - l[i].credit
        /\ l = <<>> \/ l[Len(l)].balance = closing
        /\ own # {} => G!SumFunctionOnSet([s \in own |-> s.balance], own) = closing
        /\ G!Cardinality(Lines("bill")) = G!Cardinality(work[h].bills)
        /\ G!Cardinality(Lines("payment")) <= G!Cardinality(work[h].payments)
    <3>1. feed \in G!Feeds(G!EntriesOf(work[h]))
      OBVIOUS
    <3> HIDE DEF entries
    <3> QED
      BY <1>3, <1>4, <3>1, LedgerAnswer
  <2> HIDE DEF l, closing
  <2>2. a.ledger = l /\ a.closing_balance = closing
    BY <1>5 DEF l, closing
  <2> QED
    BY <1>5, <2>1, <2>2, Zenon DEF LedgerSumsUp
<1>7. AnswerHolds(a)
  BY <1>5, <1>6 DEF AnswerHolds
<1>8. G!Reply(h, a)
  BY <1>1 DEF a, own
<1> QED
  BY <1>7, <1>8, ClerkReplies
-----------------------------------------------------------------------------
\* What the reading of reports keeps: the ids that are left, and the reports made.
ReportsStay(w, v) ==
  DOMAIN v = DOMAIN G!NoReading /\ v.left = w.left /\ v.reports = w.reports

\* Such a reading is still one of the request.
LEMMA ReportStillFits ==
  ASSUME NEW r, NEW w, NEW v, ReadingFits(r, w), r.op = "report", ReportsStay(w, v)
  PROVE  ReadingFits(r, v)
  BY DEF ReadingFits, ReportFits, ReportsStay

\* The report of the supplier is made, or left out: the next one, or the answer.
ReportMade(h, reading) ==
  /\ reading.left = work[h].left /\ IsSequence(reading.reports)
  /\ LET done == Len(req[h].ids) - Len(work[h].left)
     IN  /\ Follows(reading.reports, req[h].ids, done + 1)
         /\ req[h].many \/ Len(reading.reports) = 1

\* Then the next supplier, or the answer.
LEMMA ReportGoesOn ==
  ASSUME StatementInv, NEW h \in Clerks, req[h].op = "report", NEW reading, ReportMade(h, reading),
         G!Next1(h, reading)
  PROVE  StatementInv'
<1> DEFINE ids == req[h].ids
           left == work[h].left
           done == Len(ids) - Len(left)
<1>1. ReportFits(req[h], work[h])
  BY DEF StatementInv, ClerkInv, ReadingFits
<1>2. /\ ids \in Seq(Recipients) /\ Distinct(ids) /\ (req[h].many \/ Len(ids) = 1)
      /\ left \in Seq(Recipients) /\ Len(left) > 0 /\ done \in Nat
      /\ \A i \in 1..Len(left) : left[i] = ids[done + i]
  BY <1>1 DEF ReportFits
<1>3. /\ reading.left = left /\ IsSequence(reading.reports) /\ Follows(reading.reports, ids, done + 1)
      /\ req[h].many \/ Len(reading.reports) = 1
  BY DEF ReportMade
<1>0. Len(ids) \in Nat /\ Len(left) \in Nat
  BY <1>2
<1> DEFINE a == [kind |-> "report", many |-> req[h].many, asked |-> ids, reports |-> reading.reports]
           v == [G!NoReading EXCEPT !.reports = reading.reports, !.left = Tail(reading.left)]
<1>4. CASE Len(left) = 1
  <2>1. G!Reply(h, a)
    BY <1>3, <1>4 DEF G!Next1
  <2>2. a.kind = "report" /\ a.many = req[h].many /\ a.asked = ids /\ a.reports = reading.reports
    OBVIOUS
  <2>3. done + 1 = Len(ids) /\ DOMAIN ids = 1..Len(ids)
    BY <1>0, <1>2, <1>4
  <2> HIDE DEF a, ids, left, done
  <2>4. Follows(reading.reports, ids, Len(ids))
    BY <1>3, <2>3
  <2>5. \A i, j \in DOMAIN reading.reports : reading.reports[i].supplier = reading.reports[j].supplier => i = j
    BY <1>0, <1>2, <1>3, <2>3, <2>4, FollowsOnce
  <2>6. ReportsOrdered(a)
    <3>1. \E place \in [DOMAIN reading.reports -> DOMAIN ids] :
            /\ \A i \in DOMAIN reading.reports : reading.reports[i].supplier = ids[place[i]]
            /\ \A i, j \in DOMAIN reading.reports : i < j => place[i] < place[j]
      BY <2>3, <2>4 DEF Follows
    <3>2. \E place \in [DOMAIN a.reports -> DOMAIN a.asked] :
            /\ \A i \in DOMAIN a.reports : a.reports[i].supplier = a.asked[place[i]]
            /\ \A i, j \in DOMAIN a.reports : i < j => place[i] < place[j]
      BY <2>2, <3>1
    <3>3. \A i, j \in DOMAIN a.reports : a.reports[i].supplier = a.reports[j].supplier => i = j
      BY <2>2, <2>5
    <3>4. a.many \/ Len(a.reports) = 1
      <4>1. CASE req[h].many
        BY <2>2, <4>1, Zenon
      <4>2. CASE Len(reading.reports) = 1
        BY <2>2, <4>2
      <4> QED
        BY <1>3, <4>1, <4>2
    <3> QED
      BY <3>2, <3>3, <3>4, Zenon DEF ReportsOrdered
  <2>7. AnswerHolds(a)
    BY <2>2, <2>6 DEF AnswerHolds
  <2> QED
    BY <2>1, <2>7, ClerkReplies
<1>6. done = Len(ids) - Len(left)
  OBVIOUS
<1>7. Len(ids) \in Nat /\ Len(left) \in Nat /\ Len(left) > 0 /\ done \in Nat
  BY <1>0, <1>2
<1>5. CASE Len(left) # 1
  <2>1. G!To(h, "supplier", v)
    BY <1>3, <1>5 DEF G!Next1
  <2>2. v.reports = reading.reports /\ v.left = Tail(left) /\ DOMAIN v = DOMAIN G!NoReading
    BY <1>3 DEF G!NoReading
  <2> HIDE DEF v, ids, left, done
  <2>3. /\ v.left \in Seq(Recipients) /\ Len(v.left) = Len(left) - 1
        /\ \A i \in 1..Len(v.left) : v.left[i] = left[i + 1]
    BY <1>2, <2>2
  <2>8. Len(v.left) = Len(left) - 1
    BY <2>3
  <2>4. Len(v.left) > 0 /\ Len(ids) - Len(v.left) = done + 1 /\ done + 1 \in Nat
    <3> DEFINE x == Len(v.left)
               y == Len(left)
               z == Len(ids)
    <3>1. x = y - 1 /\ y \in Nat /\ y > 0 /\ y # 1 /\ z \in Nat /\ done \in Nat /\ done = z - y
      BY <1>5, <1>6, <1>7, <2>8
    <3> HIDE DEF x, y, z
    <3>2. x > 0 /\ z - x = done + 1 /\ done + 1 \in Nat
      BY <3>1
    <3> QED
      BY <3>2 DEF x, z
  <2>5. \A i \in 1..Len(v.left) : v.left[i] = ids[(done + 1) + i]
    <3>1. ASSUME NEW i \in 1..Len(v.left) PROVE v.left[i] = ids[(done + 1) + i]
      <4>1. i + 1 \in 1..Len(left) /\ done + (i + 1) = (done + 1) + i
        BY <1>6, <1>7, <2>8
      <4> QED
        BY <1>2, <2>3, <4>1
    <3> QED
      BY <3>1
  <2>6. ReportFits(req[h], v)
    BY <1>2, <1>3, <2>2, <2>3, <2>4, <2>5 DEF ReportFits, ids
  <2>7. ReadingFits(req[h], v)
    BY <2>2, <2>6 DEF ReadingFits
  <2> QED
    BY <2>1, <2>7, ClerkMoves
<1> QED
  BY <1>4, <1>5

\* A supplier that is left out: one supplier is refused, of several the rest go on.
LEMMA ReportLeftOut ==
  ASSUME StatementInv, NEW h \in Clerks, req[h].op = "report", NEW detail, detail # "ledger", detail # "report",
         G!Skip(h, detail)
  PROVE  StatementInv'
<1>1. CASE req[h].many
  <2>1. G!Next1(h, work[h])
    BY <1>1 DEF G!Skip
  <2>2. ReportFits(req[h], work[h])
    BY DEF StatementInv, ClerkInv, ReadingFits
  <2>3. ReportMade(h, work[h])
    BY <1>1, <2>2, FollowsOn DEF ReportMade, ReportFits
  <2> QED
    BY <2>1, <2>3, ReportGoesOn
<1>2. CASE ~ req[h].many
  BY <1>2, ClerkRefuses DEF G!Skip
<1> QED
  BY <1>1, <1>2

\* A statement of a report that is read.
LEMMA ReportMoves ==
  ASSUME StatementInv, NEW h \in Clerks, req[h].op = "report", NEW place, place # "idle", NEW w,
         G!To(h, place, w), ReportsStay(work[h], w)
  PROVE  StatementInv'
<1>1. ReadingFits(req[h], work[h])
  BY DEF StatementInv, ClerkInv
<1>2. ReadingFits(req[h], w)
  BY <1>1, ReportStillFits
<1> QED
  BY <1>2, ClerkMoves

\* The columns of a reading.
LEMMA ReadingColumns ==
  ASSUME StatementInv, NEW h \in Clerks
  PROVE  DOMAIN work[h] = {"bills", "payments", "supplier", "summary", "paid", "reports", "left"}
         /\ DOMAIN G!NoReading = {"bills", "payments", "supplier", "summary", "paid", "reports", "left"}
<1>1. DOMAIN G!NoReading = {"bills", "payments", "supplier", "summary", "paid", "reports", "left"}
  BY DEF G!NoReading
<1> QED
  BY <1>1 DEF StatementInv, ClerkInv, ReadingFits
-----------------------------------------------------------------------------
\* The supplier of the report.
LEMMA ReportSupplierKeeps == ASSUME StatementInv, NEW h \in Clerks, G!ReportSupplier(h) PROVE StatementInv'
<1> DEFINE w == [work[h] EXCEPT !.supplier = G!Current(h)]
<1>1. req[h].op = "report"
  BY DEF G!ReportSupplier, G!At
<1>2. G!To(h, "summary", w) \/ G!Skip(h, "supplier not found")
  BY DEF G!ReportSupplier
<1>3. ReportsStay(work[h], w)
  BY ReadingColumns DEF ReportsStay
<1> HIDE DEF w
<1> QED
  BY <1>1, <1>2, <1>3, ReportMoves, ReportLeftOut

\* What was spent.
LEMMA ReportSummaryKeeps == ASSUME StatementInv, NEW h \in Clerks, G!ReportSummary(h) PROVE StatementInv'
<1> DEFINE w == [work[h] EXCEPT !.summary = G!Bills({G!Current(h)}, req[h].range)]
<1>1. req[h].op = "report"
  BY DEF G!ReportSummary, G!At
<1>2. G!To(h, "paid", w) \/ G!Skip(h, "failed to compute bill summary")
  BY DEF G!ReportSummary
<1>3. ReportsStay(work[h], w)
  BY ReadingColumns DEF ReportsStay
<1> HIDE DEF w
<1> QED
  BY <1>1, <1>2, <1>3, ReportMoves, ReportLeftOut

\* What was paid.
LEMMA ReportPaidKeeps == ASSUME StatementInv, NEW h \in Clerks, G!ReportPaid(h) PROVE StatementInv'
<1> DEFINE w == [work[h] EXCEPT !.paid = G!Payments({G!Current(h)}, req[h].range)]
<1>1. req[h].op = "report"
  BY DEF G!ReportPaid, G!At
<1>2. G!To(h, "bills", w) \/ G!To(h, "bills", work[h])
  BY DEF G!ReportPaid
<1>3. ReportsStay(work[h], w) /\ ReportsStay(work[h], work[h])
  BY ReadingColumns DEF ReportsStay
<1> HIDE DEF w
<1> QED
  BY <1>1, <1>2, <1>3, ReportMoves

\* The bills.
LEMMA ReportBillsKeeps == ASSUME StatementInv, NEW h \in Clerks, G!ReportBills(h) PROVE StatementInv'
<1> DEFINE w == [work[h] EXCEPT !.bills = G!Bills({G!Current(h)}, req[h].range)]
<1>1. req[h].op = "report"
  BY DEF G!ReportBills, G!At
<1>2. G!To(h, "payments", w) \/ G!Skip(h, "failed to fetch bills")
  BY DEF G!ReportBills
<1>3. ReportsStay(work[h], w)
  BY ReadingColumns DEF ReportsStay
<1> HIDE DEF w
<1> QED
  BY <1>1, <1>2, <1>3, ReportMoves, ReportLeftOut

\* The payments, and with them the report.
LEMMA ReportPaymentsKeeps == ASSUME StatementInv, NEW h \in Clerks, G!ReportPayments(h) PROVE StatementInv'
<1> DEFINE Made(listed) == [supplier |-> G!Current(h), total_spent |-> G!Total(work[h].summary),
                            total_payments |-> G!Total(work[h].paid),
                            closing_balance |-> G!Total(work[h].summary) - G!Total(work[h].paid),
                            bills |-> work[h].bills, payments |-> listed]
           ids == req[h].ids
           left == work[h].left
           done == Len(ids) - Len(left)
<1>1. req[h].op = "report"
  BY DEF G!ReportPayments, G!At
<1>2. \E listed : G!Next1(h, [work[h] EXCEPT !.reports = Append(@, Made(listed))])
  BY DEF G!ReportPayments
<1>3. PICK listed : G!Next1(h, [work[h] EXCEPT !.reports = Append(@, Made(listed))])
  BY <1>2
<1> DEFINE x == Made(listed)
           w == [work[h] EXCEPT !.reports = Append(@, x)]
<1>4. ReportFits(req[h], work[h])
  BY <1>1 DEF StatementInv, ClerkInv, ReadingFits
<1>5. x.supplier = G!Current(h)
  OBVIOUS
<1> HIDE DEF x
<1>6. w.left = left /\ w.reports = Append(work[h].reports, x)
  BY ReadingColumns
<1> HIDE DEF w
<1>7. /\ ids \in Seq(Recipients) /\ (req[h].many \/ Len(ids) = 1)
      /\ left \in Seq(Recipients) /\ Len(left) > 0 /\ done \in Nat
      /\ \A i \in 1..Len(left) : left[i] = ids[done + i]
      /\ IsSequence(work[h].reports) /\ Follows(work[h].reports, ids, done)
  BY <1>4 DEF ReportFits
<1>8. Len(ids) \in Nat /\ Len(left) \in Nat
  BY <1>7
<1> HIDE DEF ids, left
<1>9. x.supplier = ids[done + 1]
  <2>1. G!Current(h) = left[1]
    BY <1>7 DEF G!Current, left
  <2>2. 1 \in 1..Len(left)
    BY <1>7, <1>8
  <2> QED
    BY <1>5, <1>7, <2>1, <2>2
<1>10. /\ IsSequence(w.reports) /\ Follows(w.reports, ids, done + 1)
       /\ Len(w.reports) = Len(work[h].reports) + 1
  BY <1>6, <1>7, <1>9, FollowsNext
<1>11. req[h].many \/ Len(w.reports) = 1
  <2>1. CASE Len(ids) = 1
    <3>1. done = 0
      BY <1>7, <1>8, <2>1
    <3>2. Follows(work[h].reports, ids, 0)
      BY <1>7, <3>1
    <3>3. DOMAIN work[h].reports = {}
      BY <3>2 DEF Follows
    <3> DEFINE y == work[h].reports
               n == Len(y)
    <3>5. PICK T : y \in Seq(T)
      BY <1>7 DEF IsSequence
    <3>6. n \in Nat /\ DOMAIN y = 1..n
      BY <3>5
    <3>7. n = 0
      <4>1. 1..n = {}
        BY <3>3, <3>6
      <4> HIDE DEF n, y
      <4> QED
        BY <3>6, <4>1
    <3>4. Len(work[h].reports) = 0
      BY <3>7
    <3> QED
      BY <1>10, <3>4
  <2> QED
    BY <1>7, <2>1
<1>12. ReportMade(h, w)
  BY <1>6, <1>10, <1>11 DEF ReportMade, ids, left
<1>13. G!Next1(h, w)
  BY <1>3 DEF w, x
<1> QED
  BY <1>1, <1>12, <1>13, ReportGoesOn
-----------------------------------------------------------------------------
\* A request comes in: for the ledger, for reports, or one that is refused.
LEMMA ReceiveKeeps == ASSUME StatementInv, NEW h \in Clerks, G!Receive(h) PROVE StatementInv'
<1>1. pc[h] = "idle" /\ work[h] = G!NoReading
  BY DEF G!Receive, StatementInv, ClerkInv
<1>2. DOMAIN pc = Clerks /\ DOMAIN req = Clerks /\ DOMAIN work = Clerks /\ DOMAIN answer = Clerks
  BY DEF StatementInv
<1>3. AnswerHolds(G!NoAnswer)
  BY DEF AnswerHolds, G!NoAnswer
<1>4. CASE G!Reply(h, G!Refused("invalid date format")) \/ G!Reply(h, G!Refused("invalid supplier ids or date"))
  BY <1>4, ClerkRefuses
<1>5. ASSUME NEW r, r.op = "ledger", pc' = [pc EXCEPT ![h] = "bills"], req' = [req EXCEPT ![h] = r],
             answer' = [answer EXCEPT ![h] = G!NoAnswer], UNCHANGED <<G!tables, work>>
      PROVE  StatementInv'
  <2>1. OneClerkSteps(h)
    BY <1>2, <1>5 DEF OneClerkSteps, G!tables
  <2>2. pc'[h] = "bills" /\ req'[h] = r /\ answer'[h] = G!NoAnswer /\ work'[h] = G!NoReading
    BY <1>1, <1>2, <1>5
  <2>3. RowsRead({})
    BY FS_EmptySet DEF RowsRead
  <2>4. ReadingFits(r, G!NoReading)
    BY <1>5, <2>3 DEF ReadingFits, G!NoReading
  <2>5. ClerkInv(h)'
    BY <1>3, <2>2, <2>4 DEF ClerkInv
  <2> QED
    BY <2>1, <2>5, OneClerk
<1>6. ASSUME NEW ids \in G!SupplierLists, ids # <<>>, NEW r, r.op = "report",
             r.many \/ Len(ids) = 1, r.ids = G!parseSupplierIDList(ids),
             pc' = [pc EXCEPT ![h] = "supplier"], req' = [req EXCEPT ![h] = r],
             work' = [work EXCEPT ![h].left = G!parseSupplierIDList(ids)],
             answer' = [answer EXCEPT ![h] = G!NoAnswer], UNCHANGED G!tables
      PROVE  StatementInv'
  <2> DEFINE seen == G!parseSupplierIDList(ids)
             w == [G!NoReading EXCEPT !.left = seen]
  <2>1. ids \in Seq(Recipients)
    <3>1. ids \in [1..1 -> Recipients] \/ ids \in [1..2 -> Suppliers]
      BY <1>6 DEF G!SupplierLists, Recipients
    <3>2. CASE ids \in [1..1 -> Recipients]
      <4>1. 1 \in Nat
        OBVIOUS
      <4> QED
        BY <3>2, <4>1, TupleIn
    <3>3. CASE ids \in [1..2 -> Suppliers]
      <4>1. 2 \in Nat /\ ids \in [1..2 -> Recipients]
        BY <3>3 DEF Recipients
      <4> QED
        BY <4>1, TupleIn
    <3> QED
      BY <3>1, <3>2, <3>3
  <2>2. seen \in Seq(Recipients) /\ Distinct(seen) /\ Len(seen) >= 1 /\ Len(seen) <= Len(ids)
    BY <1>6, <2>1, IdsOnce
  <2> HIDE DEF seen
  <2>3. OneClerkSteps(h)
    BY <1>2, <1>6 DEF OneClerkSteps, G!tables
  <2>4. pc'[h] = "supplier" /\ req'[h] = r /\ answer'[h] = G!NoAnswer /\ work'[h] = w
    BY <1>1, <1>2, <1>6 DEF seen
  <2>5. w.left = seen /\ w.reports = <<>> /\ DOMAIN w = DOMAIN G!NoReading
    BY DEF G!NoReading
  <2> HIDE DEF w
  <2>6. Len(seen) \in Nat /\ Len(ids) \in Nat
    BY <2>1, <2>2
  <2>7. r.many \/ Len(seen) = 1
    <3>1. CASE r.many
      BY <3>1, Zenon
    <3>2. CASE Len(ids) = 1
      <4> DEFINE m == Len(seen)
                 n == Len(ids)
      <4>1. m \in Nat /\ n = 1 /\ m >= 1 /\ m <= n
        BY <2>2, <2>6, <3>2
      <4> HIDE DEF m, n
      <4>2. m = 1
        BY <4>1
      <4> QED
        BY <4>2 DEF m
    <3> QED
      BY <1>6, <3>1, <3>2, Zenon
  <2>8. Follows(<<>>, seen, 0) /\ IsSequence(<<>>)
    <3>1. <<>> \in Seq({}) /\ DOMAIN <<>> = {}
      OBVIOUS
    <3>2. [i \in {} |-> i] \in [DOMAIN <<>> -> 1..0]
      OBVIOUS
    <3>3. Follows(<<>>, seen, 0)
      BY <3>1, <3>2 DEF Follows
    <3> QED
      BY <3>1, <3>3 DEF IsSequence
  <2>9. Len(seen) - Len(seen) = 0
    BY <2>6
  <2>10. r.ids = seen
    BY <1>6 DEF seen
  <2>11. \A i \in 1..Len(seen) : seen[i] = seen[0 + i]
    BY <2>6
  <2>12. Len(seen) > 0
    BY <2>2, <2>6
  <2>13. ReportFits(r, w)
    BY <2>2, <2>5, <2>7, <2>8, <2>9, <2>10, <2>11, <2>12 DEF ReportFits
  <2>14. ReadingFits(r, w)
    BY <1>6, <2>5, <2>13 DEF ReadingFits
  <2>15. ClerkInv(h)'
    BY <1>3, <2>4, <2>14 DEF ClerkInv
  <2> QED
    BY <2>3, <2>15, OneClerk
<1>7. CASE /\ "ledger" \in Sheets
           /\ \E s \in G!Everyone \cup {{x} : x \in Suppliers}, from, to \in G!DateParams :
                IF G!BadDate \in {from, to} THEN G!Reply(h, G!Refused("invalid date format"))
                ELSE /\ pc' = [pc EXCEPT ![h] = "bills"]
                     /\ req' = [req EXCEPT ![h] = [op |-> "ledger", supplier |-> s,
                                                   range |-> G!parseDateRange(from, to)]]
                     /\ answer' = [answer EXCEPT ![h] = G!NoAnswer]
                     /\ UNCHANGED <<G!tables, work, changes>>
  <2>1. PICK s \in G!Everyone \cup {{x} : x \in Suppliers}, from \in G!DateParams, to \in G!DateParams :
                IF G!BadDate \in {from, to} THEN G!Reply(h, G!Refused("invalid date format"))
                ELSE /\ pc' = [pc EXCEPT ![h] = "bills"]
                     /\ req' = [req EXCEPT ![h] = [op |-> "ledger", supplier |-> s,
                                                   range |-> G!parseDateRange(from, to)]]
                     /\ answer' = [answer EXCEPT ![h] = G!NoAnswer]
                     /\ UNCHANGED <<G!tables, work, changes>>
    BY <1>7
  <2> DEFINE r == [op |-> "ledger", supplier |-> s, range |-> G!parseDateRange(from, to)]
  <2>2. r.op = "ledger"
    OBVIOUS
  <2>3. CASE G!Reply(h, G!Refused("invalid date format"))
    BY <1>4, <2>3
  <2>4. CASE /\ pc' = [pc EXCEPT ![h] = "bills"] /\ req' = [req EXCEPT ![h] = r]
             /\ answer' = [answer EXCEPT ![h] = G!NoAnswer] /\ UNCHANGED <<G!tables, work>>
    <3> HIDE DEF r
    <3> QED
      BY <1>5, <2>2, <2>4
  <2> QED
    BY <2>1, <2>3, <2>4
<1>8. CASE /\ "report" \in Sheets
           /\ \E ids \in G!SupplierLists, many \in BOOLEAN, to \in G!DateParams :
                IF to = G!BadDate \/ ids = <<>> \/ NoSupplier \in G!ToSet(ids)
                THEN G!Reply(h, G!Refused("invalid supplier ids or date"))
                ELSE /\ many \/ Len(ids) = 1
                     /\ pc' = [pc EXCEPT ![h] = "supplier"]
                     /\ req' = [req EXCEPT ![h] = [op |-> "report", many |-> many, ids |-> G!parseSupplierIDList(ids),
                                                   range |-> G!parseDateRange(G!NoDate, to)]]
                     /\ work' = [work EXCEPT ![h].left = G!parseSupplierIDList(ids)]
                     /\ answer' = [answer EXCEPT ![h] = G!NoAnswer]
                     /\ UNCHANGED <<G!tables, changes>>
  <2>1. PICK ids \in G!SupplierLists, many \in BOOLEAN, to \in G!DateParams :
                IF to = G!BadDate \/ ids = <<>> \/ NoSupplier \in G!ToSet(ids)
                THEN G!Reply(h, G!Refused("invalid supplier ids or date"))
                ELSE /\ many \/ Len(ids) = 1
                     /\ pc' = [pc EXCEPT ![h] = "supplier"]
                     /\ req' = [req EXCEPT ![h] = [op |-> "report", many |-> many, ids |-> G!parseSupplierIDList(ids),
                                                   range |-> G!parseDateRange(G!NoDate, to)]]
                     /\ work' = [work EXCEPT ![h].left = G!parseSupplierIDList(ids)]
                     /\ answer' = [answer EXCEPT ![h] = G!NoAnswer]
                     /\ UNCHANGED <<G!tables, changes>>
    BY <1>8
  <2> DEFINE r == [op |-> "report", many |-> many, ids |-> G!parseSupplierIDList(ids),
                   range |-> G!parseDateRange(G!NoDate, to)]
  <2>2. r.op = "report" /\ (r.many <=> many) /\ r.ids = G!parseSupplierIDList(ids)
    BY Zenon
  <2>3. CASE G!Reply(h, G!Refused("invalid supplier ids or date"))
    BY <1>4, <2>3
  <2>4. CASE /\ ids # <<>> /\ (many \/ Len(ids) = 1)
             /\ pc' = [pc EXCEPT ![h] = "supplier"] /\ req' = [req EXCEPT ![h] = r]
             /\ work' = [work EXCEPT ![h].left = G!parseSupplierIDList(ids)]
             /\ answer' = [answer EXCEPT ![h] = G!NoAnswer] /\ UNCHANGED G!tables
    <3> HIDE DEF r
    <3>1. r.many \/ Len(ids) = 1
      BY <2>2, <2>4
    <3> QED
      BY <1>6, <2>2, <2>4, <3>1
  <2> QED
    BY <2>1, <2>3, <2>4
<1> QED
  BY <1>7, <1>8 DEF G!Receive
-----------------------------------------------------------------------------
\* A row changes, or the suppliers: what the clerks have read stays.
LEMMA ClerksStay == ASSUME StatementInv, G!Change, SlipsInv' PROVE StatementInv'
<1>1. \A h \in Clerks : ClerkInv(h)'
  BY DEF G!Change, StatementInv, ClerkInv
<1> QED
  BY <1>1 DEF G!Change, StatementInv

\* A bill or a voucher is added or marked, or a bill removed.
LEMMA SlipsChange ==
  ASSUME StatementInv, G!Change,
         \/ DOMAIN purchase_bill' = DOMAIN purchase_bill
         \/ \E b \in Slips : DOMAIN purchase_bill' = DOMAIN purchase_bill \cup {b}
         \/ \E b \in DOMAIN purchase_bill : DOMAIN purchase_bill' = DOMAIN purchase_bill \ {b},
         \/ DOMAIN cash_voucher' = DOMAIN cash_voucher
         \/ \E v \in Slips : DOMAIN cash_voucher' = DOMAIN cash_voucher \cup {v}
  PROVE  StatementInv'
<1>1. /\ IsFiniteSet(DOMAIN purchase_bill) /\ DOMAIN purchase_bill \subseteq Slips
      /\ IsFiniteSet(DOMAIN cash_voucher) /\ DOMAIN cash_voucher \subseteq Slips
  BY DEF StatementInv, SlipsInv
<1>2. IsFiniteSet(DOMAIN purchase_bill') /\ DOMAIN purchase_bill' \subseteq Slips
  BY <1>1, OneMore
<1>3. IsFiniteSet(DOMAIN cash_voucher') /\ DOMAIN cash_voucher' \subseteq Slips
  BY <1>1, OneMore
<1> QED
  BY <1>2, <1>3, ClerksStay DEF SlipsInv

\* Every step keeps the invariant.
LEMMA StatementKeeps == ASSUME SlipsAreNumbers, StatementInv, [G!Next]_(G!vars) PROVE StatementInv'
<1>1. CASE UNCHANGED G!vars
  BY <1>1 DEF G!vars, StatementInv, SlipsInv, ClerkInv
<1>2. CASE \E h \in Clerks :
             \/ G!Receive(h)
             \/ G!LedgerBills(h) \/ G!LedgerPayments(h) \/ G!LedgerBuild(h)
             \/ G!ReportSupplier(h) \/ G!ReportSummary(h) \/ G!ReportPaid(h) \/ G!ReportBills(h)
             \/ G!ReportPayments(h)
  BY <1>2, ReceiveKeeps, LedgerBillsKeeps, LedgerPaymentsKeeps, LedgerBuildKeeps, ReportSupplierKeeps,
     ReportSummaryKeeps, ReportPaidKeeps, ReportBillsKeeps, ReportPaymentsKeeps
<1>3. CASE \E b \in DOMAIN purchase_bill : G!MarkBillReceived(b) \/ G!UnmarkBillReceived(b)
  <2>1. /\ G!Change /\ cash_voucher' = cash_voucher
        /\ \E b, x : purchase_bill' = [purchase_bill EXCEPT ![b].received = x]
    BY <1>3 DEF G!MarkBillReceived, G!UnmarkBillReceived
  <2>2. DOMAIN purchase_bill' = DOMAIN purchase_bill
    BY <2>1
  <2> QED
    BY <2>1, <2>2, SlipsChange
<1>4. ASSUME NEW b \in Slips, NEW s, NEW t, G!Bought(b, s, t) PROVE StatementInv'
  <2>1. G!Change /\ cash_voucher' = cash_voucher /\ DOMAIN purchase_bill' = DOMAIN purchase_bill \cup {b}
    BY <1>4 DEF G!Bought
  <2> QED
    BY <2>1, SlipsChange
<1>5. ASSUME NEW v \in Slips, NEW s, NEW t, G!Paid(v, s, t) PROVE StatementInv'
  <2>1. G!Change /\ purchase_bill' = purchase_bill /\ DOMAIN cash_voucher' = DOMAIN cash_voucher \cup {v}
    BY <1>5 DEF G!Paid
  <2> QED
    BY <2>1, SlipsChange
<1>6. CASE G!Removed
  <2>1. /\ G!Change /\ cash_voucher' = cash_voucher
        /\ \/ purchase_bill' = purchase_bill
           \/ \E b \in DOMAIN purchase_bill : DOMAIN purchase_bill' = DOMAIN purchase_bill \ {b}
    BY <1>6 DEF G!Removed
  <2> QED
    BY <2>1, SlipsChange
<1> QED
  BY <1>1, <1>2, <1>3, <1>4, <1>5, <1>6 DEF G!Next

\* The inductive invariant of the ledger and the reports.
THEOREM StatementsInductive == ASSUME SlipsAreNumbers PROVE G!Spec => []StatementInv
<1>1. G!Init => StatementInv
  BY StatementsStart
<1>2. StatementInv /\ [G!Next]_(G!vars) => StatementInv'
  BY StatementKeeps
<1> QED
  BY <1>1, <1>2, PTL DEF G!Spec

\* The ledger adds up, and reports are of the suppliers asked for (supplier_ledger.go:211,
\* supplier_report.go:154), for any number of handlers, suppliers, rows, changes and faults.
THEOREM StatementsHold == ASSUME SlipsAreNumbers PROVE G!Spec => [](G!LedgerAddsUp /\ G!ReportsOfThoseAsked)
  BY StatementsInductive, AnswersHold, PTL
=============================================================================
