-------------------------------- MODULE Files --------------------------------
(***************************************************************************)
(* Uploaded files (pkg/handlers/file.go) and the purchase bills that point *)
(* at them (purchase_bill.go).  A file is a row of uploaded_files and a    *)
(* file on disk, which no transaction covers together; a bill keeps the    *)
(* key of its PDF in a plain column and its attachments in a table whose   *)
(* foreign key follows the rows of uploaded_files.                         *)
(*                                                                         *)
(* An operator whose comment begins "A bug:" is a mutant: it changes the   *)
(* definition that follows it, and no part of Spec uses it.                *)
(***************************************************************************)
EXTENDS Naturals, FiniteSets

CONSTANTS
  Handlers,      \* the requests that are served at the same time
  Keys,          \* bound: the random keys that are ever generated
  Bills,         \* bound: the ids of purchase bills
  PdfSettings,   \* values of the setting pb_pdf_required that admins store
  MaxFaults      \* bound: failed statements, lost answers and crashes

VARIABLES
  uploaded_files, \* the keys with a row
  disk,           \* what is on disk under a key: nothing, a part, the whole
  purchase_bill,  \* the bills: the column pdf_link, and whether it holds a key
  attachments,    \* the rows of purchase_bill_attachments: a bill and a key
  setting,        \* pb_pdf_required
  pc, req,        \* per handler: where it stands and its request
  known,          \* the keys that clients were told
  faults,
  lost            \* history: keys whose row was stored by an insert that was
                  \* reported to have failed

vars == <<uploaded_files, disk, purchase_bill, attachments, setting, pc, req, known, faults, lost>>
tables == <<uploaded_files, purchase_bill, attachments, setting>>

Idle == [op |-> "none"]
NoBill == [stored |-> FALSE]

Init ==
  /\ uploaded_files = {}
  /\ disk = [k \in Keys |-> "nothing"]
  /\ purchase_bill = [b \in Bills |-> NoBill]
  /\ attachments = {}
  /\ setting = "required"
  /\ pc = [h \in Handlers |-> "idle"]
  /\ req = [h \in Handlers |-> Idle]
  /\ known = {}
  /\ faults = 0
  /\ lost = {}

Learn(h, place, r) == pc' = [pc EXCEPT ![h] = place] /\ req' = [req EXCEPT ![h] = r]
Goto(h, place) == Learn(h, place, req[h])
Answer(h) == Learn(h, "idle", Idle)
At(h, place) == pc[h] = place
Fail == faults < MaxFaults /\ faults' = faults + 1

\* Uploads, downloads and deletions of files clients know, and new bills.
Requests ==
  [op : {"upload"}]
  \cup [op : {"download", "delete"}, key : known]
  \cup [op : {"bill"}, pdf : {{}} \cup {{k} : k \in known}, attach : SUBSET known]

Receive(h) ==
  /\ At(h, "idle")
  /\ \E r \in Requests :
       Learn(h, CASE r.op = "upload" -> "create" [] r.op = "download" -> "row"
                  [] r.op = "delete" -> "drop" [] OTHER -> "setting", r)
  /\ UNCHANGED <<tables, disk, known, faults, lost>>

\* UpdateSettings stores any text under a key it knows.
ChangeSetting ==
  /\ setting' \in PdfSettings \ {setting}
  /\ Fail
  /\ UNCHANGED <<uploaded_files, purchase_bill, attachments, disk, pc, req, known, lost>>

\* The process dies: every handler with it, but neither disk nor tables.
Crash ==
  /\ \E h \in Handlers : ~ At(h, "idle")
  /\ Fail
  /\ pc' = [h \in Handlers |-> "idle"]
  /\ req' = [h \in Handlers |-> Idle]
  /\ UNCHANGED <<tables, disk, known, lost>>
----------------------------------------------------------------------------
(* UploadFile: the file first, then its row. *)

\* generateFileKey and os.Create: a fresh key, an empty file.
CreateOnDisk(h) ==
  /\ At(h, "create")
  /\ \E k \in Keys :
       /\ disk[k] = "nothing" /\ k \notin known \cup uploaded_files \cup lost
       /\ \A i \in Handlers : req[i].op = "upload" /\ ~ At(i, "create") => req[i].key # k
       /\ disk' = [disk EXCEPT ![k] = "part"]
       /\ Learn(h, "copy", [op |-> "upload", key |-> k])
  /\ UNCHANGED <<tables, known, faults, lost>>

\* A bug: the handler goes on to the row after a broken copy.
CopyUnnoticed(h) ==
  /\ At(h, "copy")
  /\ \/ disk' = [disk EXCEPT ![req[h].key] = "whole"] /\ UNCHANGED faults
     \/ Fail /\ UNCHANGED disk
  /\ Goto(h, "insert")
  /\ UNCHANGED <<tables, known, lost>>
\* io.Copy; a broken upload removes the file.
Copy(h) ==
  /\ At(h, "copy")
  /\ \/ /\ disk' = [disk EXCEPT ![req[h].key] = "whole"]
        /\ Goto(h, "insert")
        /\ UNCHANGED faults
     \/ /\ Fail
        /\ disk' = [disk EXCEPT ![req[h].key] = "nothing"]
        /\ Answer(h)
  /\ UNCHANGED <<tables, known, lost>>

\* The row.  After an error the file is removed, although an insert whose
\* answer was lost has stored the row.
InsertFile(h) ==
  LET k == req[h].key IN
  /\ At(h, "insert")
  /\ \/ /\ uploaded_files' = uploaded_files \cup {k}
        /\ known' = known \cup {k}
        /\ UNCHANGED <<disk, faults, lost>>
     \/ /\ Fail
        /\ disk' = [disk EXCEPT ![k] = "nothing"]
        /\ \/ UNCHANGED <<uploaded_files, lost>>
           \/ uploaded_files' = uploaded_files \cup {k} /\ lost' = lost \cup {k}
        /\ UNCHANGED known
  /\ Answer(h)
  /\ UNCHANGED <<purchase_bill, attachments, setting>>
----------------------------------------------------------------------------
(* DownloadFile and DeleteFile. *)

\* DownloadFile asks for the row first.
DownloadRow(h) ==
  /\ At(h, "row")
  /\ IF req[h].key \in uploaded_files THEN Goto(h, "serve") ELSE Answer(h)
  /\ UNCHANGED <<tables, disk, known, faults, lost>>

\* os.Stat and c.File: the file, or a 404 when it has gone meanwhile.
Serve(h) ==
  /\ At(h, "serve")
  /\ Answer(h)
  /\ UNCHANGED <<tables, disk, known, faults, lost>>

\* DeleteFile drops the row, whatever points at it; attachments follow it.
DropRow(h) ==
  LET k == req[h].key IN
  /\ At(h, "drop")
  /\ uploaded_files' = uploaded_files \ {k}
  /\ attachments' = {a \in attachments : a.key # k}
  /\ IF k \in uploaded_files THEN Goto(h, "unlink") ELSE Answer(h)
  /\ UNCHANGED <<purchase_bill, setting, disk, known, faults, lost>>

\* Then os.Remove, whose failure is logged.
Unlink(h) ==
  /\ At(h, "unlink")
  /\ \/ disk' = [disk EXCEPT ![req[h].key] = "nothing"] /\ UNCHANGED faults
     \/ Fail /\ UNCHANGED disk
  /\ Answer(h)
  /\ UNCHANGED <<tables, known, lost>>
----------------------------------------------------------------------------
(* AddPurchaseBill, as far as its files go; Stock has the goods. *)

\* Any text but these two makes the PDF optional.
PdfRequired(value) == value \in {"", "required"}

\* validatePurchaseBillPDFRequirement.
CheckPdf(h) ==
  /\ At(h, "setting")
  /\ IF PdfRequired(setting) /\ req[h].pdf = {}
     THEN Answer(h)
     ELSE Goto(h, "bill")
  /\ UNCHANGED <<tables, disk, known, faults, lost>>

\* The transaction: the column holds the address that was sent.
StoreBill(h) ==
  /\ At(h, "bill")
  /\ \E b \in Bills :
       /\ ~ purchase_bill[b].stored
       /\ purchase_bill' = [purchase_bill EXCEPT ![b] =
            [stored |-> TRUE, pdf |-> req[h].pdf, linked |-> FALSE]]
       /\ IF req[h].pdf = {}
          THEN Answer(h)
          ELSE Learn(h, "verify", [op |-> "bill", bill |-> b, pdf |-> req[h].pdf, attach |-> req[h].attach])
  /\ UNCHANGED <<uploaded_files, attachments, setting, disk, known, faults, lost>>

\* SavePurchaseBillAttachments, after the commit: no row for the PDF ends it,
\* and AddPurchaseBill passes over its error.
VerifyPdf(h) ==
  /\ At(h, "verify")
  /\ IF req[h].pdf \subseteq uploaded_files THEN Goto(h, "link") ELSE Answer(h)
  /\ UNCHANGED <<tables, disk, known, faults, lost>>

\* The column takes the key instead of the address.
LinkPdf(h) ==
  /\ At(h, "link")
  /\ \/ /\ purchase_bill' = [purchase_bill EXCEPT ![req[h].bill].linked = TRUE]
        /\ Goto(h, "attach")
        /\ UNCHANGED faults
     \/ Fail /\ Answer(h) /\ UNCHANGED purchase_bill
  /\ UNCHANGED <<uploaded_files, attachments, setting, disk, known, lost>>

\* One attachment after the other; one whose row has gone is left out, and
\* INSERT IGNORE passes over a refusal.
Attach(h) ==
  /\ At(h, "attach")
  /\ IF req[h].attach = {}
     THEN Answer(h) /\ UNCHANGED attachments
     ELSE \E k \in req[h].attach :
            /\ attachments' = IF k \in uploaded_files
                              THEN attachments \cup {[bill |-> req[h].bill, key |-> k]}
                              ELSE attachments
            /\ Learn(h, "attach", [req[h] EXCEPT !.attach = @ \ {k}])
  /\ UNCHANGED <<uploaded_files, purchase_bill, setting, disk, known, faults, lost>>
----------------------------------------------------------------------------
Next ==
  \/ ChangeSetting
  \/ Crash
  \/ \E h \in Handlers :
       \/ Receive(h)
       \/ CreateOnDisk(h) \/ Copy(h) \/ InsertFile(h)
       \/ DownloadRow(h) \/ Serve(h) \/ DropRow(h) \/ Unlink(h)
       \/ CheckPdf(h) \/ StoreBill(h) \/ VerifyPdf(h) \/ LinkPdf(h) \/ Attach(h)

Spec == Init /\ [][Next]_vars
----------------------------------------------------------------------------
\* A file with a row is whole on disk, through uploads, deletions, failures and
\* crashes; the exception is a row whose insert was reported to have failed
\* (file.go:271).  So a download that found the row gives the file or, when it
\* was deleted meanwhile, nothing.
RowsHaveWholeFiles ==
  /\ \A k \in uploaded_files \ lost : disk[k] = "whole"
  /\ \A h \in Handlers : At(h, "serve") => disk[req[h].key] \in {"whole", "nothing"}
=============================================================================
