----------------------------- MODULE Directory ------------------------------
(***************************************************************************)
(* The directory of the business: branches with their ZATCA configuration  *)
(* (pkg/handlers/branch.go, the onboarding request of pub.go), stores      *)
(* (store.go), clients, suppliers and the company (client.go, supplier.go, *)
(* company.go).  Every statement commits on its own.  A store names its    *)
(* branch through a foreign key that a deletion sets to null.              *)
(*                                                                         *)
(* Papers name a store: bills, products and purchase bills in a plain      *)
(* column, an order through a foreign key that a deletion sets to null,    *)
(* and a voucher through one that refuses the deletion; expenses, journal  *)
(* entries and stock movements do as vouchers (00001_baseline.sql).  The   *)
(* deletion of a store counts bills and products alone.                    *)
(*                                                                         *)
(* An operator whose comment begins "A bug:" is a mutant: it changes the   *)
(* definition that follows it, and no part of Spec uses it.                *)
(***************************************************************************)
EXTENDS Naturals

CONSTANTS
  Handlers,  \* the requests that are served at the same time
  Ops,       \* the routes this instance uses
  Branches, Stores, Papers, Parties, \* bounds: ids that are ever given
  Names,     \* names of branches, VAT numbers of clients
  MaxFaults  \* bound: failed statements and lost answers

VARIABLES
  branches,  \* the rows of branches, by id: their name
  store,     \* the rows of store, by id: the branch, if any
  papers,    \* what names a store: its kind, and the store, if any
  zatca,     \* branch_zatca_config, by branch: the status, and whether it has credentials
  client,    \* by id: the VAT number, whether it is deleted
  supplier,  \* by id: the credit limit, whether it is deleted
  company_name,
  mail,      \* onboarding requests under way: the branch, and the daemon's answer
  given,     \* ids are never given twice
  pc, req,   \* per handler: where it stands and its request
  faults

vars == <<branches, store, papers, zatca, client, supplier, company_name, mail, given, pc, req, faults>>
places == <<branches, store, papers, zatca>>
partners == <<client, supplier, company_name>>

Idle == [op |-> "none"]
NoConfig == [status |-> "not active", credentials |-> FALSE]

\* Two branches exist, and a store of one of them; any ids would do.
Init ==
  /\ LET b == CHOOSE b \in Branches : TRUE
         other == CHOOSE c \in Branches \ {b} : TRUE
         n == CHOOSE n \in Names : TRUE
         s == CHOOSE s \in Stores : TRUE
     IN  /\ branches = [c \in {b, other} |-> IF c = b THEN n ELSE CHOOSE m \in Names \ {n} : TRUE]
         /\ store = [t \in {s} |-> {b}]
  /\ papers = [p \in {} |-> {}]
  /\ zatca = [b \in {} |-> NoConfig]
  /\ client = [c \in {} |-> {}] /\ supplier = [s \in {} |-> {}] /\ company_name = CHOOSE n \in Names : TRUE
  /\ mail = [h \in Handlers |-> "none"]
  /\ given = DOMAIN branches \cup DOMAIN store
  /\ pc = [h \in Handlers |-> "idle"]
  /\ req = [h \in Handlers |-> Idle]
  /\ faults = 0

Goto(h, place) == pc' = [pc EXCEPT ![h] = place] /\ UNCHANGED req
Answer(h) ==
  /\ pc' = [pc EXCEPT ![h] = "idle"]
  /\ req' = [req EXCEPT ![h] = Idle]
At(h, op, place) == pc[h] = place /\ req[h].op = op
Fail == faults < MaxFaults /\ faults' = faults + 1
Put(f, k, v) == [x \in DOMAIN f \cup {k} |-> IF x = k THEN v ELSE f[x]]
Without(f, k) == [x \in DOMAIN f \ {k} |-> f[x]]

Kinds == {"bill", "product", "purchase bill", "order", "voucher"}

\* What clients ask for: rows they saw listed, which may have gone since.
Requests ==
  LET OldBranches == given \cap Branches
      OldStores == given \cap Stores
      Homes == {{}} \cup {{b} : b \in OldBranches}
  IN
     [op : {"create branch"}, name : Names]
     \cup [op : {"update branch"}, branch : OldBranches, name : Names]
     \cup [op : {"delete branch", "get branch", "onboard"}, branch : OldBranches]
     \cup [op : {"zatca"}, branch : OldBranches, body : OldBranches]
     \cup [op : {"create store"}, home : Homes]
     \cup [op : {"update store"}, store : OldStores, home : Homes]
     \cup [op : {"delete store"}, store : OldStores]
     \cup [op : {"paper"}, kind : Kinds, store : OldStores]
     \cup [op : {"drop product"}, paper : {p \in DOMAIN papers : papers[p].kind = "product"}]
     \cup [op : {"client"}, id : Parties, vat : Names]
     \cup [op : {"supplier"}, id : Parties, limit : {{}, {"some"}}]
     \cup [op : {"delete client"}, id : DOMAIN client]
     \cup [op : {"delete supplier"}, id : DOMAIN supplier]
     \cup [op : {"company"}, name : Names]

Checked == {"create store", "update store", "zatca", "paper"}
FirstPlace(r) ==
  CASE r.op \in {"delete branch", "delete store"} -> "count"
    [] r.op \in Checked -> "check"
    [] OTHER -> "write"

Receive(h) ==
  /\ pc[h] = "idle"
  /\ \E r \in Requests :
       /\ r.op \in Ops
       /\ pc' = [pc EXCEPT ![h] = FirstPlace(r)]
       /\ req' = [req EXCEPT ![h] = r]
  /\ UNCHANGED <<places, partners, mail, given, faults>>
----------------------------------------------------------------------------
(* Branches and stores. *)

\* CreateBranch and UpdateBranch are one statement, which a taken name refuses.
CreateBranch(h) ==
  /\ At(h, "create branch", "write")
  /\ IF \E b \in DOMAIN branches : branches[b] = req[h].name
     THEN UNCHANGED <<branches, given>>
     ELSE \E b \in Branches \ given :
            branches' = Put(branches, b, req[h].name) /\ given' = given \cup {b}
  /\ Answer(h)
  /\ UNCHANGED <<store, papers, zatca, partners, mail, faults>>

UpdateBranch(h) ==
  LET b == req[h].branch IN
  /\ At(h, "update branch", "write")
  /\ branches' = IF b \in DOMAIN branches /\ ~ \E a \in DOMAIN branches \ {b} : branches[a] = req[h].name
                 THEN [branches EXCEPT ![b] = req[h].name]
                 ELSE branches
  /\ Answer(h)
  /\ UNCHANGED <<store, papers, zatca, partners, mail, given, faults>>

\* GetBranch: the branch, then its stores, none when that read fails.
GetBranch(h) ==
  /\ pc[h] \in {"write", "stores"} /\ req[h].op = "get branch"
  /\ IF pc[h] = "write" /\ req[h].branch \in DOMAIN branches THEN Goto(h, "stores") ELSE Answer(h)
  /\ UNCHANGED <<places, partners, mail, given, faults>>

StoresOf(b) == {s \in DOMAIN store : b \in store[s]}
OfKind(kind, s) == {p \in DOMAIN papers : papers[p].kind = kind /\ s \in papers[p].store}

\* What a count finds: the stores of a branch; the bills of a store, and then
\* its products.
\* A bug: the second count, too, is of the bills.
CountedBillsTwice(h) ==
  IF req[h].op = "delete branch" THEN StoresOf(req[h].branch) ELSE OfKind("bill", req[h].store)
Counted(h) ==
  IF req[h].op = "delete branch" THEN StoresOf(req[h].branch)
  ELSE OfKind(IF pc[h] = "count" THEN "bill" ELSE "product", req[h].store)

\* DeleteBranch and DeleteStore refuse when a count finds anything.  Its error
\* is not looked at: then it found nothing.
CountLinks(h) ==
  LET next == IF pc[h] = "count" /\ req[h].op = "delete store" THEN "count products" ELSE "delete" IN
  /\ pc[h] \in {"count", "count products"}
  /\ \/ /\ IF Counted(h) # {} THEN Answer(h) ELSE Goto(h, next)
        /\ UNCHANGED faults
     \/ Fail /\ Goto(h, next)
  /\ UNCHANGED <<places, partners, mail, given>>

\* The deletion: stores lose their branch, and the configuration goes with it.
DeleteBranch(h) ==
  LET b == req[h].branch IN
  /\ At(h, "delete branch", "delete")
  /\ branches' = Without(branches, b)
  /\ store' = [s \in DOMAIN store |-> store[s] \ {b}]
  /\ zatca' = Without(zatca, b)
  /\ Answer(h)
  /\ UNCHANGED <<papers, partners, mail, given, faults>>

\* A voucher refuses it, orders lose the store, and all else keeps naming it.
DeleteStore(h) ==
  LET s == req[h].store IN
  /\ At(h, "delete store", "delete")
  /\ IF OfKind("voucher", s) # {}
     THEN UNCHANGED <<store, papers>>
     ELSE /\ store' = Without(store, s)
          /\ papers' = [p \in DOMAIN papers |->
                          IF papers[p].kind = "order" THEN [papers[p] EXCEPT !.store = @ \ {s}] ELSE papers[p]]
  /\ Answer(h)
  /\ UNCHANGED <<branches, zatca, partners, mail, given, faults>>

\* CreateStore and UpdateStore, and UpdateBranchZatcaConfig: does the branch
\* exist?  Here a failed read is a refusal.
CheckBranch(h) ==
  LET wanted == IF req[h].op = "zatca" THEN {req[h].branch} ELSE req[h].home IN
  /\ pc[h] = "check" /\ req[h].op # "paper"
  /\ \/ /\ IF wanted \subseteq DOMAIN branches THEN Goto(h, "write") ELSE Answer(h)
        /\ UNCHANGED faults
     \/ wanted # {} /\ Fail /\ Answer(h)
  /\ UNCHANGED <<places, partners, mail, given>>

\* The write, which the foreign key refuses when the branch has gone meanwhile.
WriteStore(h) ==
  LET r == req[h] IN
  /\ pc[h] = "write" /\ r.op \in {"create store", "update store"}
  /\ IF r.op = "create store" /\ r.home \subseteq DOMAIN branches
     THEN \E s \in Stores \ given : store' = Put(store, s, r.home) /\ given' = given \cup {s}
     ELSE /\ store' = IF r.op = "update store" /\ r.home \subseteq DOMAIN branches /\ r.store \in DOMAIN store
                      THEN [store EXCEPT ![r.store] = r.home]
                      ELSE store
          /\ UNCHANGED given
  /\ Answer(h)
  /\ UNCHANGED <<branches, papers, zatca, partners, mail, faults>>

\* A paper is written after a look at the stores there are (getStoreIds, or a
\* count of the one it names); other modules have all else about papers.
CheckStore(h) ==
  /\ At(h, "paper", "check")
  /\ \/ /\ IF req[h].store \in DOMAIN store THEN Goto(h, "write") ELSE Answer(h)
        /\ UNCHANGED faults
     \/ Fail /\ Answer(h)
  /\ UNCHANGED <<places, partners, mail, given>>

\* The write, which refuses a store that has gone only where a foreign key does;
\* and the deletion of a product.
WritePaper(h) ==
  LET r == req[h]
      refused == r.kind \in {"order", "voucher"} /\ r.store \notin DOMAIN store
  IN
  /\ pc[h] = "write" /\ r.op \in {"paper", "drop product"}
  /\ IF r.op = "drop product"
     THEN papers' = Without(papers, r.paper) /\ UNCHANGED given
     ELSE IF refused THEN UNCHANGED <<papers, given>>
     ELSE \E p \in Papers \ given :
            /\ papers' = Put(papers, p, [kind |-> r.kind, store |-> {r.store}])
            /\ given' = given \cup {p}
  /\ Answer(h)
  /\ UNCHANGED <<branches, store, zatca, partners, mail, faults>>
----------------------------------------------------------------------------
(* ZATCA. *)

\* UpdateBranchZatcaConfig writes the row that the body names, not the address;
\* credentials stay as they are.
SaveConfig(h) ==
  LET b == req[h].body
      old == IF b \in DOMAIN zatca THEN zatca[b] ELSE NoConfig
  IN
  /\ At(h, "zatca", "write")
  /\ IF b \in DOMAIN branches
     THEN \E status \in {"active", "not active"} :
            zatca' = Put(zatca, b, [old EXCEPT !.status = status])
     ELSE UNCHANGED zatca
  /\ Answer(h)
  /\ UNCHANGED <<branches, store, papers, partners, mail, given, faults>>

\* OnboardBranchZatca: the request to the daemon, if there is one.
AskDaemon(h) ==
  /\ At(h, "onboard", "write")
  /\ \/ mail' = [mail EXCEPT ![h] = "asked"] /\ Goto(h, "wait") /\ UNCHANGED faults
     \/ Fail /\ Answer(h) /\ UNCHANGED mail
  /\ UNCHANGED <<places, partners, given>>

\* The daemon answers at once, and onboards the branch when it accepted.
DaemonAnswers(h) ==
  LET b == req[h].branch IN
  /\ At(h, "onboard", "wait") /\ mail[h] = "asked"
  /\ \/ /\ b \in DOMAIN branches
        /\ mail' = [mail EXCEPT ![h] = "accepted"]
        /\ zatca' = Put(zatca, b, [(IF b \in DOMAIN zatca THEN zatca[b] ELSE NoConfig)
                                     EXCEPT !.status = "active", !.credentials = TRUE])
     \/ mail' = [mail EXCEPT ![h] = "refused"] /\ UNCHANGED zatca
  /\ UNCHANGED <<branches, store, papers, partners, given, pc, req, faults>>

\* The answer, or none after ten seconds.
OnboardAnswer(h) ==
  /\ At(h, "onboard", "wait")
  /\ \/ mail[h] \in {"accepted", "refused"} /\ UNCHANGED faults
     \/ Fail
  /\ mail' = [mail EXCEPT ![h] = "none"]
  /\ Answer(h)
  /\ UNCHANGED <<places, partners, given>>
----------------------------------------------------------------------------
(* Clients, suppliers, the company: one statement each. *)

\* CreateClient and UpdateClient: the unique key spans deleted clients too, and
\* an update does not ask whether the client is deleted.
WriteClient(h) ==
  LET r == req[h] IN
  /\ At(h, "client", "write")
  /\ client' = IF \E c \in DOMAIN client \ {r.id} : client[c].vat = r.vat
               THEN client
               ELSE Put(client, r.id, [vat |-> r.vat, deleted |-> r.id \in DOMAIN client /\ client[r.id].deleted])
  /\ Answer(h)
  /\ UNCHANGED <<places, supplier, company_name, mail, given, faults>>

\* AddSupplier stores the credit limit, zero when there is none.  EditSupplier
\* turns one that is given into zero, and panics when there is none.
WriteSupplier(h) ==
  LET r == req[h] IN
  /\ At(h, "supplier", "write")
  /\ supplier' = IF r.id \notin DOMAIN supplier
                 THEN Put(supplier, r.id, [limit |-> r.limit, deleted |-> FALSE])
                 ELSE IF r.limit # {} THEN [supplier EXCEPT ![r.id].limit = {}] ELSE supplier
  /\ Answer(h)
  /\ UNCHANGED <<places, client, company_name, mail, given, faults>>

\* DeleteClient and DeleteSupplier set a flag.
DeletePartner(h) ==
  /\ pc[h] = "write" /\ req[h].op \in {"delete client", "delete supplier"}
  /\ IF req[h].op = "delete client"
     THEN client' = [client EXCEPT ![req[h].id].deleted = TRUE] /\ UNCHANGED supplier
     ELSE supplier' = [supplier EXCEPT ![req[h].id].deleted = TRUE] /\ UNCHANGED client
  /\ Answer(h)
  /\ UNCHANGED <<places, company_name, mail, given, faults>>

UpdateCompany(h) ==
  /\ At(h, "company", "write")
  /\ company_name' = req[h].name
  /\ Answer(h)
  /\ UNCHANGED <<places, client, supplier, mail, given, faults>>
----------------------------------------------------------------------------
Next ==
  \E h \in Handlers :
    \/ Receive(h)
    \/ CreateBranch(h) \/ UpdateBranch(h) \/ GetBranch(h)
    \/ CountLinks(h) \/ DeleteBranch(h) \/ DeleteStore(h)
    \/ CheckBranch(h) \/ WriteStore(h) \/ CheckStore(h) \/ WritePaper(h)
    \/ SaveConfig(h) \/ AskDaemon(h) \/ DaemonAnswers(h) \/ OnboardAnswer(h)
    \/ WriteClient(h) \/ WriteSupplier(h) \/ DeletePartner(h) \/ UpdateCompany(h)

Spec == Init /\ [][Next]_vars
----------------------------------------------------------------------------
\* No store names a branch that is gone, no branch that is gone has a configuration, and no
\* order or voucher names a store that is gone, whatever is deleted between the check of a
\* request and its write (store.go:298, branch.go:406, order.go:157, cash_vouchar.go:355).
ReferencesHold ==
  /\ \A s \in DOMAIN store : store[s] \subseteq DOMAIN branches
  /\ DOMAIN zatca \subseteq DOMAIN branches
  /\ \A p \in DOMAIN papers : papers[p].kind \in {"order", "voucher"} => papers[p].store \subseteq DOMAIN store

\* "Prevents deletion if it has linked bills or products." (store.go:331), "Prevents deletion
\* if it has linked stores." (branch.go:325), where requests come one at a time and none of
\* their statements fails: no bill or product names a store that is gone, and a branch that is
\* about to be deleted is no store's.
DeletionTakesNothing ==
  /\ \A p \in DOMAIN papers : papers[p].kind \in {"bill", "product"} => papers[p].store \subseteq DOMAIN store
  /\ \A h \in Handlers : At(h, "delete branch", "delete") => StoresOf(req[h].branch) = {}
=============================================================================
