------------------------------ MODULE Settings ------------------------------
(***************************************************************************)
(* Settings (pkg/handlers/setting.go), notifications (notification.go) and *)
(* the one consumer of settings beside the stock and purchase handlers,    *)
(* sending an invoice by WhatsApp (whatsapp.go).  A form shows a mask in   *)
(* place of the access token, and sends it back when it is saved: then the *)
(* handler reads the token and writes it again.                            *)
(*                                                                         *)
(* An operator whose comment begins "A bug:" is a mutant: it changes the   *)
(* definition that follows it, and no part of Spec uses it.                *)
(***************************************************************************)
EXTENDS Naturals, FiniteSets

CONSTANTS
  Handlers,  \* the requests that are served at the same time
  Ops,       \* the routes this instance uses
  FormKeys,  \* the keys that forms send
  Tokens,    \* the access tokens that admins type
  Users,
  MaxNotes,  \* bound: notifications
  MaxSent,   \* bound: messages sent
  MaxFaults  \* bound: failed statements and lost answers

VARIABLES
  settings,  \* the table, by key
  notification_settings, \* by user: what the form last said
  notifications,         \* the rows: a user, and whether read
  media, sent,           \* at WhatsApp: documents uploaded, messages sent
  pc, req,   \* per handler: where it stands and its request
  got,       \* per handler: the access token it has read
  faults,
  typed,     \* history: the token that was last typed into a form and stored
  stale      \* history: a token read before was written over a newer one

vars == <<settings, notification_settings, notifications, media, sent, pc, req, got, faults, typed, stale>>
tables == <<settings, notification_settings, notifications>>
whatsapp == <<media, sent>>
history == <<typed, stale>>

Mask == "********"
Token == "whatsapp_access_token"
Enabled == "whatsapp_enabled"
Other == "theme"
Keys == {Token, Enabled, Other}
settingCategories == [k \in Keys |-> IF k = Other THEN "appearance" ELSE "integrations"]
Values(k) == IF k = Token THEN Tokens \cup {"", Mask} ELSE {"true", "false"}

Idle == [op |-> "none"]
Defaults == [low_stock |-> TRUE, summary |-> FALSE]

Init ==
  /\ settings = [k \in Keys |-> IF k = Token THEN "" ELSE "true"]
  /\ notification_settings = [u \in {} |-> Defaults]
  /\ notifications \in {{}, {[id |-> i, user |-> CHOOSE u \in Users : TRUE, read |-> FALSE] : i \in 1..MaxNotes}}
  /\ media = {} /\ sent = {}
  /\ pc = [h \in Handlers |-> "idle"]
  /\ req = [h \in Handlers |-> Idle]
  /\ got = [h \in Handlers |-> ""]
  /\ faults = 0
  /\ typed = "" /\ stale = FALSE

Learn(h, place, r, token) ==
  /\ pc' = [pc EXCEPT ![h] = place]
  /\ req' = [req EXCEPT ![h] = r]
  /\ got' = [got EXCEPT ![h] = token]
Answer(h) == Learn(h, "idle", Idle, "")
At(h, op, place) == pc[h] = place /\ req[h].op = op
Fail == faults < MaxFaults /\ faults' = faults + 1

\* A form sends some keys, of its category or not; preferences may be left out
\* of theirs.
Forms == UNION {[K -> UNION {Values(k) : k \in K}] : K \in SUBSET FormKeys \ {{}}}
Requests ==
  [op : {"save"}, category : {"appearance", "integrations", "unknown"},
   form : {f \in Forms : \A k \in DOMAIN f : f[k] \in Values(k)}]
  \cup [op : {"send"}, bill : {1}, phone : {"good", "missing", "bad"}]
  \cup [op : {"preferences"}, user : Users, low_stock : SUBSET BOOLEAN, summary : SUBSET BOOLEAN]
  \cup [op : {"read"}, user : Users, notes : {{i} : i \in 1..MaxNotes} \cup {1..MaxNotes}]

Receive(h) ==
  /\ pc[h] = "idle"
  /\ \E r \in Requests :
       /\ r.op \in Ops
       /\ r.op = "preferences" => Cardinality(r.low_stock) <= 1 /\ Cardinality(r.summary) <= 1
       /\ Learn(h, "start", r, "")
  /\ UNCHANGED <<tables, whatsapp, faults, history>>
----------------------------------------------------------------------------
(* UpdateSettings: key by key, in any order. *)

\* The keys the form may write: known, and of the category it names.
Allowed(r) == {k \in DOMAIN r.form : settingCategories[k] = r.category}
Rest(r, k) == [r EXCEPT !.form = [j \in Allowed(r) \ {k} |-> r.form[j]]]
Continue(h, k) == Learn(h, "start", Rest(req[h], k), "")

\* shouldPreserveSettingValue.
\* A bug: only the mask is recognised.
PreservesMaskOnly(k, value) == k = Token /\ value = Mask
Preserves(k, value) == k = Token /\ value \in {"", Mask}

SaveDone(h) ==
  /\ At(h, "save", "start")
  /\ Allowed(req[h]) = {}
  /\ Answer(h)
  /\ UNCHANGED <<tables, whatsapp, faults, history>>

\* One value as it was typed.  An upsert that fails is passed over.
SaveKey(h) ==
  /\ At(h, "save", "start")
  /\ \E k \in Allowed(req[h]) :
       LET value == req[h].form[k] IN
       /\ ~ Preserves(k, value)
       /\ \/ /\ settings' = [settings EXCEPT ![k] = value]
             /\ typed' = IF k = Token /\ value \in Tokens THEN value ELSE typed
             /\ stale' = IF k = Token THEN FALSE ELSE stale
             /\ UNCHANGED faults
          \/ Fail /\ UNCHANGED <<settings, history>>
       /\ Continue(h, k)
  /\ UNCHANGED <<notification_settings, notifications, whatsapp>>

\* The mask, or a blank: what is stored now?  An error or nothing ends it.
ReadToken(h) ==
  /\ At(h, "save", "start")
  /\ Token \in Allowed(req[h]) /\ Preserves(Token, req[h].form[Token])
  /\ \/ /\ IF settings[Token] = "" THEN Continue(h, Token) ELSE Learn(h, "write back", req[h], settings[Token])
        /\ UNCHANGED faults
     \/ Fail /\ Continue(h, Token)
  /\ UNCHANGED <<tables, whatsapp, history>>

\* That value is written back.
WriteTokenBack(h) ==
  /\ At(h, "save", "write back")
  /\ \/ /\ settings' = [settings EXCEPT ![Token] = got[h]]
        /\ stale' = (got[h] # typed)
        /\ UNCHANGED faults
     \/ Fail /\ UNCHANGED <<settings, stale>>
  /\ Continue(h, Token)
  /\ UNCHANGED <<notification_settings, notifications, whatsapp, typed>>
----------------------------------------------------------------------------
(* Notifications. *)

\* UpdateNotificationConfig: what the form leaves out takes its default value,
\* not the stored one.
SavePreferences(h) ==
  LET Or(options, default) == IF options = {} THEN default ELSE CHOOSE x \in options : TRUE
      u == req[h].user
      new == [low_stock |-> Or(req[h].low_stock, Defaults.low_stock),
              summary |-> Or(req[h].summary, Defaults.summary)]
  IN
  /\ At(h, "preferences", "start")
  /\ \/ /\ notification_settings' = [v \in DOMAIN notification_settings \cup {u} |->
                                       IF v = u THEN new ELSE notification_settings[v]]
        /\ UNCHANGED faults
     \/ Fail /\ UNCHANGED notification_settings
  /\ Answer(h)
  /\ UNCHANGED <<settings, notifications, whatsapp, history>>

\* MarkNotificationRead and MarkAllNotificationsRead.
MarkRead(h) ==
  LET mine == {n \in notifications : n.user = req[h].user /\ n.id \in req[h].notes} IN
  /\ At(h, "read", "start")
  /\ \/ /\ notifications' = (notifications \ mine) \cup {[n EXCEPT !.read = TRUE] : n \in mine}
        /\ UNCHANGED faults
     \/ Fail /\ UNCHANGED notifications
  /\ Answer(h)
  /\ UNCHANGED <<settings, notification_settings, whatsapp, history>>
----------------------------------------------------------------------------
(* SendBillWhatsApp. *)

\* All settings in one query; it must be enabled and have a token.  Then the
\* bill and its phone number.
SendCheck(h) ==
  /\ At(h, "send", "start")
  /\ \/ /\ IF settings[Enabled] = "true" /\ settings[Token] # "" /\ req[h].phone = "good"
           THEN Learn(h, "upload", req[h], settings[Token])
           ELSE Answer(h)
        /\ UNCHANGED faults
     \/ Fail /\ Answer(h)
  /\ UNCHANGED <<tables, whatsapp, history>>

\* The document first, then the message that points at it; either may be
\* refused, and an answer may be lost although WhatsApp has done it.
Upload(h) ==
  /\ At(h, "send", "upload")
  /\ \/ /\ media' = media \cup {[bill |-> req[h].bill, token |-> got[h]]}
        /\ Learn(h, "message", req[h], got[h])
        /\ UNCHANGED faults
     \/ Fail /\ Answer(h) /\ UNCHANGED media
  /\ UNCHANGED <<tables, sent, history>>

SendMessage(h) ==
  /\ At(h, "send", "message")
  /\ Cardinality(sent) < MaxSent
  /\ sent' = sent \cup {[n |-> Cardinality(sent) + 1, bill |-> req[h].bill, token |-> got[h]]}
  /\ UNCHANGED faults \/ Fail
  /\ Answer(h)
  /\ UNCHANGED <<tables, media, history>>

MessageRefused(h) ==
  /\ At(h, "send", "message")
  /\ Fail
  /\ Answer(h)
  /\ UNCHANGED <<tables, whatsapp, history>>

Next ==
  \E h \in Handlers :
    \/ Receive(h)
    \/ SaveDone(h) \/ SaveKey(h) \/ ReadToken(h) \/ WriteTokenBack(h)
    \/ SavePreferences(h) \/ MarkRead(h)
    \/ SendCheck(h) \/ Upload(h) \/ SendMessage(h) \/ MessageRefused(h)

Spec == Init /\ [][Next]_vars
----------------------------------------------------------------------------
\* The stored access token is the one an administrator typed last; a form that
\* was only shown, with the mask or a blank in its place, changes nothing.  The
\* exception is a form whose handler read the token before another one was
\* typed and writes it back after that (setting.go:228-240).
TokenKept == settings[Token] = typed \/ stale

\* Whatever is sent is sent with a token that an administrator typed.
SentWithTypedToken == \A m \in sent \cup media : m.token \in Tokens
=============================================================================
