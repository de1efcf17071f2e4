------------------------------ MODULE Accounts ------------------------------
(***************************************************************************)
(* Accounts and sessions (pkg/handlers/auth.go, user_admin.go): logging    *)
(* in, refreshing and ending sessions, passwords, and the administration   *)
(* of users.  No handler opens a transaction: each statement is a step of  *)
(* its own, and those the code calls best-effort may fail unnoticed; an    *)
(* error that ends a request with nothing changed is left out.             *)
(*                                                                         *)
(* A token is a signed statement of its user and of the second in which it *)
(* was made, so two tokens of one user and one second are the same string. *)
(* Lifetimes (15 minutes, 30 days, an hour) are beyond the clock's bound.  *)
(*                                                                         *)
(* An operator whose comment begins "A bug:" is a mutant: it changes the   *)
(* definition that follows it, and no part of Spec uses it.                *)
(***************************************************************************)
EXTENDS Naturals, FiniteSets

CONSTANTS
  Handlers,      \* the requests that are served at the same time
  Ops,           \* the routes this instance uses
  Users,         \* bound: the ids that are ever given
  Admins, Staff, \* the users there are at first: active admins and employees
  Names, Emails, \* usernames and addresses that are ever asked for
  Passwords,
  Sessions,      \* bound: the rows refresh_token ever holds
  Resets,        \* bound: the rows of password_reset_tokens
  MaxSecond,     \* bound: the seconds of the clock
  MaxFaults      \* bound: the statements that fail

VARIABLES
  user,          \* the table user, by id
  refresh_token, \* the rows of that table: a session, its user and its token's second
  reset_token,   \* the rows of password_reset_tokens
  user_permission, \* the users with the default permissions
  clock,         \* seconds
  access,        \* the access tokens given out: a user and the role it says
  issued,        \* the refresh tokens given out
  pc, req, got,  \* per handler: where it stands, its request, what it has read
  faults,        \* statements that have failed
  ended,         \* history: sessions whose row was deleted
  unguarded      \* history: an active admin was removed by a handler that
                 \* could not read the role, or read what no longer held

vars == <<user, refresh_token, reset_token, user_permission, clock, access, issued, pc, req, got,
          faults, ended, unguarded>>
tables == <<user, refresh_token, reset_token, user_permission>>
history == <<ended, unguarded>>

Roles == {"admin", "manager", "employee"}
Row(name, email, role, active, password) ==
  [name |-> name, email |-> email, role |-> role, active |-> active, password |-> password]
Nothing == [session |-> {}, role |-> "none", admins |-> 0, reset |-> {}, created |-> {}]
Idle == [op |-> "none"]

ActiveAdmins == {u \in DOMAIN user : user[u].role = "admin" /\ user[u].active}

\* Everyone signed in earlier, under some name, and still holds an access token.
Init ==
  /\ \E email \in [Users -> Emails], p \in Passwords :
       LET name == CHOOSE f \in [Admins \cup Staff -> Names] :
                     \A u, v \in Admins \cup Staff : u # v => f[u] # f[v]
       IN user = [u \in Admins \cup Staff |->
                    Row(name[u], email[u], IF u \in Admins THEN "admin" ELSE "employee", TRUE, p)]
  /\ refresh_token = {}
  /\ reset_token = {}
  /\ user_permission = {}
  /\ clock = 0
  /\ access = {[user |-> u, role |-> user[u].role] : u \in Admins \cup Staff}
  /\ issued = {}
  /\ pc = [h \in Handlers |-> "idle"]
  /\ req = [h \in Handlers |-> Idle]
  /\ got = [h \in Handlers |-> Nothing]
  /\ faults = 0
  /\ ended = {}
  /\ unguarded = FALSE

\* The handler goes on at a place, knowing g, or answers.
Learn(h, place, g) ==
  /\ pc' = [pc EXCEPT ![h] = place]
  /\ got' = [got EXCEPT ![h] = g]
  /\ UNCHANGED req
Goto(h, place) == Learn(h, place, got[h])
Answer(h) ==
  /\ pc' = [pc EXCEPT ![h] = "idle"]
  /\ req' = [req EXCEPT ![h] = Idle]
  /\ got' = [got EXCEPT ![h] = Nothing]
At(h, op, place) == pc[h] = place /\ req[h].op = op
Fail == faults < MaxFaults /\ faults' = faults + 1

\* time.Now().
Tick ==
  /\ clock < MaxSecond
  /\ clock' = clock + 1
  /\ UNCHANGED <<tables, access, issued, pc, req, got, faults, history>>

\* What clients ask for; a deletion sets the state to inactive.  Logout takes the user from its access token; the
\* routes of user_admin.go ask for the role admin in it.
Requests ==
  LET AdminTokens == {t \in access : t.role = "admin"} IN
     [op : {"login"}, user : DOMAIN user, password : Passwords]
     \cup [op : {"refresh"}, token : issued]
     \cup {[op |-> "logout", user |-> t.user] : t \in access}
     \cup [op : {"forgot"}, email : Emails]
     \cup [op : {"reset"}, id : Resets, password : Passwords]
     \cup [op : {"register"}, name : Names, email : Emails, password : Passwords]
     \cup (IF AdminTokens = {} THEN {}
           ELSE [op : {"create"}, name : Names, email : Emails, role : Roles,
                 active : BOOLEAN, password : Passwords]
                \cup [op : {"update"}, user : Users, role : SUBSET Roles, active : SUBSET BOOLEAN]
                \cup [op : {"delete"}, user : Users, role : {{}}, active : {{FALSE}},
                     caller : {t.user : t \in AdminTokens}]
                \cup [op : {"password"}, user : Users, password : Passwords])

FirstPlace(op) == CASE op \in {"login", "register", "create"} -> "check"
                    [] op \in {"refresh", "reset"} -> "token"
                    [] op = "logout" -> "revoke"
                    [] op = "forgot" -> "email"
                    [] op \in {"update", "delete"} -> "role"
                    [] op = "password" -> "password"

\* An update names at most one role and one state, and something; nobody
\* deletes the own account (user_admin.go:386).
Legal(r) ==
  /\ r.op \in Ops
  /\ r.op = "update" => /\ Cardinality(r.role) <= 1 /\ Cardinality(r.active) <= 1
                        /\ r.role # {} \/ r.active # {}
  /\ r.op = "delete" => r.caller # r.user

Receive(h) ==
  /\ pc[h] = "idle"
  /\ \E r \in Requests :
       /\ Legal(r)
       /\ req' = [req EXCEPT ![h] = r]
       /\ pc' = [pc EXCEPT ![h] = FirstPlace(r.op)]
  /\ UNCHANGED <<got, tables, clock, access, issued, faults, history>>
----------------------------------------------------------------------------
(* Sessions. *)

Rows(s) == {r \in refresh_token : r.session \in s}
Stored(t) == {r \in refresh_token : r.user = t.user /\ r.second = t.second}

\* Login: the row of the user, whether it is active, and its password.
LoginCheck(h) ==
  LET u == req[h].user IN
  /\ At(h, "login", "check")
  /\ IF user[u].active /\ user[u].password = req[h].password
     THEN Learn(h, "store", [got[h] EXCEPT !.role = user[u].role])
     ELSE Answer(h)
  /\ UNCHANGED <<tables, clock, access, issued, faults, history>>

\* Login: make both tokens and store the refresh token.  A failed insert, the
\* unique key's refusal of an equal token among them, does not stop the login.
LoginStore(h) ==
  LET t == [user |-> req[h].user, second |-> clock] IN
  /\ At(h, "login", "store")
  /\ \/ /\ Stored(t) = {}
        /\ \E s \in Sessions \ ({r.session : r \in refresh_token} \cup ended) :
             refresh_token' = refresh_token \cup
               {[session |-> s, user |-> t.user, second |-> t.second]}
        /\ UNCHANGED faults
     \/ Stored(t) # {} /\ UNCHANGED <<refresh_token, faults>>
     \/ Fail /\ UNCHANGED refresh_token
  /\ access' = access \cup {[user |-> t.user, role |-> got[h].role]}
  /\ issued' = issued \cup {t}
  /\ Answer(h)
  /\ UNCHANGED <<user, reset_token, user_permission, clock, history>>

\* Refresh: the session whose token this is.
RefreshLookup(h) ==
  LET found == Stored(req[h].token) IN
  /\ At(h, "refresh", "token")
  /\ IF found = {}
     THEN Answer(h)
     ELSE Learn(h, "user", [got[h] EXCEPT !.session = {r.session : r \in found}])
  /\ UNCHANGED <<tables, clock, access, issued, faults, history>>

\* Refresh: the user's role and state, from the table and not from the token.
RefreshUser(h) ==
  LET u == req[h].token.user IN
  /\ At(h, "refresh", "user")
  /\ IF u \in DOMAIN user /\ user[u].active
     THEN Learn(h, "rotate", [got[h] EXCEPT !.role = user[u].role])
     ELSE Answer(h)
  /\ UNCHANGED <<tables, clock, access, issued, faults, history>>

\* The row that a rotation leaves in place of the session's.
\* A bug: the new token is stored also when the row has gone.
RotatedUpsert(h) == [session : got[h].session, user : {req[h].token.user}, second : {clock}]
\* RotateRefreshToken matches the row by its id: no row, no session.
Rotated(h) == {[r EXCEPT !.second = clock] : r \in Rows(got[h].session)}

\* Refresh: new tokens.  The rotation too may fail, or meet the unique key.
RefreshRotate(h) ==
  LET t == [user |-> req[h].token.user, second |-> clock] IN
  /\ At(h, "refresh", "rotate")
  /\ \/ /\ Stored(t) \subseteq Rows(got[h].session)
        /\ refresh_token' = (refresh_token \ Rows(got[h].session)) \cup Rotated(h)
        /\ UNCHANGED faults
     \/ ~ (Stored(t) \subseteq Rows(got[h].session)) /\ UNCHANGED <<refresh_token, faults>>
     \/ Fail /\ UNCHANGED refresh_token
  /\ access' = access \cup {[user |-> t.user, role |-> got[h].role]}
  /\ issued' = issued \cup {t}
  /\ Answer(h)
  /\ UNCHANGED <<user, reset_token, user_permission, clock, history>>

\* DeleteRefreshTokensForUser, of Logout and AdminResetUserPassword; best-effort.
Revoke(h) ==
  LET mine == {r \in refresh_token : r.user = req[h].user} IN
  /\ pc[h] = "revoke"
  /\ \/ /\ refresh_token' = refresh_token \ mine
        /\ ended' = ended \cup {r.session : r \in mine}
        /\ UNCHANGED faults
     \/ Fail /\ UNCHANGED <<refresh_token, ended>>
  /\ Answer(h)
  /\ UNCHANGED <<user, reset_token, user_permission, clock, access, issued, unguarded>>
----------------------------------------------------------------------------
(* Passwords. *)

\* ForgotPassword: an active user with this address gets a token, which is
\* sent by means outside this program; a failed insert is passed over.
Forgot(h) ==
  LET found == {u \in DOMAIN user : user[u].email = req[h].email /\ user[u].active} IN
  /\ At(h, "forgot", "email")
  /\ \/ /\ \E u \in found, i \in Resets \ {r.id : r \in reset_token} :
             reset_token' = reset_token \cup {[id |-> i, user |-> u, used |-> FALSE]}
        /\ UNCHANGED faults
     \/ found = {} /\ UNCHANGED <<reset_token, faults>>
     \/ found # {} /\ Fail /\ UNCHANGED reset_token
  /\ Answer(h)
  /\ UNCHANGED <<user, refresh_token, user_permission, clock, access, issued, history>>

\* ResetPassword: an unused token.
ResetLookup(h) ==
  LET found == {r \in reset_token : r.id = req[h].id /\ ~ r.used} IN
  /\ At(h, "reset", "token")
  /\ IF found = {}
     THEN Answer(h)
     ELSE Learn(h, "password", [got[h] EXCEPT !.reset = found])
  /\ UNCHANGED <<tables, clock, access, issued, faults, history>>

\* UpdateUserPassword, of ResetPassword and AdminResetUserPassword.
SetPassword(h) ==
  LET target == IF req[h].op = "reset" THEN {r.user : r \in got[h].reset} ELSE {req[h].user} IN
  /\ pc[h] = "password"
  /\ user' = [u \in DOMAIN user |-> IF u \in target
                                    THEN [user[u] EXCEPT !.password = req[h].password]
                                    ELSE user[u]]
  /\ IF req[h].op = "reset" THEN Goto(h, "used")
     ELSE IF target \subseteq DOMAIN user THEN Goto(h, "revoke") ELSE Answer(h)
  /\ UNCHANGED <<refresh_token, reset_token, user_permission, clock, access, issued, faults, history>>

\* ResetPassword: mark the token as used, best-effort.
MarkUsed(h) ==
  /\ At(h, "reset", "used")
  /\ \/ /\ reset_token' = (reset_token \ got[h].reset) \cup {[r EXCEPT !.used = TRUE] : r \in got[h].reset}
        /\ UNCHANGED faults
     \/ Fail /\ UNCHANGED reset_token
  /\ Goto(h, "sessions")
  /\ UNCHANGED <<user, refresh_token, user_permission, clock, access, issued, history>>

\* DeleteSessionsForUser, of ResetPassword: it deletes from the table sessions, which no
\* handler fills, so that every row of refresh_token stays, and with it every session.
DeleteSessions(h) ==
  /\ At(h, "reset", "sessions")
  /\ Answer(h)
  /\ UNCHANGED <<tables, clock, access, issued, faults, history>>
----------------------------------------------------------------------------
(* Users. *)

\* Register and CreateUser: is the name taken, and then, is the address?
CheckTaken(h) ==
  LET taken == \E u \in DOMAIN user : IF pc[h] = "check" THEN user[u].name = req[h].name
                                      ELSE user[u].email = req[h].email
  IN
  /\ pc[h] \in {"check", "check email"} /\ req[h].op \in {"register", "create"}
  /\ IF taken THEN Answer(h) ELSE Goto(h, IF pc[h] = "check" THEN "check email" ELSE "insert")
  /\ UNCHANGED <<tables, clock, access, issued, faults, history>>

\* The insert: the unique key on username may refuse it.
Insert(h) ==
  LET role == IF req[h].op = "register" THEN "employee" ELSE req[h].role
      active == IF req[h].op = "register" THEN TRUE ELSE req[h].active
  IN
  /\ pc[h] = "insert"
  /\ IF \E u \in DOMAIN user : user[u].name = req[h].name
     THEN UNCHANGED user /\ Answer(h)
     ELSE \E id \in Users \ DOMAIN user :
            /\ user' = [u \in DOMAIN user \cup {id} |->
                          IF u = id THEN Row(req[h].name, req[h].email, role, active, req[h].password)
                          ELSE user[u]]
            /\ IF req[h].op = "register"
               THEN Learn(h, "permissions", [got[h] EXCEPT !.created = {id}])
               ELSE Answer(h)
  /\ UNCHANGED <<refresh_token, reset_token, user_permission, clock, access, issued, faults, history>>

\* Register: the default permissions of the new user, best-effort.
SeedPermissions(h) ==
  /\ pc[h] = "permissions"
  /\ \/ user_permission' = user_permission \cup got[h].created /\ UNCHANGED faults
     \/ Fail /\ UNCHANGED user_permission
  /\ Answer(h)
  /\ UNCHANGED <<user, refresh_token, reset_token, clock, access, issued, history>>

\* The request takes a role or a state that an active admin has.
Demotes(r) == r.role \cap {"manager", "employee"} # {} \/ FALSE \in r.active

\* UpdateUser and DeleteUser read the role first.  DeleteUser stops at a user
\* there is not and at an error; UpdateUser goes on without the guard.
ReadRole(h) ==
  LET u == req[h].user
      stop == IF req[h].op = "delete" THEN Answer(h) ELSE Goto(h, "write")
      role == user[u].role
  IN
  /\ pc[h] = "role"
  /\ \/ Demotes(req[h]) /\ Fail /\ stop
     \/ /\ UNCHANGED faults
        /\ IF ~ Demotes(req[h]) THEN Goto(h, "write")
           ELSE IF u \notin DOMAIN user THEN stop
           ELSE Learn(h, IF role = "admin" THEN "count" ELSE "write", [got[h] EXCEPT !.role = role])
  /\ UNCHANGED <<tables, clock, access, issued, history>>

\* A bug: the guard lets the last admin go.
LastAdminOff(n) == n < 1
LastAdmin(n) == n <= 1

\* CountActiveAdmins; a failed count reads as zero, and refuses.
CountAdmins(h) ==
  LET n == Cardinality(ActiveAdmins) IN
  /\ pc[h] = "count"
  /\ \/ /\ IF LastAdmin(n) THEN Answer(h) ELSE Learn(h, "write", [got[h] EXCEPT !.admins = n])
        /\ UNCHANGED faults
     \/ Fail /\ Answer(h)
  /\ UNCHANGED <<tables, clock, access, issued, history>>

\* UpdateUserAdmin and DeactivateUser.
WriteUser(h) ==
  LET u == req[h].user
      set(options, old) == IF options = {} THEN old ELSE CHOOSE x \in options : TRUE
      new == [user[u] EXCEPT !.role = set(req[h].role, @), !.active = set(req[h].active, @)]
  IN
  /\ pc[h] = "write"
  /\ IF u \in DOMAIN user
     THEN /\ user' = [user EXCEPT ![u] = new]
          /\ unguarded' = \/ unguarded
                          \/ /\ u \in ActiveAdmins /\ ~ (new.active /\ new.role = "admin")
                             /\ got[h].role # "admin" \/ got[h].admins # Cardinality(ActiveAdmins)
     ELSE UNCHANGED <<user, unguarded>>
  /\ Answer(h)
  /\ UNCHANGED <<refresh_token, reset_token, user_permission, clock, access, issued, faults, ended>>
----------------------------------------------------------------------------
Next ==
  \/ Tick
  \/ \E h \in Handlers :
       \/ Receive(h)
       \/ LoginCheck(h) \/ LoginStore(h)
       \/ RefreshLookup(h) \/ RefreshUser(h) \/ RefreshRotate(h)
       \/ Revoke(h)
       \/ Forgot(h) \/ ResetLookup(h) \/ SetPassword(h) \/ MarkUsed(h) \/ DeleteSessions(h)
       \/ CheckTaken(h) \/ Insert(h) \/ SeedPermissions(h)
       \/ ReadRole(h) \/ CountAdmins(h) \/ WriteUser(h)

Spec == Init /\ [][Next]_vars
----------------------------------------------------------------------------
\* A session that a logout or an administrator's password reset ended does not
\* come back: not by a Refresh that had found its row before (auth.go:310), nor
\* by a token that is used again.  A public reset ends none (DeleteSessions).
SessionsStayEnded == \A r \in refresh_token : r.session \notin ended

\* The token of every stored session was given to a client, at most one session
\* has it, and a session keeps its user.
OneSessionPerToken ==
  /\ \A r, q \in refresh_token : r # q => r.session # q.session /\ <<r.user, r.second>> # <<q.user, q.second>>
  /\ \A r \in refresh_token : [user |-> r.user, second |-> r.second] \in issued

\* There is an active admin, as long as nobody is removed by a handler that read
\* the role or counted the admins before another handler's change, or could not
\* read the role (user_admin.go:305).
LastAdminGuarded == ActiveAdmins = {} => unguarded

\* "Refuse to deactivate the last active admin." (user_admin.go:392), whatever
\* runs at the same time.
SomeAdminRemains == ActiveAdmins # {}
=============================================================================
