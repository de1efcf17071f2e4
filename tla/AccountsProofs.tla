--------------------------- MODULE AccountsProofs ---------------------------
(***************************************************************************)
(* Proofs about Accounts: sessions, for any number of users, requests,     *)
(* sessions, seconds and failures.                                         *)
(***************************************************************************)
EXTENDS Accounts, FiniteSetTheorems, TLAPS

Refreshing(h) == pc[h] \in {"user", "rotate"}

\* Rows are rows, and each handler has a place, a request and a memory.
ShapeInv ==
  /\ \A r \in refresh_token : DOMAIN r = {"session", "user", "second"}
  /\ DOMAIN pc = Handlers /\ DOMAIN req = Handlers /\ DOMAIN got = Handlers
  /\ \A h \in Handlers : "session" \in DOMAIN got[h]

\* What a refresh has found: one session, which is of the token's user for as
\* long as it is there, and ended when it is not.
FoundInv ==
  \A h \in Handlers : Refreshing(h) =>
    /\ got[h].session \subseteq {r.session : r \in refresh_token} \cup ended
    /\ \A s, t \in got[h].session : s = t
    /\ \A r \in Rows(got[h].session) : r.user = req[h].token.user

SessionInv == ShapeInv /\ FoundInv /\ SessionsStayEnded /\ OneSessionPerToken
-----------------------------------------------------------------------------
\* At first there are no sessions.
LEMMA SessionInit == Init => SessionInv
  BY DEF Init, Nothing, SessionInv, ShapeInv, FoundInv, Refreshing, SessionsStayEnded,
         OneSessionPerToken

\* A step of h that leaves the sessions alone and does not take h on in a
\* refresh.
Elsewhere(h) ==
  /\ UNCHANGED <<refresh_token, ended, issued>>
  /\ ~ Refreshing(h)'
  /\ \A i \in Handlers \ {h} : pc'[i] = pc[i] /\ req'[i] = req[i] /\ got'[i] = got[i]
  /\ DOMAIN pc' = DOMAIN pc /\ DOMAIN req' = DOMAIN req /\ DOMAIN got' = DOMAIN got
  /\ "session" \in DOMAIN got'[h]

LEMMA ElsewhereKeeps == ASSUME SessionInv, NEW h \in Handlers, Elsewhere(h) PROVE SessionInv'
<1>1. ShapeInv' /\ SessionsStayEnded' /\ OneSessionPerToken'
  BY DEF SessionInv, ShapeInv, SessionsStayEnded, OneSessionPerToken, Elsewhere
<1>2. FoundInv'
  BY DEF SessionInv, FoundInv, Refreshing, Rows, Elsewhere
<1> QED
  BY <1>1, <1>2 DEF SessionInv

\* Requests, passwords and users touch no session.
LEMMA ReceiveElsewhere == ASSUME SessionInv, NEW h \in Handlers, Receive(h) PROVE Elsewhere(h)
<1>1. ASSUME NEW r \in Requests PROVE FirstPlace(r.op) \notin {"user", "rotate"}
  <2> DEFINE Open == {"login", "refresh", "logout", "forgot", "reset", "register"}
             Admin == {"create", "update", "delete", "password"}
             Creation == [op : {"create"}, name : Names, email : Emails, role : Roles,
                          active : BOOLEAN, password : Passwords]
             Update == [op : {"update"}, user : Users, role : SUBSET Roles, active : SUBSET BOOLEAN]
             Deletion == [op : {"delete"}, user : Users, role : {{}}, active : {{FALSE}},
                          caller : {t.user : t \in {t \in access : t.role = "admin"}}]
             Reset == [op : {"password"}, user : Users, password : Passwords]
  <2>1. CASE r \in Creation \cup Update \cup Deletion \cup Reset
    <3>1. r.op \in Admin
      BY <2>1
    <3> QED
      BY <3>1 DEF FirstPlace
  <2>2. CASE r \notin Creation \cup Update \cup Deletion \cup Reset
    <3>1. r \in   [op : {"login"}, user : DOMAIN user, password : Passwords]
                \cup [op : {"refresh"}, token : issued]
                \cup {[op |-> "logout", user |-> t.user] : t \in access}
                \cup [op : {"forgot"}, email : Emails]
                \cup [op : {"reset"}, id : Resets, password : Passwords]
                \cup [op : {"register"}, name : Names, email : Emails, password : Passwords]
      BY <2>2, Zenon DEF Requests
    <3>2. r.op \in Open
      BY <3>1
    <3> QED
      BY <3>2 DEF FirstPlace
  <2> QED
    BY <2>1, <2>2
<1> QED
  BY <1>1 DEF SessionInv, ShapeInv, Receive, Elsewhere, Refreshing, tables, history

LEMMA PasswordElsewhere ==
  ASSUME SessionInv, NEW h \in Handlers,
         Forgot(h) \/ ResetLookup(h) \/ SetPassword(h) \/ MarkUsed(h) \/ DeleteSessions(h)
  PROVE  Elsewhere(h)
<1> USE DEF SessionInv, ShapeInv, Learn, Goto, Answer, Nothing, At, Elsewhere, Refreshing, tables, history
<1>1. CASE Forgot(h)
  BY <1>1 DEF Forgot
<1>2. CASE ResetLookup(h)
  BY <1>2 DEF ResetLookup
<1>3. CASE SetPassword(h)
  BY <1>3 DEF SetPassword
<1>4. CASE MarkUsed(h) \/ DeleteSessions(h)
  BY <1>4 DEF MarkUsed, DeleteSessions
<1> QED
  BY <1>1, <1>2, <1>3, <1>4

\* Where a handler may go without a word about sessions.
LEMMA GoElsewhere ==
  ASSUME SessionInv, NEW h \in Handlers, UNCHANGED <<refresh_token, ended, issued>>,
         NEW place \in {"check email", "insert", "permissions", "write", "count"},
         NEW g, "session" \in DOMAIN g,
         Answer(h) \/ Learn(h, place, g)
  PROVE  Elsewhere(h)
<1>1. place # "user" /\ place # "rotate"
  OBVIOUS
<1>2. CASE Answer(h)
  BY <1>2 DEF SessionInv, ShapeInv, Answer, Learn, Nothing, Elsewhere, Refreshing
<1>3. CASE Learn(h, place, g)
  BY <1>1, <1>3 DEF SessionInv, ShapeInv, Learn, Elsewhere, Refreshing
<1> QED
  BY <1>2, <1>3

LEMMA UserElsewhere ==
  ASSUME SessionInv, NEW h \in Handlers,
         CheckTaken(h) \/ Insert(h) \/ SeedPermissions(h) \/ ReadRole(h) \/ CountAdmins(h) \/ WriteUser(h)
  PROVE  Elsewhere(h)
<1>1. "session" \in DOMAIN got[h] /\ UNCHANGED <<refresh_token, ended, issued>>
  BY DEF SessionInv, ShapeInv, CheckTaken, Insert, SeedPermissions, ReadRole, CountAdmins, WriteUser,
         tables, history
<1>2. CASE CheckTaken(h) \/ SeedPermissions(h)
  <2>1. Answer(h) \/ Learn(h, "check email", got[h]) \/ Learn(h, "insert", got[h])
    BY <1>2, Zenon DEF CheckTaken, SeedPermissions, Goto
  <2> QED
    BY <1>1, <2>1, GoElsewhere
<1>3. CASE Insert(h)
  <2>1. Answer(h) \/ \E id \in Users : Learn(h, "permissions", [got[h] EXCEPT !.created = {id}])
    BY <1>3 DEF Insert
  <2>2. \A id \in Users : "session" \in DOMAIN [got[h] EXCEPT !.created = {id}]
    BY <1>1
  <2> QED
    BY <1>1, <2>1, <2>2, GoElsewhere
<1>4. CASE ReadRole(h)
  <2> DEFINE g == [got[h] EXCEPT !.role = user[req[h].user].role]
  <2>1. \/ Answer(h) \/ Learn(h, "write", got[h])
        \/ Learn(h, "write", g) \/ Learn(h, "count", g)
    BY <1>4, Zenon DEF ReadRole, Goto
  <2>2. "session" \in DOMAIN g
    BY <1>1
  <2> HIDE DEF g
  <2>3. CASE Answer(h) \/ Learn(h, "write", got[h])
    BY <1>1, <2>3, GoElsewhere
  <2>4. CASE Learn(h, "write", g) \/ Learn(h, "count", g)
    BY <1>1, <2>2, <2>4, GoElsewhere
  <2> QED
    BY <2>1, <2>3, <2>4
<1>5. CASE CountAdmins(h)
  <2>1. Answer(h) \/ \E n : Learn(h, "write", [got[h] EXCEPT !.admins = n])
    BY <1>5, Zenon DEF CountAdmins
  <2>2. \A n : "session" \in DOMAIN [got[h] EXCEPT !.admins = n]
    BY <1>1
  <2>3. CASE Answer(h)
    BY <1>1, <2>3, GoElsewhere
  <2>4. ASSUME NEW n, Learn(h, "write", [got[h] EXCEPT !.admins = n]) PROVE Elsewhere(h)
    BY <1>1, <2>2, <2>4, GoElsewhere
  <2> QED
    BY <2>1, <2>3, <2>4
<1>6. CASE WriteUser(h)
  BY <1>1, <1>6, GoElsewhere DEF WriteUser
<1> QED
  BY <1>2, <1>3, <1>4, <1>5, <1>6

LEMMA LoginElsewhere == ASSUME SessionInv, NEW h \in Handlers, LoginCheck(h) PROVE Elsewhere(h)
  BY DEF SessionInv, ShapeInv, LoginCheck, Learn, Answer, Nothing, At, Elsewhere, Refreshing, tables, history

\* A login stores a session that never was there, of a token no row has.
LEMMA LoginKeeps == ASSUME SessionInv, NEW h \in Handlers, LoginStore(h) PROVE SessionInv'
<1> DEFINE t == [user |-> req[h].user, second |-> clock]
<1>1. /\ UNCHANGED ended /\ issued' = issued \cup {t}
      /\ pc'[h] = "idle"
      /\ \A i \in Handlers \ {h} : pc'[i] = pc[i] /\ req'[i] = req[i] /\ got'[i] = got[i]
      /\ DOMAIN pc' = DOMAIN pc /\ DOMAIN req' = DOMAIN req /\ DOMAIN got' = DOMAIN got
      /\ "session" \in DOMAIN got'[h]
  BY DEF SessionInv, ShapeInv, LoginStore, Answer, Nothing, history
<1>2. CASE UNCHANGED refresh_token
  BY <1>1, <1>2 DEF SessionInv, ShapeInv, FoundInv, Refreshing, Rows, SessionsStayEnded,
                    OneSessionPerToken
<1>3. ASSUME NEW s, s \notin {r.session : r \in refresh_token} \cup ended, Stored(t) = {},
             refresh_token' = refresh_token \cup {[session |-> s, user |-> t.user, second |-> t.second]}
      PROVE  SessionInv'
  <2>1. ShapeInv' /\ SessionsStayEnded'
    BY <1>1, <1>3 DEF SessionInv, ShapeInv, SessionsStayEnded
  <2>2. FoundInv'
    BY <1>1, <1>3 DEF SessionInv, FoundInv, Refreshing, Rows
  <2>3. OneSessionPerToken'
    BY <1>1, <1>3 DEF SessionInv, OneSessionPerToken, Stored
  <2> QED
    BY <2>1, <2>2, <2>3 DEF SessionInv
<1> QED
  BY <1>2, <1>3 DEF LoginStore

\* A refresh finds the session of its token.
LEMMA LookupKeeps ==
  ASSUME SessionInv, NEW h \in Handlers, RefreshLookup(h) \/ RefreshUser(h) PROVE SessionInv'
<1>1. /\ UNCHANGED <<refresh_token, ended, issued, req>> \/ pc'[h] = "idle"
      /\ UNCHANGED <<refresh_token, ended, issued>>
      /\ \A i \in Handlers \ {h} : pc'[i] = pc[i] /\ req'[i] = req[i] /\ got'[i] = got[i]
      /\ DOMAIN pc' = DOMAIN pc /\ DOMAIN req' = DOMAIN req /\ DOMAIN got' = DOMAIN got
      /\ "session" \in DOMAIN got'[h]
  BY DEF SessionInv, ShapeInv, RefreshLookup, RefreshUser, Learn, Answer, Nothing, tables, history
<1>2. ShapeInv' /\ SessionsStayEnded' /\ OneSessionPerToken'
  BY <1>1 DEF SessionInv, ShapeInv, SessionsStayEnded, OneSessionPerToken
<1>3. CASE pc'[h] = "idle"
  BY <1>1, <1>2, <1>3 DEF SessionInv, FoundInv, Refreshing, Rows
<1>4. CASE /\ got'[h].session = {r.session : r \in Stored(req[h].token)}
           /\ UNCHANGED req
  BY <1>1, <1>2, <1>4 DEF SessionInv, FoundInv, Refreshing, Rows, Stored, OneSessionPerToken
<1>5. CASE Refreshing(h) /\ got'[h].session = got[h].session /\ UNCHANGED req
  BY <1>1, <1>2, <1>5 DEF SessionInv, FoundInv, Refreshing, Rows
<1> QED
  BY <1>3, <1>4, <1>5 DEF RefreshLookup, RefreshUser, Learn, Answer, SessionInv, ShapeInv, At, Refreshing

\* A rotation changes the row that the refresh found, if it is still there.
LEMMA RotateKeeps == ASSUME SessionInv, NEW h \in Handlers, RefreshRotate(h) PROVE SessionInv'
<1> DEFINE t == [user |-> req[h].token.user, second |-> clock]
           S == got[h].session
<1>1. /\ UNCHANGED ended /\ issued' = issued \cup {t}
      /\ pc'[h] = "idle"
      /\ \A i \in Handlers \ {h} : pc'[i] = pc[i] /\ req'[i] = req[i] /\ got'[i] = got[i]
      /\ DOMAIN pc' = DOMAIN pc /\ DOMAIN req' = DOMAIN req /\ DOMAIN got' = DOMAIN got
      /\ "session" \in DOMAIN got'[h]
  BY DEF SessionInv, ShapeInv, RefreshRotate, Answer, Nothing, history
<1>2. CASE UNCHANGED refresh_token
  BY <1>1, <1>2 DEF SessionInv, ShapeInv, FoundInv, Refreshing, Rows, SessionsStayEnded,
                    OneSessionPerToken
<1>3. CASE /\ Stored(t) \subseteq Rows(S)
           /\ refresh_token' = (refresh_token \ Rows(S)) \cup Rotated(h)
  <2>1. /\ \A s, u \in S : s = u
        /\ \A r \in Rows(S) : r.user = t.user
    BY DEF SessionInv, FoundInv, Refreshing, RefreshRotate, At
  <2>2. \A q \in Rotated(h) : \E r \in Rows(S) :
           /\ q = [r EXCEPT !.second = clock] /\ DOMAIN q = {"session", "user", "second"}
           /\ q.session = r.session /\ q.user = r.user /\ q.second = clock
    BY DEF Rotated, Rows, SessionInv, ShapeInv
  <2>3. \A r \in refresh_token' : \E q \in refresh_token :
           /\ DOMAIN r = {"session", "user", "second"}
           /\ r.session = q.session /\ r.user = q.user
           /\ \/ r = q /\ q \notin Rows(S)
              \/ r = [q EXCEPT !.second = clock] /\ q \in Rows(S) /\ r.second = clock
    BY <1>3, <2>2 DEF SessionInv, ShapeInv, Rows
  <2>4. ShapeInv' /\ SessionsStayEnded'
    BY <1>1, <2>3 DEF SessionInv, ShapeInv, SessionsStayEnded
  <2>5. {r.session : r \in refresh_token'} = {r.session : r \in refresh_token}
    <3>1. \A r \in Rows(S) : [r EXCEPT !.second = clock] \in refresh_token'
      BY <1>3 DEF Rotated
    <3>2. \A q \in refresh_token : \E r \in refresh_token' : r.session = q.session
      BY <1>3, <3>1 DEF SessionInv, ShapeInv
    <3> QED
      BY <2>3, <3>2
  <2>6. FoundInv'
    BY <1>1, <2>3, <2>5 DEF SessionInv, FoundInv, Refreshing, Rows
  <2>7. \A r, q \in refresh_token' : r # q => r.session # q.session
    BY <2>3 DEF SessionInv, OneSessionPerToken
  <2>8. \A r, q \in refresh_token' : r # q => <<r.user, r.second>> # <<q.user, q.second>>
    <3> SUFFICES ASSUME NEW r \in refresh_token', NEW q \in refresh_token',
                        r.user = q.user, r.second = q.second
                 PROVE  r = q
      OBVIOUS
    <3>1. CASE r \in refresh_token \ Rows(S) /\ q \in refresh_token \ Rows(S)
      BY <3>1 DEF SessionInv, OneSessionPerToken
    <3>2. CASE r \in Rotated(h) /\ q \in Rotated(h)
      BY <3>2, <2>1, <2>2, <2>7, <1>3 DEF Rows
    <3>3. ASSUME NEW a \in refresh_token \ Rows(S), NEW b \in Rotated(h),
                 a.user = b.user, a.second = b.second
          PROVE  FALSE
      <4>1. a \in Stored(t)
        BY <3>3, <2>1, <2>2 DEF Stored
      <4> QED
        BY <4>1, <1>3
    <3> QED
      BY <3>1, <3>2, <3>3, <1>3
  <2>9. \A r \in refresh_token' : [user |-> r.user, second |-> r.second] \in issued'
    BY <1>1, <2>1, <2>3 DEF SessionInv, OneSessionPerToken
  <2> QED
    BY <2>4, <2>6, <2>7, <2>8, <2>9 DEF SessionInv, OneSessionPerToken
<1> QED
  BY <1>2, <1>3 DEF RefreshRotate

\* A revocation ends every session of its user.
LEMMA RevokeKeeps == ASSUME SessionInv, NEW h \in Handlers, Revoke(h) PROVE SessionInv'
<1>1. /\ UNCHANGED issued
      /\ pc'[h] = "idle"
      /\ \A i \in Handlers \ {h} : pc'[i] = pc[i] /\ req'[i] = req[i] /\ got'[i] = got[i]
      /\ DOMAIN pc' = DOMAIN pc /\ DOMAIN req' = DOMAIN req /\ DOMAIN got' = DOMAIN got
      /\ "session" \in DOMAIN got'[h]
      /\ \E mine \in SUBSET refresh_token :
           /\ refresh_token' = refresh_token \ mine
           /\ ended' = ended \cup {r.session : r \in mine}
  <2>1. UNCHANGED <<refresh_token, ended>>
          => refresh_token' = refresh_token \ {} /\ ended' = ended \cup {r.session : r \in {}}
    OBVIOUS
  <2> QED
    BY <2>1 DEF SessionInv, ShapeInv, Revoke, Answer, Nothing
<1>2. ShapeInv' /\ SessionsStayEnded' /\ OneSessionPerToken'
  BY <1>1 DEF SessionInv, ShapeInv, SessionsStayEnded, OneSessionPerToken
<1>3. FoundInv'
  BY <1>1 DEF SessionInv, FoundInv, Refreshing, Rows
<1> QED
  BY <1>2, <1>3 DEF SessionInv

\* SessionInv is inductive.
THEOREM Inductive == Spec => []SessionInv
<1>1. Init => SessionInv
  BY SessionInit
<1>2. SessionInv /\ [Next]_vars => SessionInv'
  <2> SUFFICES ASSUME SessionInv, [Next]_vars PROVE SessionInv'
    OBVIOUS
  <2>1. CASE Tick \/ UNCHANGED vars
    BY <2>1 DEF Tick, vars, tables, history, SessionInv, ShapeInv, FoundInv, Refreshing, Rows,
                SessionsStayEnded, OneSessionPerToken
  <2>2. ASSUME NEW h \in Handlers,
               \/ Receive(h) \/ LoginCheck(h)
               \/ Forgot(h) \/ ResetLookup(h) \/ SetPassword(h) \/ MarkUsed(h) \/ DeleteSessions(h)
               \/ CheckTaken(h) \/ Insert(h) \/ SeedPermissions(h)
               \/ ReadRole(h) \/ CountAdmins(h) \/ WriteUser(h)
        PROVE  SessionInv'
    BY <2>2, ReceiveElsewhere, LoginElsewhere, PasswordElsewhere, UserElsewhere, ElsewhereKeeps
  <2>3. ASSUME NEW h \in Handlers,
               LoginStore(h) \/ RefreshLookup(h) \/ RefreshUser(h) \/ RefreshRotate(h) \/ Revoke(h)
        PROVE  SessionInv'
    BY <2>3, LoginKeeps, LookupKeeps, RotateKeeps, RevokeKeeps
  <2> QED
    BY <2>1, <2>2, <2>3 DEF Next
<1> QED
  BY <1>1, <1>2, PTL DEF Spec

\* A session that a logout or an administrator's password reset ended does not
\* come back, whatever refreshes are under way (auth.go:310).
THEOREM SessionsEnd == Spec => []SessionsStayEnded
<1>1. SessionInv => SessionsStayEnded
  BY DEF SessionInv
<1> QED
  BY <1>1, Inductive, PTL

\* No two sessions share a token, and a session keeps its user.
THEOREM TokensUnique == Spec => []OneSessionPerToken
<1>1. SessionInv => OneSessionPerToken
  BY DEF SessionInv
<1> QED
  BY <1>1, Inductive, PTL
-----------------------------------------------------------------------------
(* The last admin *)

Columns == {"name", "email", "role", "active", "password"}

\* Users are rows, finitely many; each handler has a memory of roles and counts.
UserInv ==
  /\ IsFiniteSet(DOMAIN user)
  /\ \A u \in DOMAIN user : DOMAIN user[u] = Columns
  /\ DOMAIN pc = Handlers /\ DOMAIN got = Handlers
  /\ \A h \in Handlers : {"role", "admins"} \subseteq DOMAIN got[h]

\* Who is about to write and knows of an admin has counted more than one.
CountInv ==
  \A h \in Handlers :
    /\ pc[h] \in {"idle", "role"} => got[h].role = "none"
    /\ pc[h] = "write" /\ got[h].role = "admin" => got[h].admins \in Nat /\ got[h].admins > 1

AdminInv == UserInv /\ CountInv /\ LastAdminGuarded

\* There is an admin at first.
LEMMA AdminInit ==
  ASSUME Admins # {}, IsFiniteSet(Admins \cup Staff), Init PROVE AdminInv
<1>1. /\ DOMAIN user = Admins \cup Staff
      /\ \A u \in DOMAIN user : DOMAIN user[u] = Columns
      /\ \A a \in Admins : user[a].role = "admin" /\ user[a].active
  BY DEF Init, Row, Columns
<1>2. UserInv
  BY <1>1 DEF Init, UserInv, Nothing
<1>3. \A a \in Admins : a \in ActiveAdmins
  BY <1>1 DEF ActiveAdmins
<1>4. CountInv
  BY DEF Init, CountInv, Nothing
<1> QED
  BY <1>2, <1>3, <1>4 DEF AdminInv, LastAdminGuarded

\* A step of h by which no admin is lost, and h learns nothing of admins.
NoneLost(h) ==
  /\ ActiveAdmins \subseteq ActiveAdmins' /\ unguarded' = unguarded
  /\ IsFiniteSet(DOMAIN user)' /\ \A u \in DOMAIN user' : DOMAIN user'[u] = Columns
  /\ \A i \in Handlers \ {h} : pc'[i] = pc[i] /\ got'[i] = got[i]
  /\ DOMAIN pc' = DOMAIN pc /\ DOMAIN got' = DOMAIN got
  /\ {"role", "admins"} \subseteq DOMAIN got'[h]
  /\ pc'[h] \in {"idle", "role"} => got'[h].role = "none"
  /\ pc'[h] = "write" => got'[h].role # "admin"

LEMMA NoneLostKeeps == ASSUME AdminInv, NEW h \in Handlers, NoneLost(h) PROVE AdminInv'
  BY DEF AdminInv, UserInv, CountInv, LastAdminGuarded, NoneLost

\* Sessions, passwords and new users: no admin is lost.
LEMMA SessionsLoseNone ==
  ASSUME AdminInv, NEW h \in Handlers,
         LoginCheck(h) \/ LoginStore(h) \/ RefreshLookup(h) \/ RefreshUser(h) \/ RefreshRotate(h)
           \/ Revoke(h) \/ Forgot(h) \/ ResetLookup(h) \/ MarkUsed(h) \/ DeleteSessions(h)
           \/ CheckTaken(h) \/ SeedPermissions(h)
  PROVE  NoneLost(h)
<1> USE DEF AdminInv, UserInv, CountInv, NoneLost, ActiveAdmins, Learn, Goto, Answer, Nothing, At,
            tables, history
<1>1. CASE LoginCheck(h) \/ LoginStore(h)
  BY <1>1 DEF LoginCheck, LoginStore
<1>2. CASE RefreshLookup(h) \/ RefreshUser(h) \/ RefreshRotate(h)
  BY <1>2 DEF RefreshLookup, RefreshUser, RefreshRotate
<1>3. CASE Revoke(h) \/ Forgot(h) \/ ResetLookup(h)
  BY <1>3 DEF Revoke, Forgot, ResetLookup
<1>4. CASE MarkUsed(h) \/ DeleteSessions(h)
  BY <1>4 DEF MarkUsed, DeleteSessions
<1>5. CASE CheckTaken(h) \/ SeedPermissions(h)
  <2>1. Answer(h) \/ Goto(h, "check email") \/ Goto(h, "insert")
    BY <1>5, Zenon DEF CheckTaken, SeedPermissions
  <2>2. UNCHANGED <<user, unguarded>>
    BY <1>5 DEF CheckTaken, SeedPermissions
  <2>3. CASE Answer(h)
    BY <2>2, <2>3
  <2>4. CASE Goto(h, "check email") \/ Goto(h, "insert")
    BY <2>2, <2>4
  <2> QED
    BY <2>1, <2>3, <2>4
<1> QED
  BY <1>1, <1>2, <1>3, <1>4, <1>5

LEMMA PasswordLosesNone == ASSUME AdminInv, NEW h \in Handlers, SetPassword(h) PROVE NoneLost(h)
<1>1. /\ DOMAIN user' = DOMAIN user
      /\ \A u \in DOMAIN user : /\ DOMAIN user'[u] = DOMAIN user[u]
                               /\ user'[u].role = user[u].role
                               /\ user'[u].active = user[u].active
  BY DEF AdminInv, UserInv, Columns, SetPassword
<1>2. ActiveAdmins' = ActiveAdmins
  BY <1>1 DEF ActiveAdmins
<1>3. \/ Answer(h) \/ Goto(h, "used") \/ Goto(h, "revoke")
  BY DEF SetPassword
<1> QED
  BY <1>1, <1>2, <1>3 DEF AdminInv, UserInv, NoneLost, SetPassword, Answer, Goto, Learn, Nothing, history

LEMMA InsertLosesNone == ASSUME AdminInv, NEW h \in Handlers, Insert(h) PROVE NoneLost(h)
<1>1. /\ ActiveAdmins \subseteq ActiveAdmins' /\ unguarded' = unguarded
      /\ IsFiniteSet(DOMAIN user)' /\ \A u \in DOMAIN user' : DOMAIN user'[u] = Columns
  <2>1. CASE UNCHANGED user
    BY <2>1 DEF AdminInv, UserInv, ActiveAdmins, Insert, history
  <2>2. ASSUME NEW id \in Users \ DOMAIN user, NEW role, NEW active,
               user' = [u \in DOMAIN user \cup {id} |->
                          IF u = id THEN Row(req[h].name, req[h].email, role, active, req[h].password)
                          ELSE user[u]]
        PROVE  /\ ActiveAdmins \subseteq ActiveAdmins' /\ unguarded' = unguarded
               /\ IsFiniteSet(DOMAIN user)' /\ \A u \in DOMAIN user' : DOMAIN user'[u] = Columns
    <3>1. DOMAIN user' = DOMAIN user \cup {id} /\ IsFiniteSet(DOMAIN user \cup {id})
      BY <2>2, FS_AddElement DEF AdminInv, UserInv
    <3>2. \A u \in DOMAIN user : user'[u] = user[u]
      BY <2>2
    <3>3. DOMAIN user'[id] = Columns
      BY <2>2 DEF Columns, Row
    <3>4. ActiveAdmins \subseteq ActiveAdmins'
      BY <3>1, <3>2 DEF ActiveAdmins
    <3> QED
      BY <3>1, <3>2, <3>3, <3>4 DEF AdminInv, UserInv, Insert, history
  <2>3. QED
    <3> DEFINE role == IF req[h].op = "register" THEN "employee" ELSE req[h].role
               active == IF req[h].op = "register" THEN TRUE ELSE req[h].active
    <3>1. \/ UNCHANGED user
          \/ \E id \in Users \ DOMAIN user :
               user' = [u \in DOMAIN user \cup {id} |->
                          IF u = id THEN Row(req[h].name, req[h].email, role, active, req[h].password)
                          ELSE user[u]]
      BY Zenon DEF Insert
    <3> HIDE DEF role, active
    <3>2. CASE UNCHANGED user
      BY <2>1, <3>2
    <3>3. ASSUME NEW id \in Users \ DOMAIN user,
                 user' = [u \in DOMAIN user \cup {id} |->
                            IF u = id THEN Row(req[h].name, req[h].email, role, active, req[h].password)
                            ELSE user[u]]
          PROVE  /\ ActiveAdmins \subseteq ActiveAdmins' /\ unguarded' = unguarded
                 /\ IsFiniteSet(DOMAIN user)' /\ \A u \in DOMAIN user' : DOMAIN user'[u] = Columns
      BY <2>2, <3>3, Zenon
    <3> QED
      BY <3>1, <3>2, <3>3, Zenon
<1>2. Answer(h) \/ \E id \in Users : Learn(h, "permissions", [got[h] EXCEPT !.created = {id}])
  BY DEF Insert
<1>3. /\ \A i \in Handlers \ {h} : pc'[i] = pc[i] /\ got'[i] = got[i]
      /\ DOMAIN pc' = DOMAIN pc /\ DOMAIN got' = DOMAIN got
      /\ {"role", "admins"} \subseteq DOMAIN got'[h]
      /\ pc'[h] \in {"idle", "permissions"} /\ (pc'[h] = "idle" => got'[h].role = "none")
  BY <1>2 DEF AdminInv, UserInv, Answer, Learn, Nothing
<1> QED
  BY <1>1, <1>3 DEF NoneLost

\* A request comes to a handler that remembers nothing.
LEMMA ReceiveLosesNone == ASSUME AdminInv, NEW h \in Handlers, Receive(h) PROVE AdminInv'
  BY DEF AdminInv, UserInv, CountInv, LastAdminGuarded, ActiveAdmins, Receive, tables, history

\* The role that is read, if it is, decides whether admins are counted.
LEMMA ReadKeeps == ASSUME AdminInv, NEW h \in Handlers, ReadRole(h) PROVE AdminInv'
<1> DEFINE role == user[req[h].user].role
           g == [got[h] EXCEPT !.role = role]
<1>1. \/ Answer(h) \/ Learn(h, "write", got[h])
      \/ role = "admin" /\ Learn(h, "count", g)
      \/ role # "admin" /\ Learn(h, "write", g)
  BY Zenon DEF ReadRole, Goto
<1>2. /\ {"role", "admins"} \subseteq DOMAIN g /\ {"role", "admins"} \subseteq DOMAIN got[h]
      /\ g.role = role /\ got[h].role = "none"
  BY DEF AdminInv, UserInv, CountInv, ReadRole
<1>3. /\ UNCHANGED <<user, unguarded>>
      /\ \A i \in Handlers \ {h} : pc'[i] = pc[i] /\ got'[i] = got[i]
      /\ DOMAIN pc' = DOMAIN pc /\ DOMAIN got' = DOMAIN got
  BY <1>1 DEF AdminInv, UserInv, ReadRole, Answer, Learn, tables, history
<1>4. /\ {"role", "admins"} \subseteq DOMAIN got'[h]
      /\ pc'[h] \in {"idle", "role"} => got'[h].role = "none"
      /\ pc'[h] = "write" => got'[h].role # "admin"
  BY <1>1, <1>2 DEF AdminInv, UserInv, Answer, Learn, Nothing
<1> HIDE DEF g
<1> QED
  BY <1>3, <1>4 DEF AdminInv, UserInv, CountInv, LastAdminGuarded, ActiveAdmins

\* Whoever goes on after counting has counted two admins or more.
LEMMA CountKeeps == ASSUME AdminInv, NEW h \in Handlers, CountAdmins(h) PROVE AdminInv'
<1> DEFINE n == Cardinality(ActiveAdmins)
<1>1. n \in Nat
  BY FS_CardinalityType, FS_Subset DEF AdminInv, UserInv, ActiveAdmins
<1>2. Answer(h) \/ (~ LastAdmin(n) /\ Learn(h, "write", [got[h] EXCEPT !.admins = n]))
  BY Zenon DEF CountAdmins
<1>3. /\ UNCHANGED <<user, unguarded>>
      /\ \A i \in Handlers \ {h} : pc'[i] = pc[i] /\ got'[i] = got[i]
      /\ DOMAIN pc' = DOMAIN pc /\ DOMAIN got' = DOMAIN got
  BY <1>2 DEF AdminInv, UserInv, CountAdmins, Answer, Learn, tables, history
<1>4. /\ {"role", "admins"} \subseteq DOMAIN got'[h]
      /\ pc'[h] \in {"idle", "write"}
      /\ pc'[h] = "idle" => got'[h].role = "none"
      /\ pc'[h] = "write" => got'[h].admins \in Nat /\ got'[h].admins > 1
  <2> HIDE DEF n
  <2> QED
    BY <1>1, <1>2 DEF AdminInv, UserInv, LastAdmin, Answer, Learn, Nothing
<1> QED
  BY <1>3, <1>4 DEF AdminInv, UserInv, CountInv, LastAdminGuarded, ActiveAdmins

\* The write: where it takes an admin away and is guarded, another is left.
LEMMA WriteKeeps == ASSUME AdminInv, NEW h \in Handlers, WriteUser(h) PROVE AdminInv'
<1>1. /\ pc[h] = "write" /\ pc'[h] = "idle" /\ got'[h] = Nothing
      /\ \A i \in Handlers \ {h} : pc'[i] = pc[i] /\ got'[i] = got[i]
      /\ DOMAIN pc' = DOMAIN pc /\ DOMAIN got' = DOMAIN got
  BY DEF AdminInv, UserInv, WriteUser, Answer
<1>2. CountInv'
  BY <1>1 DEF AdminInv, CountInv, Nothing
<1>3. CASE UNCHANGED <<user, unguarded>>
  BY <1>1, <1>2, <1>3 DEF AdminInv, UserInv, LastAdminGuarded, ActiveAdmins, Nothing
<1>4. ASSUME NEW u \in DOMAIN user, NEW new, user' = [user EXCEPT ![u] = new], DOMAIN new = Columns,
             unguarded' = \/ unguarded
                          \/ /\ u \in ActiveAdmins /\ ~ (new.active /\ new.role = "admin")
                             /\ got[h].role # "admin" \/ got[h].admins # Cardinality(ActiveAdmins)
      PROVE  AdminInv'
  <2>1. UserInv'
    BY <1>1, <1>4 DEF AdminInv, UserInv, Nothing
  <2>2. ASSUME ~ unguarded' PROVE ActiveAdmins' # {}
    <3>1. ActiveAdmins # {}
      BY <1>4, <2>2 DEF AdminInv, LastAdminGuarded
    <3>2. \A a \in ActiveAdmins \ {u} : a \in ActiveAdmins'
      BY <1>4 DEF ActiveAdmins
    <3>3. CASE u \notin ActiveAdmins
      BY <3>1, <3>2, <3>3
    <3>4. CASE new.active /\ new.role = "admin"
      BY <1>4, <3>4 DEF ActiveAdmins
    <3>5. CASE u \in ActiveAdmins /\ ~ (new.active /\ new.role = "admin")
      <4>1. Cardinality(ActiveAdmins) > 1
        BY <1>1, <1>4, <2>2, <3>5 DEF AdminInv, CountInv
      <4>2. ActiveAdmins # {u}
        <5>1. Cardinality({u}) = 1
          BY FS_Singleton
        <5> QED
          BY <4>1, <5>1
      <4> QED
        BY <3>2, <3>5, <4>2
    <3> QED
      BY <3>3, <3>4, <3>5
  <2> QED
    BY <1>2, <2>1, <2>2 DEF AdminInv, LastAdminGuarded
<1> QED
  <2> DEFINE u == req[h].user
             set(options, old) == IF options = {} THEN old ELSE CHOOSE x \in options : TRUE
             new == [user[u] EXCEPT !.role = set(req[h].role, @), !.active = set(req[h].active, @)]
  <2>1. CASE u \in DOMAIN user
    <3>1. DOMAIN new = Columns
      BY <2>1 DEF AdminInv, UserInv
    <3>2. /\ user' = [user EXCEPT ![u] = new]
          /\ unguarded' = \/ unguarded
                          \/ /\ u \in ActiveAdmins /\ ~ (new.active /\ new.role = "admin")
                             /\ got[h].role # "admin" \/ got[h].admins # Cardinality(ActiveAdmins)
      BY <2>1, Zenon DEF WriteUser
    <3> HIDE DEF new
    <3> QED
      BY <2>1, <3>1, <3>2, <1>4
  <2>2. CASE u \notin DOMAIN user
    BY <2>2, <1>3 DEF WriteUser
  <2> QED
    BY <2>1, <2>2

\* Two users are finitely many.
LEMMA TwoUsers ==
  ASSUME NEW a, NEW b, Admins \cup Staff = {a, b}
  PROVE  IsFiniteSet(Admins \cup Staff)
<1>1. IsFiniteSet({a}) /\ IsFiniteSet({b}) /\ {a, b} = {a} \cup {b}
  BY FS_Singleton
<1> QED
  BY <1>1, FS_Union

\* As long as no admin is removed by a handler that could not read the role, or
\* whose count another handler's change overtook, an active admin is left
\* (user_admin.go:305).
THEOREM GuardHolds ==
  ASSUME Admins # {}, IsFiniteSet(Admins \cup Staff)
  PROVE  Spec => []LastAdminGuarded
<1>1. Init => AdminInv
  BY AdminInit
<1>2. AdminInv /\ [Next]_vars => AdminInv'
  <2> SUFFICES ASSUME AdminInv, [Next]_vars PROVE AdminInv'
    OBVIOUS
  <2>1. CASE Tick \/ UNCHANGED vars
    BY <2>1 DEF Tick, vars, tables, history, AdminInv, UserInv, CountInv, LastAdminGuarded, ActiveAdmins
  <2>2. ASSUME NEW h \in Handlers,
               \/ LoginCheck(h) \/ LoginStore(h)
               \/ RefreshLookup(h) \/ RefreshUser(h) \/ RefreshRotate(h)
               \/ Revoke(h)
               \/ Forgot(h) \/ ResetLookup(h) \/ SetPassword(h) \/ MarkUsed(h) \/ DeleteSessions(h)
               \/ CheckTaken(h) \/ Insert(h) \/ SeedPermissions(h)
        PROVE  AdminInv'
    BY <2>2, NoneLostKeeps, SessionsLoseNone, PasswordLosesNone, InsertLosesNone
  <2>3. ASSUME NEW h \in Handlers, Receive(h) \/ ReadRole(h) \/ CountAdmins(h) \/ WriteUser(h)
        PROVE  AdminInv'
    BY <2>3, ReceiveLosesNone, ReadKeeps, CountKeeps, WriteKeeps
  <2> QED
    BY <2>1, <2>2, <2>3 DEF Next
<1>3. AdminInv => LastAdminGuarded
  BY DEF AdminInv
<1> QED
  BY <1>1, <1>2, <1>3, PTL DEF Spec
=============================================================================
