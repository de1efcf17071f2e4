------------------------------ MODULE Vehicles ------------------------------
(***************************************************************************)
(* Vehicles by their number (pkg/handlers/vin.go).  A lookup asks the      *)
(* table vin_cache with LIKE, which takes what the client sent as a        *)
(* pattern, then one outside service and, when that refuses, another; what *)
(* a service says is kept under the number that was asked for.  Handlers   *)
(* put the vehicle to queries on the parts catalogue, which nothing here   *)
(* writes.                                                                 *)
(*                                                                         *)
(* A number is a sequence of characters: 1 to 30 are those that stand for  *)
(* a year, in their order, 31 and 32 the wildcards of LIKE, and 0 is any   *)
(* other.  Characters that the column's collation takes for one are one    *)
(* here; the escapes of LIKE (a backslash) and of addresses (a percent     *)
(* sign and two digits) are left out.                                      *)
(*                                                                         *)
(* An operator whose comment begins "A bug:" is a mutant: it changes the   *)
(* definition that follows it, and no part of Spec uses it.                *)
(***************************************************************************)
EXTENDS Naturals, Sequences

CONSTANTS
  Handlers,  \* the requests that are served at the same time
  Numbers,   \* what clients ask for: whole numbers, beginnings of them, patterns
  YearAt,    \* the place of the year's character
  Parts,     \* the parts of every vehicle, in the order of the query
  Pages,     \* page numbers and sizes that clients send
  MaxFaults  \* bound: failed statements and requests to a service

VARIABLES
  vin_cache, \* the rows, by number: what a service said
  pc, req,   \* per handler: where it stands and its request
  got,       \* per handler: the body it has, if any
  answer,    \* per handler: what it answered, until its next request
  faults

vars == <<vin_cache, pc, req, got, answer, faults>>

Idle == [op |-> "none"]
NoAnswer == [kind |-> "none"]

Init ==
  /\ vin_cache = [n \in {} |-> {}]
  /\ pc = [h \in Handlers |-> "idle"]
  /\ req = [h \in Handlers |-> Idle]
  /\ got = [h \in Handlers |-> {}]
  /\ answer = [h \in Handlers |-> NoAnswer]
  /\ faults = 0

Learn(h, place, body) ==
  /\ pc' = [pc EXCEPT ![h] = place]
  /\ got' = [got EXCEPT ![h] = body]
  /\ UNCHANGED <<req, answer>>
Reply(h, a) ==
  /\ pc' = [pc EXCEPT ![h] = "idle"]
  /\ req' = [req EXCEPT ![h] = Idle]
  /\ got' = [got EXCEPT ![h] = {}]
  /\ answer' = [answer EXCEPT ![h] = a]
Fail == faults < MaxFaults /\ faults' = faults + 1
Works == UNCHANGED faults

\* The vehicle alone (SearchByVin, GetCarInfoByVin, GetCarsByVin), past the
\* cache, or with its parts: by page, with their details, or all of them.
Receive(h) ==
  /\ pc[h] = "idle"
  /\ \E r \in [op : {"vehicle", "no cache", "all parts"}, number : Numbers]
              \cup [op : {"parts", "details"}, number : Numbers, page : Pages] :
       /\ pc' = [pc EXCEPT ![h] = IF r.op = "no cache" THEN "global" ELSE "cache"]
       /\ req' = [req EXCEPT ![h] = r]
       /\ answer' = [answer EXCEPT ![h] = NoAnswer]
  /\ UNCHANGED <<vin_cache, got, faults>>

AnyOne == 31   \* the character _: one character, whichever it is
AnyMany == 32  \* the character %: any characters, or none
Wild == {AnyOne, AnyMany}

\* row LIKE pattern: the row is cut into one piece for each character of the pattern.
Like(row, pattern) ==
  \E cut \in [0..Len(pattern) -> 0..Len(row)] :
    /\ cut[0] = 0 /\ cut[Len(pattern)] = Len(row)
    /\ \A i \in 1..Len(pattern) :
         IF pattern[i] = AnyMany
         THEN cut[i - 1] <= cut[i]
         ELSE cut[i] = cut[i - 1] + 1 /\ pattern[i] \in {AnyOne, row[cut[i]]}

\* vin LIKE number%, whatever is in the number.
\* A bug: a row that the number begins with answers for it.
MatchesShorter(row, number) == Like(number, Append(row, AnyMany))
Matches(row, number) == Like(row, Append(number, AnyMany))

\* searchByVinRaw: one of the rows, in no order; an error is as no row.
ReadCache(h) ==
  LET rows == {n \in DOMAIN vin_cache : Matches(n, req[h].number)} IN
  /\ pc[h] = "cache"
  /\ \/ Works /\ \E n \in rows : Learn(h, "decode", {vin_cache[n]})
     \/ Works /\ rows = {} /\ Learn(h, "global", {})
     \/ Fail /\ Learn(h, "global", {})
  /\ UNCHANGED vin_cache

\* searchByVinRawSkipCache: the world's service, and Europe's when that one has
\* refused; an error ends the search.  A percent sign makes no address (one before
\* two hexadecimal digits would, and is left out).
AskService(h) ==
  LET n == req[h].number
      address == \A i \in 1..Len(n) : n[i] # AnyMany
  IN
  /\ pc[h] \in {"global", "europe"}
  /\ \/ address /\ Works /\ Learn(h, "save", {[of |-> n, layout |-> pc[h]]})
     \/ address /\ Works /\ Learn(h, IF pc[h] = "global" THEN "europe" ELSE "decode", {})
     \/ address /\ Fail /\ Learn(h, "decode", {})
     \/ ~ address /\ Works /\ Learn(h, "decode", {})
  /\ UNCHANGED vin_cache

\* saveRequest: an insert, which a row of that number refuses; a failure is
\* passed over.
SaveRequest(h) ==
  LET n == req[h].number IN
  /\ pc[h] = "save"
  /\ \/ /\ vin_cache' = IF n \in DOMAIN vin_cache THEN vin_cache
                        ELSE [m \in DOMAIN vin_cache \cup {n} |->
                                IF m = n THEN CHOOSE body \in got[h] : TRUE ELSE vin_cache[m]]
        /\ Works
     \/ Fail /\ UNCHANGED vin_cache
  /\ Learn(h, "decode", got[h])

\* The year that a character stands for, none (0) for the others.
getYear(c) == IF c \in 1..30 THEN 2000 + c ELSE 0

\* searchByVin: the year is that of the number asked for, and a number without
\* its character panics.  The two services lay their answers out differently;
\* without one the model is empty.
Decode(h) ==
  LET n == req[h].number IN
  /\ pc[h] = "decode"
  /\ IF req[h].op = "no cache"
     THEN Reply(h, IF got[h] = {} THEN [kind |-> "refused"]
                   ELSE [kind |-> "body", number |-> n, body |-> got[h]])
     ELSE IF Len(n) < YearAt THEN Reply(h, [kind |-> "panic"])
     ELSE IF req[h].op = "vehicle" THEN Reply(h, [kind |-> "vehicle", number |-> n, body |-> got[h],
                                                 year |-> getYear(n[YearAt])])
     ELSE Learn(h, "catalogue", got[h])
  /\ UNCHANGED <<vin_cache, faults>>

\* What the queries take for LIMIT and OFFSET: the details have them the other
\* way round, and the number of a page is the offset of its first part.
Limit(r) == IF r.op = "all parts" THEN Len(Parts) ELSE IF r.op = "parts" THEN r.page.size ELSE r.page.number
Offset(r) == IF r.op = "all parts" THEN 0 ELSE IF r.op = "parts" THEN r.page.number ELSE r.page.size

\* The queries on the catalogue: no vehicle has no parts, and nor has an error.
ReadParts(h) ==
  LET r == req[h]
      found == SubSeq(Parts, Offset(r) + 1, Offset(r) + Limit(r))
  IN
  /\ pc[h] = "catalogue"
  /\ \/ Works /\ Reply(h, [kind |-> "parts", number |-> r.number, body |-> got[h],
                          parts |-> IF got[h] = {} THEN <<>> ELSE found])
     \/ Fail /\ Reply(h, [kind |-> "parts", number |-> r.number, body |-> got[h], parts |-> <<>>])
  /\ UNCHANGED vin_cache

Next ==
  \E h \in Handlers :
    \/ Receive(h) \/ ReadCache(h) \/ AskService(h) \/ SaveRequest(h) \/ Decode(h) \/ ReadParts(h)

Spec == Init /\ [][Next]_vars
-----------------------------------------------------------------------------
\* The vehicle says what n says up to n's first wildcard.
BeginsAs(n, vehicle) ==
  \A i \in 1..Len(n) : (\A j \in 1..i : n[j] \notin Wild) => i <= Len(vehicle) /\ vehicle[i] = n[i]

\* No wildcard, and no number is longer.
Whole(n) == (\A i \in 1..Len(n) : n[i] \notin Wild) /\ \A m \in Numbers : Len(m) <= Len(n)

\* Whichever lookups filled the cache (vin.go:87): a vehicle that is answered begins as the
\* number says up to its first wildcard; for a whole number it is the very one; and its year,
\* which the code reads in the number that was sent (vin.go:152), is its own unless a wildcard
\* came before.
VehicleIsAsked ==
  \A h \in Handlers : answer[h].kind \in {"vehicle", "body", "parts"} =>
    \A body \in answer[h].body :
      LET n == answer[h].number IN
      /\ BeginsAs(n, body.of)
      /\ Whole(n) => body.of = n
      /\ answer[h].kind = "vehicle" /\ (\A j \in 1..YearAt : n[j] \notin Wild) =>
           answer[h].year = getYear(body.of[YearAt])
=============================================================================
