------------------------------- MODULE Outbox -------------------------------
(***************************************************************************)
(* The transactional outbox: the outbox table, the drainers that lease due *)
(* events, publish them and record the results (pkg/outbox/outbox.go,      *)
(* run.go and pkg/db/queries/outbox.sql), and the stream they publish to.  *)
(*                                                                         *)
(* Times are relative to the present: 0 is now, a positive time lies in    *)
(* the future, a negative one in the past, and Tick moves all of them back *)
(* by one.  Times older than MaxStall are not told apart.  A drainer reads *)
(* its clock once, at the start of a drain, and uses that reading to the   *)
(* end: now[d] falls behind while the drain lasts.                         *)
(*                                                                         *)
(* An operator whose comment begins "A bug:" is a mutant: it changes the   *)
(* definition that follows it, and no part of Spec uses it.                *)
(***************************************************************************)
EXTENDS Integers, FiniteSets, RetryBackoff

CONSTANTS
  Events,        \* the ids of the outbox rows, in AUTO_INCREMENT order
  Drainers,      \* the lease owners: one drainer per process
  NoOwner,       \* the NULL of lease_owner
  BatchSize,     \* OUTBOX_BATCH_SIZE
  Lease,         \* OUTBOX_LEASE, in ticks
  MaxAttempts,   \* OUTBOX_MAX_ATTEMPTS
  MaxStall,      \* bound: the longest a drain lasts, in ticks
  MaxFaults,     \* bound: crashes and database errors in a behaviour
  MaxLeases      \* bound: the leases of one event

ASSUME EventsAssumption == Events \subseteq Nat
ASSUME DrainersAssumption == IsFiniteSet(Drainers) /\ NoOwner \notin Drainers
\* DrainOnce refuses to run unless these settings are positive.
ASSUME SettingsAssumption == /\ BatchSize \in Nat \ {0}
                             /\ Lease \in Nat \ {0}
                             /\ MaxAttempts \in Nat \ {0}
ASSUME BoundsAssumption == MaxStall \in Nat /\ MaxFaults \in Nat /\ MaxLeases \in Nat

VARIABLES
  \* the table
  status, attemptCount, nextAttemptAt, leaseOwner, leaseExpiresAt,
  \* the drainers
  pc,            \* where DrainOnce stands
  now,           \* the clock reading of the drain
  todo,          \* the rows listed by the claim, then those still to publish
  attemptRead,   \* the AttemptCount of the listed rows, read before the lease
  failed,        \* the event whose publish failed and is not yet recorded
  sent,          \* the events published and not yet marked
  \* the stream
  wire,          \* copies that were reported failed and may still arrive
  copies,        \* copies that reached the stream
  faults

rows == <<status, attemptCount, nextAttemptAt, leaseOwner, leaseExpiresAt>>
drains == <<pc, now, todo, attemptRead, failed, sent>>
stream == <<wire, copies>>
vars == <<rows, drains, stream, faults>>

Statuses == {"absent", "pending", "in_flight", "published", "dead_letter"}
Settled == {"published", "dead_letter"}

-----------------------------------------------------------------------------
\* The rows that an open claim holds locked.
Claiming(d) == pc[d] \in {"expired", "lease"}
Locked == UNION {todo[d] : d \in {c \in Drainers : Claiming(c)}}

\* A bug: the limit is one short.
FirstButOne(S, key, n) ==
  LET Before(e, f) == key[e] < key[f] \/ (key[e] = key[f] /\ e < f)
  IN  {e \in S : Cardinality({f \in S : Before(f, e)}) < n - 1}

\* SELECT ... ORDER BY key, id LIMIT n over the rows S
First(S, key, n) ==
  LET Before(e, f) == key[e] < key[f] \/ (key[e] = key[f] /\ e < f)
  IN  {e \in S : Cardinality({f \in S : Before(f, e)}) < n}

\* A bug: the claim reads without FOR UPDATE.
UnlockedOrNot == {e \in Events : attemptCount[e] < MaxLeases}

\* FOR UPDATE SKIP LOCKED: the rows another claim holds are passed over.  (A row
\* that was leased MaxLeases times is no longer looked at: a bound.)
Unlocked == {e \in Events \ Locked : attemptCount[e] < MaxLeases}
DuePending(d) ==
  {e \in Unlocked : status[e] = "pending" /\ nextAttemptAt[e] <= now[d]}

\* Bugs: a running lease counts as expired; expired leases are not looked for.
Unexpired(d) ==
  {e \in Unlocked : status[e] = "in_flight" /\ leaseExpiresAt[e] >= now[d]}
NoneExpired(d) == IF d \in Drainers THEN {} ELSE Unlocked

Expired(d) ==
  {e \in Unlocked : status[e] = "in_flight" /\ leaseExpiresAt[e] <= now[d]}

\* A bug: the lease does not count the attempt.
LeaseRowsUncounted(d) ==
  /\ status' = [e \in Events |-> IF e \in todo[d] THEN "in_flight" ELSE status[e]]
  /\ leaseOwner' = [e \in Events |-> IF e \in todo[d] THEN d ELSE leaseOwner[e]]
  /\ leaseExpiresAt' =
       [e \in Events |-> IF e \in todo[d] THEN now[d] + Lease ELSE leaseExpiresAt[e]]
  /\ UNCHANGED <<attemptCount, nextAttemptAt>>

\* The UPDATE of a claim: it names its rows and no owner.
LeaseRows(d) ==
  /\ status' = [e \in Events |-> IF e \in todo[d] THEN "in_flight" ELSE status[e]]
  /\ leaseOwner' = [e \in Events |-> IF e \in todo[d] THEN d ELSE leaseOwner[e]]
  /\ leaseExpiresAt' =
       [e \in Events |-> IF e \in todo[d] THEN now[d] + Lease ELSE leaseExpiresAt[e]]
  /\ attemptCount' =
       [e \in Events |-> IF e \in todo[d] THEN attemptCount[e] + 1 ELSE attemptCount[e]]
  /\ UNCHANGED nextAttemptAt

\* A bug: a write names its rows only.
OwnedOrNot(d, S) == IF d \in Drainers THEN S ELSE {}

\* A write applies only to the rows that the drainer still owns.
Owned(d, S) == {e \in S : leaseOwner[e] = d}

Release(S) ==
  /\ leaseOwner' = [e \in Events |-> IF e \in S THEN NoOwner ELSE leaseOwner[e]]
  /\ leaseExpiresAt' = [e \in Events |-> IF e \in S THEN 0 ELSE leaseExpiresAt[e]]

MarkPublished(d) ==
  LET S == Owned(d, sent[d])
  IN  /\ status' = [e \in Events |-> IF e \in S THEN "published" ELSE status[e]]
      /\ Release(S)
      /\ UNCHANGED <<attemptCount, nextAttemptAt>>

\* A bug: a status that chk_outbox_status does not know.
MarkDead(d, S) ==
  /\ status' = [e \in Events |-> IF e \in S THEN "dead" ELSE status[e]]
  /\ Release(S)
  /\ UNCHANGED <<attemptCount, nextAttemptAt>>

MarkDeadLetter(d, S) ==
  /\ status' = [e \in Events |-> IF e \in S THEN "dead_letter" ELSE status[e]]
  /\ Release(S)
  /\ UNCHANGED <<attemptCount, nextAttemptAt>>

MarkRetry(d, S, attempt) ==
  /\ status' = [e \in Events |-> IF e \in S THEN "pending" ELSE status[e]]
  /\ nextAttemptAt' =
       [e \in Events |-> IF e \in S THEN now[d] + Backoff(attempt) ELSE nextAttemptAt[e]]
  /\ Release(S)
  /\ UNCHANGED attemptCount

\* Bugs: the attempt is counted twice; the last attempt is retried once more.
RecordFailureCountedTwice(d, e) ==
  LET attempt == attemptRead[d][e] + 2
      S == Owned(d, {e})
  IN  \/ attempt >= MaxAttempts /\ MarkDeadLetter(d, S)
      \/ attempt < MaxAttempts /\ MarkRetry(d, S, attempt)
RecordFailureOnceMore(d, e) ==
  LET attempt == attemptRead[d][e] + 1
      S == Owned(d, {e})
  IN  \/ attempt > MaxAttempts /\ MarkDeadLetter(d, S)
      \/ attempt <= MaxAttempts /\ MarkRetry(d, S, attempt)

\* recordFailure: the attempt is counted from what the claim read.
RecordFailure(d, e) ==
  LET attempt == attemptRead[d][e] + 1
      S == Owned(d, {e})
  IN  \/ attempt >= MaxAttempts /\ MarkDeadLetter(d, S)
      \/ attempt < MaxAttempts /\ MarkRetry(d, S, attempt)

\* DrainOnce returns, or its process dies: what it had in memory is gone.
Return(d) ==
  /\ pc' = [pc EXCEPT ![d] = "idle"]
  /\ now' = [now EXCEPT ![d] = 0]
  /\ todo' = [todo EXCEPT ![d] = {}]
  /\ attemptRead' = [attemptRead EXCEPT ![d] = [e \in Events |-> 0]]
  /\ failed' = [failed EXCEPT ![d] = {}]
  /\ sent' = [sent EXCEPT ![d] = {}]

Fault == faults < MaxFaults /\ faults' = faults + 1

-----------------------------------------------------------------------------
Init ==
  /\ status = [e \in Events |-> "absent"]
  /\ attemptCount = [e \in Events |-> 0]
  /\ nextAttemptAt = [e \in Events |-> 0]
  /\ leaseOwner = [e \in Events |-> NoOwner]
  /\ leaseExpiresAt = [e \in Events |-> 0]
  /\ pc = [d \in Drainers |-> "idle"]
  /\ now = [d \in Drainers |-> 0]
  /\ todo = [d \in Drainers |-> {}]
  /\ attemptRead = [d \in Drainers |-> [e \in Events |-> 0]]
  /\ failed = [d \in Drainers |-> {}]
  /\ sent = [d \in Drainers |-> {}]
  /\ wire = [e \in Events |-> 0]
  /\ copies = [e \in Events |-> 0]
  /\ faults = 0

\* The business transaction that appended e commits.
Append(e) ==
  /\ status[e] = "absent"
  /\ status' = [status EXCEPT ![e] = "pending"]
  /\ nextAttemptAt' = [nextAttemptAt EXCEPT ![e] = 0]
  /\ UNCHANGED <<attemptCount, leaseOwner, leaseExpiresAt, drains, stream, faults>>

\* DrainOnce reads the clock and opens the claim transaction.
StartDrain(d) ==
  /\ pc[d] = "idle"
  /\ pc' = [pc EXCEPT ![d] = "due"]
  /\ UNCHANGED <<rows, now, todo, attemptRead, failed, sent, stream, faults>>

ListDuePending(d) ==
  /\ pc[d] = "due"
  /\ todo' = [todo EXCEPT ![d] = First(DuePending(d), nextAttemptAt, BatchSize)]
  /\ pc' = [pc EXCEPT ![d] = "expired"]
  /\ UNCHANGED <<rows, now, attemptRead, failed, sent, stream, faults>>

\* The room that the due events leave in the batch is filled from the expired
\* leases; an empty batch ends the drain.
ListExpired(d) ==
  LET room == BatchSize - Cardinality(todo[d])
      batch == todo[d] \cup First(Expired(d), leaseExpiresAt, room)
  IN  /\ pc[d] = "expired"
      /\ \/ /\ batch = {}
            /\ Return(d)
         \/ /\ batch # {}
            /\ todo' = [todo EXCEPT ![d] = batch]
            /\ pc' = [pc EXCEPT ![d] = "lease"]
            /\ UNCHANGED <<now, attemptRead, failed, sent>>
      /\ UNCHANGED <<rows, stream, faults>>

\* The claim leases its rows and commits.
LeaseBatch(d) ==
  /\ pc[d] = "lease"
  /\ LeaseRows(d)
  /\ attemptRead' =
       [attemptRead EXCEPT ![d] = [e \in Events |-> IF e \in todo[d] THEN attemptCount[e] ELSE 0]]
  /\ pc' = [pc EXCEPT ![d] = "publish"]
  /\ UNCHANGED <<now, todo, failed, sent, stream, faults>>

\* The commit takes effect but its answer is lost: the claim returns an error.
LeaseUnanswered(d) ==
  /\ pc[d] = "lease"
  /\ LeaseRows(d)
  /\ Return(d)
  /\ Fault
  /\ UNCHANGED stream

\* The stream acknowledges the publish.
PublishAcked(d, e) ==
  /\ pc[d] = "publish" /\ failed[d] = {} /\ e \in todo[d]
  /\ copies' = [copies EXCEPT ![e] = @ + 1]
  /\ todo' = [todo EXCEPT ![d] = @ \ {e}]
  /\ sent' = [sent EXCEPT ![d] = @ \cup {e}]
  /\ UNCHANGED <<rows, pc, now, attemptRead, failed, wire, faults>>

\* A bug: the error of the publish is ignored.
PublishFailedIgnored(d, e) ==
  /\ pc[d] = "publish" /\ failed[d] = {} /\ e \in todo[d]
  /\ wire' \in {wire, [wire EXCEPT ![e] = @ + 1]}
  /\ todo' = [todo EXCEPT ![d] = @ \ {e}]
  /\ sent' = [sent EXCEPT ![d] = @ \cup {e}]
  /\ UNCHANGED <<rows, pc, now, attemptRead, failed, copies, faults>>

\* The publish fails.  The message is lost, or it sits in the reconnect buffer
\* or on the network and may still reach the stream.
PublishFailed(d, e) ==
  /\ pc[d] = "publish" /\ failed[d] = {} /\ e \in todo[d]
  /\ wire' \in {wire, [wire EXCEPT ![e] = @ + 1]}
  /\ todo' = [todo EXCEPT ![d] = @ \ {e}]
  /\ failed' = [failed EXCEPT ![d] = {e}]
  /\ UNCHANGED <<rows, pc, now, attemptRead, sent, copies, faults>>

\* A copy of a publish that was reported failed reaches the stream.
Arrive(e) ==
  /\ wire[e] > 0
  /\ wire' = [wire EXCEPT ![e] = @ - 1]
  /\ copies' = [copies EXCEPT ![e] = @ + 1]
  /\ UNCHANGED <<rows, drains, faults>>

\* The failure is recorded on its own event.  The statement waits for the row
\* lock of a claim.
RecordFailed(d, e) ==
  /\ e \in failed[d] /\ e \notin Locked
  /\ RecordFailure(d, e)
  /\ failed' = [failed EXCEPT ![d] = {}]
  /\ UNCHANGED <<pc, now, todo, attemptRead, sent, stream, faults>>

\* The record is written but its answer is lost: the drain stops there.
RecordUnanswered(d, e) ==
  /\ e \in failed[d] /\ e \notin Locked
  /\ RecordFailure(d, e)
  /\ Return(d)
  /\ Fault
  /\ UNCHANGED stream

Published(d) == pc[d] = "publish" /\ todo[d] = {} /\ failed[d] = {}

\* The whole batch was tried: one statement marks what was sent.
FinishDrain(d) ==
  /\ Published(d)
  /\ sent[d] \cap Locked = {}
  /\ MarkPublished(d)
  /\ Return(d)
  /\ UNCHANGED <<stream, faults>>

\* The process dies, or a statement fails without effect and DrainOnce returns
\* its error.  An open claim is rolled back.  Run drains again later.
Abandon(d) ==
  /\ pc[d] # "idle"
  /\ Return(d)
  /\ Fault
  /\ UNCHANGED <<rows, stream>>

\* Time passes; no drain outlasts MaxStall.  The due time of a row that is not
\* pending is read by no query: it is taken as 0.
Older(t) == IF t > -MaxStall THEN t - 1 ELSE t
Tick ==
  /\ \A d \in Drainers : pc[d] # "idle" => now[d] > -MaxStall
  /\ now' = [d \in Drainers |-> IF pc[d] = "idle" THEN now[d] ELSE now[d] - 1]
  /\ nextAttemptAt' =
       [e \in Events |-> IF status[e] = "pending" THEN Older(nextAttemptAt[e]) ELSE 0]
  /\ leaseExpiresAt' =
       [e \in Events |-> IF status[e] = "in_flight" THEN Older(leaseExpiresAt[e]) ELSE 0]
  /\ UNCHANGED <<status, attemptCount, leaseOwner, pc, todo, attemptRead, failed, sent,
                 stream, faults>>

DrainOnce(d) ==
  \/ StartDrain(d) \/ ListDuePending(d) \/ ListExpired(d) \/ LeaseBatch(d)
  \/ \E e \in Events : PublishAcked(d, e) \/ PublishFailed(d, e) \/ RecordFailed(d, e)
  \/ FinishDrain(d)

Break(d) ==
  \/ LeaseUnanswered(d)
  \/ \E e \in Events : RecordUnanswered(d, e)
  \/ Abandon(d)

Next == \/ \E e \in Events : Append(e) \/ Arrive(e)
        \/ \E d \in Drainers : DrainOnce(d) \/ Break(d)
        \/ Tick

Spec == Init /\ [][Next]_vars

\* Run drains once per interval for as long as the process lives, so a drainer
\* keeps stepping; and time passes.
FairSpec == Spec /\ WF_vars(Tick) /\ \A d \in Drainers : WF_vars(DrainOnce(d))
-----------------------------------------------------------------------------
\* Every column and every local variable of a drain has its type.
TypeOK ==
  /\ status \in [Events -> Statuses]
  /\ attemptCount \in [Events -> Nat]
  /\ nextAttemptAt \in [Events -> Int]
  /\ leaseOwner \in [Events -> Drainers \cup {NoOwner}]
  /\ leaseExpiresAt \in [Events -> Int]
  /\ pc \in [Drainers -> {"idle", "due", "expired", "lease", "publish"}]
  /\ now \in [Drainers -> {t \in Int : t <= 0}]
  /\ todo \in [Drainers -> SUBSET Events]
  /\ attemptRead \in [Drainers -> [Events -> Nat]]
  /\ failed \in [Drainers -> SUBSET Events]
  /\ sent \in [Drainers -> SUBSET Events]
  /\ wire \in [Events -> Nat]
  /\ copies \in [Events -> Nat]
  /\ faults \in Nat

\* The events a drainer has in memory after its claim, and those it may rely on:
\* locked by its open claim, or leased to it with the lease still running.
InHand(d) == IF pc[d] = "publish" THEN todo[d] \cup failed[d] \cup sent[d] ELSE {}
Held(d) == IF Claiming(d) THEN todo[d]
           ELSE IF now[d] + Lease > 0 THEN InHand(d) ELSE {}

\* "The rows are locked and leased in the same transaction, so no two drainers
\* hold the same event" (claim): for as long as the lease runs.
ExclusiveHolder ==
  \A c, d \in Drainers : c # d => Held(c) \cap Held(d) = {}

\* MarkOutboxEventsPublished is reached only by events the stream took: no event
\* is called published on the strength of a failed or forgotten publish.
PublishedWasStored == \A e \in Events : status[e] = "published" => copies[e] > 0

\* recordFailure gives an event up only when its last allowed attempt has failed,
\* whatever leases were lost in between.
DeadLetterIsExhausted ==
  \A e \in Events : status[e] = "dead_letter" => attemptCount[e] >= MaxAttempts

\* Every copy that reaches the stream is paid for by an attempt that the lease
\* counted: a drainer sends what it claimed once and nothing twice.
SendsWithinAttempts ==
  \A e \in Events : copies[e] + wire[e] <= attemptCount[e]

\* A published or dead-lettered row is never written again, however late the
\* drainer that lost its lease comes back.
SettledIsFinal ==
  [][\A e \in Events : status[e] \in Settled =>
       /\ status'[e] = status[e]
       /\ attemptCount'[e] = attemptCount[e]]_vars

\* "A write only applies to the lease holder's row" (outbox.sql): a row whose
\* lease is still running leaves its owner only by a step of that owner.
LeaseRespected ==
  [][\A e \in Events : \A d \in Drainers :
       (leaseOwner[e] = d /\ leaseOwner'[e] # d /\ leaseExpiresAt[e] > 0) =>
         e \in InHand(d) \ InHand(d)']_vars

\* With a lease longer than any stall, an event costs at most MaxAttempts leases
\* and one more for each crash or database error (the attempts counter is not
\* itself a bound: the lease increments it and only a recorded failure tests it).
LeasesBounded ==
  Lease > MaxStall => \A e \in Events : attemptCount[e] <= MaxAttempts + faults

\* An event whose transaction committed is published or dead-lettered in the end.
EveryEventSettles ==
  \A e \in Events : status[e] # "absent" ~> status[e] \in Settled

\* The outbox implements what the package promises of each event: pending and in
\* flight are two ways of being open, and every lease, retry and lost answer is a
\* stuttering step.
Fate == [e \in Events |->
           IF status[e] \in {"pending", "in_flight"} THEN "open" ELSE status[e]]
Delivery == INSTANCE EventDelivery WITH fate <- Fate, delivered <- copies
ImplementsDelivery == Delivery!DeliverySpec
-----------------------------------------------------------------------------
(* The inductive invariant behind the safety properties. *)

\* A row has an owner exactly while it is in flight.
OwnedIffInFlight ==
  \A e \in Events : leaseOwner[e] # NoOwner <=> status[e] = "in_flight"

\* Before a claim there is nothing in memory; before its commit, only rows to do;
\* after it, an event is to do, failed or sent, one failure being recorded at a time.
MemoryInv ==
  \A d \in Drainers :
    /\ pc[d] \in {"idle", "due"} => todo[d] = {}
    /\ pc[d] # "publish" => failed[d] = {} /\ sent[d] = {}
    /\ \A e, f \in failed[d] : e = f
    /\ now[d] >= -MaxStall
    /\ todo[d] \cap failed[d] = {}
    /\ todo[d] \cap sent[d] = {}
    /\ failed[d] \cap sent[d] = {}

\* The rows of an open claim are its own, and free to be leased.
ClaimInv ==
  /\ \A c, d \in Drainers :
       c # d /\ Claiming(c) /\ Claiming(d) => todo[c] \cap todo[d] = {}
  /\ \A d \in Drainers : Claiming(d) =>
       \A e \in todo[d] : \/ status[e] = "pending"
                          \/ status[e] = "in_flight" /\ leaseExpiresAt[e] <= now[d]

\* A drainer owns what it has in hand for as long as its lease runs, and what it
\* still owns is as it leased it.
HolderInv ==
  \A d \in Drainers : \A e \in InHand(d) :
    /\ now[d] + Lease > 0 => leaseOwner[e] = d
    /\ leaseOwner[e] = d => /\ leaseExpiresAt[e] = now[d] + Lease
                            /\ attemptCount[e] = attemptRead[d][e] + 1

\* Nothing is sent or in hand before it is written.
WrittenInv ==
  \A e \in Events : status[e] = "absent" =>
    /\ wire[e] = 0
    /\ \A d \in Drainers : e \notin InHand(d)

SentInv == \A d \in Drainers : \A e \in sent[d] : copies[e] > 0

\* What rows, drains and leases have in common in every reachable state: the
\* strengthening from which the safety properties follow.
IndInv == /\ TypeOK
          /\ OwnedIffInFlight
          /\ MemoryInv
          /\ ClaimInv
          /\ HolderInv
          /\ WrittenInv
          /\ SentInv
          /\ PublishedWasStored
          /\ DeadLetterIsExhausted
=============================================================================
