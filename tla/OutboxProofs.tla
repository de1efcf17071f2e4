---------------------------- MODULE OutboxProofs ----------------------------
(***************************************************************************)
(* Proofs about Outbox, for every set of events and of drainers and every  *)
(* setting of the drainer.                                                 *)
(***************************************************************************)
EXTENDS MCOutbox, Induction, FiniteSetTheorems, TLAPS

USE DrainersAssumption, SettingsAssumption, BoundsAssumption

\* The wait before a retry is between one and the cap.
LEMMA BackoffRange == \A n : Backoff(n) \in 1..MaxBackoff
BY MaxBackoffAssumption DEF Backoff

\* A limited, ordered SELECT returns rows it was given.
LEMMA FirstIsSubset == \A S, key, n : First(S, key, n) \subseteq S
BY DEF First

\* The outbox starts in the inductive invariant.
LEMMA InitInv == Init => IndInv
BY DEF Init, IndInv, TypeOK, OwnedIffInFlight, MemoryInv, ClaimInv, HolderInv, WrittenInv,
       SentInv, PublishedWasStored, DeadLetterIsExhausted, Statuses, Claiming, InHand

\* What a recorded failure leaves of the row of e.
Recorded(e, to) ==
  /\ status' = [status EXCEPT ![e] = to]
  /\ leaseOwner' = [leaseOwner EXCEPT ![e] = NoOwner]
  /\ leaseExpiresAt' = [leaseExpiresAt EXCEPT ![e] = 0]
  /\ attemptCount' = attemptCount
  /\ nextAttemptAt' \in [Events -> Int]

\* A failure is recorded on its own row, if the drainer still owns it: the row is
\* then dead-lettered after the last attempt, or else pending again.
LEMMA RecordEffect ==
  ASSUME TypeOK, NEW d \in Drainers, NEW e \in Events, RecordFailure(d, e)
  PROVE  \/ UNCHANGED rows
         \/ /\ leaseOwner[e] = d
            /\ \/ Recorded(e, "pending") /\ attemptRead[d][e] + 1 < MaxAttempts
               \/ Recorded(e, "dead_letter") /\ attemptRead[d][e] + 1 >= MaxAttempts
<1> DEFINE S == Owned(d, {e})
<1> USE DEF TypeOK
<1>1. RecordFailure(d, e) =>
        \/ attemptRead[d][e] + 1 >= MaxAttempts /\ MarkDeadLetter(d, S)
        \/ /\ attemptRead[d][e] + 1 < MaxAttempts
           /\ MarkRetry(d, S, attemptRead[d][e] + 1)
  BY DEF RecordFailure
<1>2. CASE leaseOwner[e] # d
  <2>1. S = {}
    BY <1>2 DEF Owned
  <2>2. Release(S) => UNCHANGED <<leaseOwner, leaseExpiresAt>>
    BY <2>1 DEF Release
  <2>3. MarkDeadLetter(d, S) => UNCHANGED rows
    BY <2>1, <2>2 DEF MarkDeadLetter, rows
  <2>4. \A n : MarkRetry(d, S, n) => UNCHANGED rows
    BY <2>1, <2>2 DEF MarkRetry, rows
  <2> QED
    BY <1>1, <2>3, <2>4
<1>3. CASE leaseOwner[e] = d
  <2>1. S = {e}
    BY <1>3 DEF Owned
  <2>2. Release(S) => /\ leaseOwner' = [leaseOwner EXCEPT ![e] = NoOwner]
                      /\ leaseExpiresAt' = [leaseExpiresAt EXCEPT ![e] = 0]
    BY <2>1 DEF Release
  <2>3. MarkDeadLetter(d, S) => Recorded(e, "dead_letter")
    BY <2>1, <2>2 DEF MarkDeadLetter, Recorded
  <2>4. \A n : now[d] + Backoff(n) \in Int
    BY BackoffRange, MaxBackoffAssumption
  <2>5. ASSUME NEW n, MarkRetry(d, S, n) PROVE Recorded(e, "pending")
    <3> DEFINE next == now[d] + Backoff(n)
    <3>1. nextAttemptAt' = [f \in Events |-> IF f \in S THEN next ELSE nextAttemptAt[f]]
      BY <2>5 DEF MarkRetry
    <3>2. next \in Int
      BY <2>4
    <3> HIDE DEF next
    <3>3. nextAttemptAt' \in [Events -> Int]
      BY <3>1, <3>2
    <3> QED
      BY <2>1, <2>2, <2>5, <3>3 DEF MarkRetry, Recorded
  <2>6. CASE attemptRead[d][e] + 1 >= MaxAttempts /\ MarkDeadLetter(d, S)
    BY <1>3, <2>3, <2>6
  <2>7. CASE /\ attemptRead[d][e] + 1 < MaxAttempts
             /\ MarkRetry(d, S, attemptRead[d][e] + 1)
    BY <1>3, <2>5, <2>7
  <2> QED
    BY <1>1, <2>6, <2>7
<1> QED
  BY <1>2, <1>3

\* Every step of the outbox preserves the inductive invariant.
LEMMA StepInv == IndInv /\ [Next]_vars => IndInv'
<1> SUFFICES ASSUME IndInv, [Next]_vars PROVE IndInv'
  OBVIOUS
<1> USE DEF IndInv, TypeOK, OwnedIffInFlight, MemoryInv, ClaimInv, HolderInv, WrittenInv,
            SentInv, PublishedWasStored, DeadLetterIsExhausted, Statuses, Claiming, InHand,
            rows, drains, stream
<1>1. ASSUME NEW e \in Events, Append(e) PROVE IndInv'
  BY <1>1 DEF Append
<1>2. ASSUME NEW e \in Events, Arrive(e) PROVE IndInv'
  BY <1>2 DEF Arrive
<1>3. ASSUME NEW d \in Drainers, StartDrain(d) PROVE IndInv'
  BY <1>3 DEF StartDrain
<1>4. ASSUME NEW d \in Drainers, ListDuePending(d) PROVE IndInv'
  BY <1>4, FirstIsSubset DEF ListDuePending, DuePending, Unlocked, Locked
<1>5. ASSUME NEW d \in Drainers, ListExpired(d) PROVE IndInv'
  <2> DEFINE room == BatchSize - Cardinality(todo[d])
             found == First(Expired(d), leaseExpiresAt, room)
             batch == todo[d] \cup found
  <2>1. UNCHANGED <<rows, stream, faults>>
    BY <1>5 DEF ListExpired
  <2>2. CASE batch = {} /\ Return(d)
    BY <2>1, <2>2 DEF Return
  <2>3. CASE /\ todo' = [todo EXCEPT ![d] = batch]
             /\ pc' = [pc EXCEPT ![d] = "lease"]
             /\ UNCHANGED <<now, attemptRead, failed, sent>>
    <3>1. found \subseteq Expired(d)
      BY FirstIsSubset
    <3>2. found \subseteq Events /\ batch \subseteq Events
      BY <3>1 DEF Expired, Unlocked
    <3>3. pc[d] = "expired"
      BY <1>5 DEF ListExpired
    <3>4. TypeOK'
      BY <2>1, <2>3, <3>2
    <3>5. MemoryInv'
      BY <2>1, <2>3, <3>2, <3>3
    <3>6. \A c \in Drainers : InHand(c)' = InHand(c)
      BY <2>3, <3>3
    <3>7. OwnedIffInFlight' /\ SentInv'
      BY <2>1, <2>3
    <3>8. HolderInv'
      <4> HIDE DEF InHand
      <4> QED
        BY <2>1, <2>3, <3>6
    <3>9. WrittenInv'
      <4>1. wire' = wire /\ status' = status
        BY <2>1
      <4> HIDE DEF InHand
      <4>2. ASSUME NEW e \in Events, status'[e] = "absent" PROVE wire'[e] = 0
        BY <4>1, <4>2
      <4>3. ASSUME NEW e \in Events, status'[e] = "absent", NEW c \in Drainers
            PROVE  e \notin InHand(c)'
        BY <3>6, <4>1, <4>3
      <4> QED
        BY <4>2, <4>3
    <3>10. \A e \in found : /\ status[e] = "in_flight" /\ leaseExpiresAt[e] <= now[d]
                           /\ \A c \in Drainers : Claiming(c) => e \notin todo[c]
      <4>1. \A c \in Drainers : Claiming(c) => todo[c] \subseteq Locked
        BY DEF Locked
      <4>2. \A e \in Expired(d) : /\ e \notin Locked /\ status[e] = "in_flight"
                                 /\ leaseExpiresAt[e] <= now[d]
        BY DEF Expired, Unlocked
      <4> HIDE DEF found, Claiming
      <4> QED
        BY <3>1, <4>1, <4>2
    <3>11. ClaimInv'
      <4>1. \A c \in Drainers : Claiming(c)' <=> Claiming(c)
        BY <2>3, <3>3
      <4>2. \A c \in Drainers : todo'[c] = IF c = d THEN batch ELSE todo[c]
        BY <2>3, <3>2
      <4>3. Claiming(d)
        BY <3>3
      <4>4. UNCHANGED <<status, leaseExpiresAt, now>>
        BY <2>1, <2>3
      <4> HIDE DEF found, Claiming
      <4>5. \A b, c \in Drainers :
              b # c /\ Claiming(b)' /\ Claiming(c)' => todo'[b] \cap todo'[c] = {}
        BY <3>10, <4>1, <4>2, <4>3
      <4>6. \A c \in Drainers : Claiming(c)' =>
              \A e \in todo'[c] :
                 \/ status'[e] = "pending"
                 \/ status'[e] = "in_flight" /\ leaseExpiresAt'[e] <= now'[c]
        <5> DEFINE Free(e, t) == \/ status[e] = "pending"
                                 \/ status[e] = "in_flight" /\ leaseExpiresAt[e] <= t
        <5>1. \A c \in Drainers : Claiming(c) => \A e \in todo[c] : Free(e, now[c])
          OBVIOUS
        <5>2. \A e \in batch : Free(e, now[d])
          <6>1. \A e \in found : Free(e, now[d])
            BY <3>10
          <6> HIDE DEF IndInv, Free
          <6> QED
            BY <4>3, <5>1, <6>1
        <5>3. \A c \in Drainers : Claiming(c) => \A e \in todo'[c] : Free(e, now[c])
          <6> HIDE DEF IndInv, batch, Free
          <6> QED
            BY <4>2, <5>1, <5>2
        <5> QED
          BY <4>1, <4>4, <5>3
      <4> QED
        BY <4>5, <4>6
    <3> QED
      BY <2>1, <3>4, <3>5, <3>7, <3>8, <3>9, <3>11
  <2> QED
    BY <1>5, <2>2, <2>3 DEF ListExpired
<1>6. ASSUME NEW d \in Drainers, LeaseBatch(d) PROVE IndInv'
  <2> USE <1>6 DEF LeaseBatch, LeaseRows
  <2>1. TypeOK'
    OBVIOUS
  <2>2. OwnedIffInFlight' /\ MemoryInv' /\ WrittenInv' /\ SentInv'
    OBVIOUS
  <2>3. ClaimInv'
    OBVIOUS
  <2>4. HolderInv'
    <3>1. SUFFICES ASSUME NEW c \in Drainers, NEW e \in InHand(c)'
                   PROVE  /\ now'[c] + Lease > 0 => leaseOwner'[e] = c
                          /\ leaseOwner'[e] = c =>
                               /\ leaseExpiresAt'[e] = now'[c] + Lease
                               /\ attemptCount'[e] = attemptRead'[c][e] + 1
      OBVIOUS
    <3>2. CASE c = d
      BY <3>1, <3>2
    <3>3. CASE c # d
      <4>1. e \in InHand(c) /\ e \in Events /\ now'[c] = now[c] /\ attemptRead'[c] = attemptRead[c]
        BY <3>1, <3>3
      <4>2. CASE e \in todo[d]
        <5>1. leaseOwner'[e] = d
          BY <4>1, <4>2
        <5>2. now[c] + Lease > 0 => leaseOwner[e] = c /\ leaseExpiresAt[e] > 0
          BY <4>1
        <5>3. leaseOwner[e] # NoOwner => leaseExpiresAt[e] <= 0
          <6>1. now[d] \in Int /\ now[d] <= 0 /\ leaseExpiresAt[e] \in Int
            BY <4>1
          <6>2. status[e] = "in_flight" => leaseExpiresAt[e] <= now[d]
            BY <4>2
          <6> QED
            BY <4>1, <6>1, <6>2
        <5>4. ~ (now'[c] + Lease > 0)
          BY <4>1, <5>2, <5>3
        <5> QED
          BY <3>3, <5>1, <5>4
      <4>3. CASE e \notin todo[d]
        BY <4>1, <4>3, <3>3
      <4> QED
        BY <4>2, <4>3
    <3> QED
      BY <3>2, <3>3
  <2>5. PublishedWasStored'
    OBVIOUS
  <2>6. DeadLetterIsExhausted'
    OBVIOUS
  <2> QED
    BY <2>1, <2>2, <2>3, <2>4, <2>5, <2>6
<1>7. ASSUME NEW d \in Drainers, LeaseUnanswered(d) PROVE IndInv'
  <2> USE <1>7 DEF LeaseUnanswered, LeaseRows, Return, Fault
  <2>1. TypeOK'
    OBVIOUS
  <2>2. OwnedIffInFlight' /\ MemoryInv' /\ WrittenInv' /\ SentInv'
    OBVIOUS
  <2>3. ClaimInv'
    OBVIOUS
  <2>4. HolderInv'
    <3>1. SUFFICES ASSUME NEW c \in Drainers, NEW e \in InHand(c)'
                   PROVE  /\ now'[c] + Lease > 0 => leaseOwner'[e] = c
                          /\ leaseOwner'[e] = c =>
                               /\ leaseExpiresAt'[e] = now'[c] + Lease
                               /\ attemptCount'[e] = attemptRead'[c][e] + 1
      OBVIOUS
    <3>2. CASE c = d
      BY <3>1, <3>2
    <3>3. CASE c # d
      <4>1. e \in InHand(c) /\ e \in Events /\ now'[c] = now[c] /\ attemptRead'[c] = attemptRead[c]
        BY <3>1, <3>3
      <4>2. CASE e \in todo[d]
        <5>1. leaseOwner'[e] = d
          BY <4>1, <4>2
        <5>2. now[c] + Lease > 0 => leaseOwner[e] = c /\ leaseExpiresAt[e] > 0
          BY <4>1
        <5>3. leaseOwner[e] # NoOwner => leaseExpiresAt[e] <= 0
          <6>1. now[d] \in Int /\ now[d] <= 0 /\ leaseExpiresAt[e] \in Int
            BY <4>1
          <6>2. status[e] = "in_flight" => leaseExpiresAt[e] <= now[d]
            BY <4>2
          <6> QED
            BY <4>1, <6>1, <6>2
        <5>4. ~ (now'[c] + Lease > 0)
          BY <4>1, <5>2, <5>3
        <5> QED
          BY <3>3, <5>1, <5>4
      <4>3. CASE e \notin todo[d]
        BY <4>1, <4>3, <3>3
      <4> QED
        BY <4>2, <4>3
    <3> QED
      BY <3>2, <3>3
  <2>5. PublishedWasStored'
    OBVIOUS
  <2>6. DeadLetterIsExhausted'
    OBVIOUS
  <2> QED
    BY <2>1, <2>2, <2>3, <2>4, <2>5, <2>6
<1>8. ASSUME NEW d \in Drainers, NEW e \in Events, PublishAcked(d, e) PROVE IndInv'
  BY <1>8 DEF PublishAcked
<1>9. ASSUME NEW d \in Drainers, NEW e \in Events, PublishFailed(d, e) PROVE IndInv'
  <2> USE <1>9 DEF PublishFailed
  <2>1. TypeOK'
    <3>1. [wire EXCEPT ![e] = @ + 1] \in [Events -> Nat]
      OBVIOUS
    <3>2. wire' \in [Events -> Nat]
      BY <3>1
    <3> QED
      BY <3>2
  <2>2. OwnedIffInFlight' /\ MemoryInv' /\ WrittenInv' /\ SentInv'
    OBVIOUS
  <2>3. ClaimInv' /\ HolderInv'
    OBVIOUS
  <2>4. PublishedWasStored' /\ DeadLetterIsExhausted'
    OBVIOUS
  <2> QED
    BY <2>1, <2>2, <2>3, <2>4
<1>10. ASSUME NEW d \in Drainers, NEW e \in Events, RecordFailed(d, e) PROVE IndInv'
  <2> USE <1>10 DEF RecordFailed
  <2>1. e \in InHand(d) /\ pc[d] = "publish"
    OBVIOUS
  <2>2. \A c \in Drainers : Claiming(c) => e \notin todo[c]
    BY DEF Locked
  <2>3. CASE UNCHANGED rows
    BY <2>3
  <2>4. CASE /\ leaseOwner[e] = d /\ Recorded(e, "dead_letter")
            /\ attemptRead[d][e] + 1 >= MaxAttempts
    <3> USE <2>1, <2>2, <2>4 DEF Recorded
    <3>1. TypeOK'
      OBVIOUS
    <3>2. OwnedIffInFlight' /\ MemoryInv' /\ WrittenInv' /\ SentInv' /\ ClaimInv'
      OBVIOUS
    <3>3. HolderInv'
      OBVIOUS
    <3>4. attemptCount[e] >= MaxAttempts
      OBVIOUS
    <3> QED
      BY <3>1, <3>2, <3>3, <3>4
  <2>5. CASE leaseOwner[e] = d /\ Recorded(e, "pending")
    <3> USE <2>1, <2>2, <2>5 DEF Recorded
    <3>1. TypeOK'
      OBVIOUS
    <3>2. OwnedIffInFlight' /\ MemoryInv' /\ WrittenInv' /\ SentInv' /\ ClaimInv'
      OBVIOUS
    <3>3. HolderInv'
      OBVIOUS
    <3> QED
      BY <3>1, <3>2, <3>3
  <2> QED
    BY <2>3, <2>4, <2>5, RecordEffect
<1>11. ASSUME NEW d \in Drainers, NEW e \in Events, RecordUnanswered(d, e) PROVE IndInv'
  <2> USE <1>11 DEF RecordUnanswered, Return, Fault
  <2>1. e \in InHand(d) /\ pc[d] = "publish"
    OBVIOUS
  <2>2. \A c \in Drainers : Claiming(c) => e \notin todo[c]
    BY DEF Locked
  <2>3. CASE UNCHANGED rows
    BY <2>3
  <2>4. CASE /\ leaseOwner[e] = d /\ Recorded(e, "dead_letter")
            /\ attemptRead[d][e] + 1 >= MaxAttempts
    <3> USE <2>1, <2>2, <2>4 DEF Recorded
    <3>1. TypeOK'
      OBVIOUS
    <3>2. OwnedIffInFlight' /\ MemoryInv' /\ WrittenInv' /\ SentInv' /\ ClaimInv'
      OBVIOUS
    <3>3. HolderInv'
      OBVIOUS
    <3>4. attemptCount[e] >= MaxAttempts
      OBVIOUS
    <3> QED
      BY <3>1, <3>2, <3>3, <3>4
  <2>5. CASE leaseOwner[e] = d /\ Recorded(e, "pending")
    <3> USE <2>1, <2>2, <2>5 DEF Recorded
    <3>1. TypeOK'
      OBVIOUS
    <3>2. OwnedIffInFlight' /\ MemoryInv' /\ WrittenInv' /\ SentInv' /\ ClaimInv'
      OBVIOUS
    <3>3. HolderInv'
      OBVIOUS
    <3> QED
      BY <3>1, <3>2, <3>3
  <2> QED
    BY <2>3, <2>4, <2>5, RecordEffect
<1>12. ASSUME NEW d \in Drainers, FinishDrain(d) PROVE IndInv'
  BY <1>12 DEF FinishDrain, Published, MarkPublished, Owned, Release, Locked, Return
<1>13. ASSUME NEW d \in Drainers, Abandon(d) PROVE IndInv'
  BY <1>13 DEF Abandon, Return, Fault
<1>14. ASSUME Tick PROVE IndInv'
  BY <1>14 DEF Tick, Older
<1>15. ASSUME UNCHANGED vars PROVE IndInv'
  BY <1>15 DEF vars
<1> QED
  BY <1>1, <1>2, <1>3, <1>4, <1>5, <1>6, <1>7, <1>8, <1>9, <1>10, <1>11, <1>12, <1>13,
     <1>14, <1>15 DEF Next, DrainOnce, Break

\* In every reachable state rows, drains and leases agree: a row has an owner just
\* while it is in flight, the rows of an open claim are free to be leased, and a
\* drainer owns what it has in hand while its lease runs.
THEOREM Inductive == Spec => []IndInv
BY InitInv, StepInv, PTL DEF Spec

\* Every variable has its type in every reachable state.
THEOREM TypeCorrect == Spec => []TypeOK
<1>1. IndInv => TypeOK
  BY DEF IndInv
<1> QED
  BY <1>1, Inductive, PTL

\* An event is marked published (MarkOutboxEventsPublished) only if the stream has
\* it, for any number of drainers, late answers and lost leases.
THEOREM PublishedIsStored == Spec => []PublishedWasStored
<1>1. IndInv => PublishedWasStored
  BY DEF IndInv
<1> QED
  BY <1>1, Inductive, PTL

\* An event is dead-lettered (recordFailure) only after MaxAttempts leases.
THEOREM DeadLetterExhausted == Spec => []DeadLetterIsExhausted
<1>1. IndInv => DeadLetterIsExhausted
  BY DEF IndInv
<1> QED
  BY <1>1, Inductive, PTL

\* Two claims never hold a row together, nor two drainers an event while the lease
\* of either runs (claim).
THEOREM Exclusive == Spec => []ExclusiveHolder
<1>1. IndInv => ExclusiveHolder
  <2> SUFFICES ASSUME IndInv, NEW c \in Drainers, NEW d \in Drainers, c # d,
                      NEW e \in Held(c), e \in Held(d)
               PROVE  FALSE
    BY DEF ExclusiveHolder
  <2> USE DEF IndInv, TypeOK, Held, Claiming
  <2>1. CASE Claiming(c) /\ Claiming(d)
    BY <2>1 DEF ClaimInv
  <2>2. ASSUME NEW a \in Drainers, NEW b \in Drainers, Claiming(a), ~ Claiming(b),
               e \in Held(a), e \in Held(b)
        PROVE  FALSE
    <3>1. e \in InHand(b) /\ now[b] + Lease > 0 /\ e \in Events
      BY <2>2 DEF InHand
    <3>2. leaseOwner[e] = b /\ leaseExpiresAt[e] > 0
      BY <2>2, <3>1 DEF HolderInv
    <3>3. status[e] = "in_flight"
      BY <3>1, <3>2 DEF OwnedIffInFlight
    <3>4. leaseExpiresAt[e] <= now[a]
      BY <2>2, <3>3 DEF ClaimInv
    <3> QED
      BY <3>1, <3>2, <3>4
  <2>3. CASE ~ Claiming(c) /\ ~ Claiming(d)
    BY <2>3 DEF HolderInv
  <2> QED
    BY <2>1, <2>2, <2>3
<1> QED
  BY <1>1, Inductive, PTL

\* A write of a drainer does not reach a settled row: nobody owns it, and no claim
\* holds it.
LEMMA StepLeavesSettled ==
  ASSUME IndInv, [Next]_vars, NEW f \in Events, status[f] \in Settled
  PROVE  status'[f] = status[f] /\ attemptCount'[f] = attemptCount[f]
<1> USE DEF IndInv, TypeOK, Settled
<1>1. leaseOwner[f] = NoOwner /\ \A d \in Drainers : leaseOwner[f] # d
  BY DEF OwnedIffInFlight
<1>2. \A d \in Drainers : pc[d] = "lease" => f \notin todo[d]
  BY DEF ClaimInv, Claiming
<1>3. \A d \in Drainers, e \in Events : RecordFailure(d, e) =>
        status'[f] = status[f] /\ attemptCount'[f] = attemptCount[f]
  BY <1>1 DEF RecordFailure, MarkDeadLetter, MarkRetry, Owned
<1>4. \A d \in Drainers : MarkPublished(d) =>
        status'[f] = status[f] /\ attemptCount'[f] = attemptCount[f]
  BY <1>1 DEF MarkPublished, Owned
<1>5. \A d \in Drainers : pc[d] = "lease" /\ LeaseRows(d) =>
        status'[f] = status[f] /\ attemptCount'[f] = attemptCount[f]
  BY <1>2 DEF LeaseRows
<1>6. CASE \E e \in Events : Append(e) \/ Arrive(e)
  BY <1>6 DEF Append, Arrive, rows
<1>7. CASE \E d \in Drainers : DrainOnce(d)
  BY <1>3, <1>4, <1>5, <1>7 DEF DrainOnce, StartDrain, ListDuePending, ListExpired, LeaseBatch,
     PublishAcked, PublishFailed, RecordFailed, FinishDrain, rows
<1>8. CASE \E d \in Drainers : Break(d)
  BY <1>3, <1>5, <1>8 DEF Break, LeaseUnanswered, RecordUnanswered, Abandon, rows
<1>9. CASE Tick \/ UNCHANGED vars
  BY <1>9 DEF Tick, vars, rows
<1> QED
  BY <1>6, <1>7, <1>8, <1>9 DEF Next

\* A published or dead-lettered row stays as it is, whoever comes back late to
\* record a result.
THEOREM SettledStays == Spec => SettledIsFinal
<1>1. IndInv /\ [Next]_vars =>
        [\A e \in Events : status[e] \in Settled =>
           /\ status'[e] = status[e]
           /\ attemptCount'[e] = attemptCount[e]]_vars
  BY StepLeavesSettled
<1> QED
  BY <1>1, Inductive, PTL DEF Spec, SettledIsFinal

\* A row whose lease still runs leaves its owner by the owner's own step alone:
\* no claim takes it, and no late record of another drainer reaches it.
LEMMA StepRespectsLease ==
  ASSUME IndInv, [Next]_vars, NEW f \in Events, NEW c \in Drainers,
         leaseOwner[f] = c, leaseOwner'[f] # c, leaseExpiresAt[f] > 0
  PROVE  f \in InHand(c) \ InHand(c)'
<1> USE DEF IndInv, TypeOK
<1>1. status[f] = "in_flight"
  BY DrainersAssumption DEF OwnedIffInFlight
<1>2. \A d \in Drainers : pc[d] = "lease" => f \notin todo[d]
  <2> SUFFICES ASSUME NEW d \in Drainers, pc[d] = "lease", f \in todo[d] PROVE FALSE
    OBVIOUS
  <2>1. leaseExpiresAt[f] <= now[d]
    BY <1>1 DEF ClaimInv, Claiming
  <2>2. now[d] <= 0 /\ now[d] \in Int /\ leaseExpiresAt[f] \in Int
    OBVIOUS
  <2> QED
    BY <2>1, <2>2
<1>3. \A d \in Drainers : ~ (pc[d] = "lease" /\ LeaseRows(d))
  BY <1>2 DEF LeaseRows
<1>4. \A d \in Drainers : \A S : Release(Owned(d, S)) => d = c /\ f \in S
  BY DEF Release, Owned
<1>5. \A d \in Drainers, e \in Events : RecordFailure(d, e) => d = c /\ f = e
  BY <1>4 DEF RecordFailure, MarkDeadLetter, MarkRetry
<1>6. \A d \in Drainers : MarkPublished(d) => d = c /\ f \in sent[d]
  BY <1>4 DEF MarkPublished
<1>7. CASE (\E e \in Events : Append(e) \/ Arrive(e)) \/ Tick \/ UNCHANGED vars
  BY <1>7 DEF Append, Arrive, Tick, vars, rows
<1>8. CASE \E d \in Drainers : \/ StartDrain(d) \/ ListDuePending(d) \/ ListExpired(d)
                               \/ LeaseBatch(d) \/ LeaseUnanswered(d) \/ Abandon(d)
                               \/ \E e \in Events : PublishAcked(d, e) \/ PublishFailed(d, e)
  BY <1>3, <1>8 DEF StartDrain, ListDuePending, ListExpired, LeaseBatch, LeaseUnanswered, Abandon,
     PublishAcked, PublishFailed, rows
<1>9. CASE \E d \in Drainers, e \in Events : RecordFailed(d, e)
  <2>1. RecordFailed(c, f)
    BY <1>5, <1>9 DEF RecordFailed
  <2> QED
    BY <2>1 DEF RecordFailed, InHand, MemoryInv
<1>10. CASE \E d \in Drainers, e \in Events : RecordUnanswered(d, e)
  <2>1. RecordUnanswered(c, f)
    BY <1>5, <1>10 DEF RecordUnanswered
  <2> QED
    BY <2>1 DEF RecordUnanswered, Return, InHand, MemoryInv
<1>11. CASE \E d \in Drainers : FinishDrain(d)
  <2>1. FinishDrain(c) /\ f \in sent[c]
    BY <1>6, <1>11 DEF FinishDrain
  <2> QED
    BY <2>1 DEF FinishDrain, Return, InHand, MemoryInv
<1> QED
  BY <1>7, <1>8, <1>9, <1>10, <1>11 DEF Next, DrainOnce, Break

\* Drainers do not write under one another's running leases.
THEOREM LeasesRespected == Spec => LeaseRespected
<1>1. IndInv /\ [Next]_vars =>
        [\A e \in Events : \A d \in Drainers :
           (leaseOwner[e] = d /\ leaseOwner'[e] # d /\ leaseExpiresAt[e] > 0) =>
             e \in InHand(d) \ InHand(d)']_vars
  BY StepRespectsLease
<1> QED
  BY <1>1, Inductive, PTL DEF Spec, LeaseRespected

-----------------------------------------------------------------------------
(* Copies, attempts and the drainers that have a publish ahead of them. *)

\* The drainers that may still publish e.
Senders(e) == {d \in Drainers : pc[d] = "publish" /\ e \in todo[d]}

\* Each of them has its attempt in hand: copies are never in excess of attempts.
BudgetInv == \A e \in Events : copies[e] + wire[e] + Cardinality(Senders(e)) <= attemptCount[e]

LEMMA SendersFinite ==
  ASSUME NEW S \in SUBSET Drainers
  PROVE  IsFiniteSet(S) /\ Cardinality(S) \in Nat
BY DrainersAssumption, FS_Subset, FS_CardinalityType

\* The budget of one event across a step that loses senders, lets one of them
\* send, or adds one with its attempt.
LEMMA BudgetKept ==
  ASSUME TypeOK, TypeOK', BudgetInv, NEW e \in Events,
         \/ /\ Senders(e)' \subseteq Senders(e)
            /\ copies'[e] + wire'[e] <= copies[e] + wire[e]
            /\ attemptCount'[e] >= attemptCount[e]
         \/ /\ \E d \in Senders(e) : Senders(e)' = Senders(e) \ {d}
            /\ copies'[e] + wire'[e] <= copies[e] + wire[e] + 1
            /\ attemptCount'[e] = attemptCount[e]
         \/ /\ \E d \in Drainers : Senders(e)' \subseteq Senders(e) \cup {d}
            /\ copies'[e] + wire'[e] = copies[e] + wire[e]
            /\ attemptCount'[e] = attemptCount[e] + 1
  PROVE  copies'[e] + wire'[e] + Cardinality(Senders(e)') <= attemptCount'[e]
<1> DEFINE A == Senders(e)
           B == Senders(e)'
<1>1. A \in SUBSET Drainers /\ B \in SUBSET Drainers
  BY DEF Senders
<1>2. /\ IsFiniteSet(A) /\ Cardinality(A) \in Nat
      /\ IsFiniteSet(B) /\ Cardinality(B) \in Nat
  BY <1>1, SendersFinite
<1>3. copies[e] + wire[e] + Cardinality(A) <= attemptCount[e]
  BY DEF BudgetInv
<1>4. /\ copies[e] \in Nat /\ wire[e] \in Nat /\ attemptCount[e] \in Nat
      /\ copies'[e] \in Nat /\ wire'[e] \in Nat /\ attemptCount'[e] \in Nat
  BY DEF TypeOK
<1>5. B \subseteq A => Cardinality(B) <= Cardinality(A)
  BY <1>2, FS_Subset
<1>6. \A d \in A : B = A \ {d} => Cardinality(B) = Cardinality(A) - 1
  BY <1>2, FS_RemoveElement
<1>7. \A d \in Drainers : B \subseteq A \cup {d} => Cardinality(B) <= Cardinality(A) + 1
  <2> SUFFICES ASSUME NEW d \in Drainers, B \subseteq A \cup {d}
               PROVE  Cardinality(B) <= Cardinality(A) + 1
    OBVIOUS
  <2>1. /\ IsFiniteSet(A \cup {d})
        /\ Cardinality(A \cup {d}) \in {Cardinality(A), Cardinality(A) + 1}
    BY <1>2, FS_AddElement
  <2>2. Cardinality(B) <= Cardinality(A \cup {d})
    BY <2>1, FS_Subset
  <2> QED
    BY <1>2, <2>1, <2>2
<1> HIDE DEF A, B
<1> QED
  BY <1>2, <1>3, <1>4, <1>5, <1>6, <1>7 DEF A, B

\* Every step keeps every event within its budget.
LEMMA StepBudget == IndInv /\ BudgetInv /\ [Next]_vars => BudgetInv'
<1> SUFFICES ASSUME IndInv, BudgetInv, [Next]_vars, NEW f \in Events
             PROVE  copies'[f] + wire'[f] + Cardinality(Senders(f)') <= attemptCount'[f]
  BY DEF BudgetInv
<1>1. TypeOK /\ TypeOK'
  BY StepInv DEF IndInv
<1> DEFINE Sent == copies[f] + wire[f]
<1>0. /\ Sent \in Nat /\ attemptCount[f] \in Nat
      /\ \A n \in Int : n <= n /\ n >= n
  BY <1>1 DEF TypeOK
<1>2. CASE /\ Senders(f)' \subseteq Senders(f) /\ Sent' <= Sent
           /\ attemptCount'[f] >= attemptCount[f]
  BY <1>1, <1>2, BudgetKept
<1>3. CASE \E e \in Events : Append(e) \/ Arrive(e)
  <2>1. UNCHANGED <<pc, todo, attemptCount>>
    BY <1>3 DEF Append, Arrive, rows, drains
  <2>2. Senders(f)' = Senders(f)
    BY <2>1 DEF Senders
  <2>3. Sent' = Sent
    <3>1. CASE \E e \in Events : Append(e)
      BY <3>1 DEF Append, stream
    <3>2. ASSUME NEW e \in Events, Arrive(e) PROVE Sent' = Sent
      BY <1>1, <3>2 DEF Arrive, TypeOK
    <3> QED
      BY <1>3, <3>1, <3>2
  <2>4. Sent' <= Sent /\ attemptCount'[f] >= attemptCount[f]
    BY <1>0, <2>1, <2>3
  <2> QED
    BY <1>2, <2>2, <2>4
<1>4. CASE \E d \in Drainers : StartDrain(d) \/ ListDuePending(d) \/ ListExpired(d)
  <2>1. Sent' <= Sent /\ attemptCount'[f] >= attemptCount[f]
    BY <1>0, <1>4 DEF StartDrain, ListDuePending, ListExpired, rows, stream
  <2>2. Senders(f)' \subseteq Senders(f)
    BY <1>1, <1>4 DEF StartDrain, ListDuePending, ListExpired, Return, TypeOK, Senders
  <2> QED
    BY <1>2, <2>1, <2>2
<1>5. ASSUME NEW d \in Drainers, LeaseBatch(d)
      PROVE  copies'[f] + wire'[f] + Cardinality(Senders(f)') <= attemptCount'[f]
  <2>1. CASE f \in todo[d]
    <3>1. Senders(f)' \subseteq Senders(f) \cup {d}
      BY <1>5 DEF LeaseBatch, Senders
    <3>2. attemptCount'[f] = attemptCount[f] + 1 /\ Sent' = Sent
      BY <1>5, <2>1 DEF LeaseBatch, LeaseRows, stream
    <3> QED
      BY <1>1, <3>1, <3>2, BudgetKept
  <2>2. CASE f \notin todo[d]
    <3>1. Senders(f)' \subseteq Senders(f)
      BY <1>5, <2>2, <1>1 DEF LeaseBatch, Senders, TypeOK
    <3>2. attemptCount'[f] = attemptCount[f] /\ Sent' = Sent
      BY <1>5, <2>2 DEF LeaseBatch, LeaseRows, stream
    <3> QED
      BY <1>1, <1>2, <3>1, <3>2 DEF TypeOK
  <2> QED
    BY <2>1, <2>2
<1>6. CASE \E d \in Drainers : LeaseUnanswered(d)
  BY <1>1, <1>2, <1>6 DEF LeaseUnanswered, LeaseRows, Return, TypeOK, Senders, stream
<1>7. ASSUME NEW d \in Drainers, NEW e \in Events, PublishAcked(d, e) \/ PublishFailed(d, e)
      PROVE  copies'[f] + wire'[f] + Cardinality(Senders(f)') <= attemptCount'[f]
  <2>1. CASE f = e
    <3>1. d \in Senders(f)
      BY <1>7, <2>1 DEF PublishAcked, PublishFailed, Senders
    <3>2. Senders(f)' = Senders(f) \ {d}
      BY <1>1, <1>7, <2>1 DEF PublishAcked, PublishFailed, Senders, TypeOK
    <3>3. Sent' <= Sent + 1 /\ attemptCount'[f] = attemptCount[f]
      <4>1. CASE PublishAcked(d, e)
        BY <1>1, <2>1, <4>1 DEF PublishAcked, TypeOK, rows
      <4>2. CASE PublishFailed(d, e)
        BY <1>1, <2>1, <4>2 DEF PublishFailed, TypeOK, rows
      <4> QED
        BY <1>7, <4>1, <4>2
    <3> QED
      BY <1>1, <3>1, <3>2, <3>3, BudgetKept
  <2>2. CASE f # e
    <3>1. Senders(f)' \subseteq Senders(f)
      <4>1. \A c \in Drainers : pc'[c] = pc[c] /\ todo'[c] \subseteq todo[c]
        <5>1. pc' = pc /\ todo' = [todo EXCEPT ![d] = @ \ {e}]
          BY <1>7 DEF PublishAcked, PublishFailed
        <5> QED
          BY <1>1, <5>1 DEF TypeOK
      <4> QED
        BY <4>1 DEF Senders
    <3>2. Sent' = Sent /\ attemptCount'[f] = attemptCount[f]
      BY <1>1, <1>7, <2>2 DEF PublishAcked, PublishFailed, TypeOK, rows
    <3> QED
      BY <1>1, <1>2, <3>1, <3>2 DEF TypeOK
  <2> QED
    BY <2>1, <2>2
<1>8. CASE \E d \in Drainers, e \in Events : RecordFailed(d, e) \/ RecordUnanswered(d, e)
  BY <1>1, <1>2, <1>8 DEF RecordFailed, RecordUnanswered, RecordFailure, MarkDeadLetter, MarkRetry,
     Return, TypeOK, Senders, stream
<1>9. CASE \E d \in Drainers : FinishDrain(d) \/ Abandon(d)
  BY <1>1, <1>2, <1>9 DEF FinishDrain, MarkPublished, Abandon, Return, TypeOK, Senders, rows, stream
<1>10. CASE Tick \/ UNCHANGED vars
  BY <1>1, <1>2, <1>10 DEF Tick, vars, TypeOK, Senders, rows, drains, stream
<1> QED
  BY <1>3, <1>4, <1>5, <1>6, <1>7, <1>8, <1>9, <1>10 DEF Next, DrainOnce, Break

\* No event reaches the stream more often than it was leased, counting the copies
\* that were reported failed and are still on their way.
THEOREM SendsBounded == Spec => []SendsWithinAttempts
<1>1. Init => BudgetInv
  <2> SUFFICES ASSUME Init PROVE BudgetInv
    OBVIOUS
  <2>1. \A e \in Events : Senders(e) = {}
    BY DEF Init, Senders
  <2> QED
    BY <2>1, FS_EmptySet DEF Init, BudgetInv
<1>2. IndInv /\ BudgetInv => SendsWithinAttempts
  <2> SUFFICES ASSUME IndInv, BudgetInv, NEW e \in Events
               PROVE  copies[e] + wire[e] <= attemptCount[e]
    BY DEF SendsWithinAttempts
  <2>1. Cardinality(Senders(e)) \in Nat
    BY SendersFinite DEF Senders
  <2> QED
    BY <2>1 DEF BudgetInv, IndInv, TypeOK
<1> QED
  BY <1>1, <1>2, StepBudget, Inductive, PTL DEF Spec

-----------------------------------------------------------------------------
(* What an event costs when no drain outlasts its lease. *)

\* An open event that no drainer has in hand has an attempt left, or a fault to
\* answer for it.
CostInv ==
  \A e \in Events :
    /\ attemptCount[e] <= MaxAttempts + faults
    /\ (status[e] \notin Settled /\ \A d \in Drainers : e \notin InHand(d)) =>
         attemptCount[e] < MaxAttempts + faults

\* With a lease longer than any stall, what is in hand is owned and its lease runs.
LEMMA InHandIsOwned ==
  ASSUME IndInv, Lease > MaxStall, NEW d \in Drainers, NEW e \in InHand(d)
  PROVE  leaseOwner[e] = d /\ leaseExpiresAt[e] > 0 /\ status[e] = "in_flight"
<1> USE DEF IndInv, TypeOK
<1>1. now[d] \in Int /\ now[d] >= -MaxStall /\ e \in Events
  BY DEF MemoryInv, InHand
<1>2. now[d] + Lease > 0
  BY <1>1
<1>3. leaseOwner[e] = d /\ leaseExpiresAt[e] = now[d] + Lease
  BY <1>2 DEF HolderInv
<1>4. status[e] = "in_flight"
  BY <1>1, <1>3, DrainersAssumption DEF OwnedIffInFlight
<1> QED
  BY <1>2, <1>3, <1>4

\* So a claim takes only what no drainer has in hand.
LEMMA ClaimedIsFree ==
  ASSUME IndInv, Lease > MaxStall, NEW d \in Drainers, pc[d] = "lease",
         NEW e \in todo[d], NEW c \in Drainers
  PROVE  e \notin InHand(c) /\ status[e] \notin Settled
<1>1. status[e] = "pending" \/ (status[e] = "in_flight" /\ leaseExpiresAt[e] <= now[d])
  BY DEF IndInv, ClaimInv, Claiming
<1>2. now[d] \in Int /\ now[d] <= 0 /\ leaseExpiresAt[e] \in Int
  BY DEF IndInv, TypeOK
<1> QED
  BY <1>1, <1>2, InHandIsOwned DEF Settled

LEMMA StepCost ==
  ASSUME IndInv, CostInv, [Next]_vars, Lease > MaxStall PROVE CostInv'
<1> SUFFICES ASSUME NEW f \in Events
             PROVE  /\ attemptCount'[f] <= MaxAttempts + faults'
                    /\ (status'[f] \notin Settled /\ \A d \in Drainers : f \notin InHand(d)') =>
                         attemptCount'[f] < MaxAttempts + faults'
  BY DEF CostInv
<1> DEFINE Goal == /\ attemptCount'[f] <= MaxAttempts + faults'
                   /\ (status'[f] \notin Settled /\ \A d \in Drainers : f \notin InHand(d)') =>
                        attemptCount'[f] < MaxAttempts + faults'
<1>1. /\ attemptCount[f] \in Nat /\ faults \in Nat
      /\ attemptCount[f] <= MaxAttempts + faults
      /\ (status[f] \notin Settled /\ \A d \in Drainers : f \notin InHand(d)) =>
           attemptCount[f] < MaxAttempts + faults
  BY DEF IndInv, TypeOK, CostInv
<1>2. CASE /\ attemptCount'[f] = attemptCount[f] /\ faults' = faults
           /\ status'[f] \notin Settled => status[f] \notin Settled
           /\ \A d \in Drainers : InHand(d) \subseteq InHand(d)'
  BY <1>1, <1>2
<1>3. CASE attemptCount'[f] <= MaxAttempts + faults /\ faults' = faults + 1
  <2>1. attemptCount'[f] \in Int
    BY StepInv DEF IndInv, TypeOK
  <2> QED
    BY <1>1, <1>3, <2>1
<1> HIDE DEF Goal
<1> USE DEF IndInv, TypeOK
<1>4. CASE \E e \in Events : Append(e) \/ Arrive(e)
  <2>1. /\ attemptCount' = attemptCount /\ faults' = faults
        /\ status'[f] \notin Settled => status[f] \notin Settled
    BY <1>4 DEF Append, Arrive, rows, Settled
  <2>2. \A d \in Drainers : InHand(d)' = InHand(d)
    BY <1>4 DEF Append, Arrive, drains, InHand
  <2> QED
    BY <1>2, <2>1, <2>2 DEF Goal
<1>5. CASE \E d \in Drainers : StartDrain(d) \/ ListDuePending(d) \/ ListExpired(d)
  <2>1. UNCHANGED rows /\ faults' = faults
    BY <1>5 DEF StartDrain, ListDuePending, ListExpired
  <2>2. \A d \in Drainers : InHand(d)' = InHand(d)
    BY <1>5 DEF StartDrain, ListDuePending, ListExpired, Return, InHand
  <2> QED
    BY <1>2, <2>1, <2>2 DEF Goal, rows
<1>6. ASSUME NEW d \in Drainers, LeaseBatch(d) PROVE Goal
  <2>1. CASE f \in todo[d]
    <3>1. attemptCount[f] < MaxAttempts + faults
      BY <1>1, <1>6, <2>1, ClaimedIsFree DEF LeaseBatch
    <3>2. f \in InHand(d)' /\ attemptCount'[f] = attemptCount[f] + 1 /\ faults' = faults
      BY <1>6, <2>1 DEF LeaseBatch, LeaseRows, InHand
    <3> QED
      BY <1>1, <3>1, <3>2 DEF Goal
  <2>2. CASE f \notin todo[d]
    <3>1. attemptCount'[f] = attemptCount[f] /\ status'[f] = status[f] /\ faults' = faults
      BY <1>6, <2>2 DEF LeaseBatch, LeaseRows
    <3>2. \A c \in Drainers : InHand(c) \subseteq InHand(c)'
      BY <1>6 DEF LeaseBatch, InHand
    <3> QED
      BY <1>2, <3>1, <3>2 DEF Goal
  <2> QED
    BY <2>1, <2>2
<1>7. ASSUME NEW d \in Drainers, LeaseUnanswered(d) PROVE Goal
  <2>1. CASE f \in todo[d]
    <3>1. attemptCount[f] < MaxAttempts + faults
      BY <1>1, <1>7, <2>1, ClaimedIsFree DEF LeaseUnanswered
    <3>2. attemptCount'[f] = attemptCount[f] + 1 /\ faults' = faults + 1
      BY <1>7, <2>1 DEF LeaseUnanswered, LeaseRows, Fault
    <3> QED
      BY <1>1, <1>3, <3>1, <3>2 DEF Goal
  <2>2. CASE f \notin todo[d]
    <3>1. attemptCount'[f] = attemptCount[f] /\ faults' = faults + 1
      BY <1>7, <2>2 DEF LeaseUnanswered, LeaseRows, Fault
    <3> QED
      BY <1>1, <1>3, <3>1 DEF Goal
  <2> QED
    BY <2>1, <2>2
<1>8. ASSUME NEW d \in Drainers, NEW e \in Events, PublishAcked(d, e) \/ PublishFailed(d, e)
      PROVE  Goal
  <2>1. UNCHANGED rows /\ faults' = faults
    BY <1>8 DEF PublishAcked, PublishFailed
  <2>2. \A c \in Drainers : InHand(c) \subseteq InHand(c)'
    <3>1. CASE PublishAcked(d, e)
      BY <3>1 DEF PublishAcked, InHand
    <3>2. CASE PublishFailed(d, e)
      BY <3>2 DEF PublishFailed, InHand
    <3> QED
      BY <1>8, <3>1, <3>2
  <2> QED
    BY <1>2, <2>1, <2>2 DEF Goal, rows
<1>9. ASSUME NEW d \in Drainers, NEW e \in Events, RecordFailed(d, e) PROVE Goal
  <2>1. e \in InHand(d) /\ RecordFailure(d, e) /\ faults' = faults
    BY <1>9 DEF RecordFailed, InHand, MemoryInv
  <2>2. leaseOwner[e] = d
    BY <2>1, InHandIsOwned
  <2>3. \/ Recorded(e, "pending") /\ attemptRead[d][e] + 1 < MaxAttempts
        \/ Recorded(e, "dead_letter")
        \/ UNCHANGED rows
    BY <2>1, RecordEffect
  <2>4. CASE f = e
    <3>1. attemptCount[e] = attemptRead[d][e] + 1
      BY <2>1, <2>2 DEF HolderInv
    <3>2. CASE Recorded(e, "pending") /\ attemptRead[d][e] + 1 < MaxAttempts
      BY <1>1, <2>1, <2>4, <3>1, <3>2 DEF Recorded, Goal
    <3>3. CASE Recorded(e, "dead_letter")
      BY <1>1, <2>1, <2>4, <3>3 DEF Recorded, Goal, Settled
    <3>4. ~ UNCHANGED rows
      <4>1. Release({e})
        BY <2>1, <2>2 DEF RecordFailure, MarkDeadLetter, MarkRetry, Owned, Release
      <4> QED
        BY <2>2, <4>1, DrainersAssumption DEF Release, rows
    <3> QED
      BY <2>3, <3>2, <3>3, <3>4
  <2>5. CASE f # e
    <3>1. attemptCount'[f] = attemptCount[f] /\ status'[f] = status[f]
      BY <2>3, <2>5 DEF Recorded, rows
    <3>2. f \notin failed[d]
      BY <1>9, <2>5 DEF RecordFailed, MemoryInv
    <3>3. \A c \in Drainers : f \in InHand(c) => f \in InHand(c)'
      BY <1>9, <3>2 DEF RecordFailed, InHand
    <3> QED
      BY <1>1, <2>1, <3>1, <3>3 DEF Goal
  <2> QED
    BY <2>4, <2>5
<1>10. ASSUME NEW d \in Drainers, NEW e \in Events, RecordUnanswered(d, e) PROVE Goal
  <2>1. attemptCount' = attemptCount /\ faults' = faults + 1
    BY <1>10 DEF RecordUnanswered, RecordFailure, MarkDeadLetter, MarkRetry, Fault
  <2> QED
    BY <1>1, <1>3, <2>1 DEF Goal
<1>11. ASSUME NEW d \in Drainers, FinishDrain(d) PROVE Goal
  <2>1. attemptCount' = attemptCount /\ faults' = faults /\ InHand(d) = sent[d]
    BY <1>11 DEF FinishDrain, MarkPublished, Published, InHand
  <2>2. CASE f \in sent[d]
    <3>1. f \in Owned(d, sent[d])
      BY <2>1, <2>2, InHandIsOwned DEF Owned
    <3>2. status'[f] \in Settled
      BY <1>11, <3>1 DEF FinishDrain, MarkPublished, Settled
    <3> QED
      BY <1>1, <2>1, <3>2 DEF Goal
  <2>3. CASE f \notin sent[d]
    <3>1. status'[f] = status[f]
      BY <1>11, <2>3 DEF FinishDrain, MarkPublished, Owned
    <3>2. \A c \in Drainers : f \in InHand(c) => f \in InHand(c)'
      BY <1>11, <2>1, <2>3 DEF FinishDrain, Return, InHand
    <3> QED
      BY <1>1, <2>1, <3>1, <3>2 DEF Goal
  <2> QED
    BY <2>2, <2>3
<1>12. CASE \E d \in Drainers : Abandon(d)
  <2>1. attemptCount' = attemptCount /\ faults' = faults + 1
    BY <1>12 DEF Abandon, Fault, rows
  <2> QED
    BY <1>1, <1>3, <2>1 DEF Goal
<1>13. CASE Tick \/ UNCHANGED vars
  <2>1. UNCHANGED <<status, attemptCount, faults, pc, todo, failed, sent>>
    BY <1>13 DEF Tick, vars, rows, drains
  <2> QED
    BY <1>2, <2>1 DEF InHand, Goal
<1> QED
  BY <1>4, <1>5, <1>6, <1>7, <1>8, <1>9, <1>10, <1>11, <1>12, <1>13
     DEF Next, DrainOnce, Break, Goal

\* With a lease longer than any drain, an event is leased at most MaxAttempts times
\* and once more for each crash or database error.
THEOREM CostBounded == Spec => []LeasesBounded
<1>1. Init => CostInv
  BY DEF Init, CostInv
<1>2. CostInv => LeasesBounded
  BY DEF CostInv, LeasesBounded
<1>3. CASE Lease > MaxStall
  <2>1. IndInv /\ CostInv /\ [Next]_vars => CostInv'
    BY <1>3, StepCost
  <2> QED
    BY <1>1, <1>2, <2>1, Inductive, PTL DEF Spec
<1>4. CASE ~ (Lease > MaxStall)
  <2>1. LeasesBounded
    BY <1>4 DEF LeasesBounded
  <2> QED
    BY <2>1, PTL
<1> QED
  BY <1>3, <1>4

-----------------------------------------------------------------------------
(* The outbox implements EventDelivery. *)

\* The fates of the events depend on the statuses alone.
LEMMA FateUnchanged == status' = status => Fate' = Fate
BY DEF Fate

\* A step that changes no status and no copy stutters.
LEMMA Stutter == UNCHANGED <<status, copies>> => UNCHANGED Delivery!deliveryVars
BY FateUnchanged DEF Delivery!deliveryVars

\* Leasing keeps an open event open.
LEMMA LeaseKeepsFate ==
  ASSUME IndInv, NEW d \in Drainers, pc[d] = "lease", LeaseRows(d)
  PROVE  Fate' = Fate
<1>1. \A e \in todo[d] : status[e] \in {"pending", "in_flight"}
  BY DEF IndInv, ClaimInv, Claiming
<1>2. \A e \in Events : status'[e] = IF e \in todo[d] THEN "in_flight" ELSE status[e]
  BY DEF LeaseRows
<1> QED
  BY <1>1, <1>2 DEF Fate

\* Recording a failure keeps an event open or gives it up.
LEMMA RecordStep ==
  ASSUME IndInv, NEW d \in Drainers, NEW e \in Events, RecordFailure(d, e), copies' = copies
  PROVE  UNCHANGED Delivery!deliveryVars \/ Delivery!GiveUp(e)
<1> USE DEF IndInv, TypeOK
<1>1. CASE UNCHANGED rows
  BY <1>1, Stutter DEF rows
<1>2. ASSUME leaseOwner[e] = d
      PROVE  status[e] = "in_flight" /\ Fate[e] = "open"
  BY <1>2, DrainersAssumption DEF OwnedIffInFlight, Fate
<1>3. CASE leaseOwner[e] = d /\ Recorded(e, "pending")
  <2>1. Fate' = Fate
    BY <1>2, <1>3 DEF Recorded, Fate
  <2> QED
    BY <2>1 DEF Delivery!deliveryVars
<1>4. CASE leaseOwner[e] = d /\ Recorded(e, "dead_letter")
  <2>1. Fate' = [Fate EXCEPT ![e] = "dead_letter"]
    BY <1>2, <1>4 DEF Recorded, Fate
  <2> QED
    BY <1>2, <1>4, <2>1 DEF Delivery!GiveUp
<1> QED
  BY <1>1, <1>3, <1>4, RecordEffect

\* Marking the batch publishes the rows that the drainer still owns.
LEMMA PublishStep ==
  ASSUME IndInv, NEW d \in Drainers, MarkPublished(d), copies' = copies
  PROVE  Delivery!Publish(Owned(d, sent[d]))
<1> DEFINE S == Owned(d, sent[d])
<1>1. \A e \in S : e \in Events /\ status[e] = "in_flight" /\ copies[e] > 0
  BY DEF IndInv, TypeOK, OwnedIffInFlight, SentInv, Owned
<1>2. \A e \in S : Fate[e] = "open"
  BY <1>1 DEF Fate
<1>3. Fate' = [e \in Events |-> IF e \in S THEN "published" ELSE Fate[e]]
  <2>1. \A e \in Events : status'[e] = IF e \in S THEN "published" ELSE status[e]
    BY DEF MarkPublished
  <2> QED
    BY <2>1 DEF Fate
<1> QED
  BY <1>1, <1>2, <1>3 DEF Delivery!Publish

\* Every step of the outbox is a step of EventDelivery or stutters.
LEMMA StepImplements ==
  IndInv /\ [Next]_vars => [Delivery!DeliveryNext]_(Delivery!deliveryVars)
<1> SUFFICES ASSUME IndInv, [Next]_vars
             PROVE  UNCHANGED Delivery!deliveryVars \/ Delivery!DeliveryNext
  OBVIOUS
<1> USE DEF IndInv, TypeOK
<1>1. ASSUME NEW e \in Events, Append(e) PROVE Delivery!Accept(e)
  <2>1. Fate[e] = "absent" /\ Fate' = [Fate EXCEPT ![e] = "open"]
    BY <1>1 DEF Append, Fate
  <2> QED
    BY <1>1, <2>1 DEF Append, stream, Delivery!Accept
<1>2. ASSUME NEW e \in Events, status[e] # "absent", status' = status,
             copies' = [copies EXCEPT ![e] = @ + 1]
      PROVE  Delivery!Arrive(e)
  BY <1>2, FateUnchanged DEF Fate, Statuses, Delivery!Arrive
<1>3. ASSUME NEW e \in Events, Arrive(e) PROVE Delivery!Arrive(e)
  <2>1. status[e] # "absent"
    BY <1>3 DEF Arrive, WrittenInv
  <2>2. status' = status /\ copies' = [copies EXCEPT ![e] = @ + 1]
    BY <1>3 DEF Arrive, rows
  <2> QED
    BY <1>2, <2>1, <2>2
<1>4. ASSUME NEW d \in Drainers, NEW e \in Events, PublishAcked(d, e)
      PROVE  Delivery!Arrive(e)
  BY <1>2, <1>4 DEF PublishAcked, rows, WrittenInv, InHand
<1>5. ASSUME NEW d \in Drainers, LeaseBatch(d) \/ LeaseUnanswered(d)
      PROVE  UNCHANGED Delivery!deliveryVars
  BY <1>5, LeaseKeepsFate DEF LeaseBatch, LeaseUnanswered, stream, Delivery!deliveryVars
<1>6. ASSUME NEW d \in Drainers, NEW e \in Events, RecordFailed(d, e) \/ RecordUnanswered(d, e)
      PROVE  UNCHANGED Delivery!deliveryVars \/ Delivery!GiveUp(e)
  BY <1>6, RecordStep DEF RecordFailed, RecordUnanswered, stream
<1>7. ASSUME NEW d \in Drainers, FinishDrain(d)
      PROVE  Delivery!Publish(Owned(d, sent[d]))
  BY <1>7, PublishStep DEF FinishDrain, stream
<1>8. \A d \in Drainers : Owned(d, sent[d]) \in SUBSET Events
  BY DEF Owned
<1>9. CASE \E d \in Drainers : \/ StartDrain(d) \/ ListDuePending(d) \/ ListExpired(d)
                               \/ Abandon(d) \/ \E e \in Events : PublishFailed(d, e)
  BY <1>9, Stutter DEF StartDrain, ListDuePending, ListExpired, Abandon, PublishFailed,
     rows, stream
<1>10. CASE Tick \/ UNCHANGED vars
  BY <1>10, Stutter DEF Tick, vars, rows, stream
<1> QED
  BY <1>1, <1>3, <1>4, <1>5, <1>6, <1>7, <1>8, <1>9, <1>10
     DEF Next, DrainOnce, Break, Delivery!DeliveryNext

\* The outbox implements the delivery it promises: an event is settled once, and
\* as published only when the stream has it.
THEOREM Implements == Spec => ImplementsDelivery
<1>1. Init => Delivery!DeliveryInit
  BY DEF Init, Fate, Delivery!DeliveryInit
<1> QED
  BY <1>1, StepImplements, Inductive, PTL DEF Spec, ImplementsDelivery, Delivery!DeliverySpec
-----------------------------------------------------------------------------
(* The wait before a retry *)

\* The recursion of doubled has a solution.
LEMMA DoubledExists == /\ doubled[0] = 1
                       /\ \A n \in Nat : doubled[n + 1] = 2 * doubled[n]
<1> DEFINE step == [p \in Nat \X Nat |-> 2 * p[2]]
           Solves(d) == d = [n \in Nat |-> IF n = 0 THEN 1 ELSE 2 * d[n - 1]]
<1>1. PICK g : Recurs(g, 1, step)
  BY NatRecursion
<1>2. \A n \in Nat, x \in Nat : step[<<n, x>>] = 2 * x /\ step[<<n, x>>] \in Nat
  OBVIOUS
<1>3. g \in [Nat -> Nat] /\ g[0] = 1 /\ \A n \in Nat : g[n + 1] = 2 * g[n]
  <2> HIDE DEF step
  <2>1. \A n \in Nat, x \in Nat : step[<<n, x>>] \in Nat
    BY <1>2
  <2>2. g \in [Nat -> Nat]
    BY <1>1, <2>1, RecursIn, 1 \in Nat
  <2>3. g[0] = 1 /\ \A n \in Nat : g[n + 1] = step[<<n + 1, g[n]>>]
    BY <1>1, RecursAt
  <2>4. ASSUME NEW n \in Nat PROVE g[n + 1] = 2 * g[n]
    <3>1. g[n] \in Nat /\ n + 1 \in Nat
      BY <2>2
    <3> QED
      BY <1>2, <2>3, <3>1
  <2> QED
    BY <2>2, <2>3, <2>4
<1>4. ASSUME NEW n \in Nat PROVE g[n] = IF n = 0 THEN 1 ELSE 2 * g[n - 1]
  <2>1. n # 0 => n - 1 \in Nat /\ (n - 1) + 1 = n
    OBVIOUS
  <2> QED
    BY <1>3, <2>1
<1>5. Solves(g)
  BY <1>3, <1>4
<1>6. Solves(CHOOSE d : Solves(d))
  <2> HIDE DEF Solves
  <2> QED
    BY <1>5
<1>7. Solves(doubled)
  BY <1>6 DEF doubled
<1>8. ASSUME NEW n \in Nat PROVE doubled[n] = IF n = 0 THEN 1 ELSE 2 * doubled[n - 1]
  BY <1>7
<1> QED
  BY <1>8, \A n \in Nat : n + 1 \in Nat /\ n + 1 # 0 /\ (n + 1) - 1 = n

\* So has that of the wait, whatever the cap.
LEMMA WaitExists ==
  ASSUME NEW cap \in Nat \ {0}
  PROVE  /\ Wait(cap)!wait[1] = 1
         /\ \A n \in Nat \ {0} : Wait(cap)!wait[n + 1] = IF Wait(cap)!wait[n] < cap
                                                         THEN 2 * Wait(cap)!wait[n]
                                                         ELSE Wait(cap)!wait[n]
<1> DEFINE Longer(w) == IF w < cap THEN 2 * w ELSE w
           step == [p \in Nat \X Nat |-> IF p[1] <= 1 THEN 1 ELSE Longer(p[2])]
           Solves(w) == w = [n \in Nat |-> IF n <= 1 THEN 1 ELSE Longer(w[n - 1])]
<1>1. PICK g : Recurs(g, 1, step)
  BY NatRecursion
<1>2. \A n \in Nat, x \in Nat : /\ step[<<n, x>>] = IF n <= 1 THEN 1 ELSE Longer(x)
                                /\ step[<<n, x>>] \in Nat
  OBVIOUS
<1>3. /\ g \in [Nat -> Nat] /\ g[0] = 1
      /\ \A n \in Nat : g[n + 1] = IF n + 1 <= 1 THEN 1 ELSE Longer(g[n])
  <2> HIDE DEF step
  <2>1. \A n \in Nat, x \in Nat : step[<<n, x>>] \in Nat
    BY <1>2
  <2>2. g \in [Nat -> Nat]
    BY <1>1, <2>1, RecursIn, 1 \in Nat
  <2>3. g[0] = 1 /\ \A n \in Nat : g[n + 1] = step[<<n + 1, g[n]>>]
    BY <1>1, RecursAt
  <2> HIDE DEF Longer
  <2> QED
    BY <1>2, <2>2, <2>3, \A n \in Nat : n + 1 \in Nat
<1>4. ASSUME NEW n \in Nat PROVE g[n] = IF n <= 1 THEN 1 ELSE Longer(g[n - 1])
  <2>1. n # 0 => n - 1 \in Nat /\ (n - 1) + 1 = n
    OBVIOUS
  <2> HIDE DEF Longer
  <2> QED
    BY <1>3, <2>1
<1>5. Solves(g)
  <2> HIDE DEF Longer
  <2> QED
    BY <1>3, <1>4
<1>6. Solves(CHOOSE w : Solves(w))
  <2> HIDE DEF Solves
  <2> QED
    BY <1>5
<1>7. Solves(Wait(cap)!wait)
  BY <1>6 DEF Wait!wait
<1>8. ASSUME NEW n \in Nat
      PROVE  Wait(cap)!wait[n] = IF n <= 1 THEN 1 ELSE Longer(Wait(cap)!wait[n - 1])
  <2> DEFINE w == Wait(cap)!wait
  <2>1. Solves(w)
    BY <1>7
  <2> HIDE DEF w, Longer
  <2>2. w[n] = IF n <= 1 THEN 1 ELSE Longer(w[n - 1])
    BY <2>1
  <2> QED
    BY <2>2 DEF w
<1> HIDE DEF Longer
<1>9. Wait(cap)!wait[1] = 1
  BY <1>8
<1>10. ASSUME NEW n \in Nat \ {0} PROVE Wait(cap)!wait[n + 1] = Longer(Wait(cap)!wait[n])
  <2>1. n + 1 \in Nat /\ ~ (n + 1 <= 1) /\ (n + 1) - 1 = n
    OBVIOUS
  <2> QED
    BY <1>8, <2>1
<1> QED
  BY <1>9, <1>10 DEF Longer

\* The wait doubles until it has reached the cap, and stays there.
LEMMA WaitDoubles ==
  ASSUME NEW cap \in Nat \ {0}, NEW n \in Nat
  PROVE  /\ doubled[n] \in Nat \ {0}
         /\ \/ Wait(cap)!wait[n + 1] = doubled[n]
            \/ Wait(cap)!wait[n + 1] \in Nat /\ Wait(cap)!wait[n + 1] >= cap /\ doubled[n] >= cap
<1> SUFFICES ASSUME NEW w, NEW d, w[1] = 1, d[0] = 1, \A i \in Nat : d[i + 1] = 2 * d[i],
                    \A i \in Nat \ {0} : w[i + 1] = IF w[i] < cap THEN 2 * w[i] ELSE w[i]
             PROVE  /\ d[n] \in Nat \ {0}
                    /\ w[n + 1] = d[n] \/ (w[n + 1] \in Nat /\ w[n + 1] >= cap /\ d[n] >= cap)
  BY DoubledExists, WaitExists
<1> DEFINE Fine(i) == /\ d[i] \in Nat \ {0}
                      /\ w[i + 1] = d[i] \/ (w[i + 1] \in Nat /\ w[i + 1] >= cap /\ d[i] >= cap)
           Good == {i \in Nat : Fine(i)}
<1>1. 0 \in Good
  BY 0 + 1 = 1
<1>2. ASSUME NEW i \in Good PROVE i + 1 \in Good
  <2>1. d[i + 1] = 2 * d[i]
    OBVIOUS
  <2>2. w[(i + 1) + 1] = IF w[i + 1] < cap THEN 2 * w[i + 1] ELSE w[i + 1]
    BY i + 1 \in Nat \ {0}
  <2>3. Fine(i)
    OBVIOUS
  <2> QED
    BY <2>1, <2>2, <2>3
<1>3. Good = Nat
  <2> Good \subseteq Nat
    OBVIOUS
  <2> HIDE DEF Good
  <2> QED
    BY <1>1, <1>2, NatInduct
<1>4. Fine(n)
  <2> HIDE DEF Fine
  <2> QED
    BY <1>3
<1> QED
  BY <1>4

\* The wait before a retry doubles with each attempt up to its cap, for every cap and every
\* attempt that an event still comes to (backoff in outbox.go).
THEOREM BackoffDoubles == Spec => []DoublesUpToCap
<1>1. TypeOK => DoublesUpToCap
  <2> SUFFICES ASSUME TypeOK, NEW e \in Events, NEW cap \in Caps,
                      NEW attempt \in attemptCount[e] + 1 .. AttemptLimit
               PROVE  Wait(cap)!Backoff(attempt)
                        = IF doubled[attempt - 1] < cap THEN doubled[attempt - 1] ELSE cap
    BY DEF DoublesUpToCap
  <2>1. attempt - 1 \in Nat /\ (attempt - 1) + 1 = attempt
    BY DEF TypeOK
  <2>2. cap \in Nat \ {0}
    BY CapsAssumption
  <2>3. /\ doubled[attempt - 1] \in Nat \ {0}
        /\ \/ Wait(cap)!wait[attempt] = doubled[attempt - 1]
           \/ Wait(cap)!wait[attempt] \in Nat /\ Wait(cap)!wait[attempt] >= cap /\ doubled[attempt - 1] >= cap
    BY <2>1, <2>2, WaitDoubles
  <2> QED
    BY <2>2, <2>3 DEF Wait!Backoff
<1> QED
  BY <1>1, TypeCorrect, PTL
=============================================================================
