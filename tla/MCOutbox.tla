------------------------------ MODULE MCOutbox ------------------------------
(* Instances of Outbox for TLC. *)
EXTENDS Outbox, TLC

CONSTANTS AttemptLimit,    \* bound: the attempts tried (OUTBOX_MAX_ATTEMPTS allows 1000)
          Caps             \* the caps tried; the code's is 300 times the first wait

ASSUME CapsAssumption == Caps \subseteq Nat \ {0}

\* The drainers differ only in their names.  (The event ids are ordered.)
DrainerSymmetry == Permutations(Drainers)

Wait(cap) == INSTANCE RetryBackoff WITH MaxBackoff <- cap

\* Doubling and nothing else.
doubled[n \in Nat] == IF n = 0 THEN 1 ELSE 2 * doubled[n - 1]

\* "backoff doubles with each attempt, from one second up to maxBackoff" (outbox.go): the
\* loop stops neither early nor late, whatever attempts an event still comes to, and as it
\* tests the cap before each doubling the wait stays in the range of a Duration.
DoublesUpToCap ==
  \A e \in Events : \A cap \in Caps, attempt \in attemptCount[e] + 1 .. AttemptLimit :
    Wait(cap)!Backoff(attempt) = IF doubled[attempt - 1] < cap THEN doubled[attempt - 1] ELSE cap
=============================================================================
