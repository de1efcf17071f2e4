---------------------------- MODULE RetryBackoff ----------------------------
(***************************************************************************)
(* The wait before a retry: backoff in pkg/outbox/outbox.go.               *)
(***************************************************************************)
EXTENDS Integers

CONSTANT MaxBackoff       \* maxBackoff, in units of the first wait

ASSUME MaxBackoffAssumption == MaxBackoff \in Nat \ {0}

\* The doublings of the loop: it stops at MaxBackoff or above.
wait[n \in Nat] == IF n <= 1 THEN 1
                   ELSE LET w == wait[n - 1]
                        IN  IF w < MaxBackoff THEN 2 * w ELSE w

\* A bug: the loop counts from 0.
BackoffFromZero(attempts) ==
  IF wait[attempts + 1] \in 1..MaxBackoff THEN wait[attempts + 1] ELSE MaxBackoff

\* min(wait, maxBackoff)
Backoff(attempts) ==
  IF wait[attempts] \in 1..MaxBackoff THEN wait[attempts] ELSE MaxBackoff
=============================================================================
