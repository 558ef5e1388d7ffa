------------------------------- MODULE Backoff ------------------------------
(***************************************************************************)
(* backoff_seconds of queue/worker.rs, in unsigned arithmetic of a given   *)
(* width: 64 bits in the code, fewer for TLC.                              *)
(***************************************************************************)
EXTENDS Naturals

CONSTANT Width         \* the width of u64

ASSUME WidthAssumption == Width \in Nat \ {0}

\* 2^n, by doubling.
TwoTo(n) ==
  LET Doubled[k \in 0 .. n] == IF k = 0 THEN 1 ELSE 2 * Doubled[k - 1]
  IN  Doubled[n]

Least(a, b) == IF a <= b THEN a ELSE b

\* A plausible defect: wrapping arithmetic.
Wrap(n) == n % TwoTo(Width)

\* The saturating result of an operation whose exact result is n.
Sat(n) == Least(n, TwoTo(Width) - 1)

BackoffSeconds(base, attempt, cap) ==
  IF attempt = 0 THEN 0 ELSE Least(Sat(base * Sat(TwoTo(attempt - 1))), cap)
=============================================================================
