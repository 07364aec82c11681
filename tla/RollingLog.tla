------------------------------ MODULE RollingLog ------------------------------
(***************************************************************************)
(* What the rotating log promises its readers as long as no system call    *)
(* fails: a growing stream of which one contiguous suffix is kept, and     *)
(* nothing among its last Capacity bytes is ever given up.                 *)
(***************************************************************************)
EXTENDS Integers

CONSTANT Capacity
VARIABLES first,   \* the oldest byte kept
          total,   \* the bytes that were ever appended
          failed   \* the system calls that failed

RInit == first = 0 /\ total = 0 /\ failed = 0

Append == total' > total /\ UNCHANGED <<first, failed>>

\* Old bytes go only when Capacity newer ones stay.
Evict == first' > first /\ first' <= total - Capacity /\ UNCHANGED <<total, failed>>

\* After a failure older bytes may be missing.
Degraded == failed' > 0 /\ first' >= first /\ total' >= total

RSpec == RInit /\ [][Append \/ Evict \/ Degraded]_<<first, total, failed>>

=============================================================================
