------------------------------- MODULE Backoff -------------------------------
(***************************************************************************)
(* The arithmetic of the wait in acquire_lock.  Times on the clock are in  *)
(* microseconds, as gettimeofday() gives them; naps are in milliseconds.   *)
(***************************************************************************)
EXTENDS Integers

INITIAL_WAIT_MS == 10
MAX_WAIT_MS     == 1000

Least(m, n) == IF m <= n THEN m ELSE n

(* 90% of what remains, TIMEOUT_FACTOR, but never nothing at all: *)
(* remaining is in microseconds and positive.                     *)
Limited(wait_ms, remaining) ==
    LET nap == Least(wait_ms, (remaining * 9) \div 10000)
    IN  IF nap < 1 THEN 1 ELSE nap

(* Twice as long the next time, up to the limit. *)
Capped(wait_ms) == Least(2 * wait_ms, MAX_WAIT_MS)

(* On top of that, for a value r of rand() *)
Jittered(wait_ms, r) == wait_ms + (r % (wait_ms \div 10 + 1))
=============================================================================
