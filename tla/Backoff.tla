-------------------------------- MODULE Backoff --------------------------------
(***************************************************************************)
(* sleepWithBackoff of internal/gw2: how long the client may sleep before  *)
(* an attempt, in the 64-bit arithmetic of time.Duration.                  *)
(*                                                                         *)
(* The base, 500 ms, is 5^9 units of 2^8 ns.  Whatever is computed from it *)
(* by shifting is a whole number of units, so units stand for nanoseconds  *)
(* and 56 bits for 64.                                                     *)
(***************************************************************************)
EXTENDS Integers

Base == 1953125     \* 500 ms
Cap  == 117187500   \* 30 s
Bits == 56

(* x as the two's complement number of w bits.                             *)
Signed(x, w) ==
    LET low == x % 2^w IN IF low < 2^(w - 1) THEN low ELSE low - 2^w

(* The factor of 2^n in Base * 2^n once the upper bits are cut off.  Base  *)
(* needs 21 bits and a sign, so nothing is cut off before the 35th shift.  *)
Kept(n) ==
    IF n >= Bits THEN 0
    ELSE IF Bits - n >= 22 THEN Base ELSE Signed(Base, Bits - n)

(* From the sixth shift on, Base * 2^n is above the cap unless cut off.    *)
AboveCap(n) == Kept(n) > 0 /\ (n >= 6 \/ Base * 2^n > Cap)

(* Mutations of Bound: no cap; one shift too many.                         *)
BoundUncapped(attempt) ==
    LET n == attempt - 1 IN IF n < 6 THEN Base * 2^n ELSE Kept(n) * 2^6

BoundShifted(attempt) ==
    IF AboveCap(attempt) THEN Cap
    ELSE IF attempt < 6 THEN Base * 2^attempt ELSE Kept(attempt)

(* The bound of the jitter.  Where it is not positive (Kept has its sign)  *)
(* rand.Int64N panics and takes the process down.                          *)
Bound(attempt) ==
    LET n == attempt - 1 IN
    IF AboveCap(n) THEN Cap
    ELSE IF n < 6 THEN Base * 2^n ELSE Kept(n)

Panics(attempt) == Bound(attempt) <= 0

-----------------------------------------------------------------------------
(* The bound doubles from the base up to the cap and stays there, as the   *)
(* comment says (client.go:733-734), for 35 attempts; the 36th panics, and *)
(* GW2_MAX_RETRIES can ask for it.                                         *)
BackoffIsSane ==
    /\ Bound(1) = Base
    /\ \A attempt \in 2..35 :
          Bound(attempt) = IF 2 * Bound(attempt - 1) > Cap THEN Cap
                                                           ELSE 2 * Bound(attempt - 1)
    /\ \A attempt \in 1..100 : Panics(attempt) => attempt >= 36
    /\ Panics(36)
=============================================================================
