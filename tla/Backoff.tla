------------------------------- MODULE Backoff -------------------------------
(***************************************************************************)
(* The delay before an automatic restart: backoffDelay, the same function  *)
(* in daemon/wrapper.go and process/direct.go, and the crash counters that *)
(* javaWait feeds it with.  crashCount grows over the whole life of a      *)
(* wrapper and is never reset, so the width of time.Duration matters:      *)
(*                                                                         *)
(*     time.Second * (1 << (n - 1))  =  5^9 * 2^(n + 8)  modulo 2^64       *)
(*                                                                         *)
(* A duration is written here as Scaled(n) * 2^(n + 8) nanoseconds, where  *)
(* Scaled(n) is 5^9 in the 56 - n bits that are left, signed: that keeps   *)
(* every number small.  From the 56th crash on nothing is left.            *)
(***************************************************************************)
EXTENDS Integers

CONSTANTS
    MaxFastCrashes,   \* maxFastCrashes (5 in the code)
    MaxCrashes        \* bound: crashes explored

ASSUME MaxFastCrashesAssumption == MaxFastCrashes \in Nat \ {0}
ASSUME MaxCrashesAssumption == MaxCrashes \in Nat \ {0}

VARIABLES
    crashCount,    \* Wrapper.crashCount
    fastCrashes,   \* Wrapper.fastCrashes
    delay,         \* seconds javaWait waits before the restart
    gaveUp         \* the wrapper closed instead of restarting

vars == <<crashCount, fastCrashes, delay, gaveUp>>

Cap == 30             \* maxDelay, in seconds
FiveToNine == 1953125 \* time.Second = 5^9 * 2^9 nanoseconds
Smaller(a, b) == IF a < b THEN a ELSE b

\* x as a signed integer of the given number of bits; 30 hold every x used here.
Signed(x, bits) ==
    LET half == 2^(Smaller(bits, 30) - 1) IN ((x + half) % (2 * half)) - half

Scaled(n) == IF n >= 56 THEN 0 ELSE Signed(FiveToNine, 56 - n)

\* Scaled(n) * 2^(n + 8) nanoseconds are more than Cap seconds.
AboveCap(n) == Scaled(n) > (Cap * FiveToNine) \div 2^Smaller(n - 1, 30)

\* Mutant of BackoffDelay: the first crash already waits two seconds.
BackoffDelayDoubled(n) ==
    IF AboveCap(n + 1) THEN Cap ELSE IF Scaled(n) <= 0 THEN 0 ELSE 2^n

\* The seconds time.After waits: a duration that is not positive fires at once,
\* and a positive one below the cap has not overflowed (n <= 5).
BackoffDelay(n) ==
    IF AboveCap(n) THEN Cap ELSE IF Scaled(n) <= 0 THEN 0 ELSE 2^(n - 1)

Init == crashCount = 0 /\ fastCrashes = 0 /\ delay = 0 /\ gaveUp = FALSE

\* javaWait counts a crash of a process that lived long enough or not, and
\* gives up or computes the delay.
Crash(fast) ==
    /\ ~gaveUp
    /\ crashCount < MaxCrashes
    /\ crashCount' = crashCount + 1
    /\ fastCrashes' = IF fast THEN fastCrashes + 1 ELSE 0
    /\ gaveUp' = (fastCrashes' >= MaxFastCrashes)
    /\ delay' = IF gaveUp' THEN delay ELSE BackoffDelay(crashCount')

Next == \E fast \in BOOLEAN : Crash(fast)

Spec == Init /\ [][Next]_vars

-----------------------------------------------------------------------------
\* The delays are 1s, 2s, 4s, 8s, 16s and then 30s for as long as the shift has
\* not overflowed, that is for the first 34 crashes of one wrapper.
DelayDoubles ==
    crashCount \in 1..34 /\ ~gaveUp => delay = Smaller(2^Smaller(crashCount - 1, 5), Cap)

\* The bit of 5^9 that is the sign of the product at the n-th crash, for n in 35..55.
SignBit(n) == (FiveToNine \div 2^(55 - n)) % 2

\* What backoffDelay does from then on: by that bit a restart waits 30s or not at all, and
\* when every bit has been shifted out, from the 56th crash on, there is no delay any more.
DelayAfterOverflow ==
    crashCount > 34 /\ ~gaveUp =>
        delay = IF crashCount < 56 /\ SignBit(crashCount) = 0 THEN Cap ELSE 0

\* What the comment on backoffDelay says of every crash: the delay grows up to
\* its limit and stays there.
DelayNeverShrinks == [][delay' >= delay]_vars
=============================================================================
