---------------------------- MODULE BackoffProofs ----------------------------
(***************************************************************************)
(* The delay before every restart, for any number of crashes and any limit *)
(* of fast ones.  What backoffDelay computes depends on the crash count    *)
(* through a shift alone, so that after the 55th crash nothing is left to  *)
(* tell apart; the lemmas go through the 55 shifts before.                 *)
(***************************************************************************)
EXTENDS Backoff, TLAPS

\* The half ranges of the widths that matter.
LEMMA Powers ==
    /\ 2^0 = 1 /\ 2^1 = 2 /\ 2^2 = 4 /\ 2^3 = 8 /\ 2^4 = 16 /\ 2^5 = 32 /\ 2^6 = 64
    /\ 2^7 = 128 /\ 2^8 = 256 /\ 2^9 = 512 /\ 2^10 = 1024 /\ 2^11 = 2048 /\ 2^12 = 4096
    /\ 2^13 = 8192 /\ 2^14 = 16384 /\ 2^15 = 32768 /\ 2^16 = 65536 /\ 2^17 = 131072
    /\ 2^18 = 262144 /\ 2^19 = 524288 /\ 2^20 = 1048576 /\ 2^21 = 2097152
    /\ 2^22 = 4194304 /\ 2^23 = 8388608 /\ 2^24 = 16777216 /\ 2^25 = 33554432
    /\ 2^26 = 67108864 /\ 2^27 = 134217728 /\ 2^28 = 268435456 /\ 2^29 = 536870912
    /\ 2^30 = 1073741824
BY SMT

\* Before the overflow the product is what it should be, ...
LEMMA NoOverflow == \A n \in 1..34 : Scaled(n) = FiveToNine
<1>1. \A n \in 1..26 : Scaled(n) = FiveToNine
  BY SMT, Powers DEF Scaled, Signed, Smaller, FiveToNine
<1>2. /\ Scaled(27) = FiveToNine /\ Scaled(28) = FiveToNine /\ Scaled(29) = FiveToNine
      /\ Scaled(30) = FiveToNine /\ Scaled(31) = FiveToNine /\ Scaled(32) = FiveToNine
      /\ Scaled(33) = FiveToNine /\ Scaled(34) = FiveToNine
  BY SMT, Powers DEF Scaled, Signed, Smaller, FiveToNine
<1>3. \A n \in 1..34 : n \in 1..26 \/ n = 27 \/ n = 28 \/ n = 29 \/ n = 30 \/ n = 31
                       \/ n = 32 \/ n = 33 \/ n = 34
  BY SMT
<1> QED
  BY SMT, <1>1, <1>2, <1>3

\* ... then its sign is the highest bit of 5^9 that is left, ...
LEMMA Overflow ==
    \A n \in 35..55 : /\ Scaled(n) \in Int
                      /\ IF SignBit(n) = 0 THEN Scaled(n) > 0 ELSE Scaled(n) < 0
<1>1. /\ Scaled(35) = -144027 /\ Scaled(36) = -144027 /\ Scaled(37) = -144027 /\ Scaled(38) = 118117
      /\ Scaled(39) = -12955 /\ Scaled(40) = -12955 /\ Scaled(41) = -12955 /\ Scaled(42) = 3429
      /\ Scaled(43) = 3429 /\ Scaled(44) = -667 /\ Scaled(45) = -667 /\ Scaled(46) = 357
      /\ Scaled(47) = -155 /\ Scaled(48) = 101 /\ Scaled(49) = -27 /\ Scaled(50) = -27
      /\ Scaled(51) = 5 /\ Scaled(52) = 5 /\ Scaled(53) = -3 /\ Scaled(54) = 1
      /\ Scaled(55) = -1
  BY SMT, Powers DEF Scaled, Signed, Smaller, FiveToNine
<1>2. /\ SignBit(35) = 1 /\ SignBit(36) = 1 /\ SignBit(37) = 1 /\ SignBit(38) = 0 /\ SignBit(39) = 1
      /\ SignBit(40) = 1 /\ SignBit(41) = 1 /\ SignBit(42) = 0 /\ SignBit(43) = 0 /\ SignBit(44) = 1
      /\ SignBit(45) = 1 /\ SignBit(46) = 0 /\ SignBit(47) = 1 /\ SignBit(48) = 0 /\ SignBit(49) = 1
      /\ SignBit(50) = 1 /\ SignBit(51) = 0 /\ SignBit(52) = 0 /\ SignBit(53) = 1 /\ SignBit(54) = 0
      /\ SignBit(55) = 1
  BY SMT, Powers DEF SignBit, FiveToNine
<1> DEFINE Sign(n) == /\ Scaled(n) \in Int
                      /\ IF SignBit(n) = 0 THEN Scaled(n) > 0 ELSE Scaled(n) < 0
<1>3. /\ Sign(35) /\ Sign(36) /\ Sign(37) /\ Sign(38) /\ Sign(39) /\ Sign(40) /\ Sign(41)
      /\ Sign(42) /\ Sign(43) /\ Sign(44) /\ Sign(45) /\ Sign(46) /\ Sign(47) /\ Sign(48)
      /\ Sign(49) /\ Sign(50) /\ Sign(51) /\ Sign(52) /\ Sign(53) /\ Sign(54) /\ Sign(55)
  BY SMT, <1>1, <1>2 DEF FiveToNine
<1>4. ASSUME NEW n \in 35..55
      PROVE  \/ n = 35 \/ n = 36 \/ n = 37 \/ n = 38 \/ n = 39 \/ n = 40 \/ n = 41
             \/ n = 42 \/ n = 43 \/ n = 44 \/ n = 45 \/ n = 46 \/ n = 47 \/ n = 48
             \/ n = 49 \/ n = 50 \/ n = 51 \/ n = 52 \/ n = 53 \/ n = 54 \/ n = 55
  BY SMT
<1> HIDE DEF Sign
<1>5. \A n \in 35..55 : Sign(n)
  BY SMT, <1>3, <1>4
<1> QED
  BY SMT, <1>5 DEF Sign

\* ... and in the end nothing is left.
LEMMA NothingLeft == \A n \in Nat : n > 55 => Scaled(n) = 0
BY SMT DEF Scaled

\* Thirty seconds are passed by the sixth crash, in the whole range of the shift.
LEMMA CapPassed ==
    /\ \A n \in 1..5 : ~AboveCap(n)
    /\ \A n \in 6..34 : AboveCap(n)
    /\ \A n \in 35..55 : AboveCap(n) <=> SignBit(n) = 0
    /\ \A n \in Nat : n > 55 => ~AboveCap(n)
<1> DEFINE Limit(n) == (Cap * FiveToNine) \div 2^Smaller(n - 1, 30)
<1>1. /\ Limit(1) = 58593750 /\ Limit(2) = 29296875 /\ Limit(3) = 14648437
      /\ Limit(4) = 7324218 /\ Limit(5) = 3662109
  BY SMT, Powers DEF Cap, FiveToNine, Smaller
<1>2. \A n \in Nat : n > 30 => Limit(n) = 0
  BY SMT, Powers DEF Cap, FiveToNine, Smaller
<1>3. /\ Limit(6) < FiveToNine /\ Limit(7) < FiveToNine /\ Limit(8) < FiveToNine
      /\ Limit(9) < FiveToNine /\ Limit(10) < FiveToNine /\ Limit(11) < FiveToNine
      /\ Limit(12) < FiveToNine /\ Limit(13) < FiveToNine /\ Limit(14) < FiveToNine
      /\ Limit(15) < FiveToNine /\ Limit(16) < FiveToNine /\ Limit(17) < FiveToNine
      /\ Limit(18) < FiveToNine /\ Limit(19) < FiveToNine /\ Limit(20) < FiveToNine
      /\ Limit(21) < FiveToNine /\ Limit(22) < FiveToNine /\ Limit(23) < FiveToNine
      /\ Limit(24) < FiveToNine /\ Limit(25) < FiveToNine /\ Limit(26) < FiveToNine
      /\ Limit(27) < FiveToNine /\ Limit(28) < FiveToNine /\ Limit(29) < FiveToNine
      /\ Limit(30) < FiveToNine
  BY SMT, Powers DEF Cap, FiveToNine, Smaller
<1> HIDE DEF Limit
<1>4. \A n : AboveCap(n) <=> Scaled(n) > Limit(n)
  BY DEF AboveCap, Limit
<1>5. \A n \in 1..5 : ~AboveCap(n)
  BY SMT, <1>1, <1>4, NoOverflow DEF FiveToNine
<1>6. \A n \in 6..34 : AboveCap(n)
  BY SMT, <1>2, <1>3, <1>4, NoOverflow DEF FiveToNine
<1>7. \A n \in 35..55 : AboveCap(n) <=> SignBit(n) = 0
  <2> SUFFICES ASSUME NEW n \in 35..55 PROVE AboveCap(n) <=> SignBit(n) = 0
    OBVIOUS
  <2>1. n \in Nat /\ Limit(n) = 0
    BY SMT, <1>2
  <2>2. /\ Scaled(n) \in Int
        /\ IF SignBit(n) = 0 THEN Scaled(n) > 0 ELSE Scaled(n) < 0
    BY Overflow
  <2> QED
    BY SMT, <1>4, <2>1, <2>2
<1>8. \A n \in Nat : n > 55 => ~AboveCap(n)
  BY SMT, <1>2, <1>4, NothingLeft
<1> QED
  BY <1>5, <1>6, <1>7, <1>8

\* What backoffDelay returns for every crash count, in seconds.
DelayOf(n) ==
    IF n <= 34 THEN Smaller(2^Smaller(n - 1, 5), Cap)
    ELSE IF n < 56 /\ SignBit(n) = 0 THEN Cap ELSE 0

LEMMA DelayValue == \A n \in Nat \ {0} : BackoffDelay(n) = DelayOf(n)
<1> SUFFICES ASSUME NEW n \in Nat \ {0} PROVE BackoffDelay(n) = DelayOf(n)
  OBVIOUS
<1>1. CASE n \in 1..5
  <2>1. /\ BackoffDelay(1) = 1 /\ BackoffDelay(2) = 2 /\ BackoffDelay(3) = 4
        /\ BackoffDelay(4) = 8 /\ BackoffDelay(5) = 16
    BY SMT, CapPassed, NoOverflow, Powers DEF BackoffDelay, FiveToNine
  <2>2. /\ DelayOf(1) = 1 /\ DelayOf(2) = 2 /\ DelayOf(3) = 4 /\ DelayOf(4) = 8
        /\ DelayOf(5) = 16
    BY SMT, Powers DEF DelayOf, Smaller, Cap
  <2>3. n = 1 \/ n = 2 \/ n = 3 \/ n = 4 \/ n = 5
    BY SMT, <1>1
  <2> QED
    BY SMT, <2>1, <2>2, <2>3
<1>2. CASE n \in 6..34
  <2>1. BackoffDelay(n) = Cap
    BY SMT, <1>2, CapPassed DEF BackoffDelay
  <2> QED
    BY SMT, <1>2, <2>1, Powers DEF DelayOf, Smaller, Cap
<1>3. CASE n \in 35..55
  <2>1. /\ AboveCap(n) <=> SignBit(n) = 0
        /\ ~AboveCap(n) => Scaled(n) <= 0
    BY SMT, <1>3, CapPassed, Overflow
  <2> QED
    BY SMT, <1>3, <2>1 DEF BackoffDelay, DelayOf
<1>4. CASE n > 55
  BY SMT, <1>4, CapPassed, NothingLeft DEF BackoffDelay, DelayOf
<1> QED
  BY SMT, <1>1, <1>2, <1>3, <1>4

\* A wrapper that goes on waits what backoffDelay computed for its last crash.
IInv ==
    /\ crashCount \in Nat /\ gaveUp \in BOOLEAN
    /\ crashCount > 0 /\ ~gaveUp => delay = DelayOf(crashCount)

THEOREM BackoffInductive == Spec => []IInv
<1>1. Init => IInv
  <2>1. Init => crashCount \in Nat /\ ~(crashCount > 0)
    BY SMT DEF Init
  <2> QED
    BY <2>1 DEF Init, IInv
<1>2. IInv /\ [Next]_vars => IInv'
  <2> SUFFICES ASSUME IInv, [Next]_vars PROVE IInv'
    OBVIOUS
  <2>1. ASSUME NEW fast \in BOOLEAN, Crash(fast) PROVE IInv'
    <3>1. /\ crashCount' \in Nat \ {0} /\ gaveUp' \in BOOLEAN
          /\ ~gaveUp' => delay' = BackoffDelay(crashCount')
      BY SMT, <2>1 DEF IInv, Crash
    <3> QED
      BY <3>1, DelayValue DEF IInv, DelayOf
  <2>2. ASSUME UNCHANGED vars PROVE IInv'
    BY <2>2 DEF IInv, vars, DelayOf
  <2> QED
    BY <2>1, <2>2 DEF Next
<1> QED
  BY <1>1, <1>2, PTL DEF Spec

\* backoffDelay doubles up to its limit and stays there for the first 34 crashes of a
\* wrapper, whatever the limit of fast crashes is.
THEOREM DelayDoublesHolds == Spec => []DelayDoubles
<1>1. IInv => DelayDoubles
  BY SMT DEF IInv, DelayDoubles, DelayOf
<1> QED
  BY <1>1, BackoffInductive, PTL

\* From the 35th crash on it is the limit or nothing, from the 56th on nothing.
THEOREM DelayAfterOverflowHolds == Spec => []DelayAfterOverflow
<1>1. IInv => DelayAfterOverflow
  BY SMT DEF IInv, DelayAfterOverflow, DelayOf
<1> QED
  BY <1>1, BackoffInductive, PTL
=============================================================================
