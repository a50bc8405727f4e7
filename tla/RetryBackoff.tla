---- MODULE RetryBackoff ----
(***************************************************************************)
(* `QueuesConfig::retry_delay_secs`: how long a message waits before it is *)
(* tried again.  The code computes in u64; Width is the number of bits, so *)
(* that overflow can be explored with small integers.                      *)
(***************************************************************************)
EXTENDS Integers

CONSTANTS
    Width,      \* bits of the unsigned integer the delay is computed in (64)
    MaxDelay    \* the cap on a delay (3600 seconds)

\* The cap is representable. The last two conjuncts spell out, for the finitely
\* many shifts that fit, what 2^n is: the provers know no exponentiation.
ASSUME WidthAssumption ==
    /\ Width \in Nat \ {0}
    /\ MaxDelay \in Nat /\ MaxDelay < 2^Width
    /\ \A n \in 0 .. Width : 2^n \in Nat \ {0}
    /\ 2^0 = 1 /\ \A n \in 1 .. Width : 2^n = 2 * 2^(n - 1)

MaxUInt == 2^Width - 1

\* Mutant: a product that wraps around.
WrappingMul(a, b) == (a * b) % 2^Width

\* u64::saturating_mul
SaturatingMul(a, b) == IF a * b > MaxUInt THEN MaxUInt ELSE a * b

\* 1.checked_shl(n).unwrap_or(u64::MAX): a shift by the width or more is
\* refused, a smaller one never loses the bit.
ShiftedOne(n) == IF n < Width THEN 2^n ELSE MaxUInt

RetryDelay(backoff, attempts) ==
    LET doubling == ShiftedOne(IF attempts = 0 THEN 0 ELSE attempts - 1)
        delay    == SaturatingMul(doubling, backoff)
    IN  IF delay > MaxDelay THEN MaxDelay ELSE delay
====
