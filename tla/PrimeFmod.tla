------------------------------ MODULE PrimeFmod ------------------------------
(***************************************************************************)
(* prime_fmod.hpp: the remainder of a hash by the number of buckets, with  *)
(* two multiplications in place of a division.                             *)
(***************************************************************************)
EXTENDS Integers

CONSTANT HalfRange   \* 2^32, where size_t has 64 bits

ASSUME HalfRangeAssumption == HalfRange \in Nat /\ HalfRange > 1

FullRange == HalfRange * HalfRange

\* Mutant: rounded down.
inv_size_down(d) == FullRange \div d

\* The entry of inv_sizes32 for the size d: FullRange / d, rounded up.
inv_size(d) == (FullRange + d - 1) \div d

\* The high word of a product of two words, and how it is put together where
\* there are no integers twice as wide.
get_remainder(fractional, d) == (fractional * d) \div FullRange
get_remainder_portable(fractional, d) ==
  ((fractional \div HalfRange) * d + ((fractional % HalfRange) * d) \div HalfRange) \div HalfRange

fast_modulo(a, m, d) == get_remainder((m * a) % FullRange, d) % HalfRange

\* The halves of the hash are added, in half a word.
Folded(hash) == ((hash % HalfRange) + (hash \div HalfRange)) % HalfRange

\* Sizes of more than half a word are few, and divided by.
position(hash, d) ==
  IF d < HalfRange THEN fast_modulo(Folded(hash), inv_size(d), d) ELSE hash % d
=============================================================================
