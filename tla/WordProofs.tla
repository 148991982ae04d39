------------------------------ MODULE WordProofs ------------------------------
(***************************************************************************)
(* What the library computes with the bits of words, whatever their width. *)
(* The metadata of a group put together from the lanes of two words, one   *)
(* access after the other, are what they are as bytes, to whoever looks at *)
(* them meanwhile; iterators find the next element in either layout; and   *)
(* two multiplications find the remainder of a hash.                       *)
(***************************************************************************)
EXTENDS TableIterators, PrimeFmod, WellFoundedInduction, TLAPS

-----------------------------------------------------------------------------
(* Bytes and their halves *)

Bytes  == 0 .. 255
Halves == 0 .. 15

LEMMA HalfBits ==
  ASSUME NEW n \in Halves
  PROVE  /\ OneLanes(n) \subseteq Lanes
         /\ 0 \in OneLanes(n) <=> n % 2 = 1
         /\ 1 \in OneLanes(n) <=> (n \div 2) % 2 = 1
         /\ 2 \in OneLanes(n) <=> (n \div 4) % 2 = 1
         /\ 3 \in OneLanes(n) <=> (n \div 8) % 2 = 1
BY DEF OneLanes, Lanes, Halves

LEMMA HalvesOfByte ==
  ASSUME NEW n \in Bytes
  PROVE  /\ Half(n, 0) = n % 16 /\ Half(n, 1) = n \div 16
         /\ \A w \in {0, 1} : Half(n, w) \in Halves
         /\ \A o \in Bytes : Half(o, 0) = Half(n, 0) /\ Half(o, 1) = Half(n, 1) => o = n
<1>1. /\ Half(n, 0) = n % 16 /\ Half(n, 1) = n \div 16
      /\ \A o \in Bytes : Half(o, 0) = o % 16 /\ Half(o, 1) = o \div 16
  BY DEF Half
<1>2. n % 16 \in Halves /\ n \div 16 \in Halves
  BY DEF Bytes, Halves
<1>3. \A o \in Bytes : o % 16 = n % 16 /\ o \div 16 = n \div 16 => o = n
  BY DEF Bytes
<1> QED BY <1>1, <1>2, <1>3

LEMMA ReducedHash ==
  ASSUME NEW hash \in Hashes
  PROVE  /\ reduced_hash(hash) \in Bytes
         /\ reduced_hash(hash) \notin {Available, SentinelByte}
         /\ hash \in Nat /\ reduced_hash(hash) % 8 = hash % 8 /\ hash % 8 \in 0 .. 7
<1>1. hash \in Nat
  BY HashesAssumption
<1>2. hash % 256 \in 0 .. 255 /\ (hash % 256) % 8 = hash % 8
  BY <1>1
<1> QED BY <1>1, <1>2 DEF reduced_hash, Bytes, Available, SentinelByte

-----------------------------------------------------------------------------
(* Lanes of a word *)

\* The bit of lane l for slot p; the one for N is an overflow bit.
Bit(l, p) == l * S + p

LEMMA Dimensions == S \in Nat /\ S >= 3 /\ N \in Nat /\ N = S - 1 /\ Slots = 0 .. S - 2
BY LanesAssumption DEF N, Slots

LEMMA BitSums ==
  ASSUME NEW p \in 0 .. N
  PROVE  Bit(0, p) = p /\ Bit(1, p) = S + p /\ Bit(2, p) = S + S + p /\ Bit(3, p) = S + S + S + p
BY Dimensions DEF Bit

LEMMA BitCases ==
  ASSUME NEW l \in Lanes, NEW p \in 0 .. N, NEW b, b = Bit(l, p)
  PROVE  \/ l = 0 /\ b = p
         \/ l = 1 /\ b = S + p
         \/ l = 2 /\ b = S + S + p
         \/ l = 3 /\ b = S + S + S + p
<1>1. l = 0 \/ l = 1 \/ l = 2 \/ l = 3
  BY DEF Lanes
<1>2. /\ l = 0 => b = p
      /\ l = 1 => b = S + p
      /\ l = 2 => b = S + S + p
      /\ l = 3 => b = S + S + S + p
  BY BitSums
<1> QED BY <1>1, <1>2

LEMMA BitUnique ==
  ASSUME NEW l \in Lanes, NEW p \in 0 .. N
  PROVE  /\ Bit(l, p) \in Bits /\ Bit(l, p) \in Nat
         /\ \A k \in Lanes, q \in 0 .. N : Bit(l, p) = Bit(k, q) => k = l /\ q = p
<1>1. PICK b : b = Bit(l, p)
  OBVIOUS
<1>2. /\ \/ (l = 0 /\ b = p) \/ (l = 1 /\ b = S + p)
         \/ (l = 2 /\ b = S + S + p) \/ (l = 3 /\ b = S + S + S + p)
      /\ S \in Nat /\ S >= 3 /\ p \in 0 .. S - 1
  <2>1. \/ (l = 0 /\ b = p) \/ (l = 1 /\ b = S + p)
        \/ (l = 2 /\ b = S + S + p) \/ (l = 3 /\ b = S + S + S + p)
    BY ONLY <1>1, BitCases
  <2> QED BY <2>1, Dimensions
<1>3. b \in 0 .. S + S + S + S - 1
  BY <1>2
<1>4. Bits = 0 .. S + S + S + S - 1
  BY Dimensions DEF Bits
<1>5. ASSUME NEW k \in Lanes, NEW q \in 0 .. N, b = Bit(k, q) PROVE k = l /\ q = p
  <2>1. /\ \/ (k = 0 /\ b = q) \/ (k = 1 /\ b = S + q)
           \/ (k = 2 /\ b = S + S + q) \/ (k = 3 /\ b = S + S + S + q)
        /\ q \in 0 .. S - 1
    <3>1. \/ (k = 0 /\ b = q) \/ (k = 1 /\ b = S + q)
          \/ (k = 2 /\ b = S + S + q) \/ (k = 3 /\ b = S + S + S + q)
      BY ONLY <1>5, BitCases
    <3> QED BY <3>1, Dimensions
  <2> QED BY ONLY <1>2, <2>1
<1> QED BY <1>1, <1>3, <1>4, <1>5

LEMMA BitLane ==
  ASSUME NEW l \in Lanes, NEW p \in 0 .. N
  PROVE  Bit(l, p) \div S = l
<1>1. l \in Nat /\ p \in 0 .. S - 1
  BY Dimensions DEF Lanes
<1>2. Bit(l, p) = S * l + p
  BY <1>1, Dimensions DEF Bit
<1> QED BY <1>1, <1>2, Dimensions

LEMMA BitExists ==
  ASSUME NEW b \in Bits
  PROVE  \E l \in Lanes, p \in 0 .. N : b = Bit(l, p)
<1>1. \A q \in 0 .. N : /\ Bit(0, q) = q /\ Bit(1, q) = S + q
                        /\ Bit(2, q) = S + S + q /\ Bit(3, q) = S + S + S + q
  BY BitSums
<1>2. b \in 0 .. S + S + S + S - 1
  BY Dimensions DEF Bits
<1>3. CASE b < S
  BY <1>1, <1>2, <1>3, Dimensions DEF Lanes
<1>4. CASE b >= S /\ b < S + S
  <2>1. b - S \in 0 .. N /\ b = Bit(1, b - S)
    BY <1>1, <1>2, <1>4, Dimensions
  <2> QED BY <2>1 DEF Lanes
<1>5. CASE b >= S + S /\ b < S + S + S
  <2>1. b - S - S \in 0 .. N /\ b = Bit(2, b - S - S)
    BY <1>1, <1>2, <1>5, Dimensions
  <2> QED BY <2>1 DEF Lanes
<1>6. CASE b >= S + S + S
  <2>1. b - S - S - S \in 0 .. N /\ b = Bit(3, b - S - S - S)
    BY <1>1, <1>2, <1>6, Dimensions
  <2> QED BY <2>1 DEF Lanes
<1> QED BY <1>2, <1>3, <1>4, <1>5, <1>6, Dimensions

\* Slot p of a word holds half a byte.
HoldsHalf(x, p, n) == \A l \in Lanes : Bit(l, p) \in x <=> l \in OneLanes(n)

LEMMA HoldsUnique ==
  ASSUME NEW x, NEW p, NEW n \in Halves, NEW o \in Halves, HoldsHalf(x, p, n), HoldsHalf(x, p, o)
  PROVE  n = o
<1>1. \A l \in Lanes : l \in OneLanes(n) <=> l \in OneLanes(o)
  BY DEF HoldsHalf
<1>2. /\ n % 2 = 1 <=> o % 2 = 1
      /\ (n \div 2) % 2 = 1 <=> (o \div 2) % 2 = 1
      /\ (n \div 4) % 2 = 1 <=> (o \div 4) % 2 = 1
      /\ (n \div 8) % 2 = 1 <=> (o \div 8) % 2 = 1
  BY <1>1, HalfBits DEF Lanes
<1> QED BY <1>2 DEF Halves

-----------------------------------------------------------------------------
(* Operations on words *)

LEMMA InRight ==
  ASSUME NEW x, x \subseteq Bits, NEW k \in Nat, NEW p \in Nat
  PROVE  p \in Right(x, k) <=> p + k \in x
<1>1. x \subseteq Nat
  BY Dimensions DEF Bits
<1>2. p \in Right(x, k) => p + k \in x
  <2> SUFFICES ASSUME p \in Right(x, k) PROVE p + k \in x
    OBVIOUS
  <2>1. PICK b \in x : b >= k /\ p = b - k
    BY DEF Right
  <2>2. b \in Nat /\ p + k = b
    BY <1>1, <2>1
  <2> QED BY <2>1, <2>2
<1>3. p + k \in x => p \in Right(x, k)
  <2> SUFFICES ASSUME p + k \in x PROVE p \in Right(x, k)
    OBVIOUS
  <2>1. p + k >= k /\ (p + k) - k = p
    OBVIOUS
  <2> QED BY <2>1 DEF Right
<1> QED BY <1>2, <1>3

LEMMA RightTyped ==
  ASSUME NEW x, x \subseteq Bits, NEW k \in Nat
  PROVE  Right(x, k) \subseteq Bits
<1>1. \A b \in x : b \in 0 .. 4 * S - 1
  BY DEF Bits
<1>2. 4 * S \in Nat
  BY Dimensions
<1>3. \A b \in x : b >= k => b - k \in 0 .. 4 * S - 1
  BY <1>1, <1>2
<1> QED BY <1>3 DEF Right, Bits

LEMMA AllLanesAre ==
  ASSUME NEW x, x \subseteq Bits
  PROVE  AllLanes(x) = {p \in Slots : \A l \in Lanes : Bit(l, p) \in x}
<1> DEFINE y == x \cap Right(x, 2 * S)
<1>1. y \subseteq Bits /\ S \in Nat /\ 2 * S \in Nat /\ 2 * S = S + S
  BY Dimensions
<1>2. AllLanes(x) = {p \in Slots : p \in y /\ p \in Right(y, S)}
  BY DEF AllLanes, Without15
<1>3. ASSUME NEW p \in Slots
      PROVE  p \in y /\ p \in Right(y, S) <=> \A l \in Lanes : Bit(l, p) \in x
  <2>1. p \in Nat /\ p + S \in Nat /\ p \in 0 .. N
    BY Dimensions
  <2>2. p \in Right(x, 2 * S) <=> p + 2 * S \in x
    BY <1>1, <2>1, InRight
  <2>3. p + S \in Right(x, 2 * S) <=> (p + S) + 2 * S \in x
    BY <1>1, <2>1, InRight
  <2>4. p \in Right(y, S) <=> p + S \in y
    <3> HIDE DEF y
    <3> QED BY <1>1, <2>1, InRight
  <2>5. p = Bit(0, p) /\ p + S = Bit(1, p) /\ p + 2 * S = Bit(2, p) /\ (p + S) + 2 * S = Bit(3, p)
    BY <1>1, <2>1, BitSums
  <2>6. Lanes = {0, 1, 2, 3}
    BY DEF Lanes
  <2> QED BY <2>2, <2>3, <2>4, <2>5, <2>6
<1> QED BY <1>2, <1>3

LEMMA AnyLaneIs ==
  ASSUME NEW x, x \subseteq Bits
  PROVE  AnyLane(x) = {p \in Slots : \E l \in Lanes : Bit(l, p) \in x}
<1> DEFINE y == x \cup Right(x, 2 * S)
<1>1. S \in Nat /\ 2 * S \in Nat /\ 2 * S = S + S
  BY Dimensions
<1>2. y \subseteq Bits
  BY <1>1, RightTyped
<1>3. AnyLane(x) = {p \in Slots : p \in y \/ p \in Right(y, S)}
  BY DEF AnyLane, Without15
<1>4. ASSUME NEW p \in Slots
      PROVE  p \in y \/ p \in Right(y, S) <=> \E l \in Lanes : Bit(l, p) \in x
  <2>1. p \in Nat /\ p + S \in Nat /\ p \in 0 .. N
    BY Dimensions
  <2>2. p \in Right(x, 2 * S) <=> p + 2 * S \in x
    BY <1>1, <2>1, InRight
  <2>3. p + S \in Right(x, 2 * S) <=> (p + S) + 2 * S \in x
    BY <1>1, <2>1, InRight
  <2>4. p \in Right(y, S) <=> p + S \in y
    <3> HIDE DEF y
    <3> QED BY <1>1, <1>2, <2>1, InRight
  <2>5. p = Bit(0, p) /\ p + S = Bit(1, p) /\ p + 2 * S = Bit(2, p) /\ (p + S) + 2 * S = Bit(3, p)
    BY <1>1, <2>1, BitSums
  <2>6. Lanes = {0, 1, 2, 3}
    BY DEF Lanes
  <2> QED BY <2>2, <2>3, <2>4, <2>5, <2>6
<1> QED BY <1>3, <1>4

LEMMA FullLanesAre ==
  ASSUME NEW n, NEW l \in Lanes, NEW p \in 0 .. N
  PROVE  Bit(l, p) \in FullLanes(n) <=> l \in OneLanes(n)
BY BitLane, BitUnique DEF FullLanes

\* A slot matches if both of its halves do.
LEMMA MatchIs ==
  ASSUME NEW w0, w0 \subseteq Bits, NEW w1, w1 \subseteq Bits, NEW n \in Bytes
  PROVE  match_impl(w0, w1, n) =
           {p \in Slots : HoldsHalf(w0, p, Half(n, 0)) /\ HoldsHalf(w1, p, Half(n, 1))}
<1> DEFINE x == Not(Xor(w1, FullLanes(n \div 16)) \cup Xor(w0, FullLanes(n % 16)))
<1>1. x \subseteq Bits /\ match_impl(w0, w1, n) = AllLanes(x)
  BY DEF Not, match_impl
<1>2. ASSUME NEW p \in Slots, NEW l \in Lanes
      PROVE  Bit(l, p) \in x <=> /\ Bit(l, p) \in w0 <=> l \in OneLanes(Half(n, 0))
                                 /\ Bit(l, p) \in w1 <=> l \in OneLanes(Half(n, 1))
  <2>1. p \in 0 .. N
    BY Dimensions
  <2>2. Bit(l, p) \in Bits
    BY <2>1, BitUnique
  <2>3. /\ Bit(l, p) \in FullLanes(n % 16) <=> l \in OneLanes(Half(n, 0))
        /\ Bit(l, p) \in FullLanes(n \div 16) <=> l \in OneLanes(Half(n, 1))
    BY <2>1, FullLanesAre, HalvesOfByte
  <2> QED BY <2>2, <2>3 DEF Not, Xor
<1> HIDE DEF x
<1>3. AllLanes(x) = {p \in Slots : \A l \in Lanes : Bit(l, p) \in x}
  BY <1>1, AllLanesAre
<1> QED BY <1>1, <1>2, <1>3 DEF HoldsHalf


-----------------------------------------------------------------------------
(* Writing half a byte *)

LEMMA LeftOfLanes ==
  ASSUME NEW L, L \subseteq Lanes, NEW p \in Slots
  PROVE  Left({l * S : l \in L}, p) = {Bit(l, p) : l \in L}
<1>1. p \in 0 .. N /\ p \in Nat
  BY Dimensions
<1>2. \A l \in L : Bit(l, p) \in Bits
  BY <1>1, BitUnique
<1>3. {b + p : b \in {l * S : l \in L}} = {Bit(l, p) : l \in L}
  BY DEF Bit
<1> QED BY <1>2, <1>3 DEF Left

\* What either access makes of a word.
Written(x, y, p, n, clear) ==
  /\ y \subseteq Bits
  /\ \A l \in Lanes, q \in 0 .. N : q # p => (Bit(l, q) \in y <=> Bit(l, q) \in x)
  /\ ~clear => \A l \in OneLanes(n) : Bit(l, p) \in y
  /\ clear /\ (\A l \in OneLanes(n) : Bit(l, p) \in x) => HoldsHalf(y, p, n)

LEMMA SetImpl ==
  ASSUME NEW x, x \subseteq Bits, NEW p \in Slots, NEW n \in Halves, NEW clear \in BOOLEAN,
         NEW y, y = set_impl(x, p, n, clear)
  PROVE  Written(x, y, p, n, clear)
<1>1. OneLanes(n) \subseteq Lanes /\ p \in 0 .. N
  BY HalfBits, Dimensions
<1>2. /\ Left(mask(n), p) = {Bit(l, p) : l \in OneLanes(n)}
      /\ Left(imask(n), p) = {Bit(l, p) : l \in Lanes \ OneLanes(n)}
  BY <1>1, LeftOfLanes DEF mask, imask
<1>3. y = IF clear THEN x \ Left(imask(n), p) ELSE x \cup Left(mask(n), p)
  BY DEF set_impl
<1>4. Left(mask(n), p) \subseteq Bits
  BY DEF Left
<1>5. ASSUME NEW l \in Lanes, NEW q \in 0 .. N, q # p
      PROVE  Bit(l, q) \notin Left(mask(n), p) /\ Bit(l, q) \notin Left(imask(n), p)
  <2>1. \A k \in Lanes : Bit(l, q) # Bit(k, p)
    BY <1>1, <1>5, BitUnique
  <2> QED BY <1>1, <1>2, <2>1
<1>6. ASSUME NEW l \in Lanes
      PROVE  Bit(l, p) \in Left(imask(n), p) <=> l \notin OneLanes(n)
  <2>1. \A k \in Lanes : Bit(l, p) = Bit(k, p) => k = l
    BY <1>1, BitUnique
  <2> QED BY <1>2, <2>1
<1>7. ~clear => \A l \in OneLanes(n) : Bit(l, p) \in y
  BY <1>2, <1>3
<1>8. ASSUME clear, \A l \in OneLanes(n) : Bit(l, p) \in x
      PROVE  HoldsHalf(y, p, n)
  BY <1>3, <1>6, <1>8 DEF HoldsHalf
<1> QED BY <1>3, <1>4, <1>5, <1>7, <1>8 DEF Written

\* A change of other bits leaves what a slot holds.
LEMMA HoldsKept ==
  ASSUME NEW x, NEW y, NEW p, NEW n, \A l \in Lanes : Bit(l, p) \in y <=> Bit(l, p) \in x
  PROVE  HoldsHalf(y, p, n) <=> HoldsHalf(x, p, n)
BY DEF HoldsHalf

-----------------------------------------------------------------------------
(* Overflow bits *)

LEMMA OverflowBits ==
  ASSUME NEW k \in 0 .. 7
  PROVE  /\ OverflowWord(k) \in {0, 1} /\ OverflowBit(k) \in Bits
         /\ k % 8 = k /\ k % 4 \in Lanes /\ OverflowBit(k) = Bit(k % 4, N)
         /\ \A l \in Lanes, p \in Slots : Bit(l, p) # OverflowBit(k)
         /\ \A j \in 0 .. 7 :
              OverflowWord(j) = OverflowWord(k) /\ OverflowBit(j) = OverflowBit(k) => j = k
<1>1. \A j \in 0 .. 7 : /\ j % 8 = j /\ j % 4 \in 0 .. 3 /\ j \div 4 \in {0, 1}
                        /\ j = 4 * (j \div 4) + (j % 4)
  OBVIOUS
<1>2. \A j \in 0 .. 7 : /\ OverflowWord(j) = j \div 4 /\ OverflowBit(j) = Bit(j % 4, N)
                        /\ j % 4 \in Lanes
  BY <1>1 DEF OverflowWord, OverflowBit, Bit, Lanes
<1>3. N \in 0 .. N /\ \A p \in Slots : p \in 0 .. N /\ p # N
  BY Dimensions
<1>4. OverflowBit(k) \in Bits
  BY <1>2, <1>3, BitUnique
<1>5. \A l \in Lanes, p \in Slots : Bit(l, p) # OverflowBit(k)
  BY <1>2, <1>3, BitUnique
<1>6. ASSUME NEW j \in 0 .. 7, OverflowWord(j) = OverflowWord(k), OverflowBit(j) = OverflowBit(k)
      PROVE  j = k
  <2>1. j % 4 = k % 4 /\ j \div 4 = k \div 4
    BY <1>2, <1>3, <1>6, BitUnique
  <2> QED BY <1>1, <2>1
<1> QED BY <1>1, <1>2, <1>4, <1>5, <1>6

\* Only the remainder of a hash matters.
LEMMA OverflowOfHash ==
  ASSUME NEW hash \in Hashes, NEW k, k = hash % 8
  PROVE  /\ k \in 0 .. 7 /\ OverflowWord(hash) = OverflowWord(k) /\ OverflowBit(hash) = OverflowBit(k)
         /\ is_not_overflowed(hash) = is_not_overflowed(k)
<1>1. k \in 0 .. 7 /\ k % 8 = k
  BY ReducedHash
<1> QED BY <1>1 DEF OverflowWord, OverflowBit, is_not_overflowed

\* The three low bits of a half byte are gathered in one place.
LEMMA LowBitsGathered ==
  ASSUME NEW p \in Slots, NEW n \in Halves, m[0] \subseteq Bits, HoldsHalf(m[0], p, n)
  PROVE  maybe_caused_overflow(p) = ~is_not_overflowed(n % 8)
<1> DEFINE x == LowBits(p)
           y == GatheredLow(x)
<1>1. p \in Nat /\ p \in 0 .. N /\ S \in Nat /\ S >= 3 /\ 2 * S = S + S
  BY Dimensions
<1>2. /\ Right(m[0], p) \subseteq Bits
      /\ 0 \in Right(m[0], p) <=> Bit(0, p) \in m[0]
      /\ S \in Right(m[0], p) <=> Bit(1, p) \in m[0]
      /\ 2 * S \in Right(m[0], p) <=> Bit(2, p) \in m[0]
  <2>1. 0 + p = Bit(0, p) /\ S + p = Bit(1, p) /\ 2 * S + p = Bit(2, p)
    BY <1>1, BitSums
  <2>2. 0 \in Nat /\ 2 * S \in Nat
    BY <1>1
  <2> QED BY <1>1, <2>1, <2>2, InRight, RightTyped
<1>3. x \subseteq Bits /\ x \subseteq {0, S, S + S}
  BY <1>1, <1>2 DEF LowBits
<1>4. /\ 0 \in x <=> 0 \in OneLanes(n)
      /\ S \in x <=> 1 \in OneLanes(n)
      /\ S + S \in x <=> 2 \in OneLanes(n)
  BY <1>1, <1>2 DEF LowBits, HoldsHalf, Lanes
<1> HIDE DEF x
<1>5. \A b \in Nat : b \in y <=> b \in x \/ b + (S - 1) \in x \/ b + (2 * S - 2) \in x
  <2>1. S - 1 \in Nat /\ 2 * S - 2 \in Nat
    BY <1>1
  <2> QED BY <1>3, <2>1, InRight DEF GatheredLow
<1>6. (0 \in y <=> 0 \in x) /\ (1 \in y <=> S \in x) /\ (2 \in y <=> S + S \in x)
  <2>1. 0 \in y <=> 0 \in x
    <3>1. 0 + (S - 1) \notin {0, S, S + S} /\ 0 + (2 * S - 2) \notin {0, S, S + S}
      BY <1>1
    <3> QED BY <1>3, <1>5, <3>1
  <2>2. 1 \in y <=> S \in x
    <3>1. 1 \notin {0, S, S + S} /\ 1 + (S - 1) = S /\ 1 + (2 * S - 2) \notin {0, S, S + S}
      BY <1>1
    <3> QED BY <1>3, <1>5, <3>1
  <2>3. 2 \in y <=> S + S \in x
    <3>1. 2 \notin {0, S, S + S} /\ 2 + (S - 1) \notin {0, S, S + S} /\ 2 + (2 * S - 2) = S + S
      BY <1>1
    <3> QED BY <1>3, <1>5, <3>1
  <2> QED BY <2>1, <2>2, <2>3
<1>7. (IF 0 \in y THEN 1 ELSE 0) + (IF 1 \in y THEN 2 ELSE 0) + (IF 2 \in y THEN 4 ELSE 0) = n % 8
  <2>1. /\ 0 \in y <=> n % 2 = 1
        /\ 1 \in y <=> (n \div 2) % 2 = 1
        /\ 2 \in y <=> (n \div 4) % 2 = 1
    BY <1>4, <1>6, HalfBits
  <2>2. n \in 0 .. 15
    BY DEF Halves
  <2> HIDE DEF y
  <2> QED BY <2>1, <2>2
<1>8. maybe_caused_overflow(p) =
        ~is_not_overflowed((IF 0 \in y THEN 1 ELSE 0) + (IF 1 \in y THEN 2 ELSE 0)
                             + (IF 2 \in y THEN 4 ELSE 0))
  BY DEF maybe_caused_overflow, x
<1> QED BY <1>7, <1>8


-----------------------------------------------------------------------------
(* The invariant *)

Writes(p) == writing.what = "slot" /\ writing.pos = p

TypeOK ==
  /\ bytes \in [Slots -> Bytes] /\ overflow \subseteq 0 .. 7
  /\ m = [w \in {0, 1} |-> m[w]] /\ \A w \in {0, 1} : m[w] \subseteq Bits
  /\ sentinel \in BOOLEAN
  /\ writing.what \in {"idle", "slot", "lane"}
  /\ writing.what = "idle" => writing = Idle
  /\ writing.what = "slot" =>
       /\ writing = [what |-> "slot", pos |-> writing.pos, byte |-> writing.byte, step |-> writing.step]
       /\ writing.pos \in Slots /\ writing.step \in 0 .. 3 /\ writing.byte = bytes[writing.pos]
  /\ writing.what = "lane" => writing.hash \in Hashes
  /\ reader \in [at : {"idle", "second", "done"}, hash : Hashes \cup {0}, first : {0, 1},
                 word : SUBSET Bits, found : SUBSET Slots, touched : SUBSET Slots]
  /\ reader.at # "idle" => reader.hash \in Hashes

\* Only the last group has a sentinel, which nothing overwrites.
SentinelOK == \A p \in Slots : bytes[p] = SentinelByte <=> sentinel /\ p = N - 1

\* The words hold the bytes, but for what is being written: there, the word after
\* its first access has the one bits of its half of the byte, after the second also
\* the zero bits.
SlotHeld(p, w) ==
  IF Writes(p) /\ writing.step < 2 * w + 2
  THEN writing.step = 2 * w + 1 => \A l \in OneLanes(Half(bytes[p], w)) : Bit(l, p) \in m[w]
  ELSE HoldsHalf(m[w], p, Half(bytes[p], w))
SlotsOK == \A p \in Slots, w \in {0, 1} : SlotHeld(p, w)

\* The overflow bits are those of the byte, but for the one being marked; nobody
\* else has changed the 16-bit word it is in since it was loaded.
OverflowOK ==
  /\ \A k \in 0 .. 7 :
       IF writing.what = "lane" /\ k = writing.hash % 8 THEN k \in overflow
       ELSE k \in overflow <=> OverflowBit(k) \in m[OverflowWord(k)]
  /\ writing.what = "lane" => writing.lane = LaneOf(writing.hash)

\* A match that runs has the slots written meanwhile on record; of the others, the
\* word it has read is still that of their bytes.
ReaderOK ==
  /\ reader.at # "idle" /\ writing.what = "slot" => writing.pos \in reader.touched
  /\ reader.at = "second" =>
       \A p \in Slots \ reader.touched : HoldsHalf(reader.word, p, Half(bytes[p], reader.first))
  /\ UnlockedMatchIsStable

IInv == TypeOK /\ SentinelOK /\ SlotsOK /\ OverflowOK /\ ReaderOK


-----------------------------------------------------------------------------
(* It holds in the beginning *)

LEMMA ClearedHolds ==
  ASSUME NEW last \in BOOLEAN, NEW b, NEW x,
         b = [p \in Slots |-> IF last /\ p = N - 1 THEN SentinelByte ELSE Available],
         x = [w \in {0, 1} |-> IF last /\ w = 0 THEN {N - 1} ELSE {}]
  PROVE  /\ b \in [Slots -> Bytes] /\ x = [w \in {0, 1} |-> x[w]]
         /\ \A w \in {0, 1} : x[w] \subseteq Bits
         /\ \A p \in Slots : b[p] = SentinelByte <=> last /\ p = N - 1
         /\ \A p \in Slots, w \in {0, 1} : HoldsHalf(x[w], p, Half(b[p], w))
         /\ \A k \in 0 .. 7 : OverflowBit(k) \notin x[OverflowWord(k)]
<1>1. N - 1 \in Slots /\ N - 1 \in 0 .. N /\ N - 1 = Bit(0, N - 1) /\ 0 \in Lanes
  BY Dimensions, BitSums DEF Lanes
<1>2. N - 1 \in Bits
  BY <1>1, BitUnique
<1>3. 0 \in Bytes /\ 1 \in Bytes /\ 0 \in Halves /\ 1 \in Halves
  BY DEF Bytes, Halves
<1>4. \A l \in Lanes : l \notin OneLanes(0) /\ (l \in OneLanes(1) <=> l = 0)
  <2>1. \A l \in Lanes : l = 0 \/ l = 1 \/ l = 2 \/ l = 3
    BY DEF Lanes
  <2>2. 0 \notin OneLanes(0) /\ 1 \notin OneLanes(0) /\ 2 \notin OneLanes(0) /\ 3 \notin OneLanes(0)
    BY <1>3, HalfBits
  <2>3. 0 \in OneLanes(1) /\ 1 \notin OneLanes(1) /\ 2 \notin OneLanes(1) /\ 3 \notin OneLanes(1)
    BY <1>3, HalfBits
  <2> QED BY <2>1, <2>2, <2>3
<1>5. Half(0, 0) = 0 /\ Half(0, 1) = 0 /\ Half(1, 0) = 1 /\ Half(1, 1) = 0
  BY DEF Half
<1>6. b \in [Slots -> Bytes] /\ \A p \in Slots : b[p] = SentinelByte <=> last /\ p = N - 1
  BY <1>3 DEF SentinelByte, Available
<1>7. ASSUME NEW p \in Slots, NEW w \in {0, 1}
      PROVE  HoldsHalf(x[w], p, Half(b[p], w))
  <2>1. p \in 0 .. N
    BY Dimensions
  <2>2. CASE last /\ p = N - 1 /\ w = 0
    <3>1. x[w] = {Bit(0, p)} /\ Half(b[p], w) = 1
      BY <1>1, <1>5, <2>2 DEF SentinelByte
    <3>2. \A l \in Lanes : Bit(l, p) = Bit(0, p) <=> l = 0
      BY <1>1, <2>1, BitUnique
    <3> QED BY <1>4, <3>1, <3>2 DEF HoldsHalf
  <2>3. CASE ~(last /\ p = N - 1 /\ w = 0)
    <3>1. Half(b[p], w) = 0
      BY <1>5, <2>3 DEF SentinelByte, Available
    <3>2. ASSUME NEW l \in Lanes PROVE Bit(l, p) \notin x[w]
      <4>1. p # N - 1 => Bit(l, p) # N - 1
        BY <1>1, <2>1, BitUnique
      <4> QED BY <2>3, <4>1
    <3> QED BY <1>4, <3>1, <3>2 DEF HoldsHalf
  <2> QED BY <2>2, <2>3
<1>8. ASSUME NEW k \in 0 .. 7 PROVE OverflowBit(k) \notin x[OverflowWord(k)]
  <2>1. OverflowBit(k) # N - 1 /\ OverflowWord(k) \in {0, 1}
    BY <1>1, OverflowBits
  <2> QED BY <2>1
<1> QED BY <1>2, <1>6, <1>7, <1>8

LEMMA InitHolds == Init => IInv
<1> SUFFICES ASSUME Init PROVE IInv
  OBVIOUS
<1>1. /\ bytes \in [Slots -> Bytes] /\ m = [w \in {0, 1} |-> m[w]]
      /\ \A w \in {0, 1} : m[w] \subseteq Bits
      /\ \A p \in Slots : bytes[p] = SentinelByte <=> sentinel /\ p = N - 1
      /\ \A p \in Slots, w \in {0, 1} : HoldsHalf(m[w], p, Half(bytes[p], w))
      /\ \A k \in 0 .. 7 : OverflowBit(k) \notin m[OverflowWord(k)]
  BY ClearedHolds DEF Init
<1>2. /\ sentinel \in BOOLEAN /\ overflow = {} /\ writing = [what |-> "idle"]
      /\ reader = [at |-> "idle", hash |-> 0, first |-> 0, word |-> {}, found |-> {}, touched |-> {}]
  BY DEF Init, Idle, NoReader
<1>3. TypeOK
  BY <1>1, <1>2 DEF TypeOK, Idle
<1>4. SentinelOK /\ SlotsOK
  BY <1>1, <1>2 DEF SentinelOK, SlotsOK, SlotHeld, Writes
<1>5. OverflowOK
  BY <1>1, <1>2 DEF OverflowOK
<1>6. ReaderOK
  BY <1>2 DEF ReaderOK, UnlockedMatchIsStable
<1> QED BY <1>3, <1>4, <1>5, <1>6 DEF IInv

-----------------------------------------------------------------------------
(* The steps of the writer preserve it *)

LEMMA InitializeKeeps ==
  ASSUME IInv, Initialize
  PROVE  IInv'
<1>1. /\ writing = Idle /\ writing' = writing /\ reader' = reader /\ sentinel' = sentinel
      /\ reader.at = "idle" /\ overflow' = {} /\ sentinel \in BOOLEAN
      /\ bytes' = [p \in Slots |-> IF sentinel /\ p = N - 1 THEN SentinelByte ELSE Available]
      /\ m' = [w \in {0, 1} |-> IF sentinel /\ w = 0 THEN {N - 1} ELSE {}]
  BY DEF Initialize, Cleared, IInv, TypeOK
<1>2. /\ bytes' \in [Slots -> Bytes] /\ m' = [w \in {0, 1} |-> m'[w]]
      /\ \A w \in {0, 1} : m'[w] \subseteq Bits
      /\ \A p \in Slots : bytes'[p] = SentinelByte <=> sentinel /\ p = N - 1
      /\ \A p \in Slots, w \in {0, 1} : HoldsHalf(m'[w], p, Half(bytes'[p], w))
      /\ \A k \in 0 .. 7 : OverflowBit(k) \notin m'[OverflowWord(k)]
  BY <1>1, ClearedHolds
<1>3. writing.what = "idle"
  BY <1>1 DEF Idle
<1>4. TypeOK'
  BY <1>1, <1>2, <1>3 DEF TypeOK, IInv
<1>5. SentinelOK' /\ SlotsOK'
  BY <1>1, <1>2, <1>3 DEF SentinelOK, SlotsOK, SlotHeld, Writes
<1>6. OverflowOK'
  BY <1>1, <1>2, <1>3 DEF OverflowOK
<1>7. ReaderOK'
  BY <1>1 DEF ReaderOK, UnlockedMatchIsStable
<1> QED BY <1>4, <1>5, <1>6, <1>7 DEF IInv

LEMMA BeginWriteKeeps ==
  ASSUME IInv, NEW p \in Slots, NEW n \in Bytes, BeginWrite(p, n),
         bytes[p] # SentinelByte, n # SentinelByte
  PROVE  IInv'
<1>1. /\ writing.what = "idle" /\ bytes' = [bytes EXCEPT ![p] = n]
      /\ writing' = [what |-> "slot", pos |-> p, byte |-> n, step |-> 0]
      /\ reader' = IF reader.at = "idle" THEN reader ELSE [reader EXCEPT !.touched = @ \cup {p}]
      /\ overflow' = overflow /\ m' = m /\ sentinel' = sentinel /\ TypeOK
  BY DEF BeginWrite, Idle, IInv
<1>2. /\ bytes' \in [Slots -> Bytes] /\ bytes'[p] = n
      /\ \A q \in Slots : q # p => bytes'[q] = bytes[q]
  BY <1>1 DEF TypeOK
<1>3. /\ reader' \in [at : {"idle", "second", "done"}, hash : Hashes \cup {0}, first : {0, 1},
                      word : SUBSET Bits, found : SUBSET Slots, touched : SUBSET Slots]
      /\ reader'.at = reader.at /\ reader'.hash = reader.hash /\ reader'.first = reader.first
      /\ reader'.word = reader.word /\ reader'.found = reader.found
      /\ reader.at # "idle" => reader'.touched = reader.touched \cup {p}
  BY <1>1 DEF TypeOK
<1>4. TypeOK'
  BY <1>1, <1>2, <1>3 DEF TypeOK
<1>5. SentinelOK'
  BY <1>1, <1>2 DEF SentinelOK, IInv
<1>6. SlotsOK'
  <2> SUFFICES ASSUME NEW q \in Slots, NEW w \in {0, 1} PROVE SlotHeld(q, w)'
    BY DEF SlotsOK
  <2>1. CASE q = p
    <3>1. Writes(q)' /\ writing'.step = 0 /\ 0 < 2 * w + 2 /\ 0 # 2 * w + 1
      BY <1>1, <2>1 DEF Writes
    <3> QED BY <3>1 DEF SlotHeld
  <2>2. CASE q # p
    <3>1. ~Writes(q) /\ ~Writes(q)'
      BY <1>1, <2>2 DEF Writes
    <3>2. SlotHeld(q, w)
      BY DEF IInv, SlotsOK
    <3> QED BY <1>1, <1>2, <2>2, <3>1, <3>2 DEF SlotHeld
  <2> QED BY <2>1, <2>2
<1>7. OverflowOK'
  BY <1>1 DEF OverflowOK, IInv
<1>8. ReaderOK'
  <2>1. reader'.at # "idle" /\ writing'.what = "slot" => writing'.pos \in reader'.touched
    BY <1>1, <1>3
  <2>2. ASSUME reader'.at = "second", NEW q \in Slots \ reader'.touched
        PROVE  HoldsHalf(reader'.word, q, Half(bytes'[q], reader'.first))
    BY <1>2, <1>3, <2>2 DEF IInv, ReaderOK
  <2>3. ASSUME reader'.at = "done", NEW q \in Slots \ reader'.touched
        PROVE  q \in reader'.found <=> bytes'[q] = reduced_hash(reader'.hash)
    BY <1>2, <1>3, <2>3 DEF IInv, ReaderOK, UnlockedMatchIsStable
  <2> QED BY <2>1, <2>2, <2>3 DEF ReaderOK, UnlockedMatchIsStable
<1> QED BY <1>4, <1>5, <1>6, <1>7, <1>8 DEF IInv

LEMMA SetKeeps ==
  ASSUME IInv, NEW p \in Slots, NEW hash \in Hashes, Set(p, hash)
  PROVE  IInv'
<1>1. bytes[p] # SentinelByte
  BY DEF Set, Available, SentinelByte
<1> QED BY <1>1, ReducedHash, BeginWriteKeeps DEF Set

LEMMA ResetKeeps ==
  ASSUME IInv, NEW p \in Slots, Reset(p)
  PROVE  IInv'
<1>1. Available \in Bytes /\ Available # SentinelByte
  BY DEF Available, SentinelByte, Bytes
<1> QED BY <1>1, BeginWriteKeeps DEF Reset


LEMMA WriteStepKeeps ==
  ASSUME IInv, WriteStep
  PROVE  IInv'
<1> DEFINE p == writing.pos
           s == writing.step
           w == s \div 2
           h == Half(bytes[p], w)
           y == set_impl(m[w], p, h, s % 2 = 1)
<1>1. /\ writing.what = "slot" /\ p \in Slots /\ s \in 0 .. 3 /\ writing.byte = bytes[p]
      /\ writing = [what |-> "slot", pos |-> p, byte |-> bytes[p], step |-> s]
      /\ bytes' = bytes /\ overflow' = overflow /\ sentinel' = sentinel /\ reader' = reader
      /\ TypeOK
  BY DEF WriteStep, IInv, TypeOK
<1>2. w \in {0, 1} /\ (s = 2 * w \/ s = 2 * w + 1) /\ (s % 2 = 1 <=> s = 2 * w + 1)
  BY <1>1
<1>3. /\ m[w] \subseteq Bits /\ bytes[p] \in Bytes
      /\ m = [v \in {0, 1} |-> m[v]] /\ \A v \in {0, 1} : m[v] \subseteq Bits
  BY <1>1, <1>2 DEF TypeOK
<1>4. h \in Halves
  BY <1>2, <1>3, HalvesOfByte
<1>5. m' = [m EXCEPT ![w] = y]
  BY <1>1 DEF WriteStep
<1>6. writing' = IF s = 3 THEN Idle ELSE [what |-> "slot", pos |-> p, byte |-> bytes[p], step |-> s + 1]
  <2>1. writing' = IF s = 3 THEN Idle ELSE [writing EXCEPT !.step = s + 1]
    BY DEF WriteStep
  <2> QED BY <1>1, <2>1
<1>7. /\ y \subseteq Bits
      /\ \A l \in Lanes, q \in 0 .. N : q # p => (Bit(l, q) \in y <=> Bit(l, q) \in m[w])
      /\ s = 2 * w => \A l \in OneLanes(h) : Bit(l, p) \in y
      /\ s = 2 * w + 1 /\ (\A l \in OneLanes(h) : Bit(l, p) \in m[w]) => HoldsHalf(y, p, h)
  <2> HIDE DEF y, h, w
  <2>1. PICK z : z = y
    OBVIOUS
  <2>2. PICK c \in BOOLEAN : c = (s % 2 = 1)
    OBVIOUS
  <2>3. PICK x : x = m[w]
    OBVIOUS
  <2>4. PICK q \in Slots : q = p
    BY <1>1
  <2>5. PICK n \in Halves : n = h
    BY <1>4
  <2>6. z = set_impl(x, q, n, c) /\ x \subseteq Bits
    BY <1>1, <1>3, <2>1, <2>2, <2>3, <2>4, <2>5 DEF y
  <2>7. Written(x, z, q, n, c)
    BY ONLY <2>2, <2>4, <2>5, <2>6, SetImpl
  <2>8. s = 2 * w => s # 2 * w + 1
    BY <1>1, <1>2
  <2> HIDE DEF p
  <2> QED BY <1>2, <2>1, <2>2, <2>3, <2>4, <2>5, <2>7, <2>8 DEF Written
<1>8. /\ m'[w] = y /\ \A v \in {0, 1} : v # w => m'[v] = m[v]
      /\ m' = [v \in {0, 1} |-> m'[v]]
  <2> HIDE DEF y, w
  <2> QED BY <1>2, <1>3, <1>5
<1> HIDE DEF y
<1>9. TypeOK'
  <2>1. \A v \in {0, 1} : m'[v] \subseteq Bits
    BY <1>3, <1>7, <1>8
  <2>2. CASE s = 3
    <3>1. writing' = Idle /\ writing'.what = "idle"
      BY <1>6, <2>2 DEF Idle
    <3> QED BY <1>1, <1>8, <2>1, <3>1 DEF TypeOK
  <2>3. CASE s # 3
    <3>1. /\ writing' = [what |-> "slot", pos |-> p, byte |-> bytes[p], step |-> s + 1]
          /\ writing'.what = "slot" /\ writing'.pos = p /\ writing'.byte = bytes[p]
          /\ writing'.step = s + 1 /\ s + 1 \in 0 .. 3
      BY <1>1, <1>6, <2>3
    <3> HIDE DEF p, s
    <3> QED BY <1>1, <1>8, <2>1, <3>1 DEF TypeOK
  <2> QED BY <2>2, <2>3
<1>10. SentinelOK'
  BY <1>1 DEF SentinelOK, IInv
<1>11. \A l \in Lanes, q \in 0 .. N, v \in {0, 1} :
         q # p => (Bit(l, q) \in m'[v] <=> Bit(l, q) \in m[v])
  BY <1>2, <1>7, <1>8
<1>12. SlotsOK'
  <2> SUFFICES ASSUME NEW q \in Slots, NEW v \in {0, 1} PROVE SlotHeld(q, v)'
    BY DEF SlotsOK
  <2>1. SlotHeld(q, v)
    BY DEF IInv, SlotsOK
  <2>2. CASE q # p
    <3>1. ~Writes(q) /\ ~Writes(q)'
      BY <1>1, <1>6, <2>2 DEF Writes, Idle
    <3>2. q \in 0 .. N
      BY Dimensions
    <3>3. \A l \in Lanes : Bit(l, q) \in m'[v] <=> Bit(l, q) \in m[v]
      BY <1>11, <2>2, <3>2
    <3> QED BY <1>1, <2>1, <3>1, <3>3, HoldsKept DEF SlotHeld
  <2>3. CASE q = p /\ v = w /\ s = 2 * w
    <3>1. Writes(q)' /\ writing'.step = 2 * v + 1
      BY <1>1, <1>2, <1>6, <2>3 DEF Writes
    <3>2. \A l \in OneLanes(Half(bytes'[q], v)) : Bit(l, q) \in m'[v]
      BY <1>1, <1>7, <1>8, <2>3
    <3> QED BY <3>1, <3>2 DEF SlotHeld
  <2>4. CASE q = p /\ v = w /\ s = 2 * w + 1
    <3>1. \A l \in OneLanes(h) : Bit(l, p) \in m[w]
      <4>1. Writes(q) /\ s < 2 * v + 2
        BY <1>1, <1>2, <2>4 DEF Writes
      <4> QED BY <2>1, <2>4, <4>1 DEF SlotHeld
    <3>2. HoldsHalf(m'[v], q, Half(bytes'[q], v))
      BY <1>1, <1>7, <1>8, <2>4, <3>1
    <3>3. ~(Writes(q)' /\ writing'.step < 2 * v + 2)
      BY <1>1, <1>2, <1>6, <2>4 DEF Writes, Idle
    <3> QED BY <3>2, <3>3 DEF SlotHeld
  <2>5. CASE q = p /\ v = 0 /\ w = 1
    <3>1. s >= 2 /\ ~(s < 2 * v + 2) /\ ~(Writes(q)' /\ writing'.step < 2 * v + 2)
      BY <1>1, <1>2, <1>6, <2>5 DEF Writes, Idle
    <3>2. m'[v] = m[v]
      BY <1>8, <2>5
    <3> QED BY <1>1, <2>1, <3>1, <3>2 DEF SlotHeld
  <2>6. CASE q = p /\ v = 1 /\ w = 0
    <3>1. Writes(q)' /\ writing'.step = s + 1 /\ s + 1 < 2 * v + 2 /\ s + 1 # 2 * v + 1
      BY <1>1, <1>2, <1>6, <2>6 DEF Writes
    <3> QED BY <3>1 DEF SlotHeld
  <2> QED BY <1>2, <2>2, <2>3, <2>4, <2>5, <2>6
<1>13. OverflowOK'
  <2>1. ASSUME NEW k \in 0 .. 7
        PROVE  OverflowBit(k) \in m'[OverflowWord(k)] <=> OverflowBit(k) \in m[OverflowWord(k)]
    <3>1. /\ OverflowWord(k) \in {0, 1} /\ OverflowBit(k) = Bit(k % 4, N) /\ k % 4 \in Lanes
          /\ N \in 0 .. N /\ N # p
      BY <1>1, OverflowBits, Dimensions
    <3> QED BY <1>11, <3>1
  <2>2. writing'.what # "lane"
    BY <1>6 DEF Idle
  <2> QED BY <1>1, <2>1, <2>2 DEF OverflowOK, IInv
<1>14. ReaderOK'
  <2>1. writing'.what = "slot" => writing'.pos = p
    BY <1>6 DEF Idle
  <2> QED BY <1>1, <2>1 DEF ReaderOK, IInv, UnlockedMatchIsStable
<1> QED BY <1>9, <1>10, <1>12, <1>13, <1>14 DEF IInv

LEMMA LoadLaneKeeps ==
  ASSUME IInv, NEW hash \in Hashes, LoadLane(hash)
  PROVE  IInv'
<1>1. /\ writing = Idle /\ writing.what = "idle" /\ overflow' = overflow \cup {hash % 8}
      /\ writing' = [what |-> "lane", hash |-> hash, lane |-> LaneOf(hash)]
      /\ bytes' = bytes /\ m' = m /\ sentinel' = sentinel /\ reader' = reader /\ TypeOK
  BY DEF LoadLane, Idle, IInv
<1>2. hash % 8 \in 0 .. 7
  BY ReducedHash
<1>3. TypeOK'
  BY <1>1, <1>2 DEF TypeOK
<1>4. SentinelOK'
  BY <1>1 DEF SentinelOK, IInv
<1>5. SlotsOK'
  <2>1. \A q \in Slots : ~Writes(q) /\ ~Writes(q)'
    BY <1>1 DEF Writes
  <2> QED BY <1>1, <2>1 DEF SlotsOK, SlotHeld, IInv
<1>6. OverflowOK'
  <2>1. LaneOf(hash)' = LaneOf(hash)
    BY <1>1 DEF LaneOf
  <2>2. writing'.what = "lane" /\ writing'.hash = hash /\ writing'.lane = LaneOf(hash)
    BY <1>1
  <2>3. ASSUME NEW k \in 0 .. 7
        PROVE  IF k = hash % 8 THEN k \in overflow'
               ELSE k \in overflow' <=> OverflowBit(k) \in m'[OverflowWord(k)]
    BY <1>1 DEF IInv, OverflowOK
  <2>4. LaneOf(writing.hash)' = LaneOf(hash)
    BY <1>1, <2>2 DEF LaneOf
  <2> QED BY <2>2, <2>3, <2>4 DEF OverflowOK
<1>7. ReaderOK'
  BY <1>1 DEF ReaderOK, IInv, UnlockedMatchIsStable
<1> QED BY <1>3, <1>4, <1>5, <1>6, <1>7 DEF IInv

LEMMA StoreLaneKeeps ==
  ASSUME IInv, StoreLane
  PROVE  IInv'
<1> DEFINE hash == writing.hash
           k0   == hash % 8
           w0   == OverflowWord(hash)
<1>1. /\ writing.what = "lane" /\ writing' = Idle /\ hash \in Hashes
      /\ writing.lane = LaneOf(hash) /\ TypeOK
      /\ bytes' = bytes /\ overflow' = overflow /\ sentinel' = sentinel /\ reader' = reader
  BY DEF StoreLane, IInv, TypeOK, OverflowOK
<1>2. m' = [m EXCEPT ![w0] = m[w0] \cup {OverflowBit(hash)}]
  <2>1. LaneOf(hash) \subseteq m[w0]
    BY DEF LaneOf
  <2>2. m' = [m EXCEPT ![w0] = (m[w0] \ LaneOf(hash)) \cup LaneOf(hash) \cup {OverflowBit(hash)}]
    BY <1>1 DEF StoreLane
  <2>3. (m[w0] \ LaneOf(hash)) \cup LaneOf(hash) \cup {OverflowBit(hash)} = m[w0] \cup {OverflowBit(hash)}
    BY <2>1
  <2> QED BY <2>2, <2>3
<1>3. k0 \in 0 .. 7 /\ w0 = OverflowWord(k0) /\ OverflowBit(hash) = OverflowBit(k0)
  <2>1. PICK h \in Hashes : h = hash
    BY <1>1
  <2>2. PICK k : k = h % 8
    OBVIOUS
  <2>3. k \in 0 .. 7 /\ OverflowWord(h) = OverflowWord(k) /\ OverflowBit(h) = OverflowBit(k)
    BY ONLY <2>1, <2>2, OverflowOfHash
  <2> QED BY <2>1, <2>2, <2>3
<1>4. w0 \in {0, 1} /\ OverflowBit(k0) \in Bits
  BY <1>3, OverflowBits
<1> HIDE DEF k0, w0
<1>5. /\ m = [v \in {0, 1} |-> m[v]] /\ \A v \in {0, 1} : m[v] \subseteq Bits
  BY <1>1 DEF TypeOK
<1>6. /\ m'[w0] = m[w0] \cup {OverflowBit(k0)} /\ \A v \in {0, 1} : v # w0 => m'[v] = m[v]
      /\ m' = [v \in {0, 1} |-> m'[v]]
  BY <1>2, <1>3, <1>4, <1>5
<1>7. TypeOK'
  <2>1. \A v \in {0, 1} : m'[v] \subseteq Bits
    BY <1>4, <1>5, <1>6
  <2> QED BY <1>1, <1>6, <2>1 DEF TypeOK, Idle
<1>8. SentinelOK'
  BY <1>1 DEF SentinelOK, IInv
<1>9. SlotsOK'
  <2> SUFFICES ASSUME NEW q \in Slots, NEW v \in {0, 1} PROVE SlotHeld(q, v)'
    BY DEF SlotsOK
  <2>1. SlotHeld(q, v) /\ ~Writes(q) /\ ~Writes(q)'
    BY <1>1 DEF IInv, SlotsOK, Writes, Idle
  <2>2. \A l \in Lanes : Bit(l, q) # OverflowBit(k0)
    BY <1>3, OverflowBits
  <2>3. \A l \in Lanes : Bit(l, q) \in m'[v] <=> Bit(l, q) \in m[v]
    BY <1>6, <2>2
  <2> QED BY <1>1, <2>1, <2>3, HoldsKept DEF SlotHeld
<1>10. OverflowOK'
  <2>1. writing'.what # "lane"
    BY <1>1 DEF Idle
  <2>2. ASSUME NEW k \in 0 .. 7
        PROVE  k \in overflow <=> OverflowBit(k) \in m'[OverflowWord(k)]
    <3>1. OverflowWord(k) \in {0, 1}
      BY OverflowBits
    <3>2. CASE k = k0
      <4>1. k \in overflow
        BY <1>1, <3>2 DEF IInv, OverflowOK, k0
      <4> QED BY <1>3, <1>6, <3>2, <4>1
    <3>3. CASE k # k0
      <4>1. k \in overflow <=> OverflowBit(k) \in m[OverflowWord(k)]
        BY <1>1, <3>3 DEF IInv, OverflowOK, k0
      <4>2. OverflowWord(k) = w0 => OverflowBit(k) # OverflowBit(k0)
        BY <1>3, <3>3, OverflowBits
      <4> QED BY <1>6, <3>1, <4>1, <4>2
    <3> QED BY <3>2, <3>3
  <2> QED BY <1>1, <2>1, <2>2 DEF OverflowOK
<1>11. ReaderOK'
  BY <1>1 DEF ReaderOK, IInv, UnlockedMatchIsStable, Idle
<1> QED BY <1>7, <1>8, <1>9, <1>10, <1>11 DEF IInv

-----------------------------------------------------------------------------
(* So do those of the unlocked match *)

\* Whoever is not being written holds its byte.
LEMMA HeldOutside ==
  ASSUME IInv, NEW p \in Slots, ~Writes(p), NEW w \in {0, 1}
  PROVE  HoldsHalf(m[w], p, Half(bytes[p], w))
BY DEF IInv, SlotsOK, SlotHeld

LEMMA BeginMatchKeeps ==
  ASSUME IInv, NEW hash \in Hashes, NEW first \in {0, 1}, BeginMatch(hash, first)
  PROVE  IInv'
<1> DEFINE touched == IF writing.what = "slot" THEN {writing.pos} ELSE {}
<1>1. /\ reader' = [at |-> "second", hash |-> hash, first |-> first, word |-> m[first],
                    found |-> {}, touched |-> touched]
      /\ bytes' = bytes /\ overflow' = overflow /\ m' = m /\ sentinel' = sentinel
      /\ writing' = writing /\ TypeOK
  BY DEF BeginMatch, NoReader, IInv
<1>2. touched \subseteq Slots /\ m[first] \subseteq Bits
  BY <1>1 DEF TypeOK
<1>3. /\ reader'.at = "second" /\ reader'.hash = hash /\ reader'.first = first
      /\ reader'.word = m[first] /\ reader'.touched = touched
      /\ reader' \in [at : {"idle", "second", "done"}, hash : Hashes \cup {0}, first : {0, 1},
                      word : SUBSET Bits, found : SUBSET Slots, touched : SUBSET Slots]
  <2> HIDE DEF touched
  <2> QED BY <1>1, <1>2
<1>4. TypeOK'
  BY <1>1, <1>3 DEF TypeOK
<1>5. SentinelOK'
  BY <1>1 DEF SentinelOK, IInv
<1>6. SlotsOK'
  BY <1>1 DEF SlotsOK, SlotHeld, Writes, IInv
<1>7. OverflowOK'
  BY <1>1 DEF OverflowOK, LaneOf, IInv
<1>8. ReaderOK'
  <2>1. ASSUME NEW p \in Slots \ touched PROVE HoldsHalf(m[first], p, Half(bytes[p], first))
    BY HeldOutside DEF Writes
  <2> QED BY <1>1, <1>3, <2>1 DEF ReaderOK, UnlockedMatchIsStable
<1> QED BY <1>4, <1>5, <1>6, <1>7, <1>8 DEF IInv


\* A match of two words is stable if they hold the bytes of the other slots.
LEMMA MatchFinds ==
  ASSUME NEW w0, w0 \subseteq Bits, NEW w1, w1 \subseteq Bits, NEW n \in Bytes, NEW p \in Slots,
         NEW o \in Bytes, HoldsHalf(w0, p, Half(o, 0)), HoldsHalf(w1, p, Half(o, 1))
  PROVE  p \in match_impl(w0, w1, n) <=> o = n
<1>1. /\ Half(o, 0) \in Halves /\ Half(o, 1) \in Halves
      /\ Half(n, 0) \in Halves /\ Half(n, 1) \in Halves
      /\ Half(o, 0) = Half(n, 0) /\ Half(o, 1) = Half(n, 1) => o = n
  BY HalvesOfByte
<1>2. p \in match_impl(w0, w1, n) <=> HoldsHalf(w0, p, Half(n, 0)) /\ HoldsHalf(w1, p, Half(n, 1))
  BY MatchIs
<1>3. HoldsHalf(w0, p, Half(n, 0)) => Half(o, 0) = Half(n, 0)
  <2>1. PICK a \in Halves, b \in Halves : a = Half(o, 0) /\ b = Half(n, 0)
    BY <1>1
  <2> QED BY <2>1, HoldsUnique
<1>4. HoldsHalf(w1, p, Half(n, 1)) => Half(o, 1) = Half(n, 1)
  <2>1. PICK a \in Halves, b \in Halves : a = Half(o, 1) /\ b = Half(n, 1)
    BY <1>1
  <2> QED BY <2>1, HoldsUnique
<1> QED BY <1>1, <1>2, <1>3, <1>4

LEMMA EndMatchKeeps ==
  ASSUME IInv, EndMatch
  PROVE  IInv'
<1> DEFINE f  == reader.first
           w0 == IF f = 0 THEN reader.word ELSE m[1 - f]
           w1 == IF f = 1 THEN reader.word ELSE m[1 - f]
           n  == reduced_hash(reader.hash)
           found == match_impl(w0, w1, n)
<1>1. /\ reader.at = "second" /\ f \in {0, 1} /\ reader.word \subseteq Bits
      /\ reader.hash \in Hashes /\ reader.touched \subseteq Slots
      /\ reader' = [reader EXCEPT !.at = "done", !.word = {}, !.found = found]
      /\ bytes' = bytes /\ overflow' = overflow /\ m' = m /\ sentinel' = sentinel
      /\ writing' = writing /\ TypeOK
  BY DEF EndMatch, IInv, TypeOK
<1>2. /\ w0 \subseteq Bits /\ w1 \subseteq Bits /\ n \in Bytes
      /\ \A p \in Slots : bytes[p] \in Bytes
  BY <1>1, ReducedHash DEF TypeOK
<1>3. ASSUME NEW p \in Slots \ reader.touched
      PROVE  HoldsHalf(w0, p, Half(bytes[p], 0)) /\ HoldsHalf(w1, p, Half(bytes[p], 1))
  <2>1. ~Writes(p)
    BY <1>1 DEF IInv, ReaderOK, Writes
  <2>2. HoldsHalf(m[0], p, Half(bytes[p], 0)) /\ HoldsHalf(m[1], p, Half(bytes[p], 1))
    BY <2>1, HeldOutside
  <2>3. HoldsHalf(reader.word, p, Half(bytes[p], f))
    BY <1>1 DEF IInv, ReaderOK
  <2>4. CASE f = 0
    <3>1. w0 = reader.word /\ w1 = m[1]
      BY <2>4
    <3> QED BY <2>2, <2>3, <2>4, <3>1
  <2>5. CASE f = 1
    <3>1. w0 = m[0] /\ w1 = reader.word
      BY <2>5
    <3> QED BY <2>2, <2>3, <2>5, <3>1
  <2> QED BY <1>1, <2>4, <2>5
<1>4. ASSUME NEW p \in Slots \ reader.touched
      PROVE  p \in found <=> bytes[p] = n
  <2> HIDE DEF w0, w1, n
  <2>1. PICK o \in Bytes : o = bytes[p]
    BY <1>2
  <2>2. HoldsHalf(w0, p, Half(o, 0)) /\ HoldsHalf(w1, p, Half(o, 1))
    BY <1>3, <2>1
  <2>3. PICK x0 \in SUBSET Bits, x1 \in SUBSET Bits, k \in Bytes :
          x0 = w0 /\ x1 = w1 /\ k = n
    BY <1>2
  <2>4. p \in match_impl(x0, x1, k) <=> o = k
    <3>1. /\ x0 \subseteq Bits /\ x1 \subseteq Bits /\ p \in Slots
          /\ HoldsHalf(x0, p, Half(o, 0)) /\ HoldsHalf(x1, p, Half(o, 1))
      BY <1>2, <2>2, <2>3
    <3> QED BY ONLY <3>1, MatchFinds
  <2> QED BY <2>1, <2>3, <2>4
<1>5. found \subseteq Slots
  BY DEF match_impl, AllLanes, Without15
<1> HIDE DEF w0, w1, n, found
<1>6. /\ reader'.at = "done" /\ reader'.hash = reader.hash /\ reader'.found = found
      /\ reader'.touched = reader.touched
      /\ reader' \in [at : {"idle", "second", "done"}, hash : Hashes \cup {0}, first : {0, 1},
                      word : SUBSET Bits, found : SUBSET Slots, touched : SUBSET Slots]
  BY <1>1, <1>5 DEF TypeOK
<1>7. TypeOK'
  BY <1>1, <1>6 DEF TypeOK
<1>8. SentinelOK'
  BY <1>1 DEF SentinelOK, IInv
<1>9. SlotsOK'
  BY <1>1 DEF SlotsOK, SlotHeld, Writes, IInv
<1>10. OverflowOK'
  BY <1>1 DEF OverflowOK, LaneOf, IInv
<1>11. ReaderOK'
  <2>1. writing'.what = "slot" => writing'.pos \in reader'.touched
    BY <1>1, <1>6 DEF IInv, ReaderOK
  <2>2. \A p \in Slots \ reader'.touched :
          p \in reader'.found <=> bytes'[p] = reduced_hash(reader'.hash)
    BY <1>1, <1>4, <1>6 DEF n
  <2> QED BY <1>6, <2>1, <2>2 DEF ReaderOK, UnlockedMatchIsStable
<1> QED BY <1>7, <1>8, <1>9, <1>10, <1>11 DEF IInv

LEMMA LeaveKeeps ==
  ASSUME IInv, Leave
  PROVE  IInv'
<1>1. /\ reader' = [at |-> "idle", hash |-> 0, first |-> 0, word |-> {}, found |-> {}, touched |-> {}]
      /\ bytes' = bytes /\ overflow' = overflow /\ m' = m /\ sentinel' = sentinel
      /\ writing' = writing /\ TypeOK
  BY DEF Leave, NoReader, IInv
<1>2. TypeOK'
  BY <1>1 DEF TypeOK
<1>3. SentinelOK'
  BY <1>1 DEF SentinelOK, IInv
<1>4. SlotsOK'
  BY <1>1 DEF SlotsOK, SlotHeld, Writes, IInv
<1>5. OverflowOK'
  BY <1>1 DEF OverflowOK, LaneOf, IInv
<1>6. ReaderOK'
  BY <1>1 DEF ReaderOK, UnlockedMatchIsStable
<1> QED BY <1>2, <1>3, <1>4, <1>5, <1>6 DEF IInv

-----------------------------------------------------------------------------
(* Theorems *)

LEMMA NextKeeps == IInv /\ [Next]_vars => IInv'
<1> SUFFICES ASSUME IInv, [Next]_vars PROVE IInv'
  OBVIOUS
<1>1. CASE Initialize
  BY <1>1, InitializeKeeps
<1>2. CASE WriteStep
  BY <1>2, WriteStepKeeps
<1>3. CASE StoreLane
  BY <1>3, StoreLaneKeeps
<1>4. CASE EndMatch
  BY <1>4, EndMatchKeeps
<1>5. CASE Leave
  BY <1>5, LeaveKeeps
<1>6. ASSUME NEW p \in Slots, Reset(p) PROVE IInv'
  BY <1>6, ResetKeeps
<1>7. ASSUME NEW p \in Slots, NEW hash \in Hashes, Set(p, hash) PROVE IInv'
  BY <1>7, SetKeeps
<1>8. ASSUME NEW hash \in Hashes, LoadLane(hash) PROVE IInv'
  BY <1>8, LoadLaneKeeps
<1>9. ASSUME NEW hash \in Hashes, NEW first \in {0, 1}, BeginMatch(hash, first) PROVE IInv'
  BY <1>9, BeginMatchKeeps
<1>10. CASE UNCHANGED vars
  <2>1. /\ bytes' = bytes /\ overflow' = overflow /\ m' = m /\ sentinel' = sentinel
        /\ writing' = writing /\ reader' = reader
    BY <1>10 DEF vars
  <2>2. TypeOK' /\ SentinelOK'
    BY <2>1 DEF TypeOK, SentinelOK, IInv
  <2>3. SlotsOK' /\ OverflowOK'
    BY <2>1 DEF SlotsOK, SlotHeld, Writes, OverflowOK, LaneOf, IInv
  <2>4. ReaderOK'
    BY <2>1 DEF ReaderOK, UnlockedMatchIsStable, IInv
  <2> QED BY <2>2, <2>3, <2>4 DEF IInv
<1> QED BY <1>1, <1>2, <1>3, <1>4, <1>5, <1>6, <1>7, <1>8, <1>9, <1>10 DEF Next

\* The words hold the bytes, but for what is being written of a slot or of the
\* overflow bits, after every access of the writer and of an unlocked lookup.
THEOREM WordsHoldBytes == Spec => []IInv
<1> QED BY InitHolds, NextKeeps, PTL DEF Spec

\* A match without the lock is not disturbed by what is written to other slots,
\* however its two reads come between the four accesses of a write.
THEOREM UnlockedMatchAlwaysStable == Spec => []UnlockedMatchIsStable
<1>1. IInv => UnlockedMatchIsStable
  BY DEF IInv, ReaderOK
<1> QED BY <1>1, WordsHoldBytes, PTL

\* What every observer of a group reads when nobody writes.
LEMMA IdleHolds ==
  ASSUME IInv, writing = Idle
  PROVE  /\ \A p \in Slots, w \in {0, 1} : HoldsHalf(m[w], p, Half(bytes[p], w))
         /\ \A k \in 0 .. 7 : k \in overflow <=> OverflowBit(k) \in m[OverflowWord(k)]
         /\ m[0] \subseteq Bits /\ m[1] \subseteq Bits /\ \A p \in Slots : bytes[p] \in Bytes
         /\ \A p \in Slots : bytes[p] = SentinelByte <=> sentinel /\ p = N - 1
<1>1. \A p \in Slots : ~Writes(p)
  BY DEF Writes, Idle
<1>2. writing.what # "lane"
  BY DEF Idle
<1> QED BY <1>1, <1>2, HeldOutside DEF IInv, TypeOK, OverflowOK, SentinelOK

\* A byte is the one for available slots if no lane of its words is set, and the
\* sentinel if only the first of one word is.
LEMMA LanesOfByte ==
  ASSUME NEW n \in Bytes
  PROVE  /\ n = Available <=> \A l \in Lanes : l \notin OneLanes(Half(n, 0)) /\ l \notin OneLanes(Half(n, 1))
         /\ n = SentinelByte <=> /\ \A l \in Lanes : l \in OneLanes(Half(n, 0)) <=> l = 0
                                 /\ \A l \in Lanes : l \notin OneLanes(Half(n, 1))
<1> DEFINE a == Half(n, 0)
           b == Half(n, 1)
<1>1. a = n % 16 /\ b = n \div 16 /\ a \in Halves /\ b \in Halves
  BY HalvesOfByte
<1>2. /\ 0 \in OneLanes(a) <=> a % 2 = 1
      /\ 1 \in OneLanes(a) <=> (a \div 2) % 2 = 1
      /\ 2 \in OneLanes(a) <=> (a \div 4) % 2 = 1
      /\ 3 \in OneLanes(a) <=> (a \div 8) % 2 = 1
  BY <1>1, HalfBits
<1>3. /\ 0 \in OneLanes(b) <=> b % 2 = 1
      /\ 1 \in OneLanes(b) <=> (b \div 2) % 2 = 1
      /\ 2 \in OneLanes(b) <=> (b \div 4) % 2 = 1
      /\ 3 \in OneLanes(b) <=> (b \div 8) % 2 = 1
  BY <1>1, HalfBits
<1> HIDE DEF a, b
<1>4. /\ a = 0 <=> \A l \in Lanes : l \notin OneLanes(a)
      /\ a = 1 <=> \A l \in Lanes : l \in OneLanes(a) <=> l = 0
      /\ b = 0 <=> \A l \in Lanes : l \notin OneLanes(b)
  <2>1. Lanes = {0, 1, 2, 3}
    BY DEF Lanes
  <2>2. a = 0 <=> /\ 0 \notin OneLanes(a) /\ 1 \notin OneLanes(a)
                  /\ 2 \notin OneLanes(a) /\ 3 \notin OneLanes(a)
    BY <1>1, <1>2 DEF Halves
  <2>3. a = 1 <=> /\ 0 \in OneLanes(a) /\ 1 \notin OneLanes(a)
                  /\ 2 \notin OneLanes(a) /\ 3 \notin OneLanes(a)
    BY <1>1, <1>2 DEF Halves
  <2>4. b = 0 <=> /\ 0 \notin OneLanes(b) /\ 1 \notin OneLanes(b)
                  /\ 2 \notin OneLanes(b) /\ 3 \notin OneLanes(b)
    BY <1>1, <1>3 DEF Halves
  <2> QED BY <2>1, <2>2, <2>3, <2>4
<1>5. (n = 0 <=> a = 0 /\ b = 0) /\ (n = 1 <=> a = 1 /\ b = 0)
  BY <1>1 DEF Bytes
<1> QED BY <1>4, <1>5 DEF Available, SentinelByte, a, b

\* The slots that no lane of a pair of words is set for, and the others.
HoldBytes(w0, w1, b) ==
  \A p \in Slots : HoldsHalf(w0, p, Half(b[p], 0)) /\ HoldsHalf(w1, p, Half(b[p], 1))
ShowAvailable(w0, w1, b) ==
  /\ AllLanes(Not(w0 \cup w1)) = {p \in Slots : b[p] = Available}
  /\ AnyLane(w0 \cup w1) = {p \in Slots : b[p] # Available}
  /\ \A p \in Slots : (w0 \cup w1) \cap {l * S + p : l \in Lanes} # {} <=> b[p] # Available

LEMMA AvailableAre ==
  ASSUME NEW w0 \in SUBSET Bits, NEW w1 \in SUBSET Bits, NEW b \in [Slots -> Bytes],
         HoldBytes(w0, w1, b)
  PROVE  ShowAvailable(w0, w1, b)
<1> DEFINE x == w0 \cup w1
<1>1. x \subseteq Bits /\ Not(x) \subseteq Bits
  BY DEF Not
<1>2. ASSUME NEW p \in Slots
      PROVE  b[p] = Available <=> \A l \in Lanes : Bit(l, p) \notin x
  BY LanesOfByte DEF HoldsHalf, HoldBytes
<1>3. \A p \in Slots, l \in Lanes : Bit(l, p) \in Not(x) <=> Bit(l, p) \notin x
  BY BitUnique, Dimensions DEF Not
<1>4. AllLanes(Not(x)) = {p \in Slots : \A l \in Lanes : Bit(l, p) \in Not(x)}
  BY <1>1, AllLanesAre
<1>5. AnyLane(x) = {p \in Slots : \E l \in Lanes : Bit(l, p) \in x}
  BY <1>1, AnyLaneIs
<1>6. \A p \in Slots : x \cap {l * S + p : l \in Lanes} # {} <=> \E l \in Lanes : Bit(l, p) \in x
  BY DEF Bit
<1> HIDE DEF x
<1>7. AllLanes(Not(x)) = {p \in Slots : b[p] = Available}
  BY <1>2, <1>3, <1>4
<1>8. AnyLane(x) = {p \in Slots : b[p] # Available}
  BY <1>2, <1>5
<1>9. \A p \in Slots : x \cap {l * S + p : l \in Lanes} # {} <=> b[p] # Available
  BY <1>2, <1>6
<1> QED BY <1>7, <1>8, <1>9 DEF x, ShowAvailable

\* is_sentinel looks at the last slot only, where the sentinel is.
LEMMA SentinelIs ==
  ASSUME NEW w, NEW b \in [Slots -> Bytes], NEW p \in Slots, b[p] = SentinelByte => p = N - 1,
         HoldsHalf(w[0], p, Half(b[p], 0)), HoldsHalf(w[1], p, Half(b[p], 1))
  PROVE  SentinelAt(w, p) <=> b[p] = SentinelByte
<1>1. p \in 0 .. N /\ N \in Nat /\ 0 \in Lanes
  BY Dimensions DEF Lanes
<1>2. CASE p # N - 1
  BY <1>2 DEF SentinelAt
<1>3. CASE p = N - 1
  <2>1. \A l \in Lanes : l * S + N - 1 = Bit(l, p)
    BY <1>1, <1>3, Dimensions DEF Bit, Lanes
  <2>2. {l * S + N - 1 : l \in Lanes} = {Bit(l, p) : l \in Lanes}
    BY <2>1
  <2>3. Bit(0, p) = N - 1 /\ \A l \in Lanes : Bit(l, p) = Bit(0, p) => l = 0
    BY <1>1, <1>3, BitUnique, BitSums
  <2>4. w[0] \cap {l * S + N - 1 : l \in Lanes} = {N - 1}
          <=> \A l \in Lanes : Bit(l, p) \in w[0] <=> l = 0
    BY <1>1, <2>2, <2>3
  <2>5. w[1] \cap {l * S + N - 1 : l \in Lanes} = {} <=> \A l \in Lanes : Bit(l, p) \notin w[1]
    BY <2>2
  <2>6. b[p] = SentinelByte <=> /\ \A l \in Lanes : Bit(l, p) \in w[0] <=> l = 0
                                /\ \A l \in Lanes : Bit(l, p) \notin w[1]
    BY LanesOfByte DEF HoldsHalf
  <2> QED BY <1>3, <2>4, <2>5, <2>6 DEF SentinelAt
<1> QED BY <1>2, <1>3

\* maybe_caused_overflow answers for the remainder by 8 of the byte.
LEMMA CausedIs ==
  ASSUME IInv, writing = Idle, NEW p \in Slots
  PROVE  maybe_caused_overflow(p) = ~is_not_overflowed(bytes[p] % 8)
<1>1. /\ HoldsHalf(m[0], p, Half(bytes[p], 0)) /\ m[0] \subseteq Bits /\ bytes[p] \in Bytes
  BY IdleHolds
<1>2. Half(bytes[p], 0) \in Halves /\ Half(bytes[p], 0) = bytes[p] % 16
  BY <1>1, HalvesOfByte
<1>3. (bytes[p] % 16) % 8 = bytes[p] % 8
  BY <1>1 DEF Bytes
<1>4. maybe_caused_overflow(p) = ~is_not_overflowed(Half(bytes[p], 0) % 8)
  BY <1>1, <1>2, LowBitsGathered
<1> QED BY <1>2, <1>3, <1>4

LEMMA NotOverflowedIs ==
  ASSUME IInv, writing = Idle, NEW k \in 0 .. 7
  PROVE  is_not_overflowed(k) = (k \notin overflow)
BY IdleHolds DEF is_not_overflowed

\* All observers of a group answer the same in both layouts.
THEOREM LayoutsAlwaysAgree == Spec => []LayoutsAgree
<1>1. IInv => LayoutsAgree
  <2> SUFFICES ASSUME IInv, writing = Idle
               PROVE  /\ match_available = match_available_bytes
                      /\ match_occupied = Slots \ match_available_bytes
                      /\ \A hash \in Hashes : /\ match(hash) = match_bytes(hash)
                                              /\ is_not_overflowed(hash) = is_not_overflowed_byte(hash)
                      /\ \A p \in Slots : /\ is_occupied(p) = (p \notin match_available_bytes)
                                          /\ is_sentinel(p) = is_sentinel_byte(p)
                      /\ \A p \in Slots \ match_available_bytes :
                           maybe_caused_overflow(p) = maybe_caused_overflow_byte(p)
    BY DEF LayoutsAgree
  <2>1. /\ \A p \in Slots, w \in {0, 1} : HoldsHalf(m[w], p, Half(bytes[p], w))
        /\ m[0] \subseteq Bits /\ m[1] \subseteq Bits /\ bytes \in [Slots -> Bytes]
        /\ \A p \in Slots : bytes[p] = SentinelByte => p = N - 1
    BY IdleHolds DEF IInv, TypeOK
  <2>2. /\ AllLanes(Not(m[0] \cup m[1])) = {p \in Slots : bytes[p] = Available}
        /\ AnyLane(m[0] \cup m[1]) = {p \in Slots : bytes[p] # Available}
        /\ \A p \in Slots :
             (m[0] \cup m[1]) \cap {l * S + p : l \in Lanes} # {} <=> bytes[p] # Available
    <3>1. PICK w0 \in SUBSET Bits, w1 \in SUBSET Bits, b \in [Slots -> Bytes] :
            w0 = m[0] /\ w1 = m[1] /\ b = bytes
      BY <2>1
    <3>2. HoldBytes(w0, w1, b)
      BY <2>1, <3>1 DEF HoldBytes
    <3>3. ShowAvailable(w0, w1, b)
      BY ONLY <3>1, <3>2, AvailableAre
    <3> QED BY <3>1, <3>3 DEF ShowAvailable
  <2>3. match_available = match_available_bytes
    BY <2>2 DEF match_available, match_available_bytes
  <2>4. match_occupied = Slots \ match_available_bytes
    BY <2>2 DEF match_occupied, Occupied, match_available_bytes
  <2>5. ASSUME NEW hash \in Hashes
        PROVE  match(hash) = match_bytes(hash)
    <3>1. PICK w0 \in SUBSET Bits, w1 \in SUBSET Bits, n \in Bytes :
            w0 = m[0] /\ w1 = m[1] /\ n = reduced_hash(hash)
      BY <2>1, ReducedHash
    <3>2. ASSUME NEW p \in Slots PROVE p \in match_impl(w0, w1, n) <=> bytes[p] = n
      <4>1. PICK o \in Bytes : o = bytes[p]
        BY <2>1
      <4>2. /\ w0 \subseteq Bits /\ w1 \subseteq Bits
            /\ HoldsHalf(w0, p, Half(o, 0)) /\ HoldsHalf(w1, p, Half(o, 1))
        BY <2>1, <3>1, <4>1
      <4>3. p \in match_impl(w0, w1, n) <=> o = n
        BY ONLY <3>1, <3>2, <4>1, <4>2, MatchFinds
      <4> QED BY <4>1, <4>3
    <3>3. match_impl(w0, w1, n) \subseteq Slots
      BY DEF match_impl, AllLanes, Without15
    <3>4. match(hash) = {p \in Slots : bytes[p] = reduced_hash(hash)}
      BY <3>1, <3>2, <3>3 DEF match
    <3>5. ASSUME NEW p \in Slots PROVE match_word(hash)[p % 4] = reduced_hash(hash)
      <4>1. p \in Nat /\ p % 4 \in 0 .. 3
        BY LanesAssumption DEF Slots, N
      <4> QED BY <4>1 DEF match_word
    <3>6. {p \in Slots : bytes[p] = match_word(hash)[p % 4]}
            = {p \in Slots : bytes[p] = reduced_hash(hash)}
      BY <3>5
    <3> QED BY <3>4, <3>6 DEF match_bytes
  <2>6. ASSUME NEW hash \in Hashes
        PROVE  is_not_overflowed(hash) = is_not_overflowed_byte(hash)
    <3>1. PICK k : k = hash % 8
      OBVIOUS
    <3>2. k \in 0 .. 7 /\ is_not_overflowed(hash) = is_not_overflowed(k)
      BY <3>1, OverflowOfHash
    <3> QED BY <3>1, <3>2, NotOverflowedIs DEF is_not_overflowed_byte
  <2>7. ASSUME NEW p \in Slots
        PROVE  /\ is_occupied(p) = (p \notin match_available_bytes)
               /\ is_sentinel(p) = is_sentinel_byte(p)
    <3>1. is_occupied(p) = (p \notin match_available_bytes)
      BY <2>2 DEF is_occupied, match_available_bytes
    <3>2. SentinelAt(m, p) <=> bytes[p] = SentinelByte
      <4>1. PICK w : w = m
        OBVIOUS
      <4>2. PICK b \in [Slots -> Bytes] : b = bytes
        BY <2>1
      <4>3. /\ b[p] = SentinelByte => p = N - 1
            /\ HoldsHalf(w[0], p, Half(b[p], 0)) /\ HoldsHalf(w[1], p, Half(b[p], 1))
        BY <2>1, <4>1, <4>2
      <4>4. SentinelAt(w, p) <=> b[p] = SentinelByte
        BY ONLY <2>7, <4>2, <4>3, SentinelIs
      <4> QED BY <4>1, <4>2, <4>4
    <3>3. is_sentinel(p) = is_sentinel_byte(p)
      <4>1. is_sentinel(p) <=> is_sentinel_byte(p)
        BY <3>2 DEF is_sentinel, is_sentinel_byte
      <4>2. is_sentinel(p) \in BOOLEAN /\ is_sentinel_byte(p) \in BOOLEAN
        BY DEF is_sentinel, is_sentinel_byte, SentinelAt
      <4> QED BY <4>1, <4>2
    <3> QED BY <3>1, <3>3
  <2>8. ASSUME NEW p \in Slots
        PROVE  maybe_caused_overflow(p) = maybe_caused_overflow_byte(p)
    <3>1. bytes[p] % 8 \in 0 .. 7
      BY <2>1 DEF Bytes
    <3>2. is_not_overflowed(bytes[p] % 8) = (bytes[p] % 8 \notin overflow)
      BY <3>1, NotOverflowedIs
    <3> QED BY <3>2, CausedIs DEF maybe_caused_overflow_byte, is_not_overflowed_byte
  <2> QED BY <2>3, <2>4, <2>5, <2>6, <2>7, <2>8
<1> QED BY <1>1, WordsHoldBytes, PTL

\* The overflow of a group that a hash caused is seen when the hash is erased.
THEOREM ErasureAlwaysSeesOverflow == Spec => []ErasureSeesOverflow
<1>1. IInv => ErasureSeesOverflow
  <2> SUFFICES ASSUME IInv, writing = Idle, NEW hash \in Hashes, NEW p \in match(hash),
                      ~is_not_overflowed(hash)
               PROVE  maybe_caused_overflow(p)
    BY DEF ErasureSeesOverflow
  <2>1. p \in Slots
    BY DEF match, match_impl, AllLanes, Without15
  <2>2. bytes[p] = reduced_hash(hash)
    <3>1. PICK w0 \in SUBSET Bits, w1 \in SUBSET Bits, n \in Bytes, o \in Bytes :
            w0 = m[0] /\ w1 = m[1] /\ n = reduced_hash(hash) /\ o = bytes[p]
      BY <2>1, ReducedHash, IdleHolds
    <3>2. /\ w0 \subseteq Bits /\ w1 \subseteq Bits /\ p \in Slots
          /\ HoldsHalf(w0, p, Half(o, 0)) /\ HoldsHalf(w1, p, Half(o, 1))
      BY <2>1, <3>1, IdleHolds
    <3>3. p \in match_impl(w0, w1, n) <=> o = n
      BY ONLY <3>1, <3>2, MatchFinds
    <3> QED BY <3>1, <3>3 DEF match
  <2>3. PICK k : k = hash % 8
    OBVIOUS
  <2>4. k \in 0 .. 7 /\ is_not_overflowed(hash) = is_not_overflowed(k) /\ bytes[p] % 8 = k
    BY <2>2, <2>3, OverflowOfHash, ReducedHash
  <2> QED BY <2>1, <2>4, CausedIs
<1> QED BY <1>1, WordsHoldBytes, PTL


-----------------------------------------------------------------------------
(* Arrays of groups, and what comes next in them *)

\* A countr_zero of a mask that is not empty.
LEMMA FirstIsLeast ==
  ASSUME NEW x, x \subseteq Nat, x # {}
  PROVE  First(x) \in x /\ \A q \in x : First(x) <= q
<1>1. PICK p \in x : \A q \in x : ~(<<q, p>> \in OpToRel(<, Nat))
  BY NatLessThanWellFounded, WFMin
<1>2. \A q \in x : p <= q
  <2>1. \A q \in x : q \in Nat /\ p \in Nat
    OBVIOUS
  <2>2. ASSUME NEW q \in x, q < p PROVE FALSE
    <3>1. <<q, p>> \in OpToRel(<, Nat)
      BY <2>1, <2>2 DEF OpToRel
    <3> QED BY <1>1, <3>1
  <2> QED BY <2>1, <2>2
<1> QED BY <1>2 DEF First

LEMMA FirstIs ==
  ASSUME NEW x, x \subseteq Nat, NEW p \in x, \A q \in x : p <= q
  PROVE  First(x) = p
<1>1. First(x) \in x /\ First(x) <= p /\ p <= First(x)
  BY FirstIsLeast
<1>2. First(x) \in Nat /\ p \in Nat
  BY <1>1
<1> QED BY <1>1, <1>2

\* Arrays of any number of groups in both layouts, which the sentinel ends.
GroupHolds(x) ==
  /\ x.bytes \in [Slots -> Bytes] /\ x.words[0] \in SUBSET Bits /\ x.words[1] \in SUBSET Bits
  /\ HoldBytes(x.words[0], x.words[1], x.bytes)
EndsAt(gs, last) ==
  /\ last \in Nat /\ DOMAIN gs = 0 .. last
  /\ \A g \in 0 .. last :
       /\ GroupHolds(gs[g])
       /\ \A n \in Slots : gs[g].bytes[n] = SentinelByte <=> g = last /\ n = N - 1
WellFormed(gs) == gs = [g \in DOMAIN gs |-> gs[g]] /\ \E last \in Nat : EndsAt(gs, last)

\* What is asked of a group is the same in both layouts.
LEMMA SameInBoth ==
  ASSUME NEW gs, NEW last, EndsAt(gs, last), NEW g \in DOMAIN gs
  PROVE  /\ OccupiedWords(gs, g) = OccupiedBytes(gs, g)
         /\ \A n \in Slots : SentinelAt(gs[g].words, n) <=> gs[g].bytes[n] = SentinelByte
<1>0. PICK w : w = gs[g].words
  OBVIOUS
<1>1. PICK b \in [Slots -> Bytes] : b = gs[g].bytes /\ w = gs[g].words
  BY <1>0 DEF EndsAt, GroupHolds
<1>2. PICK w0 \in SUBSET Bits, w1 \in SUBSET Bits : w0 = w[0] /\ w1 = w[1]
  BY <1>1 DEF EndsAt, GroupHolds
<1>3. HoldBytes(w0, w1, b)
  BY <1>1, <1>2 DEF EndsAt, GroupHolds
<1>4. ShowAvailable(w0, w1, b)
  BY ONLY <1>1, <1>2, <1>3, AvailableAre
<1>5. OccupiedWords(gs, g) = OccupiedBytes(gs, g)
  BY <1>1, <1>2, <1>4 DEF OccupiedWords, OccupiedBytes, Occupied, ShowAvailable
<1>6. ASSUME NEW n \in Slots
      PROVE  SentinelAt(gs[g].words, n) <=> gs[g].bytes[n] = SentinelByte
  <2>1. /\ b[n] = SentinelByte => n = N - 1
        /\ HoldsHalf(w[0], n, Half(b[n], 0)) /\ HoldsHalf(w[1], n, Half(b[n], 1))
    BY <1>1, <1>2, <1>3 DEF EndsAt, HoldBytes
  <2>2. SentinelAt(w, n) <=> b[n] = SentinelByte
    BY ONLY <1>1, <1>6, <2>1, SentinelIs
  <2> QED BY <1>1, <2>2
<1> QED BY <1>5, <1>6

\* The next occupied slot: in the group, or in the first group that has any.
Later(gs, g, n)  == {q \in OccupiedBytes(gs, g) : q > n}
Beyond(gs, g)    == {i \in DOMAIN gs : i > g /\ OccupiedBytes(gs, i) # {}}
NextGroup(gs, g, n) == IF Later(gs, g, n) # {} THEN g ELSE First(Beyond(gs, g))
NextSlot(gs, g, n) ==
  First(IF Later(gs, g, n) # {} THEN Later(gs, g, n) ELSE OccupiedBytes(gs, NextGroup(gs, g, n)))

\* It follows <<g, n>>, and what else is occupied and does so comes later.
Follows(gs, g, n, h, q) ==
  /\ h \in DOMAIN gs /\ q \in OccupiedBytes(gs, h)
  /\ h > g \/ (h = g /\ q > n)
  /\ \A i \in DOMAIN gs : \A s \in OccupiedBytes(gs, i) :
       i > g \/ (i = g /\ s > n) => h < i \/ (h = i /\ q <= s)

LEMMA NextOccupied ==
  ASSUME NEW gs, NEW last, EndsAt(gs, last), NEW g \in DOMAIN gs, NEW n \in Slots,
         gs[g].bytes[n] # SentinelByte
  PROVE  Follows(gs, g, n, NextGroup(gs, g, n), NextSlot(gs, g, n))
<1> DEFINE L == Later(gs, g, n)
           B == Beyond(gs, g)
<1>1. /\ last \in Nat /\ DOMAIN gs = 0 .. last
      /\ \A i \in 0 .. last, s \in Slots : gs[i].bytes[s] = SentinelByte <=> i = last /\ s = N - 1
  BY DEF EndsAt
<1>2. /\ Slots \subseteq Nat /\ N - 1 \in Slots /\ \A s \in Slots : s <= N - 1
      /\ \A i : OccupiedBytes(gs, i) \subseteq Slots
  BY Dimensions DEF OccupiedBytes
<1>3. /\ \A s : s \in L <=> s \in OccupiedBytes(gs, g) /\ s > n
      /\ \A i : i \in B <=> i \in DOMAIN gs /\ i > g /\ OccupiedBytes(gs, i) # {}
      /\ L \subseteq Nat /\ B \subseteq Nat
  <2>1. \A s : s \in L <=> s \in OccupiedBytes(gs, g) /\ s > n
    BY DEF Later
  <2>2. \A i : i \in B <=> i \in DOMAIN gs /\ i > g /\ OccupiedBytes(gs, i) # {}
    BY DEF Beyond
  <2>3. L \subseteq Nat
    BY <1>2, <2>1
  <2>4. B \subseteq Nat
    BY <1>1, <2>2
  <2> QED BY <2>1, <2>2, <2>3, <2>4
<1>4. N - 1 \in OccupiedBytes(gs, last)
  <2>1. last \in 0 .. last /\ gs[last].bytes[N - 1] = SentinelByte
    <3>1. last \in 0 .. last
      BY <1>1
    <3>2. PICK s \in Slots : s = N - 1
      BY <1>2
    <3> QED BY <1>1, <3>1, <3>2
  <2> QED BY <1>2, <2>1 DEF OccupiedBytes, Available, SentinelByte
<1>5. CASE L # {}
  <2>1. NextGroup(gs, g, n) = g /\ NextSlot(gs, g, n) = First(L)
    BY <1>5 DEF NextGroup, NextSlot
  <2>2. First(L) \in L /\ \A s \in L : First(L) <= s
    BY <1>3, <1>5, FirstIsLeast
  <2> HIDE DEF L, B
  <2> QED BY <1>1, <1>3, <2>1, <2>2 DEF Follows
<1>6. CASE L = {}
  <2>1. last \in B
    <3>1. g = last => n = N - 1
      <4>1. g = last => ~(N - 1 > n)
        BY <1>3, <1>4, <1>6
      <4>2. n \in Nat /\ n <= N - 1 /\ N - 1 \in Nat
        BY <1>2
      <4> QED BY <4>1, <4>2
    <3>2. g # last
      BY <1>1, <3>1
    <3> QED BY <1>1, <1>3, <1>4, <3>2
  <2>2. First(B) \in B /\ \A i \in B : First(B) <= i
    BY <1>3, <2>1, FirstIsLeast
  <2> DEFINE h == First(B)
             O == OccupiedBytes(gs, h)
  <2>3. NextGroup(gs, g, n) = h /\ NextSlot(gs, g, n) = First(O)
    BY <1>6 DEF NextGroup, NextSlot
  <2>4. O # {} /\ O \subseteq Nat /\ h > g /\ h \in DOMAIN gs
    BY <1>2, <1>3, <2>2
  <2>5. First(O) \in O /\ \A s \in O : First(O) <= s
    BY <2>4, FirstIsLeast
  <2>6. ASSUME NEW i \in DOMAIN gs, NEW s \in OccupiedBytes(gs, i), i > g \/ (i = g /\ s > n)
        PROVE  h < i \/ (h = i /\ First(O) <= s)
    <3>1. i > g
      BY <1>3, <1>6, <2>6
    <3>2. i \in B
      BY <1>3, <2>6, <3>1
    <3>3. h <= i
      BY <2>2, <3>2
    <3>4. h \in Nat /\ i \in Nat
      BY <1>1, <2>4
    <3>5. CASE h = i
      BY <2>5, <2>6, <3>5
    <3> QED BY <3>3, <3>4, <3>5
  <2> HIDE DEF L, B, h
  <2> QED BY <2>3, <2>4, <2>5, <2>6 DEF Follows
<1> QED BY <1>5, <1>6


-----------------------------------------------------------------------------
(* The increment of an iterator *)

\* The element that follows, if the next occupied slot is not the sentinel.
NextIterator(gs, g, n) ==
  LET h == NextGroup(gs, g, n)
      q == NextSlot(gs, g, n)
  IN  IF gs[h].bytes[q] = SentinelByte THEN End ELSE make_iterator(h, q)

LEMMA PlaceOf ==
  ASSUME NEW g \in Nat, NEW n \in Slots
  PROVE  /\ make_iterator(g, n).pc \div SizeOfGroup = g /\ make_iterator(g, n).pc % SizeOfGroup = n
         /\ make_iterator(g, n).pc = g * SizeOfGroup + n /\ make_iterator(g, n).p = g * N + n
<1>1. make_iterator(g, n).pc = g * SizeOfGroup + n /\ make_iterator(g, n).p = g * N + n
  BY DEF make_iterator
<1>2. SizeOfGroup = S /\ n \in 0 .. S - 1 /\ S \in Nat /\ S > 0
  BY Dimensions DEF SizeOfGroup
<1>3. g * S + n = S * g + n
  BY <1>2
<1>4. (S * g + n) \div S = g /\ (S * g + n) % S = n
  BY <1>2
<1> QED BY <1>1, <1>2, <1>3, <1>4

LEMMA NextIs ==
  ASSUME NEW gs, NEW last, EndsAt(gs, last), NEW g \in DOMAIN gs, NEW n \in Slots,
         gs[g].bytes[n] # SentinelByte
  PROVE  /\ g \in Nat /\ n \in Nat
         /\ NextGroup(gs, g, n) \in DOMAIN gs /\ NextGroup(gs, g, n) \in Nat
         /\ NextSlot(gs, g, n) \in Slots /\ NextSlot(gs, g, n) \in Nat
         /\ Later(gs, g, n) # {} => NextGroup(gs, g, n) = g
<1>1. Follows(gs, g, n, NextGroup(gs, g, n), NextSlot(gs, g, n))
  BY NextOccupied
<1>2. DOMAIN gs \subseteq Nat
  BY DEF EndsAt
<1>3. Slots \subseteq Nat
  BY Dimensions
<1>4. \A i : OccupiedBytes(gs, i) \subseteq Slots
  BY DEF OccupiedBytes
<1> QED BY <1>1, <1>2, <1>3, <1>4 DEF Follows, NextGroup

\* Both ways to compute it, of the pointer to the metadata byte by byte or by the
\* slots of a mask, and of the pointer to the element along with it.
LEMMA IncrementIs ==
  ASSUME NEW gs, NEW last, EndsAt(gs, last), NEW g \in DOMAIN gs, NEW n \in Slots,
         gs[g].bytes[n] # SentinelByte, NEW regular \in BOOLEAN
  PROVE  increment(gs, make_iterator(g, n), regular) = NextIterator(gs, g, n)
<1> DEFINE it == make_iterator(g, n)
           L  == Later(gs, g, n)
           h  == NextGroup(gs, g, n)
           q  == NextSlot(gs, g, n)
<1>1. /\ g \in Nat /\ n \in Nat /\ h \in DOMAIN gs /\ h \in Nat /\ q \in Slots /\ q \in Nat
      /\ L # {} => h = g
  BY NextIs
<1>2. /\ it.pc \div SizeOfGroup = g /\ it.pc % SizeOfGroup = n
      /\ it.pc = g * SizeOfGroup + n /\ it.p = g * N + n
  BY <1>1, PlaceOf
<1>3. make_iterator(h, q) = [pc |-> h * SizeOfGroup + q, p |-> h * N + q]
  BY DEF make_iterator
<1>4. N \in Nat /\ SizeOfGroup \in Nat
  BY Dimensions DEF SizeOfGroup
<1>5. CASE regular
  <2> DEFINE h1 == First({i \in DOMAIN gs : i > g /\ OccupiedBytes(gs, i) # {}})
             q1 == First(IF L # {} THEN L ELSE OccupiedBytes(gs, h1))
  <2>1. q1 = q /\ (IF L # {} THEN g ELSE h1) = h
    BY DEF NextGroup, NextSlot, Beyond
  <2>2. increment_regular(gs, it) =
          IF gs[IF L # {} THEN g ELSE h1].bytes[q1] = SentinelByte THEN End
          ELSE IF L # {} THEN [pc |-> it.pc + (q1 - n), p |-> it.p + (q1 - n)]
          ELSE [pc |-> it.pc + (SizeOfGroup - n) + (h1 - g - 1) * SizeOfGroup + q1,
                p  |-> it.p + (N - n) + (h1 - g - 1) * N + q1]
    <3> DEFINE first(a)   == First({i \in DOMAIN gs : i > a /\ OccupiedBytes(gs, i) # {}})
               slot(a, b) == First(IF Later(gs, a, b) # {} THEN Later(gs, a, b)
                                   ELSE OccupiedBytes(gs, first(a)))
               from(a, b) ==
                 IF gs[IF Later(gs, a, b) # {} THEN a ELSE first(a)].bytes[slot(a, b)] = SentinelByte
                 THEN End
                 ELSE IF Later(gs, a, b) # {}
                 THEN [pc |-> it.pc + (slot(a, b) - b), p |-> it.p + (slot(a, b) - b)]
                 ELSE [pc |-> it.pc + (SizeOfGroup - b) + (first(a) - a - 1) * SizeOfGroup + slot(a, b),
                       p  |-> it.p + (N - b) + (first(a) - a - 1) * N + slot(a, b)]
    <3>1. increment_regular(gs, it) = from(it.pc \div SizeOfGroup, it.pc % SizeOfGroup)
      BY DEF increment_regular, Later
    <3>2. from(it.pc \div SizeOfGroup, it.pc % SizeOfGroup) = from(g, n)
      <4> HIDE DEF from
      <4> QED BY <1>2
    <3> QED BY <3>1, <3>2
  <2> HIDE DEF L, h, q, h1, q1, it
  <2>3. CASE L # {}
    <3>1. h = g
      BY <1>1, <2>3
    <3>2. it.pc + (q - n) = h * SizeOfGroup + q /\ it.p + (q - n) = h * N + q
      BY <1>1, <1>2, <1>4, <3>1
    <3> QED BY <1>3, <1>5, <2>1, <2>2, <2>3, <3>2 DEF increment, NextIterator, h, q, it
  <2>4. CASE L = {}
    <3>1. h1 = h
      BY <2>1, <2>4
    <3>2. /\ (h - g - 1) * SizeOfGroup = h * SizeOfGroup - g * SizeOfGroup - SizeOfGroup
          /\ (h - g - 1) * N = h * N - g * N - N
      BY <1>1, <1>4
    <3>3. /\ it.pc + (SizeOfGroup - n) + (h - g - 1) * SizeOfGroup + q = h * SizeOfGroup + q
          /\ it.p + (N - n) + (h - g - 1) * N + q = h * N + q
      BY <1>1, <1>2, <1>4, <3>2
    <3> QED BY <1>3, <1>5, <2>1, <2>2, <2>4, <3>1, <3>3 DEF increment, NextIterator, h, q, it
  <2> QED BY <2>3, <2>4
<1>6. CASE ~regular
  <2>1. \A i \in DOMAIN gs : OccupiedWords(gs, i) = OccupiedBytes(gs, i)
    BY SameInBoth
  <2>2. {s \in OccupiedWords(gs, g) : s > n} = L
    BY <2>1 DEF Later
  <2>3. {i \in DOMAIN gs : i > g /\ OccupiedWords(gs, i) # {}} = Beyond(gs, g)
    BY <2>1 DEF Beyond
  <2>4. OccupiedWords(gs, h) = OccupiedBytes(gs, h)
    BY <1>1, <2>1
  <2>5. increment_interleaved(gs, it) =
          IF SentinelAt(gs[h].words, q) THEN End
          ELSE [pc |-> it.pc - n + (h - g) * SizeOfGroup + q,
                p  |-> it.p - n + (h - g) * N + q]
    BY <1>2, <2>2, <2>3, <2>4 DEF increment_interleaved, NextGroup, NextSlot
  <2>6. SentinelAt(gs[h].words, q) <=> gs[h].bytes[q] = SentinelByte
    BY <1>1, SameInBoth
  <2> HIDE DEF L, h, q, it
  <2>7. /\ (h - g) * SizeOfGroup = h * SizeOfGroup - g * SizeOfGroup
        /\ (h - g) * N = h * N - g * N
    BY <1>1, <1>4
  <2>8. /\ it.pc - n + (h - g) * SizeOfGroup + q = h * SizeOfGroup + q
        /\ it.p - n + (h - g) * N + q = h * N + q
    BY <1>1, <1>2, <1>4, <2>7
  <2> QED BY <1>3, <1>6, <2>5, <2>6, <2>8 DEF increment, NextIterator, h, q, it
<1> QED BY <1>5, <1>6

\* What NextElement chooses: the element before all others.
LEMMA NextElementIs ==
  ASSUME NEW gs, NEW last, EndsAt(gs, last), NEW g \in DOMAIN gs, NEW n \in Slots,
         gs[g].bytes[n] # SentinelByte
  PROVE  NextElement({y \in Elements(gs) : After(y, <<g, n>>)}) = NextIterator(gs, g, n)
<1> DEFINE P == {y \in Elements(gs) : After(y, <<g, n>>)}
           h == NextGroup(gs, g, n)
           q == NextSlot(gs, g, n)
<1>1. Follows(gs, g, n, h, q)
  BY NextOccupied
<1>2. /\ g \in Nat /\ n \in Nat /\ h \in DOMAIN gs /\ h \in Nat /\ q \in Slots /\ q \in Nat
  BY NextIs
<1>3. DOMAIN gs = 0 .. last /\ last \in Nat /\ DOMAIN gs \subseteq Nat /\ Slots \subseteq Nat
  BY Dimensions DEF EndsAt
<1>4. ASSUME NEW y \in P
      PROVE  /\ y = <<y[1], y[2]>> /\ y[1] \in DOMAIN gs /\ y[2] \in OccupiedBytes(gs, y[1])
             /\ gs[y[1]].bytes[y[2]] # SentinelByte /\ y[1] \in Nat /\ y[2] \in Nat
             /\ h < y[1] \/ (h = y[1] /\ q <= y[2])
  <2>1. /\ y \in (DOMAIN gs) \X Slots /\ gs[y[1]].bytes[y[2]] \notin {Available, SentinelByte}
        /\ y[1] > g \/ (y[1] = g /\ y[2] > n)
    BY DEF Elements, After
  <2>2. y = <<y[1], y[2]>> /\ y[1] \in DOMAIN gs /\ y[2] \in Slots
    BY <2>1
  <2>3. y[2] \in OccupiedBytes(gs, y[1])
    BY <2>1, <2>2 DEF OccupiedBytes
  <2> HIDE DEF P, h, q
  <2>4. h < y[1] \/ (h = y[1] /\ q <= y[2])
    BY <1>1, <2>1, <2>2, <2>3 DEF Follows
  <2> QED BY <1>3, <2>1, <2>2, <2>3, <2>4
<1>5. CASE gs[h].bytes[q] = SentinelByte
  <2>1. h = last /\ q = N - 1
    BY <1>2, <1>3, <1>5 DEF EndsAt
  <2>2. ASSUME NEW y \in P PROVE FALSE
    <3>1. y[1] \in 0 .. last /\ y[2] \in Slots /\ y[2] <= N - 1
      BY <1>3, <1>4, <2>2, Dimensions DEF OccupiedBytes
    <3>2. y[1] = last /\ y[2] = N - 1
      <4> HIDE DEF P, h, q
      <4> QED BY <1>2, <1>3, <1>4, <2>1, <2>2, <3>1
    <3> QED BY <1>4, <1>5, <2>1, <2>2, <3>2
  <2>3. P = {}
    BY <2>2
  <2> QED BY <1>5, <2>3 DEF NextElement, NextIterator
<1>6. CASE gs[h].bytes[q] # SentinelByte
  <2> DEFINE z == <<h, q>>
  <2>1. z \in P
    <3>1. gs[h].bytes[q] # Available
      BY <1>1 DEF Follows, OccupiedBytes
    <3>2. z \in Elements(gs)
      BY <1>2, <1>6, <3>1 DEF Elements
    <3>3. After(z, <<g, n>>)
      BY <1>1 DEF Follows, After
    <3> QED BY <3>2, <3>3
  <2>2. ASSUME NEW y \in P PROVE y = z \/ After(y, z)
    <3>1. /\ y = <<y[1], y[2]>> /\ y[1] \in Nat /\ y[2] \in Nat
          /\ h < y[1] \/ (h = y[1] /\ q <= y[2])
      BY <1>4, <2>2
    <3> HIDE DEF P, h, q
    <3>2. y[1] > h \/ (y[1] = h /\ y[2] > q) \/ (y[1] = h /\ y[2] = q)
      BY <1>2, <3>1
    <3> QED BY <3>1, <3>2 DEF After
  <2>3. ASSUME NEW y \in P, \A x \in P : x = y \/ After(x, y) PROVE y = z
    <3>1. z = y \/ After(z, y)
      BY <2>1, <2>3
    <3>2. y = z \/ After(y, z)
      BY <2>2, <2>3
    <3>3. ~(After(z, y) /\ After(y, z))
      <4>1. y[1] \in Nat /\ y[2] \in Nat
        BY <1>4, <2>3
      <4> HIDE DEF P, h, q
      <4> QED BY <1>2, <4>1 DEF After
    <3> QED BY <3>1, <3>2, <3>3
  <2> HIDE DEF P
  <2>4. (CHOOSE y \in P : \A x \in P : x = y \/ After(x, y)) = z
    <3>1. \E y \in P : \A x \in P : x = y \/ After(x, y)
      BY <2>1, <2>2
    <3> HIDE DEF z
    <3> QED BY <2>3, <3>1
  <2>5. P # {} /\ z[1] = h /\ z[2] = q
    BY <2>1
  <2>6. NextElement(P) = make_iterator(h, q)
    <3> HIDE DEF z, h, q
    <3> QED BY <2>4, <2>5 DEF NextElement
  <2> QED BY <1>6, <2>6 DEF NextIterator, P
<1> QED BY <1>5, <1>6


-----------------------------------------------------------------------------
(* Arrays with a slot erased, and those of the model *)

\* The words of a group made from its bytes hold them.
LEMMA GroupsHold ==
  ASSUME NEW b \in [Slots -> Bytes]
  PROVE  GroupHolds(Group(b)) /\ Group(b).bytes = b
<1> DEFINE W(w) == UNION {Left(mask(Half(b[p], w)), p) : p \in Slots}
<1>1. /\ Group(b).bytes = b /\ Group(b).words = Words(b)
      /\ Words(b)[0] = W(0) /\ Words(b)[1] = W(1)
  BY DEF Group, Words
<1>2. ASSUME NEW w \in {0, 1}, NEW p \in Slots
      PROVE  /\ Left(mask(Half(b[p], w)), p) = {Bit(l, p) : l \in OneLanes(Half(b[p], w))}
             /\ OneLanes(Half(b[p], w)) \subseteq Lanes
  <2>1. PICK n \in Halves : n = Half(b[p], w)
    BY HalvesOfByte
  <2>2. OneLanes(n) \subseteq Lanes
    BY HalfBits
  <2> QED BY <2>1, <2>2, LeftOfLanes DEF mask
<1>3. ASSUME NEW w \in {0, 1}
      PROVE  W(w) \in SUBSET Bits
  BY DEF Left
<1>4. ASSUME NEW w \in {0, 1}, NEW p \in Slots
      PROVE  HoldsHalf(W(w), p, Half(b[p], w))
  <2> SUFFICES ASSUME NEW l \in Lanes
               PROVE  Bit(l, p) \in W(w) <=> l \in OneLanes(Half(b[p], w))
    BY DEF HoldsHalf
  <2>1. l \in OneLanes(Half(b[p], w)) => Bit(l, p) \in W(w)
    BY <1>2
  <2>2. ASSUME Bit(l, p) \in W(w) PROVE l \in OneLanes(Half(b[p], w))
    <3>1. PICK q \in Slots : Bit(l, p) \in Left(mask(Half(b[q], w)), q)
      BY <2>2
    <3>2. PICK k \in OneLanes(Half(b[q], w)) : Bit(l, p) = Bit(k, q) /\ k \in Lanes
      BY <1>2, <3>1
    <3>3. p \in 0 .. N /\ q \in 0 .. N
      BY Dimensions
    <3>4. k = l /\ q = p
      BY <3>2, <3>3, BitUnique
    <3> QED BY <3>2, <3>4
  <2> QED BY <2>1, <2>2
<1> HIDE DEF W
<1>5. HoldBytes(W(0), W(1), b)
  BY <1>4 DEF HoldBytes
<1> QED BY <1>1, <1>3, <1>5 DEF GroupHolds

LEMMA ErasedIs ==
  ASSUME NEW gs, NEW last, EndsAt(gs, last), gs = [g \in DOMAIN gs |-> gs[g]],
         NEW g \in DOMAIN gs, NEW n \in Slots, gs[g].bytes[n] # SentinelByte
  PROVE  /\ EndsAt(Erased(gs, g, n), last) /\ DOMAIN Erased(gs, g, n) = DOMAIN gs
         /\ Erased(gs, g, n)[g].bytes[n] = Available
         /\ \A i \in DOMAIN gs, s \in Slots :
              ~(i = g /\ s = n) => Erased(gs, g, n)[i].bytes[s] = gs[i].bytes[s]
<1> DEFINE b  == [gs[g].bytes EXCEPT ![n] = Available]
           es == Erased(gs, g, n)
<1>1. /\ last \in Nat /\ DOMAIN gs = 0 .. last /\ gs[g].bytes \in [Slots -> Bytes]
      /\ \A i \in 0 .. last : GroupHolds(gs[i])
      /\ \A i \in 0 .. last, s \in Slots : gs[i].bytes[s] = SentinelByte <=> i = last /\ s = N - 1
  BY DEF EndsAt, GroupHolds
<1>2. Available \in Bytes /\ Available # SentinelByte
  BY DEF Available, SentinelByte, Bytes
<1>3. /\ b \in [Slots -> Bytes] /\ b[n] = Available
      /\ \A s \in Slots : s # n => b[s] = gs[g].bytes[s]
  BY <1>1, <1>2
<1>4. es = [gs EXCEPT ![g] = Group(b)]
  BY DEF Erased
<1> HIDE DEF b, es
<1>5. GroupHolds(Group(b)) /\ Group(b).bytes = b
  BY <1>3, GroupsHold
<1>6. DOMAIN es = DOMAIN gs /\ es[g] = Group(b) /\ \A i \in DOMAIN gs : i # g => es[i] = gs[i]
  BY <1>4
<1>7. ASSUME NEW i \in 0 .. last
      PROVE  /\ GroupHolds(es[i])
             /\ \A s \in Slots : es[i].bytes[s] = SentinelByte <=> i = last /\ s = N - 1
  <2>1. CASE i = g
    <3>1. ASSUME NEW s \in Slots
          PROVE  es[i].bytes[s] = SentinelByte <=> i = last /\ s = N - 1
      <4>1. gs[i].bytes[s] = SentinelByte <=> i = last /\ s = N - 1
        BY <1>1
      <4>2. CASE s = n
        BY <1>2, <1>3, <1>5, <1>6, <2>1, <4>1, <4>2
      <4>3. CASE s # n
        BY <1>3, <1>5, <1>6, <2>1, <4>1, <4>3
      <4> QED BY <4>2, <4>3
    <3> QED BY <1>5, <1>6, <2>1, <3>1
  <2>2. CASE i # g
    BY <1>1, <1>6, <2>2
  <2> QED BY <2>1, <2>2
<1>8. EndsAt(es, last)
  BY <1>1, <1>6, <1>7 DEF EndsAt
<1>9. es[g].bytes[n] = Available
  BY <1>3, <1>5, <1>6
<1>10. \A i \in DOMAIN gs, s \in Slots : ~(i = g /\ s = n) => es[i].bytes[s] = gs[i].bytes[s]
  BY <1>3, <1>5, <1>6
<1> QED BY <1>6, <1>8, <1>9, <1>10 DEF es

\* Iterators traverse arrays of any number of groups, in both layouts.
THEOREM Traversal ==
  ASSUME NEW gs, WellFormed(gs), NEW regular \in BOOLEAN
  PROVE  Traverses(gs, regular)
<1>1. PICK last \in Nat : EndsAt(gs, last)
  BY DEF WellFormed
<1>2. /\ DOMAIN gs = 0 .. last /\ DOMAIN gs \subseteq Nat
      /\ \A i \in 0 .. last, s \in Slots : gs[i].bytes[s] = SentinelByte <=> i = last /\ s = N - 1
  BY <1>1 DEF EndsAt
<1>3. 0 \in DOMAIN gs /\ 0 \in Slots /\ 0 # N - 1 /\ Slots \subseteq Nat
  BY <1>2, Dimensions
<1>4. gs[0].bytes[0] # SentinelByte
  BY <1>2, <1>3
<1>5. begin(gs, regular) = NextElement(Elements(gs))
  <2>1. OccupiedWords(gs, 0) = OccupiedBytes(gs, 0)
    BY <1>1, <1>3, SameInBoth
  <2>2. \A y \in Elements(gs) :
          /\ y = <<y[1], y[2]>> /\ y[1] \in Nat /\ y[2] \in Nat
          /\ y[1] \in DOMAIN gs /\ y[2] \in Slots /\ gs[y[1]].bytes[y[2]] # Available
    <3> SUFFICES ASSUME NEW y \in Elements(gs)
                 PROVE  /\ y = <<y[1], y[2]>> /\ y[1] \in Nat /\ y[2] \in Nat
                        /\ y[1] \in DOMAIN gs /\ y[2] \in Slots
                        /\ gs[y[1]].bytes[y[2]] # Available
      OBVIOUS
    <3>1. y \in (DOMAIN gs) \X Slots /\ gs[y[1]].bytes[y[2]] # Available
      BY DEF Elements
    <3>2. y = <<y[1], y[2]>> /\ y[1] \in DOMAIN gs /\ y[2] \in Slots
      BY <3>1
    <3>3. y[1] \in Nat /\ y[2] \in Nat
      BY <1>2, <1>3, <3>2
    <3> QED BY <3>1, <3>2, <3>3
  <2>3. CASE 0 \in OccupiedBytes(gs, 0)
    <3> DEFINE z == <<0, 0>>
    <3>1. z \in Elements(gs)
      BY <1>3, <1>4, <2>3 DEF Elements, OccupiedBytes
    <3>2. \A y \in Elements(gs) : y = z \/ After(y, z)
      <4> SUFFICES ASSUME NEW y \in Elements(gs) PROVE y = z \/ After(y, z)
        OBVIOUS
      <4>1. y[1] > 0 \/ (y[1] = 0 /\ y[2] > 0) \/ (y[1] = 0 /\ y[2] = 0)
        BY <2>2
      <4> QED BY <2>2, <4>1 DEF After
    <3>3. \A y \in Elements(gs) : ~After(z, y)
      BY <2>2 DEF After
    <3> HIDE DEF z
    <3>4. (CHOOSE y \in Elements(gs) : \A x \in Elements(gs) : x = y \/ After(x, y)) = z
      <4>1. \E y \in Elements(gs) : \A x \in Elements(gs) : x = y \/ After(x, y)
        BY <3>1, <3>2
      <4>2. ASSUME NEW y \in Elements(gs), \A x \in Elements(gs) : x = y \/ After(x, y)
            PROVE  y = z
        BY <3>1, <3>3, <4>2
      <4> QED BY <4>1, <4>2
    <3>5. NextElement(Elements(gs)) = make_iterator(z[1], z[2])
      BY <3>1, <3>4 DEF NextElement
    <3>6. z[1] = 0 /\ z[2] = 0
      BY DEF z
    <3>7. begin(gs, regular) = make_iterator(0, 0)
      BY <2>1, <2>3 DEF begin
    <3> QED BY <3>5, <3>6, <3>7
  <2>4. CASE 0 \notin OccupiedBytes(gs, 0)
    <3>1. gs[0].bytes[0] = Available
      BY <1>3, <2>4 DEF OccupiedBytes
    <3>2. ASSUME NEW y \in Elements(gs) PROVE After(y, <<0, 0>>)
      <4>1. y[1] \in Nat /\ y[2] \in Nat /\ ~(y[1] = 0 /\ y[2] = 0)
        BY <2>2, <3>1, <3>2
      <4>2. y[1] > 0 \/ (y[1] = 0 /\ y[2] > 0)
        BY <4>1
      <4> QED BY <4>2 DEF After
    <3>3. {y \in Elements(gs) : After(y, <<0, 0>>)} = Elements(gs)
      BY <3>2
    <3>4. NextElement({y \in Elements(gs) : After(y, <<0, 0>>)}) = NextIterator(gs, 0, 0)
      BY <1>1, <1>3, <1>4, NextElementIs
    <3>5. increment(gs, make_iterator(0, 0), regular) = NextIterator(gs, 0, 0)
      BY <1>1, <1>3, <1>4, IncrementIs
    <3>6. begin(gs, regular) = increment(gs, make_iterator(0, 0), regular)
      BY <2>1, <2>4 DEF begin
    <3> QED BY <3>3, <3>4, <3>5, <3>6
  <2> QED BY <2>3, <2>4
<1>6. ASSUME NEW x \in Elements(gs)
      PROVE  /\ increment(gs, make_iterator(x[1], x[2]), regular)
                  = NextElement({y \in Elements(gs) : After(y, x)})
             /\ erase_return_type(gs, x[1], x[2], regular)
                  = NextElement({y \in Elements(gs) : After(y, x)})
  <2>1. PICK g \in DOMAIN gs, n \in Slots :
          x = <<g, n>> /\ gs[g].bytes[n] \notin {Available, SentinelByte}
    BY DEF Elements
  <2>2. x[1] = g /\ x[2] = n /\ gs[g].bytes[n] # SentinelByte
    BY <2>1
  <2>3. /\ NextElement({y \in Elements(gs) : After(y, <<g, n>>)}) = NextIterator(gs, g, n)
        /\ increment(gs, make_iterator(g, n), regular) = NextIterator(gs, g, n)
    BY <1>1, <2>2, NextElementIs, IncrementIs
  <2>4. PICK es : es = Erased(gs, g, n)
    OBVIOUS
  <2>5. /\ EndsAt(es, last) /\ DOMAIN es = DOMAIN gs /\ es[g].bytes[n] = Available
        /\ \A i \in DOMAIN gs, s \in Slots :
             ~(i = g /\ s = n) => es[i].bytes[s] = gs[i].bytes[s]
    BY <1>1, <2>2, <2>4, ErasedIs DEF WellFormed
  <2>6. es[g].bytes[n] # SentinelByte /\ g \in DOMAIN es
    BY <2>5 DEF Available, SentinelByte
  <2>7. /\ NextElement({y \in Elements(es) : After(y, <<g, n>>)}) = NextIterator(es, g, n)
        /\ increment(es, make_iterator(g, n), regular) = NextIterator(es, g, n)
    BY <2>5, <2>6, NextElementIs, IncrementIs
  <2>8. {y \in Elements(es) : After(y, <<g, n>>)} = {y \in Elements(gs) : After(y, <<g, n>>)}
    <3>1. ASSUME NEW y \in (DOMAIN gs) \X Slots, After(y, <<g, n>>)
          PROVE  y \in Elements(es) <=> y \in Elements(gs)
      <4>1. y[1] \in DOMAIN gs /\ y[2] \in Slots /\ g \in Nat /\ n \in Nat
        BY <1>2, <1>3
      <4>2. ~(y[1] = g /\ y[2] = n)
        BY <3>1, <4>1 DEF After
      <4>3. es[y[1]].bytes[y[2]] = gs[y[1]].bytes[y[2]]
        BY <2>5, <4>1, <4>2
      <4> QED BY <2>5, <4>3 DEF Elements
    <3>2. Elements(es) \subseteq (DOMAIN gs) \X Slots /\ Elements(gs) \subseteq (DOMAIN gs) \X Slots
      BY <2>5 DEF Elements
    <3> QED BY <3>1, <3>2
  <2>9. erase_return_type(gs, g, n, regular) = increment(es, make_iterator(g, n), regular)
    BY <2>4 DEF erase_return_type
  <2> QED BY <2>1, <2>2, <2>3, <2>7, <2>8, <2>9
<1> QED BY <1>5, <1>6 DEF Traverses

LEMMA HoldingHolds ==
  ASSUME NEW places, NEW byte \in Bytes, byte # SentinelByte, NEW end \in BOOLEAN
  PROVE  /\ GroupHolds(Holding(places, byte, end))
         /\ \A n \in Slots : Holding(places, byte, end).bytes[n] = SentinelByte <=> end /\ n = N - 1
<1> DEFINE b == [p \in Slots |-> IF end /\ p = N - 1 THEN SentinelByte
                                 ELSE IF p \in places THEN byte ELSE Available]
<1>1. Available \in Bytes /\ SentinelByte \in Bytes /\ Available # SentinelByte
  BY DEF Available, SentinelByte, Bytes
<1>2. b \in [Slots -> Bytes] /\ \A n \in Slots : b[n] = SentinelByte <=> end /\ n = N - 1
  BY <1>1
<1>3. Holding(places, byte, end) = Group(b)
  BY DEF Holding
<1> HIDE DEF b
<1> QED BY <1>2, <1>3, GroupsHold

\* Whatever its first group holds and whatever follows it, iterators traverse the
\* arrays when nobody writes.
THEOREM IteratorsAlwaysTraverse == Spec => []IteratorsTraverse
<1>1. IInv => IteratorsTraverse
  <2> SUFFICES ASSUME IInv, writing = Idle, NEW gs \in Arrays, NEW regular \in BOOLEAN
               PROVE  Traverses(gs, regular)
    BY DEF IteratorsTraverse
  <2> DEFINE this == [bytes |-> bytes, words |-> m]
  <2>1. /\ GroupHolds(this)
        /\ \A n \in Slots : this.bytes[n] = SentinelByte <=> sentinel /\ n = N - 1
    <3>1. this.bytes = bytes /\ this.words = m
      OBVIOUS
    <3>2. /\ bytes \in [Slots -> Bytes] /\ HoldBytes(m[0], m[1], bytes)
          /\ m[0] \subseteq Bits /\ m[1] \subseteq Bits
          /\ \A n \in Slots : bytes[n] = SentinelByte <=> sentinel /\ n = N - 1
      BY IdleHolds DEF IInv, TypeOK, HoldBytes
    <3> HIDE DEF this
    <3> QED BY <3>1, <3>2 DEF GroupHolds
  <2>2. CASE sentinel
    <3>1. gs = [g \in {0} |-> this]
      BY <2>2 DEF Arrays
    <3>2. {0} = 0 .. 0 /\ 0 \in Nat
      OBVIOUS
    <3> HIDE DEF this
    <3>3. EndsAt(gs, 0)
      BY <2>1, <2>2, <3>1, <3>2 DEF EndsAt
    <3>4. gs = [g \in DOMAIN gs |-> gs[g]]
      BY <3>1
    <3>5. WellFormed(gs)
      BY <3>2, <3>3, <3>4 DEF WellFormed
    <3> QED BY <3>5, Traversal
  <2>3. CASE ~sentinel
    <3>1. PICK hash \in Hashes : \E end \in Endings(hash) : gs \in Followed(this, end)
      BY <2>3 DEF Arrays
    <3>2. PICK end \in Endings(hash) : gs \in Followed(this, end)
      BY <3>1
    <3>3. PICK places \in SUBSET (0 .. N - 2) : end = Holding(places, reduced_hash(hash), TRUE)
      BY DEF Endings
    <3> DEFINE middle == Holding({}, 0, FALSE)
    <3>4. /\ GroupHolds(end) /\ GroupHolds(middle)
          /\ \A n \in Slots : end.bytes[n] = SentinelByte <=> n = N - 1
          /\ \A n \in Slots : middle.bytes[n] # SentinelByte
      <4>1. /\ reduced_hash(hash) \in Bytes /\ reduced_hash(hash) # SentinelByte
            /\ 0 \in Bytes /\ 0 # SentinelByte
        BY ReducedHash DEF Bytes, SentinelByte
      <4> QED BY <3>3, <4>1, HoldingHolds
    <3>5. \/ gs = [g \in 0 .. 1 |-> IF g = 0 THEN this ELSE end]
          \/ gs = [g \in 0 .. 2 |-> IF g = 0 THEN this ELSE IF g = 1 THEN middle ELSE end]
      BY <3>2 DEF Followed
    <3> HIDE DEF this, middle
    <3>6. CASE gs = [g \in 0 .. 1 |-> IF g = 0 THEN this ELSE end]
      <4>1. EndsAt(gs, 1)
        BY <2>1, <2>3, <3>4, <3>6 DEF EndsAt
      <4>2. gs = [g \in DOMAIN gs |-> gs[g]]
        BY <3>6
      <4>3. WellFormed(gs)
        BY <4>1, <4>2 DEF WellFormed
      <4> QED BY <4>3, Traversal
    <3>7. CASE gs = [g \in 0 .. 2 |-> IF g = 0 THEN this ELSE IF g = 1 THEN middle ELSE end]
      <4>1. EndsAt(gs, 2)
        BY <2>1, <2>3, <3>4, <3>7 DEF EndsAt
      <4>2. gs = [g \in DOMAIN gs |-> gs[g]]
        BY <3>7
      <4>3. WellFormed(gs)
        BY <4>1, <4>2 DEF WellFormed
      <4> QED BY <4>3, Traversal
    <3> QED BY <3>5, <3>6, <3>7
  <2> QED BY <2>2, <2>3 DEF IInv, TypeOK
<1> QED BY <1>1, WordsHoldBytes, PTL

-----------------------------------------------------------------------------
(* prime_fmod: what it computes is the remainder, for all hashes and sizes *)

USE HalfRangeAssumption

\* What \div and % are, by name.
LEMMA Division ==
  ASSUME NEW x \in Nat, NEW d \in Nat, d > 0
  PROVE  /\ x \div d \in Nat /\ x % d \in 0 .. d - 1
         /\ x = d * (x \div d) + (x % d)
OBVIOUS

\* A quotient and a remainder are unique.
LEMMA DivisionUnique ==
  ASSUME NEW d \in Nat, d > 0, NEW q \in Nat, NEW r \in 0 .. d - 1
  PROVE  (d * q + r) \div d = q /\ ((d * q + r) % d) = r
OBVIOUS

\* The fractional part of a / d, scaled by FullRange, is close enough to that of
\* its remainder that multiplication by d gives it back.
LEMMA FastModulo ==
  ASSUME NEW d \in 1 .. HalfRange - 1, NEW a \in 0 .. HalfRange - 1
  PROVE  fast_modulo(a, inv_size(d), d) = a % d
<1> DEFINE F == FullRange
           inv == inv_size(d)
           e == inv * d - F
           q == a \div d
           r == a % d
<1>1. F \in Nat /\ F > 0
  BY DEF FullRange
<1>2. inv \in Nat /\ e \in 0 .. d - 1
  <2> DEFINE x == F + d - 1
  <2>1. x \in Nat
    BY <1>1
  <2>2. x \div d \in Nat /\ x % d \in 0 .. d - 1 /\ x = d * (x \div d) + (x % d)
    BY <2>1, Division
  <2>3. inv = x \div d
    BY DEF inv_size
  <2>4. inv * d = d * inv
    BY <2>2, <2>3
  <2> QED BY <1>1, <2>2, <2>3, <2>4
<1>3. q \in Nat /\ r \in 0 .. d - 1 /\ a = d * q + r
  BY Division
<1>4. inv * d = F + e
  BY <1>1, <1>2
<1> HIDE DEF F, inv, e, q, r
<1>5. e * a < F
  <2>1. e * a <= e * HalfRange
    BY <1>2
  <2>2. e * HalfRange < HalfRange * HalfRange
    BY <1>2
  <2> QED BY <1>1, <1>2, <2>1, <2>2 DEF F, FullRange
<1>6. inv * a = F * q + (e * q + inv * r)
  <2>1. inv * a = (inv * d) * q + inv * r
    BY <1>2, <1>3
  <2> QED BY <1>1, <1>2, <1>3, <1>4, <2>1
<1>7. (e * q + inv * r) * d = F * r + e * a
  <2>1. (e * q + inv * r) * d = e * (d * q) + (inv * d) * r
    BY <1>2, <1>3
  <2>2. e * a = e * (d * q) + e * r
    BY <1>2, <1>3
  <2> QED BY <1>1, <1>2, <1>3, <1>4, <2>1, <2>2
<1> DEFINE y == e * q + inv * r
<1>8. y \in Nat /\ e * a \in Nat
  BY <1>2, <1>3
<1> HIDE DEF y
<1>9. y * d = F * r + e * a
  BY <1>7 DEF y
<1>10. y < F
  <2>1. F * r <= F * (d - 1)
    BY <1>1, <1>3
  <2>2. y * d < F * d
    BY <1>1, <1>3, <1>5, <1>8, <1>9, <2>1
  <2> QED BY <1>1, <1>8, <2>2
<1>11. (inv * a) % F = y
  <2>1. y \in 0 .. F - 1
    BY <1>1, <1>8, <1>10
  <2>2. inv * a = F * q + y
    BY <1>6 DEF y
  <2> QED BY <1>1, <1>3, <2>1, <2>2, DivisionUnique
<1>12. (y * d) \div F = r
  BY <1>1, <1>3, <1>5, <1>8, <1>9, DivisionUnique
<1>13. r % HalfRange = r
  BY <1>3
<1>14. fast_modulo(a, inv, d) = ((((inv * a) % F) * d) \div F) % HalfRange
  BY DEF fast_modulo, get_remainder, F
<1> QED BY <1>11, <1>12, <1>13, <1>14 DEF inv, r

\* The bucket of a hash is its remainder by the number of buckets, or that of
\* the sum of its halves: inside the array, and the same in every table.
THEOREM PositionIsRemainder ==
  ASSUME NEW hash \in Nat, NEW d \in Nat, d > 0
  PROVE  /\ position(hash, d) = (IF d < HalfRange THEN Folded(hash) ELSE hash) % d
         /\ position(hash, d) \in 0 .. d - 1
<1>1. Folded(hash) \in 0 .. HalfRange - 1
  <2>1. hash % HalfRange \in Nat /\ hash \div HalfRange \in Nat
    BY Division
  <2> QED BY <2>1, Division DEF Folded
<1>2. CASE d < HalfRange
  <2>1. position(hash, d) = Folded(hash) % d
    BY <1>1, <1>2, FastModulo DEF position
  <2> QED BY <1>1, <1>2, <2>1, Division
<1>3. CASE ~(d < HalfRange)
  BY <1>3, Division DEF position
<1> QED BY <1>2, <1>3

\* Where there are no integers of two words the result is the same.
THEOREM PortableRemainder ==
  ASSUME NEW fractional \in 0 .. FullRange - 1, NEW d \in 1 .. HalfRange - 1
  PROVE  get_remainder_portable(fractional, d) = get_remainder(fractional, d)
<1> DEFINE H  == HalfRange
           hi == fractional \div H
           lo == fractional % H
           c  == (lo * d) \div H
           s  == (lo * d) % H
           t  == hi * d + c
           q  == t \div H
           r  == t % H
<1>1. hi \in Nat /\ lo \in 0 .. H - 1 /\ fractional = H * hi + lo
  BY Division DEF FullRange
<1>2. lo * d \in Nat
  BY <1>1
<1>3. c \in Nat /\ s \in 0 .. H - 1 /\ lo * d = H * c + s
  BY <1>2, Division
<1>4. hi * d \in Nat
  BY <1>1
<1>5. t \in Nat
  BY <1>3, <1>4
<1>6. q \in Nat /\ r \in 0 .. H - 1 /\ t = H * q + r
  BY <1>5, Division
<1>7. t = hi * d + c
  OBVIOUS
<1>8. get_remainder_portable(fractional, d) = q
  BY DEF get_remainder_portable
<1> HIDE DEF hi, lo, c, s, t, q, r
<1>9. fractional * d = H * (hi * d) + lo * d
  BY <1>1
<1>10. H * t = H * (hi * d) + H * c
  BY <1>3, <1>4, <1>7
<1>11. fractional * d = H * t + s
  BY <1>2, <1>3, <1>4, <1>9, <1>10
<1>12. H * t = (H * H) * q + H * r
  BY <1>6
<1>13. H * r + s \in 0 .. (H * H) - 1
  <2>1. H * r <= H * (H - 1) /\ H * r \in Nat
    BY <1>6
  <2>2. H * (H - 1) = (H * H) - H
    OBVIOUS
  <2> QED BY <1>3, <2>1, <2>2
<1>14. fractional * d = (H * H) * q + (H * r + s)
  BY <1>3, <1>6, <1>11, <1>12
<1>15. (H * H) \in Nat /\ H * H > 0
  OBVIOUS
<1> QED BY <1>6, <1>8, <1>13, <1>14, <1>15, DivisionUnique DEF get_remainder, FullRange
=============================================================================
