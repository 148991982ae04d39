-------------------------- MODULE TableArraysProofs --------------------------
(***************************************************************************)
(* Lemmas about arrays of groups, for any number of slots per group and    *)
(* any sizes that the prober traverses: where a search comes, that an      *)
(* insertion finds a slot when there is one, what the edits of a slot      *)
(* leave alone, and that new arrays have room for what they are meant for. *)
(***************************************************************************)
EXTENDS TableArrays, FiniteSetTheorems, FunctionTheorems, TLAPS

-----------------------------------------------------------------------------
(* Natural numbers *)

\* A set of natural numbers has a least one.
LEMMA LeastNumber ==
  ASSUME NEW S, S \subseteq Nat, S # {}
  PROVE  \E n \in S : \A m \in S : n <= m
<1> DEFINE T == {0 .. n : n \in S}
<1>1. \A n \in S : 0 .. n \in FiniteSubsetsOf(Nat)
  <2> SUFFICES ASSUME NEW n \in S PROVE 0 .. n \in FiniteSubsetsOf(Nat)
    OBVIOUS
  <2>1. n \in Int /\ 0 \in Int /\ 0 .. n \subseteq Nat
    OBVIOUS
  <2> QED BY <2>1, FS_Interval DEF FiniteSubsetsOf
<1>2. T \subseteq FiniteSubsetsOf(Nat) /\ T # {}
  BY <1>1
<1>3. PICK x \in T : \A y \in T : ~(<<y, x>> \in StrictSubsetOrdering(Nat))
  <2> HIDE DEF T
  <2> QED BY <1>2, FS_StrictSubsetOrderingWellFounded, WFMin
<1>4. PICK n \in S : x = 0 .. n
  OBVIOUS
<1>5. ASSUME NEW m \in S, ~(n <= m) PROVE FALSE
  <2>1. m \in Nat /\ n \in Nat /\ m < n
    BY <1>5
  <2>2. 0 .. m \subseteq 0 .. n /\ 0 .. m # 0 .. n /\ 0 .. n \subseteq Nat
    BY <2>1
  <2>3. <<0 .. m, 0 .. n>> \in StrictSubsetOrdering(Nat)
    BY <2>2 DEF StrictSubsetOrdering
  <2> QED BY <1>3, <1>4, <2>3
<1> QED BY <1>5

\* What \div and % are, by name.
LEMMA Division ==
  ASSUME NEW x \in Nat, NEW d \in Nat, d > 0
  PROVE  /\ x \div d \in Nat /\ x % d \in 0 .. d - 1
         /\ x = d * (x \div d) + (x % d)
OBVIOUS

\* A quotient and a remainder are unique.
LEMMA DivisionUnique ==
  ASSUME NEW d \in Nat, d > 0, NEW q \in Nat, NEW r \in 0 .. d - 1
  PROVE  (d * q + r) \div d = q /\ ((d * q + r) % d) = r
OBVIOUS

\* A sum has the same remainder as the sum with a remainder.
LEMMA RemainderOfSum ==
  ASSUME NEW x \in Nat, NEW y \in Nat, NEW d \in Nat, d > 0
  PROVE  ((x + y) % d) = ((x + (y % d)) % d)
<1> DEFINE z == x + (y % d)
<1>1. z \in Nat /\ y \div d \in Nat /\ y = d * (y \div d) + (y % d)
  BY Division
<1>2. z \div d \in Nat /\ z % d \in 0 .. d - 1 /\ z = d * (z \div d) + (z % d)
  BY <1>1, Division
<1>3. x + y = d * (y \div d + z \div d) + (z % d)
  <2>1. d * (y \div d + z \div d) = d * (y \div d) + d * (z \div d)
    BY <1>1, <1>2
  <2>2. x + y = d * (y \div d) + z
    BY <1>1
  <2> QED BY <1>1, <1>2, <2>1, <2>2
<1>4. y \div d + z \div d \in Nat
  BY <1>1, <1>2
<1> HIDE DEF z
<1>5. ((d * (y \div d + z \div d) + (z % d)) % d) = z % d
  BY <1>2, <1>4, DivisionUnique
<1> QED BY <1>3, <1>5 DEF z

-----------------------------------------------------------------------------
(* The prober *)

LEMMA GroupsPositive ==
  ASSUME NEW G \in GroupCounts
  PROVE  G \in Nat /\ G > 0
BY GroupCountsAssumption

\* The i-th position of a search is a group.
LEMMA ProbeInGroups ==
  ASSUME NEW a, a.groups \in GroupCounts, NEW g \in Nat, NEW i \in Nat
  PROVE  Probe(a, g, i) \in Groups(a)
<1>1. a.groups \in Nat /\ a.groups > 0
  BY GroupsPositive
<1>2. (i * (i + 1)) \div 2 \in Nat
  <2>1. i * (i + 1) \in Nat
    OBVIOUS
  <2> QED BY <2>1, Division
<1>3. g + (i * (i + 1)) \div 2 \in Nat
  BY <1>2
<1> QED BY <1>1, <1>3, Division DEF Probe, Groups

\* A hash has its first group in the arrays.
LEMMA PositionInGroups ==
  ASSUME NEW a, a.groups \in GroupCounts, NEW hash \in Hashes
  PROVE  Position(a, hash) \in Groups(a)
<1> DEFINE G == a.groups
           x == hash.top * G
           q == x \div TopRange
<1>1. G \in Nat /\ G > 0 /\ TopRange \in Nat /\ TopRange > 0 /\ hash.top \in 0 .. TopRange - 1
  BY GroupsPositive, SlotsAssumption DEF Hashes
<1> HIDE DEF G
<1>2. x \in Nat /\ x < TopRange * G
  BY <1>1
<1> HIDE DEF x
<1>3. q \in Nat /\ x = TopRange * q + (x % TopRange) /\ x % TopRange \in Nat
  BY <1>1, <1>2, Division
<1> HIDE DEF q
<1>4. q < G
  <2>1. TopRange * q < TopRange * G
    BY <1>1, <1>2, <1>3
  <2> QED BY <1>1, <1>3, <2>1
<1> QED BY <1>1, <1>3, <1>4 DEF Position, Groups, G, x, q

\* Wherever a search begins it comes to every group.
LEMMA ProbeTraverses ==
  ASSUME NEW a, a.groups \in GroupCounts, NEW home \in Groups(a), NEW g \in Groups(a)
  PROVE  \E i \in Groups(a) : Probe(a, home, i) = g
<1> DEFINE G == a.groups
           d == IF home <= g THEN g - home ELSE G + g - home
<1>1. G \in Nat /\ G > 0 /\ home \in 0 .. G - 1 /\ g \in 0 .. G - 1
  BY GroupsPositive DEF Groups
<1>2. {((i * (i + 1)) \div 2) % G : i \in 0 .. G - 1} = 0 .. G - 1
  BY ProberAssumption
<1> HIDE DEF G
<1>3. d \in 0 .. G - 1
  BY <1>1
<1>4. PICK i \in 0 .. G - 1 : d = ((i * (i + 1)) \div 2) % G
  BY <1>2, <1>3
<1> DEFINE y == (i * (i + 1)) \div 2
<1>5. y \in Nat
  <2>1. i \in Nat /\ i * (i + 1) \in Nat
    BY <1>1
  <2> QED BY <2>1, Division
<1> HIDE DEF y
<1>6. ((home + y) % G) = ((home + (y % G)) % G)
  <2>1. home \in Nat
    BY <1>1
  <2> QED BY <1>1, <1>5, <2>1, RemainderOfSum
<1>7. (home + d) % G = g
  <2>1. CASE home <= g
    <3>1. home + d = G * 0 + g
      BY <1>1, <2>1
    <3> QED BY <1>1, <3>1, DivisionUnique
  <2>2. CASE ~(home <= g)
    <3>1. home + d = G * 1 + g
      BY <1>1, <2>2
    <3> QED BY <1>1, <3>1, DivisionUnique
  <2> QED BY <2>1, <2>2
<1>8. Probe(a, home, i) = (home + y) % G
  BY DEF Probe, y, G
<1>9. d = y % G
  BY <1>4 DEF y
<1> QED BY <1>6, <1>7, <1>8, <1>9 DEF Groups, G

\* The groups that a search has gone past.
LEMMA TriesInGroups ==
  ASSUME NEW a, a.groups \in GroupCounts, NEW hash \in Hashes, NEW i \in Nat
  PROVE  Tries(a, hash, i) \subseteq Groups(a)
<1>1. Position(a, hash) \in Nat
  BY PositionInGroups, GroupsPositive DEF Groups
<1>2. \A j \in 0 .. i - 1 : Probe(a, Position(a, hash), j) \in Groups(a)
  BY <1>1, ProbeInGroups
<1> QED BY <1>2 DEF Tries

LEMMA PassedNone ==
  ASSUME NEW a, NEW hash
  PROVE  Passed(a, hash, 0)
BY DEF Passed, Tries

LEMMA PassedNext ==
  ASSUME NEW a, NEW hash, NEW i \in Nat
  PROVE  Passed(a, hash, i + 1) <=>
           Passed(a, hash, i) /\ ~NotOverflowed(a, Probe(a, Position(a, hash), i), hash.tag)
<1>1. 0 .. (i + 1) - 1 = (0 .. i - 1) \cup {i}
  OBVIOUS
<1>2. Tries(a, hash, i + 1) = Tries(a, hash, i) \cup {Probe(a, Position(a, hash), i)}
  BY <1>1 DEF Tries
<1> QED BY <1>2 DEF Passed

LEMMA PassedFewer ==
  ASSUME NEW a, NEW hash, NEW i \in Nat, NEW j \in Nat, j < i, Passed(a, hash, i)
  PROVE  ~NotOverflowed(a, Probe(a, Position(a, hash), j), hash.tag)
<1>1. j \in 0 .. i - 1
  OBVIOUS
<1> QED BY <1>1 DEF Passed, Tries

\* A search that has gone past as many groups as there are has seen them all.
LEMMA PassedAll ==
  ASSUME NEW a, a.groups \in GroupCounts, NEW hash \in Hashes, Passed(a, hash, a.groups)
  PROVE  \A g \in Groups(a) : ~NotOverflowed(a, g, hash.tag)
<1>1. \A g \in Groups(a) : \E i \in Groups(a) : Probe(a, Position(a, hash), i) = g
  BY PositionInGroups, ProbeTraverses
<1>2. Tries(a, hash, a.groups) = {Probe(a, Position(a, hash), i) : i \in Groups(a)}
  BY DEF Tries, Groups
<1> QED BY <1>1, <1>2 DEF Passed

\* Where all groups are marked, a search comes everywhere.
LEMMA AllMarkedAllReached ==
  ASSUME NEW a, a.groups \in GroupCounts, NEW hash \in Hashes,
         \A g \in Groups(a) : ~NotOverflowed(a, g, hash.tag)
  PROVE  \A g \in Groups(a) : Reached(a, hash, g)
<1> SUFFICES ASSUME NEW g \in Groups(a) PROVE Reached(a, hash, g)
  OBVIOUS
<1>1. PICK i \in Groups(a) : Probe(a, Position(a, hash), i) = g
  BY PositionInGroups, ProbeTraverses
<1>2. i \in Nat
  BY GroupsPositive DEF Groups
<1>3. Passed(a, hash, i)
  BY <1>2, TriesInGroups DEF Passed
<1> QED BY <1>1, <1>3 DEF Reached

\* Arrays of the same size are searched in the same order, and more overflow
\* bits send searches no less far.
LEMMA SameGroups ==
  ASSUME NEW a, NEW b, b.groups = a.groups
  PROVE  /\ Groups(b) = Groups(a) /\ Places(b) = Places(a)
         /\ \A hash : Position(b, hash) = Position(a, hash)
         /\ \A g, i : Probe(b, g, i) = Probe(a, g, i)
         /\ \A hash, i : Tries(b, hash, i) = Tries(a, hash, i)
<1>1. Groups(b) = Groups(a) /\ Places(b) = Places(a)
  BY DEF Groups, Places
<1>2. \A hash : Position(b, hash) = Position(a, hash)
  BY DEF Position
<1>3. \A g, i : Probe(b, g, i) = Probe(a, g, i)
  BY DEF Probe
<1> QED BY <1>1, <1>2, <1>3 DEF Tries

LEMMA PassedMonotone ==
  ASSUME NEW a, a.groups \in GroupCounts, NEW b, b.groups = a.groups,
         \A g \in Groups(a) : a.overflow[g] \subseteq b.overflow[g],
         NEW hash \in Hashes, NEW i \in Nat, Passed(a, hash, i)
  PROVE  Passed(b, hash, i)
<1>1. Tries(b, hash, i) = Tries(a, hash, i) /\ Tries(a, hash, i) \subseteq Groups(a)
  BY SameGroups, TriesInGroups
<1> QED BY <1>1 DEF Passed, NotOverflowed

LEMMA ReachedMonotone ==
  ASSUME NEW a, a.groups \in GroupCounts, NEW b, b.groups = a.groups,
         \A g \in Groups(a) : a.overflow[g] \subseteq b.overflow[g],
         NEW hash \in Hashes, NEW g \in Groups(a), Reached(a, hash, g)
  PROVE  Reached(b, hash, g)
<1>1. PICK i \in Groups(a) : Probe(a, Position(a, hash), i) = g /\ Passed(a, hash, i)
  BY DEF Reached
<1>2. i \in Nat
  BY GroupsPositive DEF Groups
<1>3. Passed(b, hash, i)
  BY <1>1, <1>2, PassedMonotone
<1>4. Groups(b) = Groups(a) /\ Probe(b, Position(b, hash), i) = Probe(a, Position(a, hash), i)
  BY SameGroups
<1> QED BY <1>1, <1>3, <1>4 DEF Reached

-----------------------------------------------------------------------------
(* Slots *)

LEMMA SlotsNumbered == Slots \subseteq Nat /\ N \in Nat /\ N > 0
BY SlotsAssumption DEF Slots

LEMMA LowestOfSlots ==
  ASSUME NEW S, S \subseteq Slots, S # {}
  PROVE  Lowest(S) \in S /\ \A m \in S : Lowest(S) <= m
<1>1. \E n \in S : \A m \in S : n <= m
  BY SlotsNumbered, LeastNumber
<1> QED BY <1>1 DEF Lowest

\* The fields of arrays.
LEMMA ArraysTyped ==
  ASSUME NEW K, NEW a, IsArrays(a, K)
  PROVE  /\ a.groups \in GroupCounts /\ a.groups \in Nat /\ a.groups > 0
         /\ a.built \in BOOLEAN
         /\ \A g \in Groups(a) : a.overflow[g] \subseteq 0 .. 7
         /\ \A g \in Groups(a), n \in Slots :
              a.meta[g][n] \in Bytes /\ a.elem[g][n] \in K \cup {NoKey}
<1>1. a.groups \in Nat /\ a.groups > 0
  BY GroupsPositive DEF IsArrays
<1> QED BY <1>1 DEF IsArrays, ArraysOf, Groups

\* Arrays with other metadata, or other elements, are arrays.
LEMMA ReplaceMeta ==
  ASSUME NEW K, NEW a, IsArrays(a, K), NEW all \in [0 .. a.groups - 1 -> [Slots -> Bytes]]
  PROVE  LET b == [a EXCEPT !.meta = all] IN
         /\ IsArrays(b, K) /\ b.groups = a.groups /\ b.built = a.built
         /\ b.meta = all /\ b.elem = a.elem /\ b.overflow = a.overflow
BY DEF IsArrays, ArraysOf

LEMMA ReplaceElem ==
  ASSUME NEW K, NEW a, IsArrays(a, K),
         NEW all \in [0 .. a.groups - 1 -> [Slots -> K \cup {NoKey}]]
  PROVE  LET b == [a EXCEPT !.elem = all] IN
         /\ IsArrays(b, K) /\ b.groups = a.groups /\ b.built = a.built
         /\ b.elem = all /\ b.meta = a.meta /\ b.overflow = a.overflow
BY DEF IsArrays, ArraysOf

LEMMA ReplaceOverflow ==
  ASSUME NEW K, NEW a, IsArrays(a, K), NEW all \in [0 .. a.groups - 1 -> SUBSET (0 .. 7)]
  PROVE  LET b == [a EXCEPT !.overflow = all] IN
         /\ IsArrays(b, K) /\ b.groups = a.groups /\ b.built = a.built
         /\ b.overflow = all /\ b.meta = a.meta /\ b.elem = a.elem
BY DEF IsArrays, ArraysOf

\* Writing one metadata byte, one element, one overflow bit.
LEMMA MetaSet ==
  ASSUME NEW K, NEW a, IsArrays(a, K), NEW g \in Groups(a), NEW n \in Slots,
         NEW v \in Bytes
  PROVE  LET b == SetMeta(a, g, n, v) IN
         /\ IsArrays(b, K) /\ b.groups = a.groups /\ b.built = a.built
         /\ b.elem = a.elem /\ b.overflow = a.overflow
         /\ b.meta[g][n] = v
         /\ \A h \in Groups(a), m \in Slots : h # g \/ m # n => b.meta[h][m] = a.meta[h][m]
<1> DEFINE row == [a.meta[g] EXCEPT ![n] = v]
           all == [a.meta EXCEPT ![g] = row]
<1>1. SetMeta(a, g, n, v) = [a EXCEPT !.meta = all]
  BY DEF SetMeta
<1>2. row \in [Slots -> Bytes] /\ \A m \in Slots : row[m] = IF m = n THEN v ELSE a.meta[g][m]
  BY DEF IsArrays, ArraysOf, Groups
<1>3. /\ all \in [0 .. a.groups - 1 -> [Slots -> Bytes]]
      /\ \A h \in Groups(a) : all[h] = IF h = g THEN row ELSE a.meta[h]
  BY <1>2 DEF IsArrays, ArraysOf, Groups
<1> HIDE DEF row, all
<1> QED BY <1>1, <1>2, <1>3, ReplaceMeta

LEMMA ElementSet ==
  ASSUME NEW K, NEW a, IsArrays(a, K), NEW g \in Groups(a), NEW n \in Slots,
         NEW k \in K \cup {NoKey}
  PROVE  LET b == SetElem(a, g, n, k) IN
         /\ IsArrays(b, K) /\ b.groups = a.groups /\ b.built = a.built
         /\ b.meta = a.meta /\ b.overflow = a.overflow
         /\ b.elem[g][n] = k
         /\ \A h \in Groups(a), m \in Slots : h # g \/ m # n => b.elem[h][m] = a.elem[h][m]
<1> DEFINE row == [a.elem[g] EXCEPT ![n] = k]
           all == [a.elem EXCEPT ![g] = row]
<1>1. SetElem(a, g, n, k) = [a EXCEPT !.elem = all]
  BY DEF SetElem
<1>2. row \in [Slots -> K \cup {NoKey}] /\ \A m \in Slots : row[m] = IF m = n THEN k ELSE a.elem[g][m]
  BY DEF IsArrays, ArraysOf, Groups
<1>3. /\ all \in [0 .. a.groups - 1 -> [Slots -> K \cup {NoKey}]]
      /\ \A h \in Groups(a) : all[h] = IF h = g THEN row ELSE a.elem[h]
  BY <1>2 DEF IsArrays, ArraysOf, Groups
<1> HIDE DEF row, all
<1> QED BY <1>1, <1>2, <1>3, ReplaceElem

\* The same of arrays that have a name.
LEMMA MetaWritten ==
  ASSUME NEW K, NEW a, IsArrays(a, K), NEW g \in Groups(a), NEW n \in Slots, NEW v \in Bytes,
         NEW b, b = SetMeta(a, g, n, v)
  PROVE  /\ IsArrays(b, K) /\ b.groups = a.groups /\ b.built = a.built
         /\ b.elem = a.elem /\ b.overflow = a.overflow
         /\ b.meta[g][n] = v
         /\ \A h \in Groups(a), m \in Slots : h # g \/ m # n => b.meta[h][m] = a.meta[h][m]
BY MetaSet

LEMMA ElementWritten ==
  ASSUME NEW K, NEW a, IsArrays(a, K), NEW g \in Groups(a), NEW n \in Slots, NEW k \in K \cup {NoKey},
         NEW b, b = SetElem(a, g, n, k)
  PROVE  /\ IsArrays(b, K) /\ b.groups = a.groups /\ b.built = a.built
         /\ b.meta = a.meta /\ b.overflow = a.overflow
         /\ b.elem[g][n] = k
         /\ \A h \in Groups(a), m \in Slots : h # g \/ m # n => b.elem[h][m] = a.elem[h][m]
BY ElementSet

LEMMA Marking ==
  ASSUME NEW K, NEW a, IsArrays(a, K), NEW g \in Groups(a), NEW hash \in Hashes,
         NEW b, b = MarkOverflow(a, g, hash.tag)
  PROVE  /\ IsArrays(b, K) /\ b.groups = a.groups /\ b.built = a.built
         /\ b.meta = a.meta /\ b.elem = a.elem
         /\ \A h \in Groups(a) : a.overflow[h] \subseteq b.overflow[h]
         /\ ~NotOverflowed(b, g, hash.tag)
<1>1. OverflowBit(hash.tag) \in 0 .. 7
  BY DEF Hashes, OverflowBit
<1> DEFINE all == [a.overflow EXCEPT ![g] = @ \cup {OverflowBit(hash.tag)}]
<1>2. b = [a EXCEPT !.overflow = all]
  BY DEF MarkOverflow
<1>3. /\ all \in [0 .. a.groups - 1 -> SUBSET (0 .. 7)]
      /\ OverflowBit(hash.tag) \in all[g]
      /\ \A h \in Groups(a) : a.overflow[h] \subseteq all[h]
  BY <1>1 DEF IsArrays, ArraysOf, Groups
<1> HIDE DEF all
<1> QED BY <1>2, <1>3, ReplaceOverflow DEF NotOverflowed
-----------------------------------------------------------------------------
(* Insertion *)

\* If there is an available slot the search for one ends at a group with one,
\* and the groups before it are full.
LEMMA TargetFound ==
  ASSUME NEW K, NEW a, IsArrays(a, K), NEW hash \in Hashes,
         NEW g \in Groups(a), NEW n \in Slots, a.meta[g][n] = Available
  PROVE  TargetStep(a, hash) \in Groups(a) /\ IsTarget(a, hash, TargetStep(a, hash))
<1> DEFINE P(i) == Probe(a, Position(a, hash), i)
           S == {i \in Groups(a) : MatchAvailable(a, P(i)) # {}}
<1>1. a.groups \in GroupCounts /\ a.groups \in Nat /\ Groups(a) \subseteq Nat
  BY ArraysTyped DEF Groups
<1>2. S # {} /\ S \subseteq Nat
  <2>1. PICK i \in Groups(a) : P(i) = g
    BY <1>1, PositionInGroups, ProbeTraverses
  <2>2. n \in MatchAvailable(a, g)
    BY DEF MatchAvailable
  <2> QED BY <1>1, <2>1, <2>2
<1>3. PICK i \in S : \A j \in S : i <= j
  <2> HIDE DEF S
  <2> QED BY <1>2, LeastNumber
<1>4. i \in Groups(a) /\ i \in Nat /\ MatchAvailable(a, P(i)) # {}
  BY <1>1
<1>5. \A j \in 0 .. i - 1 : MatchAvailable(a, P(j)) = {}
  <2> SUFFICES ASSUME NEW j \in 0 .. i - 1, MatchAvailable(a, P(j)) # {} PROVE FALSE
    OBVIOUS
  <2>1. j \in Nat /\ j < i /\ j \in Groups(a)
    BY <1>1, <1>4 DEF Groups
  <2> QED BY <1>3, <1>4, <2>1
<1>6. IsTarget(a, hash, i)
  BY <1>4, <1>5 DEF IsTarget, Tries
<1> QED BY <1>4, <1>6 DEF TargetStep

\* The groups passed by an insertion are marked.
LEMMA PassedMarkedTyped ==
  ASSUME NEW K, NEW a, IsArrays(a, K), NEW hash \in Hashes
  PROVE  LET b == PassedMarked(a, hash) IN
         /\ IsArrays(b, K) /\ b.groups = a.groups /\ b.built = a.built
         /\ b.meta = a.meta /\ b.elem = a.elem
         /\ \A g \in Groups(a) : a.overflow[g] \subseteq b.overflow[g]
         /\ \A g \in Groups(a) \cap Tries(a, hash, TargetStep(a, hash)) :
              OverflowBit(hash.tag) \in b.overflow[g]
<1> DEFINE all == [g \in Groups(a) |->
     IF g \in Tries(a, hash, TargetStep(a, hash)) THEN a.overflow[g] \cup {OverflowBit(hash.tag)}
     ELSE a.overflow[g]]
<1>1. OverflowBit(hash.tag) \in 0 .. 7
  BY DEF Hashes, OverflowBit
<1>2. \A g \in Groups(a) : a.overflow[g] \in SUBSET (0 .. 7)
  BY ArraysTyped
<1>3. all \in [0 .. a.groups - 1 -> SUBSET (0 .. 7)]
  BY <1>1, <1>2 DEF Groups
<1>4. PassedMarked(a, hash) = [a EXCEPT !.overflow = all]
  BY DEF PassedMarked
<1>5. /\ \A g \in Groups(a) : a.overflow[g] \subseteq all[g]
      /\ \A g \in Groups(a) \cap Tries(a, hash, TargetStep(a, hash)) : OverflowBit(hash.tag) \in all[g]
  OBVIOUS
<1> HIDE DEF all
<1> QED BY <1>3, <1>4, <1>5, ReplaceOverflow

\* An insertion takes one available slot, which a search for the hash reaches.
LEMMA EmplacedInSlot ==
  ASSUME NEW K, NEW a, IsArrays(a, K), NEW hash \in Hashes, NEW k \in K,
         \E g \in Groups(a), n \in Slots : a.meta[g][n] = Available
  PROVE  LET b == Emplaced(a, hash, k) IN
         /\ IsArrays(b, K) /\ b.groups = a.groups /\ b.built = a.built
         /\ \A h \in Groups(a) : a.overflow[h] \subseteq b.overflow[h]
         /\ \E g \in Groups(a), n \in Slots :
              /\ a.meta[g][n] = Available /\ Reached(b, hash, g)
              /\ b.meta[g][n] = hash.tag /\ b.elem[g][n] = k
              /\ \A h \in Groups(a), m \in Slots :
                   h # g \/ m # n => b.meta[h][m] = a.meta[h][m] /\ b.elem[h][m] = a.elem[h][m]
<1> DEFINE i == TargetStep(a, hash)
           g == Probe(a, Position(a, hash), i)
           n == Lowest(MatchAvailable(a, g))
           byte == hash.tag
           c == PassedMarked(a, hash)
           d == SetMeta(c, g, n, byte)
           b == SetElem(d, g, n, k)
<1>1. i \in Groups(a) /\ IsTarget(a, hash, i)
  BY TargetFound
<1>2. g \in Groups(a)
  BY <1>1, ArraysTyped, PositionInGroups, ProbeInGroups DEF Groups
<1>3. n \in Slots /\ a.meta[g][n] = Available
  <2>1. MatchAvailable(a, g) \subseteq Slots /\ MatchAvailable(a, g) # {}
    BY <1>1 DEF IsTarget, MatchAvailable
  <2> QED BY <2>1, LowestOfSlots DEF MatchAvailable
<1>4. byte \in Bytes
  BY DEF Hashes, Bytes
<1>5. b = Emplaced(a, hash, k)
  BY DEF Emplaced
<1> HIDE DEF i, g, n, byte, b, c, d
<1>6. /\ IsArrays(c, K) /\ c.groups = a.groups /\ c.built = a.built
      /\ c.meta = a.meta /\ c.elem = a.elem
      /\ \A h \in Groups(a) : a.overflow[h] \subseteq c.overflow[h]
      /\ \A h \in Groups(a) \cap Tries(a, hash, i) : OverflowBit(hash.tag) \in c.overflow[h]
  BY PassedMarkedTyped DEF c, i
<1>7. Groups(c) = Groups(a)
  BY <1>6, SameGroups
<1>8. /\ IsArrays(d, K) /\ d.groups = a.groups /\ d.built = a.built
      /\ d.elem = a.elem /\ d.overflow = c.overflow
      /\ d.meta[g][n] = byte
      /\ \A h \in Groups(a), m \in Slots : h # g \/ m # n => d.meta[h][m] = a.meta[h][m]
  <2>1. /\ IsArrays(d, K) /\ d.groups = c.groups /\ d.built = c.built
        /\ d.elem = c.elem /\ d.overflow = c.overflow
        /\ d.meta[g][n] = byte
        /\ \A h \in Groups(c), m \in Slots : h # g \/ m # n => d.meta[h][m] = c.meta[h][m]
    <3>1. g \in Groups(c)
      BY <1>2, <1>7
    <3>2. n \in Slots /\ IsArrays(c, K)
      BY <1>3, <1>6
    <3> QED BY <1>4, <3>1, <3>2, MetaSet DEF d
  <2> QED BY <1>6, <1>7, <2>1
<1>9. Groups(d) = Groups(a)
  BY <1>8, SameGroups
<1>10. /\ IsArrays(b, K) /\ b.groups = a.groups /\ b.built = a.built
       /\ b.meta = d.meta /\ b.overflow = c.overflow
       /\ b.elem[g][n] = k
       /\ \A h \in Groups(a), m \in Slots : h # g \/ m # n => b.elem[h][m] = a.elem[h][m]
  BY <1>2, <1>3, <1>8, <1>9, ElementSet DEF b
<1>11. Reached(b, hash, g)
  <2>1. Groups(b) = Groups(a) /\ Probe(b, Position(b, hash), i) = g /\ Tries(b, hash, i) = Tries(a, hash, i)
    BY <1>10, SameGroups DEF g
  <2>2. Tries(a, hash, i) \subseteq Groups(a)
    BY <1>1, ArraysTyped, TriesInGroups DEF Groups
  <2>3. Passed(b, hash, i)
    BY <1>6, <1>10, <2>1, <2>2 DEF Passed, NotOverflowed
  <2> QED BY <1>1, <2>1, <2>3 DEF Reached
<1>12. \A h \in Groups(a) : a.overflow[h] \subseteq b.overflow[h]
  BY <1>6, <1>10
<1> QED BY <1>2, <1>3, <1>5, <1>8, <1>10, <1>11, <1>12 DEF byte

LEMMA EmplacedWritten ==
  ASSUME NEW K, NEW a, IsArrays(a, K), NEW hash \in Hashes, NEW k \in K,
         \E g \in Groups(a), n \in Slots : a.meta[g][n] = Available,
         NEW b, b = Emplaced(a, hash, k)
  PROVE  /\ IsArrays(b, K) /\ b.groups = a.groups /\ b.built = a.built
         /\ \A h \in Groups(a) : a.overflow[h] \subseteq b.overflow[h]
         /\ \E g \in Groups(a), n \in Slots :
              /\ a.meta[g][n] = Available /\ Reached(b, hash, g)
              /\ b.meta[g][n] = hash.tag /\ b.elem[g][n] = k
              /\ \A h \in Groups(a), m \in Slots :
                   h # g \/ m # n => b.meta[h][m] = a.meta[h][m] /\ b.elem[h][m] = a.elem[h][m]
BY EmplacedInSlot

-----------------------------------------------------------------------------
(* New, emptied and cleared arrays *)

LEMMA NewArraysTyped ==
  ASSUME NEW K, NEW G \in GroupCounts
  PROVE  LET a == NewArrays(G) IN
         /\ IsArrays(a, K) /\ a.groups = G /\ a.built /\ SentinelInPlace(a)
         /\ \A g \in Groups(a), n \in Slots :
              a.elem[g][n] = NoKey /\ a.meta[g][n] \in {Available, Sentinel}
<1> DEFINE a == NewArrays(G)
<1>1. a.groups = G /\ a.built = TRUE /\ Groups(a) = 0 .. G - 1
  BY DEF NewArrays, Groups
<1>2. \A g \in 0 .. G - 1, n \in Slots :
        a.meta[g][n] = IF g = G - 1 /\ n = N - 1 THEN Sentinel ELSE Available
  BY DEF NewArrays
<1>3. \A g \in 0 .. G - 1, n \in Slots : a.elem[g][n] = NoKey
  BY DEF NewArrays
<1>4. IsArrays(a, K)
  BY <1>1 DEF IsArrays, ArraysOf, NewArrays, Available, Sentinel, Bytes
<1> HIDE DEF a
<1>5. SentinelInPlace(a)
  BY <1>1, <1>2 DEF SentinelInPlace, Available, Sentinel
<1> QED BY <1>1, <1>2, <1>3, <1>4, <1>5 DEF a

LEMMA DummyArraysTyped ==
  ASSUME NEW K
  PROVE  /\ IsArrays(DummyArrays, K) /\ DummyArrays.groups = 2 /\ ~DummyArrays.built
         /\ SentinelInPlace(DummyArrays)
         /\ \A g \in Groups(DummyArrays), n \in Slots :
              /\ DummyArrays.elem[g][n] = NoKey
              /\ DummyArrays.meta[g][n] \in {Available, Sentinel}
<1> DEFINE a == DummyArrays
           m == [g \in {0, 1} |-> [n \in Slots |-> IF n = N - 1 THEN Sentinel ELSE Available]]
<1>1. 2 \in GroupCounts /\ {0, 1} = 0 .. 2 - 1
  BY GroupCountsAssumption
<1> DEFINE b == NewArrays(2)
<1>2. a = [b EXCEPT !.built = FALSE, !.meta = m]
  BY DEF DummyArrays
<1>3. /\ m \in [0 .. 2 - 1 -> [Slots -> Bytes]]
      /\ \A g \in 0 .. 2 - 1, n \in Slots : m[g][n] \in {Available, Sentinel}
  BY <1>1 DEF Available, Sentinel, Bytes
<1>4. IsArrays(b, K) /\ b.groups = 2 /\ \A g \in Groups(b), n \in Slots : b.elem[g][n] = NoKey
  BY <1>1, NewArraysTyped
<1> HIDE DEF a, b, m
<1>5. IsArrays(a, K) /\ a.groups = 2 /\ ~a.built /\ a.meta = m /\ a.elem = b.elem
  <2>1. b \in ArraysOf(2, K)
    BY <1>4 DEF IsArrays
  <2>2. a \in ArraysOf(2, K) /\ ~a.built /\ a.meta = m /\ a.elem = b.elem
    BY <1>2, <1>3, <2>1 DEF ArraysOf
  <2>3. a.groups = 2
    BY <2>2 DEF ArraysOf
  <2> QED BY <1>1, <2>2, <2>3 DEF IsArrays
<1>6. \A g \in Groups(a), n \in Slots : a.elem[g][n] = NoKey /\ a.meta[g][n] \in {Available, Sentinel}
  BY <1>3, <1>4, <1>5 DEF Groups
<1>7. SentinelInPlace(a)
  BY <1>5 DEF SentinelInPlace, a
<1> QED BY <1>5, <1>6, <1>7 DEF a

LEMMA ClearedArraysTyped ==
  ASSUME NEW K, NEW a, IsArrays(a, K), SentinelInPlace(a)
  PROVE  LET b == ClearedArrays(a) IN
         /\ IsArrays(b, K) /\ b.groups = a.groups /\ b.built = a.built /\ SentinelInPlace(b)
         /\ \A g \in Groups(b), n \in Slots :
              b.elem[g][n] = NoKey /\ b.meta[g][n] \in {Available, Sentinel}
<1>1. a.groups \in GroupCounts /\ a.built \in BOOLEAN
  BY ArraysTyped
<1>2. CASE a.built
  BY <1>1, <1>2, NewArraysTyped DEF ClearedArrays
<1>3. CASE ~a.built
  BY <1>1, <1>3, DummyArraysTyped DEF ClearedArrays, SentinelInPlace
<1> QED BY <1>1, <1>2, <1>3

LEMMA SlotsRemoved ==
  ASSUME NEW K, NEW a, IsArrays(a, K), NEW places
  PROVE  LET b == WithoutSlots(a, places) IN
         /\ IsArrays(b, K) /\ b.groups = a.groups /\ b.built = a.built /\ b.overflow = a.overflow
         /\ \A g \in Groups(a), n \in Slots :
              /\ <<g, n>> \in places => b.meta[g][n] = Available /\ b.elem[g][n] = NoKey
              /\ <<g, n>> \notin places => b.meta[g][n] = a.meta[g][n] /\ b.elem[g][n] = a.elem[g][n]
<1> DEFINE meta == [g \in Groups(a) |-> [n \in Slots |->
                      IF <<g, n>> \in places THEN Available ELSE a.meta[g][n]]]
           elem == [g \in Groups(a) |-> [n \in Slots |->
                      IF <<g, n>> \in places THEN NoKey ELSE a.elem[g][n]]]
           c == [a EXCEPT !.meta = meta]
           b == [c EXCEPT !.elem = elem]
<1>1. b = WithoutSlots(a, places)
  BY DEF WithoutSlots
<1>2. Available \in Bytes
  BY DEF Available, Bytes
<1>3. /\ meta \in [0 .. a.groups - 1 -> [Slots -> Bytes]]
      /\ elem \in [0 .. a.groups - 1 -> [Slots -> K \cup {NoKey}]]
  BY <1>2, ArraysTyped DEF Groups
<1>4. \A g \in Groups(a), n \in Slots :
        /\ <<g, n>> \in places => meta[g][n] = Available /\ elem[g][n] = NoKey
        /\ <<g, n>> \notin places => meta[g][n] = a.meta[g][n] /\ elem[g][n] = a.elem[g][n]
  OBVIOUS
<1> HIDE DEF meta, elem, b, c
<1>5. /\ IsArrays(c, K) /\ c.groups = a.groups /\ c.built = a.built /\ c.overflow = a.overflow
      /\ c.meta = meta
  BY <1>3, ReplaceMeta DEF c
<1>6. elem \in [0 .. c.groups - 1 -> [Slots -> K \cup {NoKey}]]
  BY <1>3, <1>5
<1>7. /\ IsArrays(b, K) /\ b.groups = c.groups /\ b.built = c.built /\ b.overflow = c.overflow
      /\ b.meta = c.meta /\ b.elem = elem
  BY <1>5, <1>6, ReplaceElem DEF b
<1> QED BY <1>1, <1>4, <1>5, <1>7

-----------------------------------------------------------------------------
(* Sizes *)

\* If there are arrays with room for n elements, those chosen have it.
LEMMA GroupsForEnough ==
  ASSUME NEW n \in Nat, \E g \in GroupCounts : N * g > n
  PROVE  GroupsFor(n) \in GroupCounts /\ N * GroupsFor(n) > n
<1> DEFINE q == n \div N
           S == {g \in GroupCounts : g >= q + 1}
<1>1. N \in Nat /\ N > 0
  BY SlotsNumbered
<1>2. q \in Nat /\ n % N \in 0 .. N - 1 /\ n = N * q + (n % N)
  BY <1>1, Division
<1> HIDE DEF q
<1>3. \A g \in Nat : N * g > n <=> g >= q + 1
  <2> SUFFICES ASSUME NEW g \in Nat PROVE N * g > n <=> g >= q + 1
    OBVIOUS
  <2>1. ASSUME g >= q + 1 PROVE N * g > n
    <3>1. N * g >= N * (q + 1)
      BY <1>1, <1>2, <2>1
    <3>2. N * (q + 1) = N * q + N
      BY <1>1, <1>2
    <3> QED BY <1>1, <1>2, <3>1, <3>2
  <2>2. ASSUME ~(g >= q + 1) PROVE ~(N * g > n)
    <3>1. N * g <= N * q
      BY <1>1, <1>2, <2>2
    <3> QED BY <1>1, <1>2, <3>1
  <2> QED BY <2>1, <2>2
<1>4. \A g \in GroupCounts : g \in Nat
  BY GroupsPositive
<1>5. S \subseteq Nat /\ S # {}
  BY <1>3, <1>4
<1>6. \E g \in S : \A h \in S : g <= h
  <2> HIDE DEF S
  <2> QED BY <1>5, LeastNumber
<1>7. GroupsFor(n) \in S
  BY <1>6 DEF GroupsFor, Min, q
<1> QED BY <1>3, <1>4, <1>7

LEMMA CapacityTyped ==
  ASSUME NEW a, a.groups \in GroupCounts, a.built \in BOOLEAN
  PROVE  /\ Capacity(a) \in Nat /\ InitialMaxLoad(a) \in Nat
         /\ InitialMaxLoad(a) <= Capacity(a)
         /\ a.built => Capacity(a) = N * a.groups - 1
         /\ ~a.built => Capacity(a) = 0 /\ InitialMaxLoad(a) = 0
<1> DEFINE G == a.groups
           c == Capacity(a)
<1>1. N \in Nat /\ N > 0 /\ G \in Nat /\ G > 0
  BY SlotsNumbered, GroupsPositive
<1>2. c = IF a.built THEN G * N - 1 ELSE 0
  BY DEF Capacity
<1> HIDE DEF G, c
<1>3. G * N = N * G /\ N * G \in Nat /\ N * G > 0
  BY <1>1
<1>4. c \in Nat /\ (a.built => c = N * G - 1) /\ (~a.built => c = 0)
  BY <1>2, <1>3
<1>5. (7 * c) \div 8 \in Nat /\ (7 * c) \div 8 <= c
  BY <1>4
<1>6. InitialMaxLoad(a) = IF c <= 2 * N - 1 THEN c ELSE (7 * c) \div 8
  BY DEF InitialMaxLoad, c
<1>7. InitialMaxLoad(a) \in Nat /\ InitialMaxLoad(a) <= c /\ (c = 0 => InitialMaxLoad(a) = 0)
  BY <1>1, <1>4, <1>5, <1>6
<1> QED BY <1>4, <1>7 DEF c, G

LEMMA SameCapacity ==
  ASSUME NEW a, NEW b, b.groups = a.groups, b.built = a.built
  PROVE  Capacity(b) = Capacity(a) /\ InitialMaxLoad(b) = InitialMaxLoad(a)
BY DEF Capacity, InitialMaxLoad

\* The slots for n elements are enough for n elements at the maximum load.
LEMMA MaxLoadEnough ==
  ASSUME NEW a, a.groups \in GroupCounts, a.built \in BOOLEAN, NEW n \in Nat,
         SlotsFor(n) <= Capacity(a)
  PROVE  n <= InitialMaxLoad(a) /\ n <= SlotsFor(n) /\ SlotsFor(n) \in Nat
<1> DEFINE c == Capacity(a)
           s == SlotsFor(n)
<1>1. s \in Nat /\ n <= s /\ 8 * n <= 7 * s
  BY DEF SlotsFor
<1>2. c \in Nat /\ s <= c
  BY <1>1, CapacityTyped
<1> HIDE DEF c, s
<1>3. n <= (7 * c) \div 8 /\ n <= c
  BY <1>1, <1>2
<1> QED BY <1>1, <1>3 DEF InitialMaxLoad, c, s

LEMMA ArraysForEnough ==
  ASSUME NEW K, NEW n \in Nat, \E g \in GroupCounts : N * g > n
  PROVE  LET a == ArraysFor(n) IN
         /\ IsArrays(a, K) /\ SentinelInPlace(a) /\ n <= Capacity(a)
         /\ \A g \in Groups(a), m \in Slots :
              a.elem[g][m] = NoKey /\ a.meta[g][m] \in {Available, Sentinel}
<1>1. CASE n = 0
  <2>1. ArraysFor(n) = DummyArrays
    BY <1>1 DEF ArraysFor
  <2>2. /\ IsArrays(DummyArrays, K) /\ SentinelInPlace(DummyArrays) /\ ~DummyArrays.built
        /\ \A g \in Groups(DummyArrays), m \in Slots :
             DummyArrays.elem[g][m] = NoKey /\ DummyArrays.meta[g][m] \in {Available, Sentinel}
    BY DummyArraysTyped
  <2>3. Capacity(DummyArrays) = 0
    BY <2>2 DEF Capacity
  <2> QED BY <1>1, <2>1, <2>2, <2>3
<1>2. CASE n # 0
  <2> DEFINE G == GroupsFor(n)
             a == NewArrays(G)
  <2>1. G \in GroupCounts /\ N * G > n
    BY GroupsForEnough
  <2>2. ArraysFor(n) = a
    BY <1>2 DEF ArraysFor
  <2> HIDE DEF G
  <2>3. /\ IsArrays(a, K) /\ a.groups = G /\ a.built /\ SentinelInPlace(a)
        /\ \A g \in Groups(a), m \in Slots :
             a.elem[g][m] = NoKey /\ a.meta[g][m] \in {Available, Sentinel}
    BY <2>1, NewArraysTyped
  <2> HIDE DEF a
  <2>4. Capacity(a) = N * G - 1
    <3>1. a.groups \in GroupCounts /\ a.built \in BOOLEAN
      BY <2>1, <2>3
    <3> QED BY <2>3, <3>1, CapacityTyped
  <2>5. N * G \in Nat
    BY <2>1, SlotsNumbered, GroupsPositive
  <2> QED BY <2>1, <2>2, <2>3, <2>4, <2>5
<1> QED BY <1>1, <1>2

-----------------------------------------------------------------------------
(* Counting *)

\* Two finite sets that differ in no more than one element.
LEMMA OneElement ==
  ASSUME NEW T, IsFiniteSet(T), NEW X, X \subseteq T, NEW Y, Y \subseteq T, NEW x,
         \A y \in T : y # x => (y \in X <=> y \in Y)
  PROVE  /\ Cardinality(X) \in Nat /\ Cardinality(Y) \in Nat
         /\ x \in X /\ x \notin Y => Cardinality(X) = Cardinality(Y) + 1
         /\ x \notin X /\ x \in Y => Cardinality(Y) = Cardinality(X) + 1
         /\ (x \in X <=> x \in Y) => Cardinality(X) = Cardinality(Y)
<1>1. IsFiniteSet(X) /\ IsFiniteSet(Y)
  BY FS_Subset
<1>2. Cardinality(X) \in Nat /\ Cardinality(Y) \in Nat
  BY <1>1, FS_CardinalityType
<1>3. ASSUME x \in X, x \notin Y PROVE Cardinality(X) = Cardinality(Y) + 1
  <2>1. X = Y \cup {x}
    BY <1>3
  <2> QED BY <1>1, <1>3, <2>1, FS_AddElement
<1>4. ASSUME x \notin X, x \in Y PROVE Cardinality(Y) = Cardinality(X) + 1
  <2>1. Y = X \cup {x}
    BY <1>4
  <2> QED BY <1>1, <1>4, <2>1, FS_AddElement
<1>5. ASSUME x \in X <=> x \in Y PROVE Cardinality(X) = Cardinality(Y)
  <2>1. X = Y
    BY <1>5
  <2> QED BY <2>1
<1> QED BY <1>2, <1>3, <1>4, <1>5

\* There are as many places as groups times slots.
LEMMA PlacesCounted ==
  ASSUME NEW a, a.groups \in GroupCounts
  PROVE  IsFiniteSet(Places(a)) /\ Cardinality(Places(a)) = N * a.groups
<1>1. N \in Nat /\ N > 0 /\ a.groups \in Nat /\ a.groups > 0
  BY SlotsNumbered, GroupsPositive
<1>2. IsFiniteSet(Slots) /\ Cardinality(Slots) = N
  <2>1. 0 \in Int /\ N - 1 \in Int /\ ~(0 > N - 1) /\ (N - 1) - 0 + 1 = N
    BY <1>1
  <2> QED BY <2>1, FS_Interval DEF Slots
<1>3. IsFiniteSet(Groups(a)) /\ Cardinality(Groups(a)) = a.groups
  <2> DEFINE G == a.groups
  <2>1. 0 \in Int /\ G - 1 \in Int /\ ~(0 > G - 1) /\ (G - 1) - 0 + 1 = G
    BY <1>1
  <2> QED BY <2>1, FS_Interval DEF Groups
<1>4. IsFiniteSet(Places(a)) /\ Cardinality(Places(a)) = a.groups * N
  BY <1>2, <1>3, FS_Product DEF Places
<1> QED BY <1>1, <1>4

\* There is an available place for every one of c threads if the occupied places
\* and these are no more than the capacity.
LEMMA RoomLeft ==
  ASSUME NEW K, NEW a, IsArrays(a, K), SentinelInPlace(a), NEW c \in Nat,
         Cardinality(MatchReallyOccupied(a)) + c <= Capacity(a)
  PROVE  c <= Cardinality({p \in Places(a) : a.meta[p[1]][p[2]] = Available})
<1> DEFINE A == {p \in Places(a) : a.meta[p[1]][p[2]] = Available}
           O == MatchReallyOccupied(a)
           s == <<a.groups - 1, N - 1>>
<1>1. N \in Nat /\ N > 0 /\ a.groups \in GroupCounts /\ a.groups \in Nat /\ a.groups > 0 /\ a.built \in BOOLEAN
  BY SlotsNumbered, ArraysTyped
<1>2. O \subseteq Places(a) /\ A \subseteq Places(a) /\ IsFiniteSet(Places(a))
  BY <1>1, PlacesCounted DEF MatchReallyOccupied
<1>3. IsFiniteSet(A) /\ IsFiniteSet(O) /\ Cardinality(A) \in Nat /\ Cardinality(O) \in Nat
  <2> HIDE DEF A, O
  <2> QED BY <1>2, FS_Subset, FS_CardinalityType
<1>4. CASE ~a.built
  BY <1>3, <1>4 DEF Capacity
<1>5. CASE a.built
  <2>1. \A g \in Groups(a), n \in Slots : a.meta[g][n] = Sentinel <=> g = a.groups - 1 /\ n = N - 1
    BY <1>5 DEF SentinelInPlace
  <2>2. s \in Places(a) /\ s \notin O /\ s \notin A
    <3>1. a.groups - 1 \in Groups(a) /\ N - 1 \in Slots
      BY <1>1 DEF Groups, Slots
    <3> QED BY <2>1, <3>1 DEF Places, MatchReallyOccupied, Available, Sentinel
  <2>3. Places(a) = (O \cup A) \cup {s}
    <3>1. ASSUME NEW p \in Places(a), p \notin O, p \notin A PROVE p = s
      BY <2>1, <3>1 DEF Places, MatchReallyOccupied
    <3> QED BY <1>2, <2>2, <3>1
  <2>4. O \cap A = {}
    BY DEF MatchReallyOccupied
  <2> HIDE DEF A, O, s
  <2>5. IsFiniteSet(O \cup A) /\ Cardinality(O \cup A) = Cardinality(O) + Cardinality(A)
    <3>1. Cardinality(O \cup A) = Cardinality(O) + Cardinality(A) - Cardinality(O \cap A)
      BY <1>3, FS_Union
    <3> QED BY <1>3, <2>4, <3>1, FS_Union, FS_EmptySet
  <2>6. Cardinality(Places(a)) = Cardinality(O) + Cardinality(A) + 1
    BY <2>2, <2>3, <2>5, FS_AddElement
  <2>7. Cardinality(Places(a)) = N * a.groups /\ N * a.groups \in Nat
    BY <1>1, PlacesCounted
  <2>8. Capacity(a) = N * a.groups - 1
    BY <1>1, <1>5, CapacityTyped
  <2> QED BY <1>3, <2>6, <2>7, <2>8 DEF A, O
<1> QED BY <1>1, <1>4, <1>5

\* Elements that are in one slot each are no more than the keys in them.
LEMMA ElementsCounted ==
  ASSUME NEW K, IsFiniteSet(K), NoKey \notin K, NEW a, IsArrays(a, K)
  PROVE  /\ Elements(a) \subseteq K /\ IsFiniteSet(Elements(a)) /\ Cardinality(Elements(a)) \in Nat
         /\ \A k : k \in Elements(a) <=> k \in K /\ \E g \in Groups(a), n \in Slots : a.elem[g][n] = k
<1>1. \A k : k \in Elements(a) <=> k # NoKey /\ \E g \in Groups(a), n \in Slots : a.elem[g][n] = k
  <2> SUFFICES ASSUME NEW k, k # NoKey
      PROVE  (\E p \in Places(a) : k = a.elem[p[1]][p[2]]) <=> \E g \in Groups(a), n \in Slots : a.elem[g][n] = k
    BY DEF Elements
  <2>1. ASSUME NEW g \in Groups(a), NEW n \in Slots, a.elem[g][n] = k
        PROVE  \E p \in Places(a) : k = a.elem[p[1]][p[2]]
    <3>1. <<g, n>> \in Places(a) /\ <<g, n>>[1] = g /\ <<g, n>>[2] = n
      BY DEF Places
    <3> QED BY <2>1, <3>1
  <2>2. ASSUME NEW p \in Places(a), k = a.elem[p[1]][p[2]]
        PROVE  \E g \in Groups(a), n \in Slots : a.elem[g][n] = k
    BY <2>2 DEF Places
  <2> QED BY <2>1, <2>2
<1>2. \A g \in Groups(a), n \in Slots : a.elem[g][n] \in K \cup {NoKey}
  BY ArraysTyped
<1>3. Elements(a) \subseteq K
  BY <1>1, <1>2
<1> QED BY <1>1, <1>3, FS_Subset, FS_CardinalityType

\* One slot is emptied of an element that is in no other (or filled: from b to a).
LEMMA ElementGone ==
  ASSUME NEW K, IsFiniteSet(K), NoKey \notin K, NEW a, IsArrays(a, K), NEW b, IsArrays(b, K),
         b.groups = a.groups, NEW g \in Groups(a), NEW n \in Slots,
         \A h \in Groups(a), m \in Slots : h # g \/ m # n =>
           b.elem[h][m] = a.elem[h][m] /\ a.elem[h][m] # a.elem[g][n],
         a.elem[g][n] # NoKey, b.elem[g][n] = NoKey
  PROVE  /\ Elements(a) = Elements(b) \cup {a.elem[g][n]} /\ a.elem[g][n] \notin Elements(b)
         /\ Cardinality(Elements(a)) = Cardinality(Elements(b)) + 1
<1> DEFINE k == a.elem[g][n]
<1>1. Groups(b) = Groups(a)
  BY SameGroups
<1>2. k \in K
  BY ArraysTyped
<1>3. \A e : e \in Elements(a) <=> e \in K /\ \E h \in Groups(a), m \in Slots : a.elem[h][m] = e
  BY ElementsCounted
<1>4. \A e : e \in Elements(b) <=> e \in K /\ \E h \in Groups(a), m \in Slots : b.elem[h][m] = e
  BY <1>1, ElementsCounted
<1>5. k \notin Elements(b)
  BY <1>2, <1>4
<1>6. \A e : e \in Elements(a) <=> e \in Elements(b) \/ e = k
  <2> SUFFICES ASSUME NEW e PROVE e \in Elements(a) <=> e \in Elements(b) \/ e = k
    OBVIOUS
  <2>1. CASE e = k
    BY <1>2, <1>3, <2>1
  <2>2. CASE e # k
    BY <1>3, <1>4, <2>2
  <2> QED BY <2>1, <2>2
<1> HIDE DEF k
<1>7. Elements(a) = Elements(b) \cup {k}
  BY <1>6
<1>8. IsFiniteSet(Elements(b))
  BY ElementsCounted
<1> QED BY <1>5, <1>7, <1>8, FS_AddElement DEF k

LEMMA PlacesOfElements ==
  ASSUME NEW K, IsFiniteSet(K), NoKey \notin K, NEW a, IsArrays(a, K),
         \A g, h \in Groups(a), m, n \in Slots :
           a.elem[g][m] # NoKey /\ a.elem[g][m] = a.elem[h][n] => g = h /\ m = n
  PROVE  LET P == {p \in Places(a) : a.elem[p[1]][p[2]] # NoKey} IN
         IsFiniteSet(P) /\ Cardinality(P) = Cardinality(Elements(a))
<1> DEFINE P == {p \in Places(a) : a.elem[p[1]][p[2]] # NoKey}
           f == [p \in P |-> a.elem[p[1]][p[2]]]
           E == Elements(a)
<1>1. IsFiniteSet(P)
  BY ArraysTyped, PlacesCounted, FS_Subset
<1>2. f \in [P -> E]
  BY DEF Elements
<1>3. \A p, q \in P : f[p] = f[q] => p = q
  <2> SUFFICES ASSUME NEW p \in P, NEW q \in P, f[p] = f[q] PROVE p = q
    OBVIOUS
  <2>1. /\ p = <<p[1], p[2]>> /\ q = <<q[1], q[2]>>
        /\ p[1] \in Groups(a) /\ p[2] \in Slots /\ q[1] \in Groups(a) /\ q[2] \in Slots
    BY DEF Places
  <2>2. a.elem[p[1]][p[2]] = a.elem[q[1]][q[2]] /\ a.elem[p[1]][p[2]] # NoKey
    OBVIOUS
  <2>3. p[1] = q[1] /\ p[2] = q[2]
    BY <2>1, <2>2
  <2> QED BY <2>1, <2>3
<1>4. \A k \in E : \E p \in P : f[p] = k
  BY DEF Elements
<1> HIDE DEF P, f, E
<1>5. f \in Bijection(P, E)
  BY <1>2, <1>3, <1>4, Fun_IsBij
<1> QED BY <1>1, <1>5, FS_Bijection DEF E, P, ExistsBijection
=============================================================================
