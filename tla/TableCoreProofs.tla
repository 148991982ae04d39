--------------------------- MODULE TableCoreProofs ---------------------------
(***************************************************************************)
(* Proofs about TableCore: its invariant, and what it says of the tables   *)
(* between calls and of what each call has done.                           *)
(***************************************************************************)
EXTENDS TableCoreInvariant, TableArraysProofs

-----------------------------------------------------------------------------
(* Places in the order of for_all_elements *)

LEMMA PlaceParts ==
  ASSUME NEW a
  PROVE  /\ \A p \in Places(a) : p = <<p[1], p[2]>> /\ p[1] \in Groups(a) /\ p[2] \in Slots
         /\ \A g \in Groups(a), n \in Slots : <<g, n>> \in Places(a)
         /\ \A p, q \in Places(a) : p[1] = q[1] /\ p[2] = q[2] => p = q
BY DEF Places

LEMMA IndexOfPlace ==
  ASSUME NEW a, a.groups \in GroupCounts
  PROVE  /\ \A p \in Places(a) : Index(p) \in Nat
         /\ \A p, q \in Places(a) : Index(p) = Index(q) => p = q
<1>1. \A p \in Places(a) : p[1] \in Nat /\ p[2] \in 0 .. N - 1
  BY PlaceParts, GroupsPositive DEF Groups, Slots
<1>2. ASSUME NEW p \in Places(a)
      PROVE  /\ Index(p) \in Nat /\ Index(p) = N * p[1] + p[2]
             /\ Index(p) \div N = p[1] /\ Index(p) % N = p[2]
  <2>1. p[1] \in Nat /\ p[2] \in 0 .. N - 1 /\ N \in Nat /\ N > 0
    BY <1>1, SlotsNumbered
  <2>2. p[1] * N \in Nat /\ p[1] * N = N * p[1]
    BY <2>1
  <2>3. (N * p[1] + p[2]) \div N = p[1] /\ ((N * p[1] + p[2]) % N) = p[2]
    BY <2>1, DivisionUnique
  <2>4. Index(p) = N * p[1] + p[2]
    BY <2>2 DEF Index
  <2>5. N * p[1] + p[2] \in Nat
    BY <2>1, <2>2
  <2> QED BY <2>3, <2>4, <2>5
<1>3. ASSUME NEW p \in Places(a), NEW q \in Places(a), Index(p) = Index(q) PROVE p = q
  <2>1. p[1] = q[1] /\ p[2] = q[2]
    BY <1>2, <1>3
  <2> QED BY <2>1, PlaceParts
<1> QED BY <1>2, <1>3

\* The occupied places are finitely many, and all of them lie ahead at first.
LEMMA OccupiedFinite ==
  ASSUME NEW K, NEW a, IsArrays(a, K), NEW c \in Nat
  PROVE  /\ MatchReallyOccupied(a) \subseteq Places(a) /\ From(a, c) \subseteq MatchReallyOccupied(a)
         /\ IsFiniteSet(MatchReallyOccupied(a)) /\ IsFiniteSet(From(a, c))
         /\ Cardinality(MatchReallyOccupied(a)) \in Nat /\ Cardinality(From(a, c)) \in Nat
         /\ From(a, 0) = MatchReallyOccupied(a)
<1>1. a.groups \in GroupCounts
  BY ArraysTyped
<1>2. MatchReallyOccupied(a) \subseteq Places(a) /\ From(a, c) \subseteq MatchReallyOccupied(a)
  BY DEF MatchReallyOccupied, From
<1>3. IsFiniteSet(MatchReallyOccupied(a)) /\ IsFiniteSet(From(a, c))
  BY <1>1, <1>2, PlacesCounted, FS_Subset
<1>4. From(a, 0) = MatchReallyOccupied(a)
  BY <1>1, <1>2, IndexOfPlace DEF From
<1> QED BY <1>2, <1>3, <1>4, FS_CardinalityType

\* The next place is the first of those ahead, which all others still are after it.
LEMMA NextPlace ==
  ASSUME NEW K, NEW a, IsArrays(a, K), NEW c \in Nat, From(a, c) # {},
         NEW p, p = FirstFrom(a, c)
  PROVE  /\ p \in From(a, c) /\ p \in MatchReallyOccupied(a) /\ p \in Places(a)
         /\ Index(p) + 1 \in Nat
         /\ From(a, Index(p) + 1) = From(a, c) \ {p}
         /\ Behind(a, Index(p) + 1) = Behind(a, c) \cup {p}
         /\ Cardinality(From(a, c)) = Cardinality(From(a, Index(p) + 1)) + 1
<1> DEFINE F == From(a, c)
           I == {Index(q) : q \in F}
<1>1. a.groups \in GroupCounts /\ MatchReallyOccupied(a) \subseteq Places(a)
      /\ F \subseteq MatchReallyOccupied(a) /\ IsFiniteSet(F)
  BY ArraysTyped, OccupiedFinite
<1>2. \A q \in F : Index(q) \in Nat
  BY <1>1, IndexOfPlace
<1>3. \E q \in F : \A r \in F : Index(q) <= Index(r)
  <2>1. I \subseteq Nat /\ I # {}
    BY <1>2
  <2>2. PICK i \in I : \A j \in I : i <= j
    <3> HIDE DEF I
    <3> QED BY <2>1, LeastNumber
  <2>3. PICK q \in F : Index(q) = i
    BY <2>2
  <2> QED BY <2>2, <2>3
<1>4. p \in F /\ \A r \in F : Index(p) <= Index(r)
  BY <1>3 DEF FirstFrom
<1>5. p \in MatchReallyOccupied(a) /\ p \in Places(a) /\ Index(p) \in Nat /\ Index(p) >= c
  BY <1>1, <1>2, <1>4 DEF From
<1>6. ASSUME NEW q PROVE q \in From(a, Index(p) + 1) <=> q \in F /\ q # p
  <2>1. CASE q \in MatchReallyOccupied(a)
    <3>1. Index(q) \in Nat /\ (Index(q) = Index(p) => q = p)
      BY <1>1, <1>5, <2>1, IndexOfPlace
    <3>2. q \in F <=> Index(q) >= c
      BY <2>1 DEF From
    <3>3. q \in From(a, Index(p) + 1) <=> Index(q) >= Index(p) + 1
      BY <2>1 DEF From
    <3>4. q \in F => Index(p) <= Index(q)
      BY <1>4
    <3> HIDE DEF F
    <3> QED BY <1>5, <3>1, <3>2, <3>3, <3>4
  <2>2. CASE q \notin MatchReallyOccupied(a)
    BY <2>2 DEF From
  <2> QED BY <2>1, <2>2
<1>7. From(a, Index(p) + 1) = F \ {p}
  BY <1>6
<1>8. Behind(a, Index(p) + 1) = Behind(a, c) \cup {p}
  BY <1>4, <1>5, <1>7 DEF Behind
<1>9. Cardinality(F) = Cardinality(F \ {p}) + 1
  <2> HIDE DEF F
  <2>1. IsFiniteSet(F \ {p}) /\ Cardinality(F \ {p}) = Cardinality(F) - 1
    BY <1>1, <1>4, FS_RemoveElement
  <2>2. Cardinality(F) \in Nat
    BY <1>1, FS_CardinalityType
  <2> QED BY <2>1, <2>2
<1>10. Index(p) + 1 \in Nat
  BY <1>5
<1>11. Cardinality(F) = Cardinality(From(a, Index(p) + 1)) + 1
  BY <1>7, <1>9
<1> QED BY <1>4, <1>5, <1>7, <1>8, <1>10, <1>11

\* Where no place lies ahead, all lie behind.
LEMMA NoneAhead ==
  ASSUME NEW a, NEW c, From(a, c) = {}
  PROVE  Behind(a, c) = MatchReallyOccupied(a) /\ Cardinality(From(a, c)) = 0
BY FS_EmptySet DEF Behind

\* Only the metadata tells which places are occupied.
LEMMA SameOccupied ==
  ASSUME NEW a, NEW b, b.groups = a.groups,
         \A g \in Groups(a), n \in Slots : b.meta[g][n] = a.meta[g][n]
  PROVE  /\ MatchReallyOccupied(b) = MatchReallyOccupied(a)
         /\ \A c : From(b, c) = From(a, c) /\ Behind(b, c) = Behind(a, c)
<1>1. Places(b) = Places(a)
  BY SameGroups
<1>2. MatchReallyOccupied(b) = MatchReallyOccupied(a)
  BY <1>1, PlaceParts DEF MatchReallyOccupied
<1> QED BY <1>2 DEF From, Behind

-----------------------------------------------------------------------------
(* Arrays whose elements are well placed *)

LEMMA HashTyped ==
  ASSUME NEW h \in Hashers, NEW k \in Keys
  PROVE  /\ Hash[h][k] \in Hashes /\ Hash[h][k].tag \in Bytes
         /\ Hash[h][k].tag \notin {Available, Sentinel} /\ k # NoKey
<1>1. Hash[h][k] \in Hashes
  BY HashAssumption
<1> QED BY <1>1, HashAssumption DEF Hashes, Bytes, Available, Sentinel

\* An occupied place whose element was not moved away has one of the keys.
LEMMA ElementThere ==
  ASSUME NEW a, IsArrays(a, Keys), NEW h, NEW moved, WellPlaced(a, h, moved),
         NEW p \in MatchReallyOccupied(a) \ moved
  PROVE  /\ p \in Places(a) /\ ElementAt(a, p) \in Keys /\ ElementAt(a, p) # NoKey
         /\ ElementAt(a, p) \in Elements(a)
<1>1. p \in Places(a)
  BY DEF MatchReallyOccupied
<1>2. ElementAt(a, p) # NoKey
  BY <1>1 DEF WellPlaced
<1>3. ElementAt(a, p) \in Keys \cup {NoKey}
  BY <1>1, PlaceParts, ArraysTyped DEF ElementAt
<1>4. ElementAt(a, p) \in Elements(a)
  BY <1>1, <1>2 DEF Elements, ElementAt
<1> QED BY <1>1, <1>2, <1>3, <1>4

LEMMA ElementsHavePlaces ==
  ASSUME NEW a, IsArrays(a, Keys), NEW h, NEW moved, WellPlaced(a, h, moved)
  PROVE  \A k \in Elements(a) : k \in Keys /\ \E p \in MatchReallyOccupied(a) \ moved : ElementAt(a, p) = k
<1>1. ASSUME NEW k \in Elements(a)
      PROVE  k \in Keys /\ \E p \in MatchReallyOccupied(a) \ moved : ElementAt(a, p) = k
  <2>1. PICK p \in Places(a) : ElementAt(a, p) = k /\ k # NoKey
    BY DEF Elements, ElementAt
  <2>2. p \in MatchReallyOccupied(a) \ moved
    BY <2>1 DEF WellPlaced
  <2> QED BY <2>1, <2>2, ElementThere
<1> QED BY <1>1

LEMMA ElementsAtPlaces ==
  ASSUME NEW a, IsArrays(a, Keys), NEW h, NEW moved, WellPlaced(a, h, moved)
  PROVE  /\ Elements(a) = ElementsIn(a, MatchReallyOccupied(a) \ moved)
         /\ \A k \in Elements(a) : k \in Keys /\ \E p \in MatchReallyOccupied(a) \ moved : ElementAt(a, p) = k
<1> DEFINE there == MatchReallyOccupied(a) \ moved
<1>1. \A p \in Places(a) : ElementAt(a, p) # NoKey <=> p \in there
  BY DEF WellPlaced
<1>2. there \subseteq Places(a)
  BY DEF MatchReallyOccupied
<1>3. Elements(a) = {ElementAt(a, p) : p \in Places(a)} \ {NoKey}
  BY DEF Elements, ElementAt
<1>4. Elements(a) = ElementsIn(a, there)
  <2> HIDE DEF there
  <2> QED BY <1>1, <1>2, <1>3 DEF ElementsIn
<1>5. ASSUME NEW k \in Elements(a) PROVE k \in Keys /\ \E p \in there : ElementAt(a, p) = k
  <2>1. PICK p \in there : k = ElementAt(a, p)
    BY <1>4, <1>5 DEF ElementsIn
  <2> QED BY <2>1, ElementThere
<1> QED BY <1>4, <1>5

\* As many elements as places that have one.
LEMMA ElementsPerPlace ==
  ASSUME NEW a, IsArrays(a, Keys), NEW h, WellPlaced(a, h, {})
  PROVE  /\ Elements(a) \subseteq Keys /\ IsFiniteSet(Elements(a))
         /\ Cardinality(Elements(a)) \in Nat
         /\ Cardinality(MatchReallyOccupied(a)) = Cardinality(Elements(a))
         /\ Cardinality(MatchReallyOccupied(a)) <= Cardinality(Keys)
<1> DEFINE P == {p \in Places(a) : a.elem[p[1]][p[2]] # NoKey}
<1>1. NoKey \notin Keys /\ IsFiniteSet(Keys)
  BY HashAssumption, EnoughGroupsAssumption
<1>2. P = MatchReallyOccupied(a)
  BY DEF WellPlaced, ElementAt, MatchReallyOccupied
<1>3. ASSUME NEW g \in Groups(a), NEW i \in Groups(a), NEW m \in Slots, NEW n \in Slots,
             a.elem[g][m] # NoKey, a.elem[g][m] = a.elem[i][n]
      PROVE  g = i /\ m = n
  <2>1. <<g, m>> \in Places(a) /\ <<i, n>> \in Places(a)
    BY PlaceParts
  <2>2. <<g, m>> \in P /\ <<i, n>> \in P
    BY <1>3, <2>1
  <2>3. ElementAt(a, <<g, m>>) = ElementAt(a, <<i, n>>)
    BY <1>3 DEF ElementAt
  <2>4. <<g, m>> = <<i, n>>
    BY <1>2, <2>2, <2>3 DEF WellPlaced
  <2> QED BY <2>4
<1>4. Cardinality(P) = Cardinality(Elements(a))
  BY <1>1, <1>3, PlacesOfElements
<1> HIDE DEF P
<1>5. Elements(a) \subseteq Keys /\ IsFiniteSet(Elements(a)) /\ Cardinality(Elements(a)) \in Nat
  BY <1>1, ElementsCounted
<1>6. Cardinality(Elements(a)) <= Cardinality(Keys)
  BY <1>1, <1>5, FS_Subset
<1> QED BY <1>2, <1>4, <1>5, <1>6

\* Arrays without elements are well placed whatever the hash function.
LEMMA EmptyWellPlaced ==
  ASSUME NEW a, IsArrays(a, Keys), SentinelInPlace(a),
         \A g \in Groups(a), n \in Slots : a.elem[g][n] = NoKey /\ a.meta[g][n] \in {Available, Sentinel}
  PROVE  /\ \A h : WellPlaced(a, h, {})
         /\ MatchReallyOccupied(a) = {} /\ Elements(a) = {}
         /\ Cardinality(MatchReallyOccupied(a)) = 0
         /\ \A c : From(a, c) = {} /\ Behind(a, c) = {}
         /\ \A p \in Places(a) : ElementAt(a, p) = NoKey
<1>1. \A p \in Places(a) : ElementAt(a, p) = NoKey /\ a.meta[p[1]][p[2]] \in {Available, Sentinel}
  BY PlaceParts DEF ElementAt
<1>2. MatchReallyOccupied(a) = {}
  BY <1>1 DEF MatchReallyOccupied
<1>3. Elements(a) = {}
  BY <1>1 DEF Elements, ElementAt
<1>4. \A h : WellPlaced(a, h, {})
  BY <1>1, <1>2 DEF WellPlaced
<1> QED BY <1>1, <1>2, <1>3, <1>4, FS_EmptySet DEF From, Behind

\* Where no place is occupied, there are no elements.
LEMMA NothingThere ==
  ASSUME NEW a, IsArrays(a, Keys), NEW h, WellPlaced(a, h, {}),
         Cardinality(MatchReallyOccupied(a)) = 0
  PROVE  /\ MatchReallyOccupied(a) = {} /\ Elements(a) = {}
         /\ \A g \in Groups(a), n \in Slots : a.elem[g][n] = NoKey /\ a.meta[g][n] \in {Available, Sentinel}
<1>1. MatchReallyOccupied(a) = {}
  <2>1. 0 \in Nat
    OBVIOUS
  <2>2. IsFiniteSet(MatchReallyOccupied(a))
    BY <2>1, OccupiedFinite
  <2> QED BY <2>2, FS_EmptySet
<1>2. \A p \in Places(a) : ElementAt(a, p) = NoKey /\ a.meta[p[1]][p[2]] \in {Available, Sentinel}
  BY <1>1 DEF WellPlaced, MatchReallyOccupied
<1>3. Elements(a) = {}
  BY <1>2 DEF Elements, ElementAt
<1>4. ASSUME NEW g \in Groups(a), NEW n \in Slots
      PROVE  a.elem[g][n] = NoKey /\ a.meta[g][n] \in {Available, Sentinel}
  <2>1. <<g, n>> \in Places(a) /\ <<g, n>>[1] = g /\ <<g, n>>[2] = n
    BY PlaceParts
  <2> QED BY <1>2, <2>1 DEF ElementAt
<1> QED BY <1>1, <1>3, <1>4

\* Arrays that gain an element at a place, where a search finds it; nothing else
\* changes but for overflow bits that are set.
Gains(a, b, h, k, p) ==
  /\ b.groups = a.groups /\ b.built = a.built
  /\ \A i \in Groups(a) : a.overflow[i] \subseteq b.overflow[i]
  /\ a.meta[p[1]][p[2]] = Available
  /\ b.meta[p[1]][p[2]] = Hash[h][k].tag /\ ElementAt(b, p) = k /\ Reached(b, Hash[h][k], p[1])
  /\ \A q \in Places(a) : q # p => /\ b.meta[q[1]][q[2]] = a.meta[q[1]][q[2]]
                                  /\ ElementAt(b, q) = ElementAt(a, q)

LEMMA ElementGained ==
  ASSUME NEW a, IsArrays(a, Keys), NEW h \in Hashers, WellPlaced(a, h, {}), a.built,
         NEW b, IsArrays(b, Keys), NEW k \in Keys, k \notin Elements(a),
         NEW p \in Places(a), Gains(a, b, h, k, p)
  PROVE  /\ WellPlaced(b, h, {}) /\ Elements(b) = Elements(a) \cup {k}
         /\ MatchReallyOccupied(b) = MatchReallyOccupied(a) \cup {p}
         /\ Cardinality(MatchReallyOccupied(b)) = Cardinality(MatchReallyOccupied(a)) + 1
<1>0. /\ b.groups = a.groups /\ b.built = a.built
      /\ \A i \in Groups(a) : a.overflow[i] \subseteq b.overflow[i]
      /\ a.meta[p[1]][p[2]] = Available
      /\ b.meta[p[1]][p[2]] = Hash[h][k].tag /\ ElementAt(b, p) = k /\ Reached(b, Hash[h][k], p[1])
      /\ \A q \in Places(a) : q # p => /\ b.meta[q[1]][q[2]] = a.meta[q[1]][q[2]]
                                      /\ ElementAt(b, q) = ElementAt(a, q)
  BY DEF Gains
<1> DEFINE O == MatchReallyOccupied(a)
<1>1. Places(b) = Places(a) /\ Groups(b) = Groups(a)
  BY <1>0, SameGroups
<1>2. Hash[h][k].tag \notin {Available, Sentinel} /\ k # NoKey
  BY <1>0, HashTyped
<1>3. p \notin O /\ MatchReallyOccupied(b) = O \cup {p}
  BY <1>0, <1>1, <1>2 DEF MatchReallyOccupied
<1>4. SentinelInPlace(b)
  <2> SUFFICES ASSUME NEW g \in Groups(a), NEW n \in Slots
               PROVE  b.meta[g][n] = Sentinel <=> g = a.groups - 1 /\ n = N - 1
    BY <1>0, <1>1 DEF SentinelInPlace
  <2>1. a.meta[g][n] = Sentinel <=> g = a.groups - 1 /\ n = N - 1
    BY <1>0 DEF WellPlaced, SentinelInPlace
  <2>2. <<g, n>> \in Places(a) /\ <<g, n>>[1] = g /\ <<g, n>>[2] = n
    BY <1>0, PlaceParts
  <2>3. CASE <<g, n>> = p
    <3>1. a.meta[g][n] = Available /\ b.meta[g][n] = Hash[h][k].tag
      BY <1>0, <2>2, <2>3
    <3> QED BY <1>0, <1>2, <2>1, <3>1 DEF Available, Sentinel
  <2>4. CASE <<g, n>> # p
    BY <1>0, <2>1, <2>2, <2>4
  <2> QED BY <1>0, <2>3, <2>4
<1>5. ASSUME NEW q \in Places(a) PROVE ElementAt(b, q) # NoKey <=> q \in O \cup {p}
  <2>1. q # p => (ElementAt(b, q) # NoKey <=> q \in O)
    BY <1>0 DEF WellPlaced
  <2> QED BY <1>0, <1>2, <2>1
<1>6. ASSUME NEW q \in O \cup {p}
      PROVE  LET hash == Hash[h][ElementAt(b, q)] IN
             b.meta[q[1]][q[2]] = hash.tag /\ Reached(b, hash, q[1])
  <2>1. CASE q = p
    BY <1>0, <2>1
  <2>2. CASE q # p
    <3> DEFINE e == ElementAt(a, q)
    <3>1. q \in O /\ q \in Places(a) /\ e \in Keys
      BY <1>0, <2>2, ElementThere
    <3>2. a.meta[q[1]][q[2]] = Hash[h][e].tag /\ Reached(a, Hash[h][e], q[1])
      BY <1>0, <3>1 DEF WellPlaced
    <3>3. ElementAt(b, q) = e /\ b.meta[q[1]][q[2]] = a.meta[q[1]][q[2]]
      BY <1>0, <2>2, <3>1
    <3>4. q[1] \in Groups(a) /\ Hash[h][e] \in Hashes /\ a.groups \in GroupCounts
      BY <1>0, <3>1, PlaceParts, HashTyped, ArraysTyped
    <3> HIDE DEF e
    <3>5. Reached(b, Hash[h][e], q[1])
      BY <1>0, <3>2, <3>4, ReachedMonotone
    <3> QED BY <1>0, <3>2, <3>3, <3>5
  <2> QED BY <1>0, <2>1, <2>2
<1>7. ASSUME NEW q \in O, NEW r \in O \cup {p}, ElementAt(b, q) = ElementAt(b, r) PROVE q = r
  <2>1. q \in Places(a) /\ q # p /\ ElementAt(b, q) = ElementAt(a, q) /\ ElementAt(a, q) \in Elements(a)
    BY <1>0, <1>3, ElementThere
  <2>2. r # p
    BY <1>0, <1>7, <2>1
  <2>3. r \in O /\ r \in Places(a) /\ ElementAt(b, r) = ElementAt(a, r)
    BY <1>0, <2>2, ElementThere
  <2> QED BY <1>0, <1>7, <2>1, <2>3 DEF WellPlaced
<1>8. \A q, r \in O \cup {p} : ElementAt(b, q) = ElementAt(b, r) => q = r
  BY <1>0, <1>7
<1>9. WellPlaced(b, h, {})
  <2>1. MatchReallyOccupied(b) \ {} = O \cup {p}
    BY <1>0, <1>3
  <2> HIDE DEF O
  <2> QED BY <1>0, <1>1, <1>4, <1>5, <1>6, <1>8, <2>1 DEF WellPlaced
<1>10. Elements(b) = Elements(a) \cup {k}
  <2>1. Elements(b) = ElementsIn(b, O \cup {p}) /\ Elements(a) = ElementsIn(a, O)
    <3>1. MatchReallyOccupied(b) \ {} = O \cup {p} /\ O \ {} = O
      BY <1>0, <1>3
    <3> QED BY <1>0, <1>9, <3>1, ElementsAtPlaces
  <2>2. \A q \in O : ElementAt(b, q) = ElementAt(a, q)
    BY <1>0, <1>3, ElementThere
  <2> HIDE DEF O
  <2> QED BY <1>0, <2>1, <2>2 DEF ElementsIn
<1>11. Cardinality(MatchReallyOccupied(b)) = Cardinality(O) + 1
  <2>1. 0 \in Nat
    OBVIOUS
  <2>2. IsFiniteSet(O) /\ Cardinality(O) \in Nat
    BY <1>0, <2>1, OccupiedFinite
  <2> HIDE DEF O
  <2> QED BY <1>0, <1>3, <2>2, FS_AddElement
<1> QED BY <1>0, <1>3, <1>9, <1>10, <1>11

\* An insertion into arrays with room.
LEMMA EmplacedWellPlaced ==
  ASSUME NEW a, IsArrays(a, Keys), NEW h \in Hashers, WellPlaced(a, h, {}),
         NEW k \in Keys, k \notin Elements(a), Cardinality(MatchReallyOccupied(a)) < Capacity(a),
         NEW b, b = Emplaced(a, Hash[h][k], k)
  PROVE  /\ IsArrays(b, Keys) /\ b.groups = a.groups /\ b.built = a.built
         /\ WellPlaced(b, h, {}) /\ Elements(b) = Elements(a) \cup {k}
         /\ Cardinality(MatchReallyOccupied(b)) = Cardinality(MatchReallyOccupied(a)) + 1
<1> DEFINE hash == Hash[h][k]
<1>1. hash \in Hashes /\ a.groups \in GroupCounts /\ a.built \in BOOLEAN
  BY HashTyped, ArraysTyped
<1>2. Capacity(a) \in Nat /\ Cardinality(MatchReallyOccupied(a)) \in Nat /\ 1 \in Nat /\ a.built
  <2>1. 0 \in Nat
    OBVIOUS
  <2>2. Cardinality(MatchReallyOccupied(a)) \in Nat
    BY <2>1, OccupiedFinite
  <2> QED BY <1>1, <2>2, CapacityTyped
<1>3. \E g \in Groups(a), n \in Slots : a.meta[g][n] = Available
  <2> DEFINE A == {p \in Places(a) : a.meta[p[1]][p[2]] = Available}
  <2>1. 1 <= Cardinality(A)
    <3>1. SentinelInPlace(a)
      BY DEF WellPlaced
    <3>2. Cardinality(MatchReallyOccupied(a)) + 1 <= Capacity(a)
      BY <1>2
    <3> QED BY <1>2, <3>1, <3>2, RoomLeft
  <2>2. A # {}
    <3> HIDE DEF A
    <3>1. Cardinality({}) = 0
      BY FS_EmptySet
    <3> QED BY <2>1, <3>1
  <2> QED BY <2>2, PlaceParts
<1> HIDE DEF hash
<1>4. b = Emplaced(a, hash, k)
  BY DEF hash
<1>5. /\ IsArrays(b, Keys) /\ b.groups = a.groups /\ b.built = a.built
      /\ \A i \in Groups(a) : a.overflow[i] \subseteq b.overflow[i]
      /\ \E g \in Groups(a), n \in Slots :
           /\ a.meta[g][n] = Available /\ Reached(b, hash, g)
           /\ b.meta[g][n] = hash.tag /\ b.elem[g][n] = k
           /\ \A i \in Groups(a), m \in Slots :
                i # g \/ m # n => b.meta[i][m] = a.meta[i][m] /\ b.elem[i][m] = a.elem[i][m]
  BY <1>1, <1>3, <1>4, EmplacedWritten
<1>6. PICK g \in Groups(a), n \in Slots :
           /\ a.meta[g][n] = Available /\ Reached(b, hash, g)
           /\ b.meta[g][n] = hash.tag /\ b.elem[g][n] = k
           /\ \A i \in Groups(a), m \in Slots :
                i # g \/ m # n => b.meta[i][m] = a.meta[i][m] /\ b.elem[i][m] = a.elem[i][m]
  BY <1>5
<1> DEFINE p == <<g, n>>
<1>7. p \in Places(a) /\ p[1] = g /\ p[2] = n
  BY PlaceParts
<1>8. \A q \in Places(a) : q # p => /\ b.meta[q[1]][q[2]] = a.meta[q[1]][q[2]]
                                    /\ ElementAt(b, q) = ElementAt(a, q)
  <2> SUFFICES ASSUME NEW q \in Places(a), q # p
               PROVE  /\ b.meta[q[1]][q[2]] = a.meta[q[1]][q[2]]
                      /\ b.elem[q[1]][q[2]] = a.elem[q[1]][q[2]]
    BY DEF ElementAt
  <2>1. q[1] \in Groups(a) /\ q[2] \in Slots /\ (q[1] # g \/ q[2] # n)
    BY PlaceParts
  <2> QED BY <1>6, <2>1
<1>9. a.meta[p[1]][p[2]] = Available /\ b.meta[p[1]][p[2]] = hash.tag /\ ElementAt(b, p) = k
      /\ Reached(b, hash, p[1])
  BY <1>6, <1>7 DEF ElementAt
<1> HIDE DEF p
<1>10. /\ WellPlaced(b, h, {}) /\ Elements(b) = Elements(a) \cup {k}
       /\ Cardinality(MatchReallyOccupied(b)) = Cardinality(MatchReallyOccupied(a)) + 1
  <2>1. b.meta[p[1]][p[2]] = Hash[h][k].tag /\ Reached(b, Hash[h][k], p[1])
    BY <1>9 DEF hash
  <2>2. Gains(a, b, h, k, p)
    BY <1>5, <1>8, <1>9, <2>1 DEF Gains
  <2> QED BY <1>2, <1>5, <1>7, <2>2, ElementGained
<1> QED BY <1>5, <1>10

\* Overflow bits may be set at any time.
LEMMA MarkedWellPlaced ==
  ASSUME NEW a, IsArrays(a, Keys), NEW h \in Hashers, NEW moved, WellPlaced(a, h, moved), a.built,
         NEW b, IsArrays(b, Keys), b.groups = a.groups, b.built = a.built,
         b.meta = a.meta, b.elem = a.elem,
         \A i \in Groups(a) : a.overflow[i] \subseteq b.overflow[i]
  PROVE  /\ WellPlaced(b, h, moved) /\ Elements(b) = Elements(a)
         /\ MatchReallyOccupied(b) = MatchReallyOccupied(a)
<1> DEFINE O == MatchReallyOccupied(a)
<1>1. Places(b) = Places(a) /\ Groups(b) = Groups(a)
  BY SameGroups
<1>2. MatchReallyOccupied(b) = O /\ \A q : ElementAt(b, q) = ElementAt(a, q)
  BY <1>1 DEF MatchReallyOccupied, ElementAt
<1>3. SentinelInPlace(b)
  BY <1>1 DEF WellPlaced, SentinelInPlace
<1>4. ASSUME NEW q \in O \ moved PROVE Reached(b, Hash[h][ElementAt(a, q)], q[1])
  <2> DEFINE e == ElementAt(a, q)
  <2>1. q \in Places(a) /\ e \in Keys
    BY ElementThere
  <2>2. Reached(a, Hash[h][e], q[1])
    BY DEF WellPlaced
  <2>3. q[1] \in Groups(a) /\ Hash[h][e] \in Hashes /\ a.groups \in GroupCounts
    BY <2>1, PlaceParts, HashTyped, ArraysTyped
  <2> HIDE DEF e
  <2>4. Reached(b, Hash[h][e], q[1])
    BY <2>2, <2>3, ReachedMonotone
  <2> QED BY <2>4 DEF e
<1>5. WellPlaced(b, h, moved)
  <2> HIDE DEF O
  <2> QED BY <1>1, <1>2, <1>3, <1>4 DEF WellPlaced, O
<1> QED BY <1>1, <1>2, <1>5 DEF Elements

\* Removing nothing changes nothing.
LEMMA WithoutNone ==
  ASSUME NEW K, NEW a, IsArrays(a, K)
  PROVE  WithoutSlots(a, {}) = a
<1> DEFINE m == [g \in Groups(a) |-> [n \in Slots |-> a.meta[g][n]]]
           e == [g \in Groups(a) |-> [n \in Slots |-> a.elem[g][n]]]
<1>1. /\ a.meta \in [0 .. a.groups - 1 -> [Slots -> Bytes]]
      /\ a.elem \in [0 .. a.groups - 1 -> [Slots -> K \cup {NoKey}]]
  BY DEF IsArrays, ArraysOf
<1>2. m = a.meta
  <2>1. \A g \in Groups(a) : [n \in Slots |-> a.meta[g][n]] = a.meta[g]
    BY <1>1 DEF Groups
  <2> QED BY <1>1, <2>1 DEF Groups
<1>3. e = a.elem
  <2>1. \A g \in Groups(a) : [n \in Slots |-> a.elem[g][n]] = a.elem[g]
    BY <1>1 DEF Groups
  <2> QED BY <1>1, <2>1 DEF Groups
<1>4. WithoutSlots(a, {}) = [a EXCEPT !.meta = m, !.elem = e]
  BY DEF WithoutSlots
<1> HIDE DEF m, e
<1> QED BY <1>2, <1>3, <1>4 DEF IsArrays, ArraysOf

\* Elements are destroyed, and those that had been moved away go with them.
LEMMA WithoutWellPlaced ==
  ASSUME NEW a, IsArrays(a, Keys), NEW h \in Hashers, NEW moved, WellPlaced(a, h, moved),
         NEW places, moved \subseteq places, places \subseteq MatchReallyOccupied(a),
         NEW b, b = WithoutSlots(a, places)
  PROVE  /\ IsArrays(b, Keys) /\ b.groups = a.groups /\ b.built = a.built
         /\ WellPlaced(b, h, {}) /\ MatchReallyOccupied(b) = MatchReallyOccupied(a) \ places
         /\ Elements(b) = ElementsIn(a, MatchReallyOccupied(a) \ places)
<1> DEFINE O == MatchReallyOccupied(a)
           L == O \ places
<1>1. /\ IsArrays(b, Keys) /\ b.groups = a.groups /\ b.built = a.built /\ b.overflow = a.overflow
      /\ \A g \in Groups(a), n \in Slots :
           /\ <<g, n>> \in places => b.meta[g][n] = Available /\ b.elem[g][n] = NoKey
           /\ <<g, n>> \notin places => b.meta[g][n] = a.meta[g][n] /\ b.elem[g][n] = a.elem[g][n]
  BY SlotsRemoved
<1>2. Places(b) = Places(a) /\ Groups(b) = Groups(a)
  BY <1>1, SameGroups
<1>3. ASSUME NEW p \in Places(a)
      PROVE  /\ p \in places => b.meta[p[1]][p[2]] = Available /\ ElementAt(b, p) = NoKey
             /\ p \notin places => b.meta[p[1]][p[2]] = a.meta[p[1]][p[2]] /\ ElementAt(b, p) = ElementAt(a, p)
  <2>1. p = <<p[1], p[2]>> /\ p[1] \in Groups(a) /\ p[2] \in Slots
    BY PlaceParts
  <2> QED BY <1>1, <2>1 DEF ElementAt
<1>4. O \subseteq Places(a) /\ L \subseteq O \ moved
  BY DEF MatchReallyOccupied
<1>5. MatchReallyOccupied(b) = L
  BY <1>2, <1>3 DEF MatchReallyOccupied, Available
<1>6. SentinelInPlace(b)
  <2>1. CASE ~a.built
    <3>1. a = DummyArrays /\ SentinelInPlace(a)
      BY <2>1 DEF WellPlaced, SentinelInPlace
    <3>2. \A g \in Groups(a), n \in Slots : a.meta[g][n] \in {Available, Sentinel}
      BY <3>1, DummyArraysTyped
    <3>3. O = {}
      BY <3>2, PlaceParts DEF MatchReallyOccupied
    <3>4. places = {}
      BY <3>3
    <3>5. b = a
      BY <3>4, WithoutNone
    <3> QED BY <3>1, <3>5
  <2>2. CASE a.built
    <3> SUFFICES ASSUME NEW g \in Groups(a), NEW n \in Slots
                 PROVE  b.meta[g][n] = Sentinel <=> g = a.groups - 1 /\ n = N - 1
      BY <1>1, <1>2, <2>2 DEF SentinelInPlace
    <3>1. a.meta[g][n] = Sentinel <=> g = a.groups - 1 /\ n = N - 1
      BY <2>2 DEF WellPlaced, SentinelInPlace
    <3>2. <<g, n>> \in places => a.meta[g][n] # Sentinel
      BY DEF MatchReallyOccupied
    <3> QED BY <1>1, <3>1, <3>2 DEF Available, Sentinel
  <2> QED BY <1>1, <2>1, <2>2, ArraysTyped
<1>7. ASSUME NEW p \in L
      PROVE  /\ p \in Places(a) /\ p \in O \ moved /\ ElementAt(b, p) = ElementAt(a, p)
             /\ b.meta[p[1]][p[2]] = a.meta[p[1]][p[2]]
  BY <1>3, <1>4
<1>8. ASSUME NEW p \in L
      PROVE  LET hash == Hash[h][ElementAt(b, p)] IN
             b.meta[p[1]][p[2]] = hash.tag /\ Reached(b, hash, p[1])
  <2> DEFINE e == ElementAt(a, p)
  <2>1. p \in Places(a) /\ p \in O \ moved /\ ElementAt(b, p) = e
        /\ b.meta[p[1]][p[2]] = a.meta[p[1]][p[2]] /\ e \in Keys
    BY <1>7, ElementThere
  <2>2. a.meta[p[1]][p[2]] = Hash[h][e].tag /\ Reached(a, Hash[h][e], p[1])
    BY <2>1 DEF WellPlaced
  <2>3. p[1] \in Groups(a) /\ Hash[h][e] \in Hashes /\ a.groups \in GroupCounts
    BY <2>1, PlaceParts, HashTyped, ArraysTyped
  <2> HIDE DEF e
  <2>4. \A g \in Groups(a) : a.overflow[g] \subseteq b.overflow[g]
    BY <1>1
  <2>5. Reached(b, Hash[h][e], p[1])
    BY <1>1, <2>2, <2>3, <2>4, ReachedMonotone
  <2> QED BY <2>1, <2>2, <2>5
<1>9. \A p \in Places(b) : ElementAt(b, p) # NoKey <=> p \in L
  <2> SUFFICES ASSUME NEW p \in Places(a) PROVE ElementAt(b, p) # NoKey <=> p \in L
    BY <1>2
  <2>1. ElementAt(a, p) # NoKey <=> p \in O \ moved
    BY DEF WellPlaced
  <2> QED BY <1>3, <2>1
<1>10. \A p, q \in L : ElementAt(b, p) = ElementAt(b, q) => p = q
  <2> SUFFICES ASSUME NEW p \in L, NEW q \in L, ElementAt(b, p) = ElementAt(b, q) PROVE p = q
    OBVIOUS
  <2>1. ElementAt(a, p) = ElementAt(a, q) /\ p \in O \ moved /\ q \in O \ moved
    BY <1>7
  <2> QED BY <2>1 DEF WellPlaced
<1>11. WellPlaced(b, h, {})
  <2>1. MatchReallyOccupied(b) \ {} = L /\ {} \subseteq MatchReallyOccupied(b)
    BY <1>5
  <2> HIDE DEF L
  <2> QED BY <1>6, <1>8, <1>9, <1>10, <2>1 DEF WellPlaced
<1>12. Elements(b) = ElementsIn(a, L)
  <2>1. Elements(b) = ElementsIn(b, L)
    <3>1. MatchReallyOccupied(b) \ {} = L
      BY <1>5
    <3> QED BY <1>1, <1>11, <3>1, ElementsAtPlaces
  <2>2. \A p \in L : ElementAt(b, p) = ElementAt(a, p)
    BY <1>7
  <2> HIDE DEF L
  <2> QED BY <2>1, <2>2 DEF ElementsIn
<1> QED BY <1>1, <1>5, <1>11, <1>12

\* Nothing is in the static arrays.
LEMMA StaticUnoccupied ==
  ASSUME NEW a, SentinelInPlace(a), ~a.built
  PROVE  MatchReallyOccupied(a) = {} /\ a = DummyArrays
<1>1. a = DummyArrays
  BY DEF SentinelInPlace
<1>2. \A g \in Groups(a), n \in Slots : a.meta[g][n] \in {Available, Sentinel}
  BY <1>1, DummyArraysTyped
<1> QED BY <1>1, <1>2, PlaceParts DEF MatchReallyOccupied

\* The arrays from whose place p the element has been moved away.
MovedFrom(a, p) == SetElem(a, p[1], p[2], NoKey)

\* An element is moved away from its place.
LEMMA MovedArrays ==
  ASSUME NEW a, IsArrays(a, Keys), NEW p \in MatchReallyOccupied(a), NEW b, b = MovedFrom(a, p)
  PROVE  /\ IsArrays(b, Keys) /\ b.groups = a.groups /\ b.built = a.built
         /\ b.meta = a.meta /\ b.overflow = a.overflow
         /\ MatchReallyOccupied(b) = MatchReallyOccupied(a) /\ ElementAt(b, p) = NoKey
         /\ \A q \in Places(a) : q # p => ElementAt(b, q) = ElementAt(a, q)
<1> DEFINE O == MatchReallyOccupied(a)
<1>1. p \in Places(a) /\ p[1] \in Groups(a) /\ p[2] \in Slots /\ p \in O
  BY PlaceParts DEF MatchReallyOccupied
<1>2. /\ IsArrays(b, Keys) /\ b.groups = a.groups /\ b.built = a.built
      /\ b.meta = a.meta /\ b.overflow = a.overflow /\ b.elem[p[1]][p[2]] = NoKey
      /\ \A g \in Groups(a), n \in Slots : g # p[1] \/ n # p[2] => b.elem[g][n] = a.elem[g][n]
  BY <1>1, ElementWritten DEF MovedFrom
<1>3. Places(b) = Places(a) /\ Groups(b) = Groups(a)
  BY <1>2, SameGroups
<1>4. ElementAt(b, p) = NoKey /\ \A q \in Places(a) : q # p => ElementAt(b, q) = ElementAt(a, q)
  <2>1. ASSUME NEW q \in Places(a), q # p PROVE b.elem[q[1]][q[2]] = a.elem[q[1]][q[2]]
    <3>1. q[1] \in Groups(a) /\ q[2] \in Slots /\ (q[1] # p[1] \/ q[2] # p[2])
      BY <1>1, <2>1, PlaceParts
    <3> QED BY <1>2, <3>1
  <2> QED BY <1>2, <2>1 DEF ElementAt
<1>5. MatchReallyOccupied(b) = O
  BY <1>2, <1>3 DEF MatchReallyOccupied
<1> QED BY <1>2, <1>4, <1>5

LEMMA MovedWellPlaced ==
  ASSUME NEW a, IsArrays(a, Keys), NEW h \in Hashers, NEW moved, WellPlaced(a, h, moved),
         NEW p \in MatchReallyOccupied(a), p \notin moved, NEW b, b = MovedFrom(a, p)
  PROVE  WellPlaced(b, h, moved \cup {p}) /\ Elements(b) = Elements(a) \ {ElementAt(a, p)}
<1> DEFINE O == MatchReallyOccupied(a)
           L == O \ (moved \cup {p})
<1>1. p \in Places(a) /\ p \in O
  BY DEF MatchReallyOccupied
<1>2. /\ IsArrays(b, Keys) /\ b.groups = a.groups /\ b.built = a.built
      /\ b.meta = a.meta /\ b.overflow = a.overflow
      /\ MatchReallyOccupied(b) = O /\ ElementAt(b, p) = NoKey
      /\ \A q \in Places(a) : q # p => ElementAt(b, q) = ElementAt(a, q)
  BY MovedArrays
<1>3. Places(b) = Places(a) /\ Groups(b) = Groups(a)
  BY <1>2, SameGroups
<1>4. ElementAt(b, p) = NoKey /\ \A q \in Places(a) : q # p => ElementAt(b, q) = ElementAt(a, q)
  BY <1>2
<1>5. MatchReallyOccupied(b) = O
  BY <1>2
<1>6. SentinelInPlace(b)
  <2>1. a.built
    BY <1>1, StaticUnoccupied DEF WellPlaced
  <2> QED BY <1>2, <1>3, <2>1 DEF WellPlaced, SentinelInPlace
<1>7. ASSUME NEW q \in L
      PROVE  q \in O \ moved /\ q \in Places(a) /\ q # p /\ ElementAt(b, q) = ElementAt(a, q)
  BY <1>4, ElementThere
<1>8. ASSUME NEW q \in L
      PROVE  LET hash == Hash[h][ElementAt(b, q)] IN
             b.meta[q[1]][q[2]] = hash.tag /\ Reached(b, hash, q[1])
  <2> DEFINE e == ElementAt(a, q)
  <2>1. q \in O \ moved /\ q \in Places(a) /\ ElementAt(b, q) = e /\ e \in Keys
    BY <1>7, ElementThere
  <2>2. a.meta[q[1]][q[2]] = Hash[h][e].tag /\ Reached(a, Hash[h][e], q[1])
    BY <2>1 DEF WellPlaced
  <2>3. q[1] \in Groups(a) /\ Hash[h][e] \in Hashes /\ a.groups \in GroupCounts
    BY <2>1, PlaceParts, HashTyped, ArraysTyped
  <2> HIDE DEF e
  <2>4. \A g \in Groups(a) : a.overflow[g] \subseteq b.overflow[g]
    BY <1>2
  <2>5. Reached(b, Hash[h][e], q[1])
    BY <1>2, <2>2, <2>3, <2>4, ReachedMonotone
  <2> QED BY <1>2, <2>1, <2>2, <2>5
<1>9. \A q \in Places(b) : ElementAt(b, q) # NoKey <=> q \in L
  <2> SUFFICES ASSUME NEW q \in Places(a) PROVE ElementAt(b, q) # NoKey <=> q \in L
    BY <1>3
  <2>1. ElementAt(a, q) # NoKey <=> q \in O \ moved
    BY DEF WellPlaced
  <2> QED BY <1>4, <2>1
<1>10. \A q, r \in L : ElementAt(b, q) = ElementAt(b, r) => q = r
  <2> SUFFICES ASSUME NEW q \in L, NEW r \in L, ElementAt(b, q) = ElementAt(b, r) PROVE q = r
    OBVIOUS
  <2>1. ElementAt(a, q) = ElementAt(a, r) /\ q \in O \ moved /\ r \in O \ moved
    BY <1>7
  <2> QED BY <2>1 DEF WellPlaced
<1>11. WellPlaced(b, h, moved \cup {p})
  <2>1. MatchReallyOccupied(b) \ (moved \cup {p}) = L /\ moved \cup {p} \subseteq MatchReallyOccupied(b)
    BY <1>1, <1>5 DEF WellPlaced
  <2> HIDE DEF L
  <2> QED BY <1>6, <1>8, <1>9, <1>10, <2>1 DEF WellPlaced
<1>12. Elements(b) = Elements(a) \ {ElementAt(a, p)}
  <2>1. Elements(b) = ElementsIn(b, L)
    <3>1. MatchReallyOccupied(b) \ (moved \cup {p}) = L
      BY <1>5
    <3> QED BY <1>2, <1>11, <3>1, ElementsAtPlaces
  <2>2. Elements(a) = ElementsIn(a, O \ moved)
    BY ElementsAtPlaces
  <2>3. \A q \in L : ElementAt(b, q) = ElementAt(a, q) /\ ElementAt(a, q) # ElementAt(a, p)
    BY <1>7 DEF WellPlaced
  <2>4. O \ moved = L \cup {p}
    BY <1>1
  <2> HIDE DEF L, O
  <2> QED BY <2>1, <2>2, <2>3, <2>4 DEF ElementsIn
<1> QED BY <1>11, <1>12

\* A search finds the places of a key: one if it is an element, else none.
LEMMA FoundPlaces ==
  ASSUME NEW a, IsArrays(a, Keys), NEW h \in Hashers, WellPlaced(a, h, {}), NEW k \in Keys
  PROVE  /\ Found(a, Hash[h][k], k) = {p \in MatchReallyOccupied(a) : ElementAt(a, p) = k}
         /\ Found(a, Hash[h][k], k) # {} <=> k \in Elements(a)
         /\ \A p \in Found(a, Hash[h][k], k) : Found(a, Hash[h][k], k) = {p}
<1> DEFINE O == MatchReallyOccupied(a)
           F == Found(a, Hash[h][k], k)
<1>1. \A p \in Places(a) : ElementAt(a, p) # NoKey <=> p \in O
  BY DEF WellPlaced
<1>2. k # NoKey
  BY HashTyped
<1>3. \A p \in O : p \in Places(a) /\ a.meta[p[1]][p[2]] = Hash[h][ElementAt(a, p)].tag
                   /\ Reached(a, Hash[h][ElementAt(a, p)], p[1])
  BY DEF WellPlaced, MatchReallyOccupied
<1>4. F = {p \in Places(a) : /\ a.meta[p[1]][p[2]] = Hash[h][k].tag /\ ElementAt(a, p) = k
                             /\ Reached(a, Hash[h][k], p[1])}
  BY DEF Found, ElementAt
<1>5. F = {p \in O : ElementAt(a, p) = k}
  <2> HIDE DEF F, O
  <2> QED BY <1>1, <1>2, <1>3, <1>4
<1>6. \A p, q \in O : ElementAt(a, p) = ElementAt(a, q) => p = q
  BY DEF WellPlaced
<1>7. Elements(a) = {ElementAt(a, p) : p \in O}
  <2>1. O \ {} = O
    OBVIOUS
  <2> QED BY <2>1, ElementsAtPlaces DEF ElementsIn
<1> HIDE DEF F, O
<1>8. F # {} <=> k \in Elements(a)
  BY <1>5, <1>7
<1>9. \A p \in F : F = {p}
  BY <1>5, <1>6
<1> QED BY <1>5, <1>8, <1>9 DEF F, O

-----------------------------------------------------------------------------
(* Tables *)

LEMMA TableFields ==
  ASSUME NEW t, IsTable(t)
  PROVE  /\ IsArrays(t.arrays, Keys) /\ t.size \in Nat /\ t.ml \in Nat /\ t.h \in Hashers
         /\ t.al \in Allocators /\ t.kind \in {"plain", "concurrent"} /\ t # NoTable
         /\ t.arrays.groups \in GroupCounts /\ t.arrays.built \in BOOLEAN
         /\ Capacity(t.arrays) \in Nat /\ InitialMaxLoad(t.arrays) \in Nat
         /\ InitialMaxLoad(t.arrays) <= Capacity(t.arrays)
         /\ ~t.arrays.built => Capacity(t.arrays) = 0 /\ InitialMaxLoad(t.arrays) = 0
<1>1. /\ IsArrays(t.arrays, Keys) /\ t.size \in Nat /\ t.ml \in Nat /\ t.h \in Hashers
      /\ t.al \in Allocators /\ t.kind \in {"plain", "concurrent"}
  BY DEF IsTable
<1>2. t.arrays.groups \in GroupCounts /\ t.arrays.built \in BOOLEAN
  BY <1>1, ArraysTyped
<1>3. t.arrays \in AllArrays
  BY <1>1 DEF IsArrays, AllArrays
<1>4. t \in TableObjects
  BY <1>3 DEF IsTable, TableObjects
<1> QED BY <1>1, <1>2, <1>4, NoTableAssumption, CapacityTyped

LEMMA TableRecord ==
  ASSUME NEW t, IsTable(t)
  PROVE  t = [arrays |-> t.arrays, size |-> t.size, ml |-> t.ml, h |-> t.h, al |-> t.al,
              kind |-> t.kind]
<1>1. t \in [arrays : {t.arrays}, size : Nat, ml : Nat, h : Hashers, al : Allocators,
             kind : {"plain", "concurrent"}]
  BY DEF IsTable
<1> QED BY <1>1

\* A table with other contents.
Changed(t, a, m, s) ==
  [arrays |-> a, size |-> s, ml |-> m, h |-> t.h, al |-> t.al, kind |-> t.kind]

LEMMA TableChanged ==
  ASSUME NEW t, IsTable(t), NEW a, IsArrays(a, Keys), NEW m \in Nat, NEW s \in Nat
  PROVE  LET u == Changed(t, a, m, s) IN
         /\ IsTable(u) /\ u.arrays = a /\ u.ml = m /\ u.size = s
         /\ u.h = t.h /\ u.al = t.al /\ u.kind = t.kind
<1> DEFINE u == Changed(t, a, m, s)
<1>1. t.h \in Hashers /\ t.al \in Allocators /\ t.kind \in {"plain", "concurrent"}
  BY TableFields
<1>2. u.arrays = a /\ u.ml = m /\ u.size = s /\ u.h = t.h /\ u.al = t.al /\ u.kind = t.kind
  BY DEF Changed
<1>3. u \in [arrays : {a}, size : Nat, ml : Nat, h : Hashers, al : Allocators,
             kind : {"plain", "concurrent"}]
  BY <1>1 DEF Changed
<1> HIDE DEF u
<1>4. IsTable(u)
  BY <1>2, <1>3 DEF IsTable
<1> QED BY <1>2, <1>4 DEF u

\* Arrays without elements and occupied places.
Blank(a) ==
  /\ IsArrays(a, Keys) /\ SentinelInPlace(a)
  /\ \A g \in Groups(a), n \in Slots : a.elem[g][n] = NoKey /\ a.meta[g][n] \in {Available, Sentinel}

LEMMA BlankFresh ==
  ASSUME NEW t, IsTable(t), Blank(t.arrays), Fresh(t), NEW h \in Hashers
  PROVE  Sound(t, h) /\ Elements(t.arrays) = {} /\ MatchReallyOccupied(t.arrays) = {}
<1> DEFINE a == t.arrays
<1>1. WellPlaced(a, h, {}) /\ Elements(a) = {} /\ MatchReallyOccupied(a) = {}
      /\ Cardinality(MatchReallyOccupied(a)) = 0
  BY EmptyWellPlaced DEF Blank
<1>2. t.size = 0 /\ t.ml = InitialMaxLoad(a) /\ t.ml \in Nat /\ InitialMaxLoad(a) <= Capacity(a)
  BY TableFields DEF Fresh
<1>3. Counted(t)
  BY <1>1, <1>2 DEF Counted
<1> QED BY <1>1, <1>3 DEF Sound, Hollow

LEMMA SoundBlank ==
  ASSUME NEW t, NEW h, Sound(t, h), t.size = 0
  PROVE  Blank(t.arrays) /\ Elements(t.arrays) = {} /\ MatchReallyOccupied(t.arrays) = {}
<1>1. IsArrays(t.arrays, Keys) /\ WellPlaced(t.arrays, h, {})
      /\ Cardinality(MatchReallyOccupied(t.arrays)) = 0 /\ SentinelInPlace(t.arrays)
  BY TableFields DEF Sound, Hollow, Counted, WellPlaced
<1> QED BY <1>1, NothingThere DEF Blank

LEMMA BlankDummy == Blank(DummyArrays) /\ InitialMaxLoad(DummyArrays) = 0
<1>1. Blank(DummyArrays) /\ ~DummyArrays.built
  BY DummyArraysTyped DEF Blank
<1>2. Capacity(DummyArrays) = 0 /\ 2 * N - 1 \in Nat
  BY <1>1, SlotsNumbered DEF Capacity
<1> QED BY <1>1, <1>2 DEF InitialMaxLoad

LEMMA TableMade ==
  ASSUME NEW a, Blank(a), NEW h \in Hashers, NEW al \in Allocators,
         NEW kind \in {"plain", "concurrent"}, NEW t, t = Table(a, h, al, kind)
  PROVE  /\ IsTable(t) /\ Fresh(t) /\ t.arrays = a /\ t.h = h /\ t.al = al /\ t.kind = kind
         /\ t.size = 0 /\ \A i \in Hashers : Sound(t, i)
<1>1. t.arrays = a /\ t.h = h /\ t.al = al /\ t.kind = kind /\ t.size = 0
      /\ t.ml = InitialMaxLoad(a)
  BY DEF Table
<1>2. InitialMaxLoad(a) \in Nat /\ IsArrays(a, Keys)
  <2>1. a.groups \in GroupCounts /\ a.built \in BOOLEAN
    BY ArraysTyped DEF Blank
  <2> QED BY <2>1, CapacityTyped DEF Blank
<1>3. IsTable(t)
  <2> DEFINE m == InitialMaxLoad(a)
  <2>1. t = [arrays |-> a, size |-> 0, ml |-> m, h |-> h, al |-> al, kind |-> kind]
    BY DEF Table
  <2> HIDE DEF m
  <2> QED BY <1>2, <2>1 DEF IsTable, m
<1>4. Fresh(t)
  BY <1>1 DEF Fresh
<1> QED BY <1>1, <1>3, <1>4, BlankFresh

\* clear: the arrays stay, and their size; so do the functions.
LEMMA ClearedSound ==
  ASSUME NEW t, NEW h, Sound(t, h), NEW u, u = Cleared(t)
  PROVE  /\ IsTable(u) /\ Fresh(u) /\ Blank(u.arrays) /\ u.size = 0
         /\ u.h = t.h /\ u.al = t.al /\ u.kind = t.kind
         /\ u.arrays.groups = t.arrays.groups /\ u.arrays.built = t.arrays.built
<1> DEFINE a == t.arrays
           b == ClearedArrays(a)
<1>1. IsTable(t) /\ IsArrays(a, Keys) /\ SentinelInPlace(a)
  BY DEF Sound, Hollow, WellPlaced, IsTable
<1>2. IsArrays(b, Keys) /\ b.groups = a.groups /\ b.built = a.built /\ Blank(b)
  BY <1>1, ClearedArraysTyped DEF Blank
<1>3. CASE a.built
  <2>1. u = [t EXCEPT !.arrays = b, !.ml = InitialMaxLoad(b), !.size = 0]
    BY <1>3 DEF Cleared
  <2>2. InitialMaxLoad(b) \in Nat
    <3>1. b.groups \in GroupCounts /\ b.built \in BOOLEAN
      BY <1>2, ArraysTyped
    <3> QED BY <3>1, CapacityTyped
  <2> HIDE DEF b
  <2>3. PICK m \in Nat : m = InitialMaxLoad(b)
    BY <2>2
  <2>4. u = Changed(t, b, m, 0) /\ IsArrays(b, Keys)
    <3>1. u = [t EXCEPT !.arrays = b, !.ml = m, !.size = 0]
      BY <2>1, <2>3
    <3>2. PICK v : v = [t EXCEPT !.arrays = b, !.ml = m]
      OBVIOUS
    <3>3. v = Changed(t, b, m, t.size)
      <4>1. t \in [arrays : {t.arrays}, size : Nat, ml : Nat, h : Hashers, al : Allocators,
                   kind : {"plain", "concurrent"}]
        BY <1>1 DEF IsTable
      <4> QED BY <3>2, <4>1 DEF Changed
    <3>4. u = [v EXCEPT !.size = 0]
      BY <3>1, <3>2
    <3>5. [v EXCEPT !.size = 0] = Changed(t, b, m, 0)
      BY <3>3 DEF Changed
    <3> QED BY <1>2, <3>4, <3>5
  <2>5. /\ IsTable(u) /\ u.arrays = b /\ u.ml = m /\ u.size = 0
        /\ u.h = t.h /\ u.al = t.al /\ u.kind = t.kind
    <3>1. 0 \in Nat
      OBVIOUS
    <3> QED BY <1>1, <2>3, <2>4, <3>1, TableChanged
  <2> QED BY <1>2, <2>3, <2>5 DEF Fresh
<1>4. CASE ~a.built
  <2>1. u = t /\ a = DummyArrays /\ MatchReallyOccupied(a) = {}
    BY <1>1, <1>4, StaticUnoccupied DEF Cleared
  <2>2. t.size = 0
    BY <2>1, FS_EmptySet DEF Sound, Hollow, Counted
  <2>3. t.ml = 0 /\ InitialMaxLoad(a) = 0
    BY <1>1, <1>4, TableFields DEF Sound, Hollow, Counted
  <2>4. Blank(a)
    BY <2>1, BlankDummy
  <2> QED BY <1>1, <2>1, <2>2, <2>3, <2>4 DEF Fresh
<1> QED BY <1>1, <1>3, <1>4, TableFields

\* Other arrays for a table without elements.
LEMMA WithArraysFresh ==
  ASSUME NEW t, IsTable(t), t.size = 0, NEW a, Blank(a), NEW u, u = WithArrays(t, a)
  PROVE  /\ IsTable(u) /\ Fresh(u) /\ u.arrays = a /\ u.size = 0
         /\ u.h = t.h /\ u.al = t.al /\ u.kind = t.kind
<1>1. InitialMaxLoad(a) \in Nat /\ IsArrays(a, Keys)
  <2>1. a.groups \in GroupCounts /\ a.built \in BOOLEAN
    BY ArraysTyped DEF Blank
  <2> QED BY <2>1, CapacityTyped DEF Blank
<1>2. IsTable(u) /\ u.arrays = a /\ u.ml = InitialMaxLoad(a) /\ u.size = t.size
      /\ u.h = t.h /\ u.al = t.al /\ u.kind = t.kind
  <2> DEFINE m == InitialMaxLoad(a)
  <2>1. u = [t EXCEPT !.arrays = a, !.ml = m]
    BY DEF WithArrays
  <2> HIDE DEF m
  <2>2. m \in Nat
    BY <1>1 DEF m
  <2>3. IsTable(u) /\ u.arrays = a /\ u.ml = m /\ u.size = t.size
        /\ u.h = t.h /\ u.al = t.al /\ u.kind = t.kind
    BY <1>1, <2>1, <2>2 DEF IsTable
  <2> QED BY <2>3 DEF m
<1> QED BY <1>2 DEF Fresh

\* An element is inserted where there is room for it.
LEMMA InsertedSound ==
  ASSUME NEW t, Sound(t, t.h), NEW k \in Keys, k \notin Elements(t.arrays), t.size < t.ml,
         NEW u, u = Inserted(t, k)
  PROVE  /\ Sound(u, u.h) /\ u.h = t.h /\ u.al = t.al /\ u.kind = t.kind
         /\ u.size = t.size + 1 /\ u.ml = t.ml
         /\ u.arrays.groups = t.arrays.groups /\ u.arrays.built = t.arrays.built
         /\ InitialMaxLoad(u.arrays) = InitialMaxLoad(t.arrays)
         /\ Elements(u.arrays) = Elements(t.arrays) \cup {k}
<1> DEFINE a == t.arrays
           O == MatchReallyOccupied(a)
<1>1. /\ IsTable(t) /\ IsArrays(a, Keys) /\ t.h \in Hashers /\ t.size \in Nat /\ t.ml \in Nat
      /\ Capacity(a) \in Nat /\ WellPlaced(a, t.h, {})
      /\ t.size = Cardinality(O) /\ t.size <= t.ml /\ t.ml <= Capacity(a)
  BY TableFields DEF Sound, Hollow, Counted
<1>2. PICK b : b = Emplaced(a, Hash[t.h][k], k)
  OBVIOUS
<1>3. Cardinality(O) < Capacity(a)
  BY <1>1
<1>4. /\ IsArrays(b, Keys) /\ b.groups = a.groups /\ b.built = a.built
      /\ WellPlaced(b, t.h, {}) /\ Elements(b) = Elements(a) \cup {k}
      /\ Cardinality(MatchReallyOccupied(b)) = Cardinality(O) + 1
  BY <1>1, <1>2, <1>3, EmplacedWellPlaced
<1>5. PICK s : s = t.size + 1
  OBVIOUS
<1>6. u = Changed(t, b, t.ml, s)
  <2>1. u = [t EXCEPT !.arrays = b, !.size = s]
    BY <1>2, <1>5 DEF Inserted, HashOf
  <2>2. t \in [arrays : {t.arrays}, size : Nat, ml : Nat, h : Hashers, al : Allocators,
               kind : {"plain", "concurrent"}]
    BY <1>1 DEF IsTable
  <2> QED BY <2>1, <2>2 DEF Changed
<1>7. /\ IsTable(u) /\ u.arrays = b /\ u.ml = t.ml /\ u.size = s
      /\ u.h = t.h /\ u.al = t.al /\ u.kind = t.kind
  <2>1. s \in Nat
    BY <1>1, <1>5
  <2>2. LET v == Changed(t, b, t.ml, s) IN
        /\ IsTable(v) /\ v.arrays = b /\ v.ml = t.ml /\ v.size = s
        /\ v.h = t.h /\ v.al = t.al /\ v.kind = t.kind
    <3>1. IsTable(t) /\ IsArrays(b, Keys) /\ t.ml \in Nat /\ s \in Nat
      BY <1>1, <1>4, <2>1
    <3> HIDE DEF a
    <3> QED BY <3>1, TableChanged
  <2> QED BY <1>6, <2>2
<1>8. Capacity(b) = Capacity(a) /\ InitialMaxLoad(b) = InitialMaxLoad(a)
  BY <1>4, SameCapacity
<1>9. Counted(u)
  <2>1. u.size = Cardinality(MatchReallyOccupied(b)) /\ u.size <= u.ml /\ u.ml <= Capacity(b)
    BY <1>1, <1>4, <1>5, <1>7, <1>8
  <2> QED BY <1>7, <2>1 DEF Counted
<1>10. Sound(u, t.h)
  BY <1>1, <1>4, <1>7, <1>9 DEF Sound, Hollow
<1> QED BY <1>4, <1>5, <1>7, <1>8, <1>10

\* The element's construction fails: some overflow bits are set.
LEMMA InsertFailedSound ==
  ASSUME NEW t, Sound(t, t.h), NEW k \in Keys, t.size < t.ml,
         NEW u, u = InsertFailed(t, k)
  PROVE  /\ Sound(u, u.h) /\ u.h = t.h /\ u.al = t.al /\ u.kind = t.kind
         /\ u.size = t.size /\ Elements(u.arrays) = Elements(t.arrays)
<1> DEFINE a == t.arrays
           O == MatchReallyOccupied(a)
<1>1. /\ IsTable(t) /\ IsArrays(a, Keys) /\ t.h \in Hashers /\ t.size \in Nat /\ t.ml \in Nat
      /\ Capacity(a) \in Nat /\ WellPlaced(a, t.h, {}) /\ (~a.built => Capacity(a) = 0)
      /\ t.size = Cardinality(O) /\ t.size <= t.ml /\ t.ml <= Capacity(a)
  BY TableFields DEF Sound, Hollow, Counted
<1>2. PICK b : b = PassedMarked(a, Hash[t.h][k])
  OBVIOUS
<1>3. /\ IsArrays(b, Keys) /\ b.groups = a.groups /\ b.built = a.built
      /\ b.meta = a.meta /\ b.elem = a.elem
      /\ \A g \in Groups(a) : a.overflow[g] \subseteq b.overflow[g]
  BY <1>1, <1>2, PassedMarkedTyped, HashTyped
<1>4. WellPlaced(b, t.h, {}) /\ Elements(b) = Elements(a) /\ MatchReallyOccupied(b) = O
  <2>1. a.built
    BY <1>1
  <2> QED BY <1>1, <1>3, <2>1, MarkedWellPlaced
<1>5. u = Changed(t, b, t.ml, t.size)
  <2>1. u = [t EXCEPT !.arrays = b]
    BY <1>2 DEF InsertFailed, HashOf
  <2>2. t \in [arrays : {t.arrays}, size : Nat, ml : Nat, h : Hashers, al : Allocators,
               kind : {"plain", "concurrent"}]
    BY <1>1 DEF IsTable
  <2> QED BY <2>1, <2>2 DEF Changed
<1>6. /\ IsTable(u) /\ u.arrays = b /\ u.ml = t.ml /\ u.size = t.size
      /\ u.h = t.h /\ u.al = t.al /\ u.kind = t.kind
  <2>2. LET v == Changed(t, b, t.ml, t.size) IN
        /\ IsTable(v) /\ v.arrays = b /\ v.ml = t.ml /\ v.size = t.size
        /\ v.h = t.h /\ v.al = t.al /\ v.kind = t.kind
    <3>1. IsTable(t) /\ IsArrays(b, Keys) /\ t.ml \in Nat /\ t.size \in Nat
      BY <1>1, <1>3
    <3> HIDE DEF a
    <3> QED BY <3>1, TableChanged DEF Changed
  <2> QED BY <1>5, <2>2
<1>7. Capacity(b) = Capacity(a)
  BY <1>3, SameCapacity
<1>8. Counted(u)
  BY <1>1, <1>4, <1>6, <1>7 DEF Counted
<1>9. Sound(u, t.h)
  BY <1>1, <1>4, <1>6, <1>8 DEF Sound, Hollow
<1> QED BY <1>4, <1>6, <1>9

\* Slots are recovered, among them all those whose elements were moved away.
LEMMA RecoveredSound ==
  ASSUME NEW t, NEW h, NEW moved, Hollow(t, h, moved), NEW places, moved \subseteq places,
         places \subseteq MatchReallyOccupied(t.arrays), NEW u, u = Recovered(t, places)
  PROVE  /\ Sound(u, h) /\ u.h = t.h /\ u.al = t.al /\ u.kind = t.kind
         /\ MatchReallyOccupied(u.arrays) = MatchReallyOccupied(t.arrays) \ places
         /\ \A rest : rest = MatchReallyOccupied(t.arrays) \ places =>
              Elements(u.arrays) = ElementsIn(t.arrays, rest)
         /\ u.arrays.groups = t.arrays.groups
<1> DEFINE a == t.arrays
           O == MatchReallyOccupied(a)
           D == {p \in places : MaybeCausedOverflow(a, p[1], p[2])}
<1>1. /\ IsTable(t) /\ IsArrays(a, Keys) /\ h \in Hashers /\ t.size \in Nat /\ t.ml \in Nat
      /\ Capacity(a) \in Nat /\ WellPlaced(a, h, moved)
      /\ t.size = Cardinality(O) /\ t.size <= t.ml /\ t.ml <= Capacity(a)
  BY TableFields DEF Sound, Hollow, Counted
<1>2. PICK b : b = WithoutSlots(a, places)
  OBVIOUS
<1>3. /\ IsArrays(b, Keys) /\ b.groups = a.groups /\ b.built = a.built
      /\ WellPlaced(b, h, {}) /\ MatchReallyOccupied(b) = O \ places
      /\ Elements(b) = ElementsIn(a, O \ places)
  BY <1>1, <1>2, WithoutWellPlaced
<1>4. PICK d : d = Drift(a, places)
  OBVIOUS
<1>5. PICK c : c = Cardinality(places)
  OBVIOUS
<1>6. c \in Nat /\ d \in Nat /\ d <= c /\ c <= Cardinality(O)
      /\ Cardinality(O \ places) = Cardinality(O) - c
  <2>1. IsFiniteSet(O)
    <3>1. 0 \in Nat
      OBVIOUS
    <3> QED BY <1>1, <3>1, OccupiedFinite
  <2>2. D \subseteq places /\ d = Cardinality(D)
    BY <1>4 DEF Drift
  <2> HIDE DEF D, O
  <2>3. places \subseteq O
    BY DEF O
  <2>4. IsFiniteSet(places) /\ Cardinality(places) <= Cardinality(O)
    BY <2>1, <2>3, FS_Subset
  <2>5. IsFiniteSet(D) /\ Cardinality(D) <= Cardinality(places)
    BY <2>2, <2>4, FS_Subset
  <2>6. O \cap places = places
    BY <2>3
  <2>7. Cardinality(O \ places) = Cardinality(O) - Cardinality(places)
    BY <2>1, <2>6, FS_Difference
  <2> QED BY <1>5, <2>2, <2>4, <2>5, <2>7, FS_CardinalityType
<1>7. u = Changed(t, b, t.ml - d, t.size - c)
  <2>1. u = [t EXCEPT !.arrays = b, !.ml = t.ml - d, !.size = t.size - c]
    BY <1>2, <1>4, <1>5 DEF Recovered
  <2>2. PICK m : m = t.ml - d
    OBVIOUS
  <2>3. PICK s : s = t.size - c
    OBVIOUS
  <2>4. PICK v : v = [t EXCEPT !.arrays = b, !.ml = m]
    OBVIOUS
  <2>5. v = Changed(t, b, m, t.size)
    <3>1. t \in [arrays : {t.arrays}, size : Nat, ml : Nat, h : Hashers, al : Allocators,
                 kind : {"plain", "concurrent"}]
      BY <1>1 DEF IsTable
    <3> QED BY <2>4, <3>1 DEF Changed
  <2>6. u = [v EXCEPT !.size = s]
    BY <2>1, <2>2, <2>3, <2>4
  <2>7. [v EXCEPT !.size = s] = Changed(t, b, m, s)
    BY <2>5 DEF Changed
  <2> QED BY <2>2, <2>3, <2>6, <2>7
<1>8. t.ml - d \in Nat /\ t.size - c \in Nat /\ t.size - c <= t.ml - d /\ t.ml - d <= Capacity(a)
  <2> HIDE DEF O
  <2> QED BY <1>1, <1>6
<1>9. /\ IsTable(u) /\ u.arrays = b /\ u.ml = t.ml - d /\ u.size = t.size - c
      /\ u.h = t.h /\ u.al = t.al /\ u.kind = t.kind
  <2>2. LET v == Changed(t, b, (t.ml - d), (t.size - c)) IN
        /\ IsTable(v) /\ v.arrays = b /\ v.ml = (t.ml - d) /\ v.size = (t.size - c)
        /\ v.h = t.h /\ v.al = t.al /\ v.kind = t.kind
    <3>1. IsTable(t) /\ IsArrays(b, Keys) /\ t.ml - d \in Nat /\ t.size - c \in Nat
      BY <1>1, <1>3, <1>8
    <3> QED BY <3>1, TableChanged DEF Changed
  <2> QED BY <1>7, <2>2
<1>10. Capacity(b) = Capacity(a)
  BY <1>3, SameCapacity
<1>11. Counted(u)
  BY <1>1, <1>3, <1>6, <1>8, <1>9, <1>10 DEF Counted
<1>12. Sound(u, h)
  BY <1>1, <1>3, <1>9, <1>11 DEF Sound, Hollow
<1> QED BY <1>3, <1>9, <1>12

\* One element is erased.
LEMMA OneErased ==
  ASSUME NEW t, NEW h, Sound(t, h), NEW p \in MatchReallyOccupied(t.arrays)
  PROVE  ElementsIn(t.arrays, MatchReallyOccupied(t.arrays) \ {p})
           = Elements(t.arrays) \ {ElementAt(t.arrays, p)}
<1> DEFINE a == t.arrays
           O == MatchReallyOccupied(a)
<1>1. IsArrays(a, Keys) /\ WellPlaced(a, h, {})
  BY TableFields DEF Sound, Hollow
<1>2. Elements(a) = ElementsIn(a, O)
  <2>1. O \ {} = O
    OBVIOUS
  <2> QED BY <1>1, <2>1, ElementsAtPlaces
<1>3. \A q \in O : ElementAt(a, q) = ElementAt(a, p) => q = p
  BY <1>1 DEF WellPlaced
<1> HIDE DEF O, a
<1>4. ElementsIn(a, O \ {p}) = ElementsIn(a, O) \ {ElementAt(a, p)}
  <2>1. p \in O
    BY DEF O, a
  <2> QED BY <1>3, <2>1 DEF ElementsIn
<1> QED BY <1>2, <1>4 DEF O, a

\* What a search for a key of the table, or for any other, finds.
LEMMA SearchResult ==
  ASSUME NEW t, Sound(t, t.h), NEW k \in Keys
  PROVE  /\ IsIn(t, k) <=> k \in Elements(t.arrays)
         /\ Found(t.arrays, HashOf(t, k), k) \subseteq MatchReallyOccupied(t.arrays)
         /\ \A p \in Found(t.arrays, HashOf(t, k), k) :
              Found(t.arrays, HashOf(t, k), k) = {p} /\ ElementAt(t.arrays, p) = k
<1>1. IsArrays(t.arrays, Keys) /\ WellPlaced(t.arrays, t.h, {}) /\ t.h \in Hashers
  BY TableFields DEF Sound, Hollow
<1> QED BY <1>1, FoundPlaces DEF IsIn, HashOf

LEMMA KeysErased ==
  ASSUME NEW t, Sound(t, t.h), NEW k \in Keys, NEW u,
         u = Recovered(t, Found(t.arrays, HashOf(t, k), k))
  PROVE  /\ Sound(u, u.h) /\ u.h = t.h /\ u.al = t.al /\ u.kind = t.kind
         /\ Elements(u.arrays) = Elements(t.arrays) \ {k}
<1> DEFINE a == t.arrays
           F == Found(a, HashOf(t, k), k)
           O == MatchReallyOccupied(a)
<1>1. F \subseteq O /\ (IsIn(t, k) <=> k \in Elements(a))
      /\ \A p \in F : F = {p} /\ ElementAt(a, p) = k
  BY SearchResult
<1>2. /\ Sound(u, t.h) /\ u.h = t.h /\ u.al = t.al /\ u.kind = t.kind
      /\ Elements(u.arrays) = ElementsIn(a, O \ F)
  <2>1. Hollow(t, t.h, {}) /\ {} \subseteq F
    BY DEF Sound
  <2>2. /\ Sound(u, t.h) /\ u.h = t.h /\ u.al = t.al /\ u.kind = t.kind
        /\ \A rest : rest = O \ F => Elements(u.arrays) = ElementsIn(a, rest)
    BY <1>1, <2>1, RecoveredSound
  <2> HIDE DEF O, F, a
  <2> QED BY <2>2
<1>3. ElementsIn(a, O \ F) = Elements(a) \ {k}
  <2>1. CASE F = {}
    <3>1. k \notin Elements(a)
      BY <1>1, <2>1 DEF IsIn
    <3>2. Elements(a) = ElementsIn(a, O \ {})
      <4>1. IsArrays(a, Keys) /\ WellPlaced(a, t.h, {})
        BY TableFields DEF Sound, Hollow
      <4> QED BY <4>1, ElementsAtPlaces
    <3> QED BY <2>1, <3>1, <3>2
  <2>2. CASE F # {}
    <3>1. PICK p \in F : F = {p} /\ ElementAt(a, p) = k
      BY <1>1, <2>2
    <3>2. p \in O
      BY <1>1
    <3>3. ElementsIn(a, O \ {p}) = Elements(a) \ {ElementAt(a, p)}
      BY <3>2, OneErased
    <3> HIDE DEF F
    <3> QED BY <3>1, <3>3
  <2> QED BY <2>1, <2>2
<1> QED BY <1>2, <1>3

-----------------------------------------------------------------------------
(* Sizes *)

\* There are arrays for n elements, and for what an insertion among them asks.
Roomy(n) == \E g \in GroupCounts : N * g > SlotsFor(n + n \div 61 + 1)

LEMMA RoomyFewer ==
  ASSUME NEW n \in Nat, Roomy(n), NEW i \in Nat, i <= n
  PROVE  Roomy(i)
<1> DEFINE a == n + n \div 61 + 1
           b == i + i \div 61 + 1
<1>1. a \in Nat /\ b \in Nat /\ b <= a
  OBVIOUS
<1>2. SlotsFor(b) <= SlotsFor(a) /\ SlotsFor(a) \in Nat /\ SlotsFor(b) \in Nat
  <2> HIDE DEF a, b
  <2> QED BY <1>1 DEF SlotsFor
<1>3. PICK g \in GroupCounts : N * g > SlotsFor(a)
  BY DEF Roomy
<1>4. N * g \in Nat
  BY SlotsNumbered, GroupsPositive
<1>5. N * g > SlotsFor(b)
  <2> HIDE DEF a, b
  <2> QED BY <1>2, <1>3, <1>4
<1> QED BY <1>5 DEF Roomy

\* Arrays asked for by number are large enough.
LEMMA ArraysEnough ==
  ASSUME NEW n \in Nat, NEW m \in Nat, \E g \in GroupCounts : N * g > SlotsFor(m), SlotsFor(m) <= n,
         \E g \in GroupCounts : N * g > n, NEW a, a = ArraysFor(n)
  PROVE  Blank(a) /\ m <= InitialMaxLoad(a) /\ n <= Capacity(a)
<1>1. Blank(a) /\ n <= Capacity(a)
  BY ArraysForEnough DEF Blank
<1>2. a.groups \in GroupCounts /\ a.built \in BOOLEAN /\ Capacity(a) \in Nat /\ SlotsFor(m) \in Nat
  <2>1. a.groups \in GroupCounts /\ a.built \in BOOLEAN
    BY <1>1, ArraysTyped DEF Blank
  <2> QED BY <2>1, CapacityTyped DEF SlotsFor
<1>3. SlotsFor(m) <= Capacity(a)
  BY <1>1, <1>2
<1> QED BY <1>1, <1>2, <1>3, MaxLoadEnough

LEMMA CapacityForEnough ==
  ASSUME NEW n \in Nat, \E g \in GroupCounts : N * g > n
  PROVE  /\ CapacityFor(n) \in Nat /\ CapacityFor(n) >= n /\ CapacityFor(n) # 0
         /\ \E g \in GroupCounts : N * g > CapacityFor(n)
<1>1. GroupsFor(n) \in GroupCounts /\ N * GroupsFor(n) > n
  BY GroupsForEnough
<1>2. PICK G \in GroupCounts : G = GroupsFor(n)
  BY <1>1
<1>3. N \in Nat /\ N > 0 /\ G \in Nat /\ G > 1 /\ N * G > n
  BY <1>1, <1>2, SlotsNumbered, GroupCountsAssumption
<1>4. PICK c : c = N * G
  OBVIOUS
<1>5. c \in Nat /\ c > 1 /\ G * N = c
  <2>1. c \in Nat /\ G * N = c
    BY <1>3, <1>4
  <2>2. N * G >= 1 * G
    BY <1>3
  <2> QED BY <1>3, <1>4, <2>1, <2>2
<1>6. CapacityFor(n) = c - 1
  BY <1>2, <1>5 DEF CapacityFor
<1> QED BY <1>3, <1>4, <1>5, <1>6

\* The arrays of a rehash for one more element take all and this one.
LEMMA GrowthRoom ==
  ASSUME NEW n \in Nat, Roomy(n), NEW a, a = GrowthArrays(n)
  PROVE  Blank(a) /\ n + 1 <= InitialMaxLoad(a) /\ InitialMaxLoad(a) <= Capacity(a)
<1> DEFINE m == n + n \div 61 + 1
<1>1. m \in Nat /\ n + 1 <= m
  OBVIOUS
<1>2. a = ArraysFor(SlotsFor(m)) /\ \E g \in GroupCounts : N * g > SlotsFor(m)
  BY DEF GrowthArrays, Roomy
<1> HIDE DEF m
<1>3. SlotsFor(m) \in Nat /\ SlotsFor(m) <= SlotsFor(m)
  BY <1>1 DEF SlotsFor
<1>4. Blank(a) /\ m <= InitialMaxLoad(a)
  BY <1>1, <1>2, <1>3, ArraysEnough
<1>5. InitialMaxLoad(a) \in Nat /\ InitialMaxLoad(a) <= Capacity(a)
  <2>1. a.groups \in GroupCounts /\ a.built \in BOOLEAN
    BY <1>4, ArraysTyped DEF Blank
  <2> QED BY <2>1, CapacityTyped
<1> QED BY <1>1, <1>4, <1>5

\* Those of a reservation take as many elements as it is for.
LEMMA ReserveRoom ==
  ASSUME NEW n \in Nat, Roomy(n)
  PROVE  /\ SlotsFor(n) \in Nat /\ n <= SlotsFor(n)
         /\ \E g \in GroupCounts : N * g > SlotsFor(n)
         /\ Blank(ArraysFor(SlotsFor(n))) /\ n <= InitialMaxLoad(ArraysFor(SlotsFor(n)))
         /\ LET c == CapacityFor(SlotsFor(n)) IN
            /\ c \in Nat /\ c # 0 /\ \E g \in GroupCounts : N * g > c
            /\ Blank(ArraysFor(c)) /\ n <= InitialMaxLoad(ArraysFor(c))
            /\ SlotsFor(n) <= c
<1>1. SlotsFor(n) \in Nat /\ n <= SlotsFor(n)
  BY DEF SlotsFor
<1>2. \E g \in GroupCounts : N * g > SlotsFor(n)
  <2> DEFINE m == n + n \div 61 + 1
  <2>1. m \in Nat /\ n <= m
    OBVIOUS
  <2>2. PICK g \in GroupCounts : N * g > SlotsFor(m)
    BY DEF Roomy
  <2>3. N * g \in Nat
    BY SlotsNumbered, GroupsPositive
  <2> HIDE DEF m
  <2>4. SlotsFor(n) <= SlotsFor(m) /\ SlotsFor(m) \in Nat
    BY <2>1 DEF SlotsFor
  <2>5. N * g > SlotsFor(n)
    BY <1>1, <2>2, <2>3, <2>4
  <2> QED BY <2>5
<1>3. PICK c : c = CapacityFor(SlotsFor(n))
  OBVIOUS
<1>4. c \in Nat /\ c # 0 /\ SlotsFor(n) <= c /\ \E g \in GroupCounts : N * g > c
  BY <1>1, <1>2, <1>3, CapacityForEnough
<1>5. Blank(ArraysFor(SlotsFor(n))) /\ n <= InitialMaxLoad(ArraysFor(SlotsFor(n)))
  BY <1>1, <1>2, ArraysEnough
<1>6. Blank(ArraysFor(c)) /\ n <= InitialMaxLoad(ArraysFor(c))
  BY <1>1, <1>2, <1>4, ArraysEnough
<1> QED BY <1>1, <1>2, <1>3, <1>4, <1>5, <1>6

\* Arrays that a reservation keeps are large enough too.
LEMMA EnoughRoom ==
  ASSUME NEW n \in Nat, Roomy(n), NEW t, IsTable(t), EnoughFor(t, n)
  PROVE  n <= InitialMaxLoad(t.arrays)
<1>1. /\ t.arrays.groups \in GroupCounts /\ t.arrays.built \in BOOLEAN
      /\ InitialMaxLoad(t.arrays) \in Nat /\ Capacity(t.arrays) \in Nat
  BY TableFields
<1>2. CASE n = 0
  BY <1>1, <1>2
<1>3. CASE CapacityFor(SlotsFor(n)) <= Capacity(t.arrays)
  <2>1. SlotsFor(n) \in Nat /\ SlotsFor(n) <= CapacityFor(SlotsFor(n)) /\ CapacityFor(SlotsFor(n)) \in Nat
    BY ReserveRoom
  <2>2. SlotsFor(n) <= Capacity(t.arrays)
    BY <1>1, <1>3, <2>1
  <2> QED BY <1>1, <2>2, MaxLoadEnough
<1> QED BY <1>2, <1>3 DEF EnoughFor

-----------------------------------------------------------------------------
(* States and steps *)

LEMMA ActFields ==
  ASSUME NEW c, IsAct(c)
  PROVE  /\ c.op \in OfOne \cup OfTwo \cup {"none"} /\ c.x \in Tables \cup {NoTable}
         /\ c.y \in Tables \cup {NoTable} /\ c.key \in Keys \cup {NoKey} /\ c.n \in Nat
         /\ c.pc \in Pcs /\ IsArrays(c.new, Keys) /\ c.cursor \in Nat /\ c.outer \in Nat
         /\ c.res \in Results
BY DEF IsAct

LEMMA RoomForAll ==
  ASSUME TypeOK
  PROVE  /\ Cardinality(Keys) \in Nat
         /\ \A n \in Nat : n <= Cardinality(Keys) => Roomy(n)
         /\ \A n \in Numbers : n \in Nat /\ Roomy(n)
<1>1. IsFiniteSet(Keys) /\ Cardinality(Keys) \in Nat
  BY EnoughGroupsAssumption, FS_CardinalityType
<1>2. use.sizes \subseteq Nat /\ \A n \in use.sizes \cup {Cardinality(Keys)} : Roomy(n)
  <2>1. use \in Uses
    BY DEF TypeOK
  <2> QED BY <2>1, UsesAssumption, EnoughGroupsAssumption DEF Roomy
<1>3. ASSUME NEW n \in Nat, n <= Cardinality(Keys) PROVE Roomy(n)
  BY <1>1, <1>2, <1>3, RoomyFewer
<1>4. ASSUME NEW n \in Numbers PROVE n \in Nat /\ Roomy(n)
  <2>1. n \in use.sizes \/ n = 0
    BY DEF Numbers
  <2>2. CASE n = 0
    BY <1>1, <1>3, <2>2
  <2> QED BY <1>2, <2>1, <2>2
<1> QED BY <1>1, <1>3, <1>4

LEMMA SizeOfKeys ==
  ASSUME NEW t, NEW h, NEW moved, Hollow(t, h, moved), moved = {}
  PROVE  t.size \in Nat /\ t.size <= Cardinality(Keys)
<1>1. IsArrays(t.arrays, Keys) /\ t.size \in Nat /\ WellPlaced(t.arrays, h, {})
      /\ t.size = Cardinality(MatchReallyOccupied(t.arrays))
  BY TableFields DEF Hollow, Counted
<1> QED BY <1>1, ElementsPerPlace

\* What is in a table after the step, and the tables that a step leaves alone.
After(z)  == IF tab'[z] = NoTable THEN {} ELSE Elements(tab'[z].arrays)
Stays(zs) == tab' = [z \in Tables |-> tab'[z]] /\ \A z \in Tables \ zs : tab'[z] = tab[z]
\* The call goes on, at the point p.
SameCall(p) ==
  /\ IsAct(act') /\ act'.pc = p
  /\ act'.op = act.op /\ act'.x = act.x /\ act'.y = act.y /\ act'.key = act.key /\ act'.n = act.n

LEMMA ContentsOf ==
  ASSUME NEW z \in Tables
  PROVE  /\ Contents(z) = IF tab[z] = NoTable THEN {} ELSE Elements(tab[z].arrays)
         /\ Contents(z)' = After(z)
         /\ (z \in Built <=> tab[z] # NoTable) /\ (z \in Built' <=> tab'[z] # NoTable)
BY DEF Contents, Built, After

LEMMA NothingSet ==
  ASSUME TypeOK, UNCHANGED tab
  PROVE  Stays({}) /\ \A z \in Tables : tab'[z] = tab[z] /\ After(z) = Contents(z)
<1>1. tab' = tab
  OBVIOUS
<1>2. \A z \in Tables : After(z) = Contents(z)
  BY <1>1, ContentsOf DEF After
<1> QED BY <1>1, <1>2 DEF TypeOK, Stays

LEMMA OneSet ==
  ASSUME TypeOK, ArgumentsOK, NEW t, SetX(t)
  PROVE  Stays({act.x}) /\ Stays({act.x, act.y}) /\ tab'[act.x] = t
<1>1. tab = [z \in Tables |-> tab[z]] /\ act.x \in Tables /\ tab' = [tab EXCEPT ![act.x] = t]
  BY DEF TypeOK, ArgumentsOK, SetX
<1> QED BY <1>1 DEF Stays

LEMMA TwoSet ==
  ASSUME TypeOK, ArgumentsOK, NEW t, NEW u, SetXY(t, u)
  PROVE  /\ Stays({act.x, act.y}) /\ tab'[act.y] = u
         /\ act.x # act.y => tab'[act.x] = t
<1>1. tab = [z \in Tables |-> tab[z]] /\ act.x \in Tables /\ act.y \in Tables
      /\ tab' = [tab EXCEPT ![act.x] = t, ![act.y] = u]
  BY DEF TypeOK, ArgumentsOK, SetXY
<1> QED BY <1>1 DEF Stays

LEMMA ActFinishes ==
  ASSUME IsAct(act), NEW r \in Results, act' = [act EXCEPT !.pc = "done", !.res = r]
  PROVE  SameCall("done") /\ act'.res = r
<1>1. act \in [op : OfOne \cup OfTwo \cup {"none"}, x : Tables \cup {NoTable},
               y : Tables \cup {NoTable}, key : Keys \cup {NoKey}, n : Nat, pc : Pcs,
               new : {act.new}, cursor : Nat, outer : Nat, res : Results] /\ IsArrays(act.new, Keys)
  BY DEF IsAct
<1>2. /\ act' \in [op : OfOne \cup OfTwo \cup {"none"}, x : Tables \cup {NoTable},
               y : Tables \cup {NoTable}, key : Keys \cup {NoKey}, n : Nat, pc : Pcs,
               new : {act.new}, cursor : Nat, outer : Nat, res : Results]
      /\ act'.pc = "done" /\ act'.res = r /\ act'.new = act.new
      /\ act'.op = act.op /\ act'.x = act.x /\ act'.y = act.y /\ act'.key = act.key /\ act'.n = act.n
  BY <1>1 DEF Pcs
<1>3. IsAct(act')
  BY <1>1, <1>2 DEF IsAct
<1> QED BY <1>2, <1>3 DEF SameCall


\* What CallsDeliver asks for when the call returns, of the contents of its tables.
Delivered(cx, cy) ==
  LET x == act.x
      y == act.y
      Then(dx, dy) == cx = dx /\ (y # x => cy = dy)
  IN  /\ act.op = "emplace" => Then(was[x] \cup {act.key}, {})
      /\ act.op \in {"erase", "pull"} => Then(was[x] \ {act.key}, {})
      /\ act.op \in {"clear", "destroy", "construct"} => Then({}, {})
      /\ act.op = "rehash" => Then(was[x], {})
      /\ act.op \in {"copy_construct", "copy_assign"} => Then(was[y], was[y])
      /\ act.op \in {"move_construct", "move_assign", "convert"} => Then(was[y], {})
      /\ act.op = "load" => Cardinality(cx) = act.n
      /\ act.op = "swap" => Then(was[y], was[x])
      /\ act.op = "merge" => Then(was[x] \cup was[y], was[x] \cap was[y])

LEMMA Untouched ==
  ASSUME IInv, Active, Stays({act.x, act.y})
  PROVE  /\ ArgumentsOK /\ Unfinished \subseteq {act.x, act.y}
         /\ \A z \in Tables \ {act.x, act.y} :
              /\ tab'[z] = tab[z] /\ After(z) = was[z]
              /\ tab'[z] # NoTable => IsTable(tab'[z]) /\ Sound(tab'[z], tab'[z].h)
<1>1. ArgumentsOK /\ Unfinished \subseteq {act.x, act.y}
  BY DEF IInv, ControlOK, Active, Unfinished
<1>2. ASSUME NEW z \in Tables \ {act.x, act.y}
      PROVE  /\ tab'[z] = tab[z] /\ After(z) = was[z]
             /\ tab'[z] # NoTable => IsTable(tab'[z]) /\ Sound(tab'[z], tab'[z].h)
  <2>1. tab'[z] = tab[z]
    BY DEF Stays
  <2>2. Contents(z) = was[z] /\ After(z) = Contents(z)
    BY <2>1, ContentsOf DEF IInv, HistoryOK, Active, After
  <2>3. tab[z] # NoTable => Sound(tab[z], tab[z].h) /\ IsTable(tab[z])
    BY <1>1 DEF IInv, TablesOK, TypeOK, Built
  <2> QED BY <2>1, <2>2, <2>3
<1> QED BY <1>1, <1>2

LEMMA TypesKept ==
  ASSUME IInv, Active, UNCHANGED <<use, was>>, NEW p, SameCall(p), Stays({act.x, act.y}),
         tab'[act.x] # NoTable => IsTable(tab'[act.x]),
         tab'[act.y] # NoTable => IsTable(tab'[act.y])
  PROVE  TypeOK' /\ ArgumentsOK'
<1>1. \A z \in Built' : IsTable(tab'[z])
  BY Untouched DEF Built
<1>2. tab' = [z \in Tables |-> tab'[z]] /\ was' = was /\ use' = use /\ IsAct(act')
  BY DEF Stays, SameCall
<1>3. was \in [Tables -> SUBSET Keys] /\ use \in Uses
  BY DEF IInv, TypeOK
<1>4. TypeOK'
  BY <1>1, <1>2, <1>3 DEF TypeOK
<1>5. ArgumentsOK
  BY Untouched
<1>6. Numbers' = Numbers
  BY <1>2 DEF Numbers
<1>7. ArgumentsOK'
  BY <1>2, <1>5, <1>6 DEF ArgumentsOK, SameCall
<1> QED BY <1>4, <1>7

LEMMA Delivering ==
  ASSUME IInv, Active, UNCHANGED <<use, was>>, SameCall("done"), Stays({act.x, act.y}),
         act'.res \in {"ok", "found"} => Delivered(After(act.x), After(act.y))
  PROVE  CallsDeliver'
<1>1. ArgumentsOK
  BY Untouched
<1>2. Contents(act.x)' = After(act.x) /\ Contents(act.y)' = After(act.y)
      /\ \A z \in Tables \ {act.x, act.y} : Contents(z)' = was[z]
  <2>1. act.x \in Tables /\ act.y \in Tables /\ act'.x = act.x /\ act'.y = act.y
    BY <1>1 DEF ArgumentsOK, SameCall
  <2>2. \A z \in Tables : Contents(z)' = After(z)
    BY ContentsOf
  <2>3. Contents(act.x)' = After(act'.x) /\ Contents(act.y)' = After(act'.y)
    BY <2>1, <2>2
  <2> QED BY <2>1, <2>2, <2>3, Untouched
<1> QED BY <1>2 DEF CallsDeliver, Delivered, SameCall, Succeeded

\* The call ends with sound tables and has delivered, or it fails.
LEMMA Finishing ==
  ASSUME IInv, Active, UNCHANGED <<use, was>>, SameCall("done"), Stays({act.x, act.y}),
         tab'[act.x] # NoTable => Sound(tab'[act.x], tab'[act.x].h),
         tab'[act.y] # NoTable => Sound(tab'[act.y], tab'[act.y].h),
         act'.res \in {"ok", "found"} => Delivered(After(act.x), After(act.y)),
         act'.res \notin {"ok", "found"} /\ ~MoveOnRehash /\ act.op \in {"emplace", "rehash"}
           => After(act.x) = was[act.x]
  PROVE  IInv'
<1>1. TypeOK' /\ ArgumentsOK'
  BY TypesKept DEF Sound, Hollow
<1>2. CallsDeliver'
  BY Delivering
<1>3. \A z \in Built' : Sound(tab'[z], tab'[z].h)
  BY Untouched DEF Built
<1>4. \A z \in Tables \ {act.x, act.y} : Contents(z)' = was'[z]
  BY Untouched, ContentsOf
<1>5. act'.pc = "done" /\ act'.x = act.x /\ act'.y = act.y /\ act'.op = act.op
  BY DEF SameCall
<1>6. StrongGuarantee'
  <2>1. Contents(act.x)' = After(act.x)
    BY <1>5, Untouched, ContentsOf DEF ArgumentsOK
  <2>2. MoveOnRehash' = MoveOnRehash
    BY DEF MoveOnRehash
  <2> QED BY <1>5, <2>1, <2>2 DEF StrongGuarantee, Failed
<1>7. ControlOK' /\ TablesOK' /\ HistoryOK'
  BY <1>1, <1>3, <1>4, <1>5 DEF ControlOK, TablesOK, HistoryOK, Active, Beginnings
<1>8. RehashOK' /\ MergeOK' /\ CopyOK' /\ MoveOK' /\ AssignOK' /\ FillOK'
  BY <1>5 DEF RehashOK, MergeOK, CopyOK, MoveOK, AssignOK, FillOK
<1> QED BY <1>1, <1>2, <1>6, <1>7, <1>8 DEF IInv

\* The call goes on.
LEMMA Continuing ==
  ASSUME IInv, Active, UNCHANGED <<use, was>>, NEW p \in Pcs \ {"idle", "start", "done"}, SameCall(p),
         Stays({act.x, act.y}),
         IsTable(tab'[act.x]), IsTable(tab'[act.y]),
         act.x \notin Unfinished' => Sound(tab'[act.x], tab'[act.x].h),
         act.y \notin Unfinished' => Sound(tab'[act.y], tab'[act.y].h),
         OpOK', p \in {"copy", "move", "assign_arrays", "assign_reserve"} => act.x # act.y,
         p \in Beginnings => act'.cursor = 0 /\ act'.outer = 0,
         RehashOK', MergeOK', CopyOK', MoveOK', AssignOK', FillOK'
  PROVE  IInv'
<1>1. TypeOK' /\ ArgumentsOK'
  BY TypesKept
<1>3. \A z \in Built' \ Unfinished' : Sound(tab'[z], tab'[z].h)
  BY Untouched DEF Built
<1>4. \A z \in Tables \ {act.x, act.y} : Contents(z)' = was'[z]
  BY Untouched, ContentsOf
<1>5. act'.pc = p /\ act'.x = act.x /\ act'.y = act.y /\ act'.op = act.op
  BY DEF SameCall
<1>6. act.x \in Built' /\ act.y \in Built'
  BY Untouched, TableFields, ContentsOf DEF ArgumentsOK
<1>7. ControlOK' /\ TablesOK' /\ HistoryOK'
  BY <1>1, <1>3, <1>4, <1>5, <1>6 DEF ControlOK, TablesOK, HistoryOK, ObjectsOK
<1>8. CallsDeliver' /\ StrongGuarantee'
  BY <1>5 DEF CallsDeliver, StrongGuarantee, Failed, Succeeded, AtRest
<1> QED BY <1>1, <1>7, <1>8 DEF IInv

LEMMA AtStart ==
  ASSUME IInv, act.pc = "start"
  PROVE  /\ Active /\ ArgumentsOK /\ Unfinished = {} /\ act.cursor = 0 /\ act.outer = 0
         /\ \A z \in Tables : Contents(z) = was[z]
         /\ act.op \notin Constructors =>
              /\ IsTable(X) /\ IsTable(Y) /\ Sound(X, X.h) /\ Sound(Y, Y.h)
              /\ Elements(X.arrays) = was[act.x] /\ Elements(Y.arrays) = was[act.y]
         /\ act.op \in Constructors => X = NoTable /\ was[act.x] = {}
         /\ act.op \in Constructors \ {"construct"} =>
              act.x # act.y /\ IsTable(Y) /\ Sound(Y, Y.h) /\ Elements(Y.arrays) = was[act.y]
<1>1. /\ Active /\ ArgumentsOK /\ act.cursor = 0 /\ act.outer = 0 /\ ObjectsOK
      /\ \A z \in Tables : Contents(z) = was[z]
  BY DEF IInv, ControlOK, HistoryOK, Active, Beginnings
<1>2. Unfinished = {}
  BY DEF Unfinished
<1>3. ASSUME NEW z \in Built
      PROVE  IsTable(tab[z]) /\ Sound(tab[z], tab[z].h) /\ Elements(tab[z].arrays) = was[z]
  <2>1. Sound(tab[z], tab[z].h) /\ IsTable(tab[z])
    BY <1>2 DEF IInv, TablesOK, TypeOK
  <2> QED BY <1>1, <2>1, ContentsOf DEF Built
<1>4. act.op \notin Constructors => act.x \in Built /\ act.y \in Built
  BY <1>1 DEF ObjectsOK
<1>5. act.op \in Constructors => act.x \notin Built /\ (act.op # "construct" => act.y \in Built)
  BY <1>1 DEF ObjectsOK
<1>6. act.op \in Constructors => X = NoTable /\ was[act.x] = {}
  BY <1>1, <1>5, ContentsOf DEF ArgumentsOK, Built, X
<1>7. act.op \in Constructors \ {"construct"} => act.x # act.y
  BY <1>5
<1> QED BY <1>1, <1>2, <1>3, <1>4, <1>5, <1>6, <1>7 DEF X, Y

Failures == {"alloc", "element", "hash", "bad_archive"}

\* The call fails, with the tables as they were.
LEMMA Failing ==
  ASSUME IInv, Active, UNCHANGED <<use, tab>>, NEW r \in Failures, Finish(r), Unfinished = {},
         act.op \in {"emplace", "rehash"} => act.pc = "start"
  PROVE  IInv'
<1>1. was' = was /\ SameCall("done") /\ act'.res = r
  BY ActFinishes DEF Finish, IInv, TypeOK, Failures, Results
<1>2. Stays({act.x, act.y}) /\ \A z \in Tables : tab'[z] = tab[z] /\ After(z) = Contents(z)
  BY NothingSet DEF IInv, TypeOK, Stays
<1>3. act.x \in Tables /\ act.y \in Tables
  BY DEF IInv, ControlOK, Active, ArgumentsOK
<1>4. \A z \in Tables : tab'[z] # NoTable => Sound(tab'[z], tab'[z].h)
  BY <1>2 DEF IInv, TablesOK, Built
<1>5. act.op \in {"emplace", "rehash"} => After(act.x) = was[act.x]
  BY <1>2, <1>3, AtStart
<1> QED BY <1>1, <1>2, <1>3, <1>4, <1>5, Finishing DEF Failures

\* The local variables of the call that an action changes.
LEMMA ActShapes ==
  ASSUME IsAct(act), NEW p \in Pcs, NEW a, IsArrays(a, Keys), NEW i \in Nat
  PROVE  /\ act' = [act EXCEPT !.pc = p] =>
              SameCall(p) /\ act'.new = act.new /\ act'.cursor = act.cursor /\ act'.outer = act.outer
         /\ act' = [act EXCEPT !.pc = p, !.cursor = i, !.new = a] =>
              SameCall(p) /\ act'.new = a /\ act'.cursor = i /\ act'.outer = act.outer
         /\ act' = [act EXCEPT !.cursor = i, !.new = a] =>
              SameCall(act.pc) /\ act'.new = a /\ act'.cursor = i /\ act'.outer = act.outer
         /\ act' = [act EXCEPT !.cursor = i] =>
              SameCall(act.pc) /\ act'.new = act.new /\ act'.cursor = i /\ act'.outer = act.outer
         /\ act' = [act EXCEPT !.outer = i] =>
              SameCall(act.pc) /\ act'.new = act.new /\ act'.cursor = act.cursor /\ act'.outer = i
<1> DEFINE D(q, b, j, k, s) == [act EXCEPT !.pc = q, !.new = b, !.cursor = j, !.outer = k, !.res = s]
<1> DEFINE Acts(b) == [op : OfOne \cup OfTwo \cup {"none"}, x : Tables \cup {NoTable},
                       y : Tables \cup {NoTable}, key : Keys \cup {NoKey}, n : Nat, pc : Pcs,
                       new : {b}, cursor : Nat, outer : Nat, res : Results]
<1>1. act \in Acts(act.new)
  BY DEF IsAct
<1>2. /\ IsArrays(act.new, Keys) /\ act.pc \in Pcs /\ act.cursor \in Nat /\ act.outer \in Nat
      /\ act.res \in Results
  BY ActFields
<1>3. ASSUME NEW q \in Pcs, NEW b, IsArrays(b, Keys), NEW j \in Nat, NEW k \in Nat, NEW s \in Results,
             act' = D(q, b, j, k, s)
      PROVE  SameCall(q) /\ act'.new = b /\ act'.cursor = j /\ act'.outer = k /\ act'.res = s
  <2>1. PICK u : u = [act EXCEPT !.pc = q, !.new = b]
    OBVIOUS
  <2>2. /\ u \in Acts(b) /\ u.pc = q /\ u.new = b
        /\ u.op = act.op /\ u.x = act.x /\ u.y = act.y /\ u.key = act.key /\ u.n = act.n
    BY <1>1, <2>1
  <2>3. PICK v : v = [u EXCEPT !.cursor = j, !.outer = k]
    OBVIOUS
  <2>4. /\ v \in Acts(b) /\ v.pc = u.pc /\ v.new = u.new /\ v.cursor = j /\ v.outer = k
        /\ v.op = u.op /\ v.x = u.x /\ v.y = u.y /\ v.key = u.key /\ v.n = u.n
    BY <2>2, <2>3
  <2>5. act' = [v EXCEPT !.res = s]
    BY <1>1, <1>3, <2>1, <2>3
  <2>6. /\ act' \in Acts(b) /\ act'.pc = v.pc /\ act'.new = v.new /\ act'.cursor = v.cursor
        /\ act'.outer = v.outer /\ act'.res = s
        /\ act'.op = v.op /\ act'.x = v.x /\ act'.y = v.y /\ act'.key = v.key /\ act'.n = v.n
    BY <2>4, <2>5
  <2>7. IsAct(act')
    BY <1>3, <2>2, <2>4, <2>6 DEF IsAct
  <2> HIDE DEF Acts, D
  <2> QED BY <2>2, <2>4, <2>6, <2>7 DEF SameCall
<1>4. [act EXCEPT !.pc = p] = D(p, act.new, act.cursor, act.outer, act.res)
  BY <1>1
<1>5. [act EXCEPT !.pc = p, !.cursor = i, !.new = a] = D(p, a, i, act.outer, act.res)
  BY <1>1
<1>6. [act EXCEPT !.cursor = i, !.new = a] = D(act.pc, a, i, act.outer, act.res)
  BY <1>1
<1>7. [act EXCEPT !.cursor = i] = D(act.pc, act.new, i, act.outer, act.res)
  BY <1>1
<1>8. [act EXCEPT !.outer = i] = D(act.pc, act.new, act.cursor, i, act.res)
  BY <1>1
<1> HIDE DEF D
<1> QED BY <1>2, <1>3, <1>4, <1>5, <1>6, <1>7, <1>8


-----------------------------------------------------------------------------
(* The first state, calls and returns *)

LEMMA ContentsAreKeys ==
  ASSUME TypeOK, NEW z \in Tables
  PROVE  Contents(z) \subseteq Keys
<1>1. CASE z \in Built
  <2>1. IsArrays(tab[z].arrays, Keys)
    BY <1>1, TableFields DEF TypeOK
  <2>2. IsFiniteSet(Keys) /\ NoKey \notin Keys
    BY EnoughGroupsAssumption, HashAssumption
  <2> QED BY <1>1, <2>1, <2>2, ElementsCounted DEF Contents
<1> QED BY <1>1 DEF Contents

LEMMA IdleTyped == IsAct(Idle) /\ Idle.pc = "idle" /\ Idle.cursor = 0 /\ Idle.outer = 0
<1>1. IsArrays(DummyArrays, Keys)
  BY DummyArraysTyped
<1>2. Idle.new = DummyArrays
  BY DEF Idle
<1> HIDE DEF DummyArrays
<1> QED BY <1>1, <1>2 DEF Idle, IsAct, Pcs, Results

LEMMA CalledTyped ==
  ASSUME NEW o \in OfOne \cup OfTwo, NEW x \in Tables, NEW y \in Tables,
         NEW k \in Keys \cup {NoKey}, NEW n \in Nat, Called(o, x, y, k, n)
  PROVE  /\ IsAct(act') /\ act'.op = o /\ act'.x = x /\ act'.y = y /\ act'.key = k /\ act'.n = n
         /\ act'.pc = "start" /\ act'.cursor = 0 /\ act'.outer = 0
<1>1. IsArrays(DummyArrays, Keys)
  BY DummyArraysTyped
<1>2. PICK d : d = DummyArrays
  OBVIOUS
<1>3. act' = [op |-> o, x |-> x, y |-> y, key |-> k, n |-> n,
              pc |-> "start", new |-> d, cursor |-> 0, outer |-> 0, res |-> "none"]
  BY <1>2 DEF Called, Idle
<1>4. act' \in [op : OfOne \cup OfTwo \cup {"none"}, x : Tables \cup {NoTable},
                y : Tables \cup {NoTable}, key : Keys \cup {NoKey}, n : Nat, pc : Pcs,
                new : {d}, cursor : Nat, outer : Nat, res : Results]
  BY <1>3 DEF Pcs, Results
<1>5. /\ act'.op = o /\ act'.x = x /\ act'.y = y /\ act'.key = k /\ act'.n = n
      /\ act'.pc = "start" /\ act'.cursor = 0 /\ act'.outer = 0 /\ act'.new = d
  BY <1>3
<1>6. IsAct(act')
  BY <1>1, <1>2, <1>4, <1>5 DEF IsAct
<1> QED BY <1>5, <1>6

LEMMA CalledStarts ==
  ASSUME IInv, act.pc = "idle", UNCHANGED use,
         NEW o \in OfOne \cup OfTwo, NEW x \in Tables, NEW y \in Tables,
         NEW k \in Keys \cup {NoKey}, NEW n \in Numbers, Called(o, x, y, k, n),
         o \in OnKey => k \in Keys, o \in OfOne => y = x,
         IF o \in Constructors THEN x \notin Built /\ (o = "construct" \/ y \in Built)
         ELSE x \in Built /\ y \in Built
  PROVE  IInv'
<1>1. TypeOK
  BY DEF IInv
<1>2. n \in Nat
  BY <1>1, RoomForAll
<1>3. /\ IsAct(act') /\ act'.op = o /\ act'.x = x /\ act'.y = y /\ act'.key = k /\ act'.n = n
      /\ act'.pc = "start" /\ act'.cursor = 0 /\ act'.outer = 0
  BY <1>2, CalledTyped
<1>4. was' = [z \in Tables |-> Contents(z)] /\ was' \in [Tables -> SUBSET Keys]
  BY <1>1, ContentsAreKeys DEF Called
<1>5. tab' = tab /\ use' = use /\ o \in use.calls
  BY DEF Called
<1>6. /\ TypeOK' /\ Built' = Built
      /\ \A z \in Tables : Contents(z)' = was'[z]
  BY <1>1, <1>3, <1>4, <1>5 DEF TypeOK, Built, Contents
<1>7. ControlOK'
  <2>1. ArgumentsOK' /\ ObjectsOK'
    BY <1>3, <1>5, <1>6 DEF ArgumentsOK, ObjectsOK, Numbers
  <2> QED BY <1>3, <2>1 DEF ControlOK, OpOK, Active, Beginnings
<1>8. TablesOK'
  <2>1. Unfinished = {} /\ Unfinished' = {}
    BY <1>3 DEF Unfinished
  <2> QED BY <1>5, <1>6, <2>1 DEF TablesOK, IInv
<1>9. HistoryOK'
  BY <1>6 DEF HistoryOK
<1>10. RehashOK' /\ MergeOK' /\ CopyOK' /\ MoveOK' /\ AssignOK' /\ FillOK'
  BY <1>3 DEF RehashOK, MergeOK, CopyOK, MoveOK, AssignOK, FillOK
<1>11. CallsDeliver' /\ StrongGuarantee'
  BY <1>3 DEF CallsDeliver, StrongGuarantee, Failed, Succeeded, AtRest
<1> QED BY <1>6, <1>7, <1>8, <1>9, <1>10, <1>11 DEF IInv

LEMMA CallKeeps ==
  ASSUME IInv, Call, UNCHANGED use
  PROVE  IInv'
<1>1. /\ act.pc = "idle" /\ There \subseteq Built /\ There \subseteq Tables
      /\ NotYet \subseteq Tables /\ NotYet \cap Built = {}
      /\ 0 \in Numbers /\ use.keys \subseteq Keys
  <2>1. use \in Uses
    BY DEF IInv, TypeOK
  <2> QED BY <2>1, UsesAssumption DEF Call, There, NotYet, Numbers, Built
<1>2. ASSUME NEW x \in There, NEW k \in use.keys, NEW o \in OnKey, Called(o, x, x, k, 0) PROVE IInv'
  BY <1>1, <1>2, CalledStarts DEF OnKey, OfOne, Constructors
<1>3. ASSUME NEW x \in There, NEW n \in Numbers, NEW o \in OfOne \ (OnKey \cup Constructors),
             Called(o, x, x, NoKey, n)
      PROVE  IInv'
  BY <1>1, <1>3, CalledStarts
<1>4. ASSUME NEW x \in There, NEW y \in There, NEW o \in OfTwo \ Constructors,
             Called(o, x, y, NoKey, 0)
      PROVE  IInv'
  BY <1>1, <1>4, CalledStarts DEF OfTwo, OfOne, OnKey
<1>5. ASSUME NEW x \in NotYet, NEW y \in There, NEW o \in OfTwo \cap Constructors,
             Called(o, x, y, NoKey, 0)
      PROVE  IInv'
  BY <1>1, <1>5, CalledStarts DEF OfTwo, OfOne, OnKey
<1>6. ASSUME NEW x \in NotYet, NEW n \in Numbers, Called("construct", x, x, NoKey, n) PROVE IInv'
  BY <1>1, <1>6, CalledStarts DEF OfTwo, OfOne, OnKey, Constructors
<1>7. ASSUME CallInsert \/ CallEmplace \/ CallErase \/ CallPull PROVE IInv'
  BY <1>2, <1>7 DEF CallInsert, CallEmplace, CallErase, CallPull, CalledWithKey, OnKey
<1>8. ASSUME CallDestroy \/ CallAssignList \/ CallEraseIf \/ CallClear \/ CallRehash \/ CallLoad PROVE IInv'
  BY <1>1, <1>3, <1>8 DEF CallDestroy, CallAssignList, CallEraseIf, CallClear, CallRehash, CallLoad,
       CalledOnTable, CalledWithNumber, OfOne, OnKey, Constructors
<1>9. ASSUME CallAssign \/ CallSwap \/ CallMerge PROVE IInv'
  BY <1>4, <1>9 DEF CallAssign, CallSwap, CallMerge, CalledWithTable, OfTwo, Constructors
<1>10. ASSUME CallCopyConstruct \/ CallMoveConstruct \/ CallConvert PROVE IInv'
  BY <1>5, <1>10 DEF CallCopyConstruct, CallMoveConstruct, CallConvert, ConstructsFrom, OfTwo, Constructors
<1>11. ASSUME CallConstruct PROVE IInv'
  BY <1>6, <1>11 DEF CallConstruct
<1> QED BY <1>7, <1>8, <1>9, <1>10, <1>11 DEF Call

LEMMA ReturnKeeps ==
  ASSUME IInv, Return, UNCHANGED use
  PROVE  IInv'
<1>1. /\ act' = Idle /\ was' = [z \in Tables |-> {}] /\ tab' = tab /\ use' = use
      /\ act.pc = "done"
  BY DEF Return
<1>2. IsAct(act') /\ act'.pc = "idle"
  BY <1>1, IdleTyped
<1>3. TypeOK' /\ Built' = Built
  BY <1>1, <1>2 DEF IInv, TypeOK, Built
<1>4. TablesOK'
  <2>1. Unfinished = {} /\ Unfinished' = {}
    BY <1>1, <1>2 DEF Unfinished
  <2> QED BY <1>1, <1>3, <2>1 DEF TablesOK, IInv
<1>5. ControlOK' /\ HistoryOK'
  BY <1>2 DEF ControlOK, HistoryOK, Active, Beginnings
<1>6. RehashOK' /\ MergeOK' /\ CopyOK' /\ MoveOK' /\ AssignOK' /\ FillOK'
  BY <1>2 DEF RehashOK, MergeOK, CopyOK, MoveOK, AssignOK, FillOK
<1>7. CallsDeliver' /\ StrongGuarantee'
  BY <1>2 DEF CallsDeliver, StrongGuarantee, Failed, Succeeded, AtRest
<1> QED BY <1>3, <1>4, <1>5, <1>6, <1>7 DEF IInv

LEMMA InitHolds ==
  ASSUME Init
  PROVE  IInv
<1>1. act = Idle /\ tab = [z \in Tables |-> NoTable] /\ was = [z \in Tables |-> {}] /\ use \in Uses
  BY DEF Init
<1>2. IsAct(act) /\ act.pc = "idle"
  BY <1>1, IdleTyped
<1>3. TypeOK /\ Built = {}
  BY <1>1, <1>2 DEF TypeOK, Built
<1>4. TablesOK
  BY <1>3 DEF TablesOK
<1>5. ControlOK /\ HistoryOK
  BY <1>2 DEF ControlOK, HistoryOK, Active, Beginnings
<1>6. RehashOK /\ MergeOK /\ CopyOK /\ MoveOK /\ AssignOK /\ FillOK
  BY <1>2 DEF RehashOK, MergeOK, CopyOK, MoveOK, AssignOK, FillOK
<1>7. CallsDeliver /\ StrongGuarantee
  BY <1>2 DEF CallsDeliver, StrongGuarantee, Failed, Succeeded, AtRest
<1> QED BY <1>3, <1>4, <1>5, <1>6, <1>7 DEF IInv


-----------------------------------------------------------------------------
(* Insertion and erasure *)

\* A call on one table ends in one step.
LEMMA FinishingOne ==
  ASSUME IInv, act.pc = "start", act.op \in OfOne, UNCHANGED use, NEW t, SetX(t),
         Sound(t, t.h), NEW r \in Results, Finish(r),
         r \in {"ok", "found"} => Delivered(Elements(t.arrays), Elements(t.arrays)),
         r \notin {"ok", "found"} /\ ~MoveOnRehash /\ act.op \in {"emplace", "rehash"}
           => Elements(t.arrays) = was[act.x]
  PROVE  IInv'
<1>1. was' = was /\ SameCall("done") /\ act'.res = r
  BY ActFinishes DEF Finish, IInv, TypeOK
<1>2. Active /\ ArgumentsOK /\ act.y = act.x
  BY AtStart DEF ArgumentsOK
<1>3. Stays({act.x, act.y}) /\ tab'[act.x] = t
  BY <1>2, OneSet DEF IInv
<1>4. After(act.x) = Elements(t.arrays)
  BY <1>3, TableFields DEF After, Sound, Hollow
<1> QED BY <1>1, <1>2, <1>3, <1>4, Finishing

LEMMA EmplaceFindsKeeps ==
  ASSUME IInv, EmplaceFinds, UNCHANGED use
  PROVE  IInv'
<1>1. /\ act.pc = "start" /\ act.op = "emplace" /\ Finish("found") /\ tab' = tab
      /\ IsIn(X, act.key)
  BY DEF EmplaceFinds, Starts
<1>2. Active /\ ArgumentsOK /\ act.y = act.x /\ Sound(X, X.h) /\ Elements(X.arrays) = was[act.x]
  BY <1>1, AtStart DEF ArgumentsOK, OfOne, OnKey, Constructors
<1>3. act.key \in was[act.x]
  BY <1>1, <1>2, SearchResult DEF ArgumentsOK, OnKey
<1>4. SetX(X)
  BY <1>1 DEF SetX, X, IInv, TypeOK
<1>5. Delivered(was[act.x], was[act.x])
  BY <1>1, <1>2, <1>3 DEF Delivered
<1> QED BY <1>1, <1>2, <1>4, <1>5, FinishingOne DEF OfOne, OnKey, Results

LEMMA EmplaceInPlaceKeeps ==
  ASSUME IInv, EmplaceInPlace, UNCHANGED use
  PROVE  IInv'
<1>1. /\ act.pc = "start" /\ act.op = "emplace" /\ ~IsIn(X, act.key) /\ HasRoom(X)
      /\ \/ SetX(Inserted(X, act.key)) /\ Finish("ok")
         \/ SetX(InsertFailed(X, act.key)) /\ Finish("element")
  BY DEF EmplaceInPlace, Starts
<1>2. /\ Active /\ ArgumentsOK /\ act.y = act.x /\ Sound(X, X.h) /\ Elements(X.arrays) = was[act.x]
      /\ act.key \in Keys /\ X.size < X.ml
  BY <1>1, AtStart DEF ArgumentsOK, OfOne, OnKey, Constructors, HasRoom
<1>3. act.key \notin Elements(X.arrays)
  BY <1>1, <1>2, SearchResult
<1>4. CASE SetX(Inserted(X, act.key)) /\ Finish("ok")
  <2>1. PICK t : t = Inserted(X, act.key)
    OBVIOUS
  <2>2. Sound(t, t.h) /\ Elements(t.arrays) = was[act.x] \cup {act.key}
    BY <1>2, <1>3, <2>1, InsertedSound
  <2>3. Delivered(Elements(t.arrays), Elements(t.arrays))
    BY <1>1, <1>2, <2>2 DEF Delivered
  <2> QED BY <1>1, <1>4, <2>1, <2>2, <2>3, FinishingOne DEF OfOne, OnKey, Results
<1>5. CASE SetX(InsertFailed(X, act.key)) /\ Finish("element")
  <2>1. PICK t : t = InsertFailed(X, act.key)
    OBVIOUS
  <2>2. Sound(t, t.h) /\ Elements(t.arrays) = was[act.x]
    BY <1>2, <2>1, InsertFailedSound
  <2> QED BY <1>1, <1>5, <2>1, <2>2, FinishingOne DEF OfOne, OnKey, Results
<1> QED BY <1>1, <1>4, <1>5

LEMMA FailuresKeep ==
  ASSUME IInv, EmplaceFails \/ KeyHashThrows, UNCHANGED use
  PROVE  IInv'
<1>1. Throws \subseteq Failures
  <2>1. use \in Uses
    BY DEF IInv, TypeOK
  <2> QED BY <2>1, UsesAssumption DEF Throws, Failures
<1>2. act.pc = "start" /\ tab' = tab /\ \E r \in Failures : Finish(r)
  BY <1>1 DEF EmplaceFails, KeyHashThrows, Starts, Failures
<1>3. Active /\ Unfinished = {}
  BY <1>2, AtStart
<1> QED BY <1>2, <1>3, Failing

LEMMA EraseKeyKeeps ==
  ASSUME IInv, EraseKey \/ Pull, UNCHANGED use
  PROVE  IInv'
<1> DEFINE t == Recovered(X, Found(X.arrays, HashOf(X, act.key), act.key))
<1>1. PICK r \in {"ok", "element"} :
        act.pc = "start" /\ act.op \in {"erase", "pull"} /\ SetX(t) /\ Finish(r)
  BY DEF EraseKey, Pull, Starts
<1>2. /\ Active /\ ArgumentsOK /\ act.y = act.x /\ Sound(X, X.h) /\ Elements(X.arrays) = was[act.x]
      /\ act.key \in Keys
  BY <1>1, AtStart DEF ArgumentsOK, OfOne, OnKey, Constructors
<1>3. Sound(t, t.h) /\ Elements(t.arrays) = was[act.x] \ {act.key}
  BY <1>1, <1>2, KeysErased
<1> HIDE DEF t
<1>4. Delivered(Elements(t.arrays), Elements(t.arrays))
  BY <1>1, <1>2, <1>3 DEF Delivered
<1> QED BY <1>1, <1>3, <1>4, FinishingOne DEF OfOne, OnKey, Results

LEMMA SomeErased ==
  ASSUME NEW t, Sound(t, t.h), NEW places, places \subseteq MatchReallyOccupied(t.arrays),
         NEW u, u = Recovered(t, places)
  PROVE  Sound(u, u.h)
<1>1. Hollow(t, t.h, {}) /\ {} \subseteq places
  BY DEF Sound
<1>2. Sound(u, t.h) /\ u.h = t.h
  BY <1>1, RecoveredSound
<1> QED BY <1>2

LEMMA EraseIfKeeps ==
  ASSUME IInv, EraseIf, UNCHANGED use
  PROVE  IInv'
<1>1. PICK places \in SUBSET MatchReallyOccupied(X.arrays) :
        act.pc = "start" /\ act.op = "erase_if" /\ SetX(Recovered(X, places)) /\ Finish("ok")
  BY DEF EraseIf, Starts
<1>2. Sound(X, X.h)
  BY <1>1, AtStart DEF Constructors
<1>3. PICK t : t = Recovered(X, places)
  OBVIOUS
<1>4. Sound(t, t.h)
  <2>1. places \subseteq MatchReallyOccupied(X.arrays)
    OBVIOUS
  <2> QED BY <1>2, <1>3, <2>1, SomeErased
<1>5. Delivered(Elements(t.arrays), Elements(t.arrays))
  BY <1>1 DEF Delivered
<1> QED BY <1>1, <1>3, <1>4, <1>5, FinishingOne DEF OfOne, OnKey, Results

LEMMA ClearTableKeeps ==
  ASSUME IInv, ClearTable, UNCHANGED use
  PROVE  IInv'
<1>1. act.pc = "start" /\ act.op = "clear" /\ SetX(Cleared(X)) /\ Finish("ok")
  BY DEF ClearTable, Starts
<1>2. Sound(X, X.h) /\ ArgumentsOK /\ act.y = act.x
  BY <1>1, AtStart DEF ArgumentsOK, OfOne, OnKey, Constructors
<1>3. PICK t : t = Cleared(X)
  OBVIOUS
<1>4. Sound(t, t.h) /\ Elements(t.arrays) = {}
  <2>1. IsTable(t) /\ Blank(t.arrays) /\ Fresh(t) /\ t.h \in Hashers
    BY <1>2, <1>3, ClearedSound, TableFields
  <2> QED BY <2>1, BlankFresh
<1>5. Delivered(Elements(t.arrays), Elements(t.arrays))
  BY <1>1, <1>2, <1>4 DEF Delivered
<1> QED BY <1>1, <1>3, <1>4, <1>5, FinishingOne DEF OfOne, OnKey, Results

LEMMA RehashSameKeeps ==
  ASSUME IInv, RehashSame, UNCHANGED use
  PROVE  IInv'
<1>1. act.pc = "start" /\ act.op = "rehash" /\ Finish("ok") /\ tab' = tab
  BY DEF RehashSame, Starts
<1>2. ArgumentsOK /\ act.y = act.x /\ Sound(X, X.h) /\ Elements(X.arrays) = was[act.x]
  BY <1>1, AtStart DEF ArgumentsOK, OfOne, OnKey, Constructors
<1>3. SetX(X)
  BY <1>1 DEF SetX, X, IInv, TypeOK
<1>4. Delivered(was[act.x], was[act.x])
  BY <1>1, <1>2 DEF Delivered
<1> QED BY <1>1, <1>2, <1>3, <1>4, FinishingOne DEF OfOne, OnKey, Results


-----------------------------------------------------------------------------
(* Rehashing *)

\* The state of a transfer from table t, up to the place c, to the arrays b.
Transferred(t, b, c) ==
  LET left == From(t.arrays, c)
      occupied == MatchReallyOccupied(b)
  IN
  /\ Hollow(t, t.h, IF MoveOnRehash THEN Behind(t.arrays, c) ELSE {})
  /\ WellPlaced(b, t.h, {})
  /\ Cardinality(occupied) + Cardinality(left) = t.size + Extra
  /\ t.size + Extra <= InitialMaxLoad(b)
  /\ \A p \in Behind(t.arrays, c) : ElementAt(t.arrays, p) \in Elements(b) \cup {NoKey}
  /\ \A p \in left : ElementAt(t.arrays, p) \notin Elements(b)
  /\ Elements(b) \cup Elements(t.arrays) = Before \cup Coming
  /\ ~MoveOnRehash => Elements(t.arrays) = Before

\* A merge has come to an element that its target did not have.
MergesNew ==
  /\ act.x # act.y
  /\ Contents(act.y) \subseteq was[act.y] /\ was[act.x] \cap was[act.y] \subseteq Contents(act.y)
  /\ \A p \in Behind(Y.arrays, act.outer) : ElementAt(Y.arrays, p) \in was[act.x]
  /\ From(Y.arrays, act.outer) # {} /\ Key \notin was[act.x]

LEMMA WhileRehashing ==
  ASSUME IInv, act.pc = "rehash"
  PROVE  /\ Active /\ ArgumentsOK /\ act.op \in {"rehash", "emplace", "merge"}
         /\ IsTable(X) /\ IsTable(Y) /\ (act.y # act.x => Sound(Y, Y.h))
         /\ IsArrays(act.new, Keys) /\ act.cursor \in Nat /\ act.outer \in Nat
         /\ Transferred(X, act.new, act.cursor)
         /\ act.op = "merge" => MergesNew
         /\ act.op # "merge" => act.y = act.x /\ Before = was[act.x]
         /\ act.op = "emplace" => act.key \in Keys
<1>1. Active /\ ArgumentsOK /\ act.op \in {"rehash", "emplace", "merge"}
  BY DEF IInv, ControlOK, Active, OpOK
<1>2. act.x \in Built /\ act.y \in Built
  BY <1>1 DEF IInv, ControlOK, ObjectsOK
<1>3. IsTable(X) /\ IsTable(Y) /\ (act.y # act.x => Sound(Y, Y.h))
  BY <1>2 DEF IInv, TypeOK, TablesOK, Unfinished, X, Y
<1>4. IsArrays(act.new, Keys) /\ act.cursor \in Nat /\ act.outer \in Nat
  BY ActFields DEF IInv, TypeOK
<1>5. Transferred(X, act.new, act.cursor)
  BY DEF IInv, RehashOK, RehashTables, RehashElements, Transferred
<1>6. act.op = "merge" => MergesNew
  BY DEF IInv, MergeOK, MergesNew
<1>7. act.op # "merge" => act.y = act.x /\ Before = was[act.x]
  BY <1>1 DEF ArgumentsOK, OfOne, OnKey, Before
<1>8. act.op = "emplace" => act.key \in Keys
  BY <1>1 DEF ArgumentsOK, OnKey
<1> QED BY <1>1, <1>3, <1>4, <1>5, <1>6, <1>7, <1>8

\* The call has a transfer in progress after the step.
LEMMA RehashReached ==
  ASSUME IInv, Active, UNCHANGED <<use, was>>, SameCall("rehash"),
         act.op \in {"rehash", "emplace", "merge"}, Stays({act.x}), act'.outer = act.outer,
         NEW t, tab'[act.x] = t, NEW b, act'.new = b, NEW c, act'.cursor = c,
         Transferred(t, b, c), act.op = "merge" => MergesNew,
         act.y # act.x => Sound(Y, Y.h)
  PROVE  IInv'
<1>1. /\ act'.pc = "rehash" /\ act'.op = act.op /\ act'.x = act.x /\ act'.y = act.y
      /\ act'.key = act.key /\ IsAct(act')
  BY DEF SameCall
<1>2. ArgumentsOK /\ Stays({act.x, act.y})
  BY DEF IInv, ControlOK, Active, Stays
<1>3. IsTable(t) /\ X' = t
  BY <1>1 DEF Transferred, Hollow, X
<1>4. act.y # act.x => Y' = Y /\ Contents(act.y)' = Contents(act.y)
  <2>1. act.y \in Tables /\ act'.y = act.y
    BY <1>1, <1>2 DEF ArgumentsOK
  <2>2. act.y # act.x => tab'[act.y] = tab[act.y]
    BY <2>1 DEF Stays
  <2>3. Contents(act.y)' = After(act.y)
    BY <2>1, ContentsOf
  <2> QED BY <2>1, <2>2, <2>3, ContentsOf DEF Y, After
<1>5. IsTable(tab'[act.y]) /\ (act.y # act.x => Sound(tab'[act.y], tab'[act.y].h))
  <2>1. CASE act.y = act.x
    BY <1>3, <2>1
  <2>2. CASE act.y # act.x
    BY <1>1, <1>4, <2>2 DEF Y, Sound, Hollow
  <2> QED BY <2>1, <2>2
<1>6. act.op = "merge" => act.y # act.x
  BY DEF MergesNew
<1>7. MoveOnRehash' = MoveOnRehash /\ Extra' = Extra /\ Before' = Before /\ Coming' = Coming
      /\ (act.op = "merge" => Key' = Key)
  <2>1. MoveOnRehash' = MoveOnRehash /\ Extra' = Extra
    BY <1>1 DEF MoveOnRehash, Extra
  <2>2. Before' = Before
    BY <1>1, <1>4, <1>6 DEF Before
  <2>3. Key' = Key
    BY <1>1, <1>4, <1>6 DEF Key
  <2> QED BY <1>1, <2>1, <2>2, <2>3 DEF Coming
<1>8. RehashOK'
  BY <1>3, <1>7 DEF RehashOK, RehashTables, RehashElements, Transferred
<1>9. MergeOK'
  BY <1>1, <1>4, <1>6, <1>7 DEF MergeOK, MergesNew
<1>10. CopyOK' /\ MoveOK' /\ AssignOK' /\ FillOK' /\ OpOK' /\ act.x \in Unfinished'
  BY <1>1 DEF CopyOK, MoveOK, AssignOK, FillOK, OpOK, Unfinished
<1>11. "rehash" \in Pcs \ {"idle", "start", "done"} /\ "rehash" \notin Beginnings
  BY DEF Pcs, Beginnings
<1>12. IsTable(tab'[act.x])
  BY <1>3
<1> HIDE DEF Beginnings
<1> QED BY <1>2, <1>5, <1>8, <1>9, <1>10, <1>11, <1>12, Continuing

\* Arrays without elements yet, and the element that is inserted.
LEMMA TransferBegins ==
  ASSUME NEW t, Sound(t, t.h), NEW b, IsArrays(b, Keys), WellPlaced(b, t.h, {}),
         Cardinality(MatchReallyOccupied(b)) = Extra, Extra \in Nat,
         t.size + Extra <= InitialMaxLoad(b), Elements(b) = Coming,
         Elements(b) \cap Elements(t.arrays) = {}, Elements(t.arrays) = Before
  PROVE  Transferred(t, b, 0)
<1> DEFINE a == t.arrays
<1>1. IsTable(t) /\ IsArrays(a, Keys) /\ WellPlaced(a, t.h, {}) /\ Counted(t) /\ t.h \in Hashers
  BY TableFields DEF Sound, Hollow
<1>2. From(a, 0) = MatchReallyOccupied(a) /\ Behind(a, 0) = {}
  <2>1. 0 \in Nat
    OBVIOUS
  <2> QED BY <1>1, <2>1, OccupiedFinite DEF Behind
<1>3. \A p \in From(a, 0) : ElementAt(a, p) \in Elements(a)
  BY <1>1, <1>2, ElementThere
<1>4. Hollow(t, t.h, IF MoveOnRehash THEN Behind(a, 0) ELSE {})
  BY <1>2 DEF Sound
<1>5. Cardinality(MatchReallyOccupied(b)) + Cardinality(From(a, 0)) = t.size + Extra
  BY <1>1, <1>2, TableFields DEF Counted
<1> QED BY <1>2, <1>3, <1>4, <1>5 DEF Transferred

LEMMA RehashRoom ==
  ASSUME NEW n \in Nat, Roomy(n), NEW s \in Nat, Roomy(s), NEW m, m = Max({n, SlotsFor(s)})
  PROVE  LET a == ArraysFor(IF m = 0 THEN 0 ELSE CapacityFor(m)) IN
         Blank(a) /\ s <= InitialMaxLoad(a)
<1>1. /\ SlotsFor(s) \in Nat /\ s <= SlotsFor(s)
      /\ \E g \in GroupCounts : N * g > SlotsFor(s)
  BY ReserveRoom
<1>2. /\ n <= SlotsFor(n) /\ SlotsFor(n) \in Nat
      /\ \E g \in GroupCounts : N * g > SlotsFor(n)
  BY ReserveRoom
<1>3. m \in Nat /\ n <= m /\ SlotsFor(s) <= m /\ m \in {n, SlotsFor(s)}
  <2>1. \E x \in {n, SlotsFor(s)} : \A y \in {n, SlotsFor(s)} : x >= y
    BY <1>1
  <2> QED BY <1>1, <2>1 DEF Max
<1>4. \E g \in GroupCounts : N * g > m
  <2>1. \A g \in GroupCounts : N * g \in Nat
    BY GroupsPositive, SlotsNumbered
  <2> QED BY <1>1, <1>2, <1>3, <2>1
<1>5. CASE m = 0
  <2>1. s = 0
    BY <1>1, <1>3, <1>5
  <2>2. ArraysFor(0) = DummyArrays
    BY DEF ArraysFor
  <2> QED BY <1>5, <2>1, <2>2, BlankDummy
<1>6. CASE m # 0
  <2>1. PICK c : c = CapacityFor(m)
    OBVIOUS
  <2>2. c \in Nat /\ c >= m /\ \E g \in GroupCounts : N * g > c
    BY <1>3, <1>4, <2>1, CapacityForEnough
  <2>3. SlotsFor(s) <= c
    BY <1>1, <1>3, <2>2
  <2>4. PICK a : a = ArraysFor(c)
    OBVIOUS
  <2>5. Blank(a) /\ s <= InitialMaxLoad(a)
    BY <1>1, <2>2, <2>3, <2>4, ArraysEnough
  <2> QED BY <1>6, <2>1, <2>4, <2>5
<1> QED BY <1>5, <1>6

LEMMA BlankEmpty ==
  ASSUME NEW a, Blank(a), NEW h
  PROVE  /\ IsArrays(a, Keys) /\ WellPlaced(a, h, {}) /\ Elements(a) = {}
         /\ MatchReallyOccupied(a) = {} /\ Cardinality(MatchReallyOccupied(a)) = 0
BY EmptyWellPlaced DEF Blank

LEMMA RehashStartsKeeps ==
  ASSUME IInv, RehashStarts, UNCHANGED use
  PROVE  IInv'
<1>1. act.pc = "start" /\ act.op = "rehash"
  BY DEF RehashStarts, Starts
<1>2. /\ Active /\ ArgumentsOK /\ act.y = act.x /\ Unfinished = {} /\ act.outer \in Nat
      /\ IsTable(X) /\ Sound(X, X.h) /\ Elements(X.arrays) = was[act.x]
  BY <1>1, AtStart, ActFields DEF ArgumentsOK, OfOne, OnKey, Constructors, IInv, TypeOK
<1>3. PICK a : a = ArraysFor(RehashTo(act.n))
  OBVIOUS
<1>4. Blank(a) /\ X.size <= InitialMaxLoad(a)
  <2>1. act.n \in Nat /\ Roomy(act.n)
    BY <1>2, RoomForAll DEF ArgumentsOK, IInv
  <2>2. X.size \in Nat /\ Roomy(X.size)
    <3>1. X.size \in Nat /\ X.size <= Cardinality(Keys)
      BY <1>2, SizeOfKeys DEF Sound
    <3> QED BY <3>1, RoomForAll DEF IInv
  <2> QED BY <1>3, <2>1, <2>2, RehashRoom DEF RehashTo
<1>5. CASE AllocFails
  BY <1>1, <1>2, <1>5, Failing DEF AllocFails, Failures
<1>6. CASE act' = [act EXCEPT !.pc = "rehash", !.cursor = 0, !.new = a] /\ UNCHANGED <<tab, was>>
  <2>1. IsArrays(a, Keys) /\ WellPlaced(a, X.h, {}) /\ Elements(a) = {}
        /\ Cardinality(MatchReallyOccupied(a)) = 0
    BY <1>4, BlankEmpty
  <2>2. SameCall("rehash") /\ act'.new = a /\ act'.cursor = 0 /\ act'.outer = act.outer
    <3>1. "rehash" \in Pcs /\ 0 \in Nat /\ IsAct(act)
      BY DEF Pcs, IInv, TypeOK
    <3> QED BY <1>6, <2>1, <3>1, ActShapes
  <2>3. Stays({act.x}) /\ tab'[act.x] = X
    BY <1>6, NothingSet DEF IInv, Stays, X
  <2>4. Extra = 0 /\ Coming = {} /\ Before = was[act.x]
    BY <1>1 DEF Extra, Coming, Before
  <2>5. X.size \in Nat
    BY <1>2, TableFields
  <2>6. Transferred(X, a, 0)
    <3>1. 0 \in Nat /\ X.size + 0 = X.size
      BY <2>5
    <3> QED BY <1>2, <1>4, <2>1, <2>4, <3>1, TransferBegins
  <2> QED BY <1>1, <1>2, <1>6, <2>2, <2>3, <2>6, RehashReached
<1> QED BY <1>3, <1>5, <1>6 DEF RehashStarts

LEMMA WhileMerging ==
  ASSUME IInv, act.pc = "merge"
  PROVE  /\ Active /\ ArgumentsOK /\ act.op = "merge" /\ Unfinished = {} /\ act.outer \in Nat
         /\ IsTable(X) /\ IsTable(Y) /\ Sound(X, X.h) /\ Sound(Y, Y.h)
         /\ Contents(act.x) = Elements(X.arrays) /\ Contents(act.y) = Elements(Y.arrays)
         /\ Elements(Y.arrays) \subseteq was[act.y]
         /\ was[act.x] \cap was[act.y] \subseteq Elements(Y.arrays)
         /\ Elements(X.arrays) = was[act.x] \cup (was[act.y] \ Elements(Y.arrays))
         /\ \A p \in Behind(Y.arrays, act.outer) : ElementAt(Y.arrays, p) \in was[act.x]
<1>1. Active /\ ArgumentsOK /\ act.op = "merge" /\ Unfinished = {} /\ act.outer \in Nat
  BY ActFields DEF IInv, TypeOK, ControlOK, Active, OpOK, Unfinished
<1>2. act.x \in Built /\ act.y \in Built
  BY <1>1 DEF IInv, ControlOK, ObjectsOK
<1>3. IsTable(X) /\ IsTable(Y) /\ Sound(X, X.h) /\ Sound(Y, Y.h)
  BY <1>1, <1>2 DEF IInv, TypeOK, TablesOK, X, Y
<1>4. Contents(act.x) = Elements(X.arrays) /\ Contents(act.y) = Elements(Y.arrays)
  BY <1>2 DEF Contents, X, Y
<1>5. MergeOK
  BY DEF IInv
<1> QED BY <1>1, <1>3, <1>4, <1>5 DEF MergeOK, Before

\* The element that a merge has come to, and its place.
LEMMA NextSource ==
  ASSUME NEW t, Sound(t, t.h), NEW c \in Nat, From(t.arrays, c) # {},
         NEW q, q = FirstFrom(t.arrays, c)
  PROVE  /\ q \in From(t.arrays, c) /\ q \in MatchReallyOccupied(t.arrays) /\ Index(q) + 1 \in Nat
         /\ ElementAt(t.arrays, q) \in Keys /\ ElementAt(t.arrays, q) \in Elements(t.arrays)
         /\ Behind(t.arrays, Index(q) + 1) = Behind(t.arrays, c) \cup {q}
<1>1. IsArrays(t.arrays, Keys) /\ WellPlaced(t.arrays, t.h, {})
  BY TableFields DEF Sound, Hollow
<1>2. /\ q \in From(t.arrays, c) /\ q \in MatchReallyOccupied(t.arrays) /\ Index(q) + 1 \in Nat
      /\ Behind(t.arrays, Index(q) + 1) = Behind(t.arrays, c) \cup {q}
  BY <1>1, NextPlace
<1>3. ElementAt(t.arrays, q) \in Keys /\ ElementAt(t.arrays, q) \in Elements(t.arrays)
  BY <1>1, <1>2, ElementThere
<1> QED BY <1>2, <1>3

LEMMA MergingKey ==
  ASSUME IInv, Merging
  PROVE  /\ Key \in Keys /\ Key \in Elements(Y.arrays)
         /\ Key \notin Elements(X.arrays) => MergesNew
<1>1. act.pc = "merge" /\ From(Y.arrays, act.outer) # {}
  BY DEF Merging
<1>2. Key = ElementAt(Y.arrays, FirstFrom(Y.arrays, act.outer)) /\ Sound(Y, Y.h) /\ act.outer \in Nat
  BY <1>1, WhileMerging DEF Key
<1>3. Key \in Keys /\ Key \in Elements(Y.arrays)
  BY <1>1, <1>2, NextSource
<1>4. ASSUME Key \notin Elements(X.arrays) PROVE MergesNew
  <2>1. act.x # act.y
    BY <1>3, <1>4 DEF X, Y
  <2>2. Key \notin was[act.x]
    BY <1>1, <1>4, WhileMerging
  <2> QED BY <1>1, <2>1, <2>2, WhileMerging DEF MergesNew
<1> QED BY <1>3, <1>4

LEMMA EmplaceWithRehashKeeps ==
  ASSUME IInv, EmplaceWithRehash, UNCHANGED use
  PROVE  IInv'
<1> DEFINE k == Key
           b == Emplaced(GrowthArrays(X.size), HashOf(X, Key), Key)
<1>1. /\ ~IsIn(X, k) /\ UNCHANGED <<tab, was>>
      /\ act' = [act EXCEPT !.pc = "rehash", !.cursor = 0, !.new = b]
      /\ (act.pc = "start" /\ act.op = "emplace") \/ Merging
  BY DEF EmplaceWithRehash, Starts
<1>2. /\ Active /\ act.op \in {"emplace", "merge"} /\ k \in Keys
      /\ Sound(X, X.h) /\ (act.y # act.x => Sound(Y, Y.h))
      /\ Elements(X.arrays) = Before /\ (act.op = "merge" => Merging)
  <2>1. CASE act.pc = "start" /\ act.op = "emplace"
    BY <2>1, AtStart DEF ArgumentsOK, OfOne, OnKey, Constructors, Key, Before
  <2>2. CASE Merging
    BY <2>2, WhileMerging, MergingKey DEF Merging, Before
  <2> QED BY <1>1, <2>1, <2>2
<1>3. k \notin Elements(X.arrays) /\ (act.op = "merge" => MergesNew)
  <2>1. k \notin Elements(X.arrays)
    BY <1>1, <1>2, SearchResult
  <2> QED BY <1>2, <2>1, MergingKey
<1>4. X.size \in Nat /\ Roomy(X.size) /\ X.h \in Hashers /\ IsTable(X)
  <2>1. X.size \in Nat /\ X.size <= Cardinality(Keys)
    BY <1>2, SizeOfKeys DEF Sound
  <2>2. IsTable(X)
    BY <1>2 DEF Sound, Hollow
  <2> QED BY <2>1, <2>2, RoomForAll, TableFields DEF IInv
<1>5. /\ IsArrays(b, Keys) /\ WellPlaced(b, X.h, {}) /\ Elements(b) = {k}
      /\ Cardinality(MatchReallyOccupied(b)) = 1 /\ X.size + 1 <= InitialMaxLoad(b)
  <2>1. PICK a : a = GrowthArrays(X.size)
    OBVIOUS
  <2>2. Blank(a) /\ X.size + 1 <= InitialMaxLoad(a) /\ InitialMaxLoad(a) <= Capacity(a)
    BY <1>4, <2>1, GrowthRoom
  <2>3. /\ IsArrays(a, Keys) /\ WellPlaced(a, X.h, {}) /\ Elements(a) = {}
        /\ Cardinality(MatchReallyOccupied(a)) = 0
    BY <2>2, BlankEmpty
  <2>4. a.groups \in GroupCounts /\ a.built \in BOOLEAN
    BY <2>3, ArraysTyped
  <2>5. Cardinality(MatchReallyOccupied(a)) < Capacity(a)
    <3>1. Capacity(a) \in Nat /\ InitialMaxLoad(a) \in Nat
      BY <2>4, CapacityTyped
    <3> QED BY <1>4, <2>2, <2>3, <3>1
  <2>6. b = Emplaced(a, Hash[X.h][k], k)
    BY <2>1 DEF HashOf
  <2>7. PICK e : e = b
    OBVIOUS
  <2> HIDE DEF b, k
  <2>8. /\ IsArrays(e, Keys) /\ e.groups = a.groups /\ e.built = a.built
        /\ WellPlaced(e, X.h, {}) /\ Elements(e) = Elements(a) \cup {k}
        /\ Cardinality(MatchReallyOccupied(e)) = Cardinality(MatchReallyOccupied(a)) + 1
    BY <1>2, <1>4, <2>3, <2>5, <2>6, <2>7, EmplacedWellPlaced
  <2>9. InitialMaxLoad(e) = InitialMaxLoad(a)
    BY <2>8, SameCapacity
  <2> QED BY <2>2, <2>3, <2>7, <2>8, <2>9
<1>6. Extra = 1 /\ Coming = {k}
  BY <1>2 DEF Extra, Coming
<1> HIDE DEF b, k
<1>7. SameCall("rehash") /\ act'.new = b /\ act'.cursor = 0 /\ act'.outer = act.outer
  <2>1. "rehash" \in Pcs /\ 0 \in Nat /\ IsAct(act)
    BY DEF Pcs, IInv, TypeOK
  <2> QED BY <1>1, <1>5, <2>1, ActShapes
<1>8. Stays({act.x}) /\ tab'[act.x] = X
  BY <1>1, NothingSet DEF IInv, Stays, X
<1>9. Transferred(X, b, 0)
  <2>1. Extra \in Nat /\ Cardinality(MatchReallyOccupied(b)) = Extra
    BY <1>5, <1>6
  <2>2. X.size + Extra <= InitialMaxLoad(b) /\ Elements(b) = Coming /\ Elements(b) \cap Elements(X.arrays) = {}
    BY <1>3, <1>5, <1>6
  <2> QED BY <1>2, <1>5, <2>1, <2>2, TransferBegins
<1> QED BY <1>1, <1>2, <1>3, <1>7, <1>8, <1>9, RehashReached

\* Table t is left by the move of the element at place p as table u: an element less, in the
\* same groups with the same metadata.
LeftByMove(t, moved, p, u) ==
  LET a == t.arrays
      f == u.arrays IN
  /\ Hollow(u, t.h, moved \cup {p}) /\ u.h = t.h /\ u.size = t.size
  /\ f.groups = a.groups /\ MatchReallyOccupied(f) = MatchReallyOccupied(a)
  /\ \A i : From(f, i) = From(a, i) /\ Behind(f, i) = Behind(a, i)
  /\ Elements(f) = Elements(a) \ {ElementAt(a, p)} /\ ElementAt(f, p) = NoKey
  /\ \A q \in Places(a) : q # p => ElementAt(f, q) = ElementAt(a, q)

\* What the move of an element out of a table leaves.
LEMMA TableMoved ==
  ASSUME NEW t, NEW moved, Hollow(t, t.h, moved),
         NEW p, p \in MatchReallyOccupied(t.arrays), p \notin moved,
         NEW u, u = Changed(t, MovedFrom(t.arrays, p), t.ml, t.size)
  PROVE  LeftByMove(t, moved, p, u)
<1>1. PICK a, f : a = t.arrays /\ f = MovedFrom(a, p)
  OBVIOUS
<1>2. /\ IsTable(t) /\ t.h \in Hashers /\ WellPlaced(a, t.h, moved) /\ Counted(t)
      /\ IsArrays(a, Keys) /\ t.size \in Nat /\ t.ml \in Nat
  BY <1>1, TableFields DEF Hollow
<1>3. /\ IsArrays(f, Keys) /\ f.groups = a.groups /\ f.built = a.built /\ f.meta = a.meta
      /\ WellPlaced(f, t.h, moved \cup {p}) /\ MatchReallyOccupied(f) = MatchReallyOccupied(a)
      /\ Elements(f) = Elements(a) \ {ElementAt(a, p)} /\ ElementAt(f, p) = NoKey
      /\ \A q \in Places(a) : q # p => ElementAt(f, q) = ElementAt(a, q)
  <2>1. /\ IsArrays(f, Keys) /\ f.groups = a.groups /\ f.built = a.built /\ f.meta = a.meta
        /\ MatchReallyOccupied(f) = MatchReallyOccupied(a) /\ ElementAt(f, p) = NoKey
        /\ \A q \in Places(a) : q # p => ElementAt(f, q) = ElementAt(a, q)
    <3>1. IsArrays(a, Keys) /\ p \in MatchReallyOccupied(a) /\ f = MovedFrom(a, p)
      BY <1>1, <1>2
    <3> QED BY ONLY <3>1, MovedArrays
  <2>2. WellPlaced(f, t.h, moved \cup {p}) /\ Elements(f) = Elements(a) \ {ElementAt(a, p)}
    <3>1. /\ IsArrays(a, Keys) /\ t.h \in Hashers /\ WellPlaced(a, t.h, moved)
          /\ p \in MatchReallyOccupied(a) /\ p \notin moved /\ f = MovedFrom(a, p)
      BY <1>1, <1>2
    <3> QED BY ONLY <3>1, MovedWellPlaced
  <2> QED BY <2>1, <2>2
<1>4. /\ IsTable(u) /\ u.arrays = f /\ u.ml = t.ml /\ u.size = t.size
      /\ u.h = t.h /\ u.al = t.al /\ u.kind = t.kind
  <2>1. LET v == Changed(t, f, t.ml, t.size) IN
        /\ IsTable(v) /\ v.arrays = f /\ v.ml = t.ml /\ v.size = t.size
        /\ v.h = t.h /\ v.al = t.al /\ v.kind = t.kind
    BY <1>2, <1>3, TableChanged DEF Changed
  <2> QED BY <1>1, <2>1
<1>5. \A i : From(f, i) = From(a, i) /\ Behind(f, i) = Behind(a, i)
  BY <1>3, SameOccupied
<1>6. Counted(u)
  <2>1. Capacity(f) = Capacity(a)
    BY <1>3, SameCapacity
  <2> QED BY <1>1, <1>2, <1>3, <1>4, <2>1 DEF Counted
<1>7. Hollow(u, t.h, moved \cup {p})
  BY <1>2, <1>3, <1>4, <1>6 DEF Hollow
<1> QED BY <1>1, <1>3, <1>4, <1>5, <1>7 DEF LeftByMove

\* One more element is transferred, and leaves its slot if elements are moved.
LEMMA TransferNext ==
  ASSUME NEW t, NEW b, IsArrays(b, Keys), NEW c \in Nat, Transferred(t, b, c), Extra \in {0, 1},
         From(t.arrays, c) # {}, NEW p, p = FirstFrom(t.arrays, c),
         NEW k, k = ElementAt(t.arrays, p), NEW e, e = Emplaced(b, Hash[t.h][k], k),
         NEW u, IF MoveOnRehash THEN u = Changed(t, SetElem(t.arrays, p[1], p[2], NoKey), t.ml, t.size)
                ELSE u = t
  PROVE  Transferred(u, e, Index(p) + 1) /\ Index(p) + 1 \in Nat /\ IsArrays(e, Keys)
<1> DEFINE a     == t.arrays
           d     == Index(p) + 1
           moved == IF MoveOnRehash THEN Behind(a, c) ELSE {}
<1>1. /\ IsTable(t) /\ t.h \in Hashers /\ WellPlaced(a, t.h, moved) /\ Counted(t)
      /\ IsArrays(a, Keys) /\ t.size \in Nat /\ t.ml \in Nat
  <2>1. Hollow(t, t.h, moved)
    BY DEF Transferred
  <2> HIDE DEF moved
  <2> QED BY <2>1, TableFields DEF Hollow
<1>2. /\ p \in From(a, c) /\ p \in MatchReallyOccupied(a) /\ p \in Places(a) /\ d \in Nat
      /\ From(a, d) = From(a, c) \ {p} /\ Behind(a, d) = Behind(a, c) \cup {p}
      /\ Cardinality(From(a, c)) = Cardinality(From(a, d)) + 1
  BY <1>1, NextPlace
<1>3. p \in MatchReallyOccupied(a) \ moved /\ From(a, c) \subseteq MatchReallyOccupied(a) \ moved
  BY <1>1, <1>2, OccupiedFinite DEF Behind
<1>4. k \in Keys /\ k # NoKey /\ k \in Elements(a) /\ k \notin Elements(b)
  <2>1. k \notin Elements(b)
    BY <1>2 DEF Transferred
  <2> HIDE DEF moved
  <2> QED BY <1>1, <1>3, <2>1, ElementThere
<1>5. \A q \in From(a, d) : q # p /\ ElementAt(a, q) # k
  <2>1. \A q \in MatchReallyOccupied(a) \ moved : ElementAt(a, q) = k => q = p
    BY <1>1, <1>3 DEF WellPlaced
  <2> QED BY <1>2, <1>3, <2>1
<1>6. Cardinality(From(a, c)) \in Nat /\ Cardinality(From(a, d)) \in Nat
      /\ Cardinality(MatchReallyOccupied(b)) \in Nat
  BY <1>1, <1>2, OccupiedFinite
<1>7. /\ IsArrays(e, Keys) /\ e.groups = b.groups /\ e.built = b.built
      /\ WellPlaced(e, t.h, {}) /\ Elements(e) = Elements(b) \cup {k}
      /\ Cardinality(MatchReallyOccupied(e)) = Cardinality(MatchReallyOccupied(b)) + 1
  <2>1. b.groups \in GroupCounts /\ b.built \in BOOLEAN
    BY ArraysTyped
  <2>2. Cardinality(MatchReallyOccupied(b)) < Capacity(b)
    <3>1. Capacity(b) \in Nat /\ InitialMaxLoad(b) \in Nat /\ InitialMaxLoad(b) <= Capacity(b)
      BY <2>1, CapacityTyped
    <3>2. Cardinality(MatchReallyOccupied(b)) + Cardinality(From(a, c)) <= InitialMaxLoad(b)
      BY DEF Transferred
    <3> QED BY <1>2, <1>6, <3>1, <3>2
  <2>3. WellPlaced(b, t.h, {})
    BY DEF Transferred
  <2> QED BY <1>1, <1>4, <2>2, <2>3, EmplacedWellPlaced
<1>8. InitialMaxLoad(e) = InitialMaxLoad(b)
  BY <1>7, SameCapacity
<1>9. Cardinality(MatchReallyOccupied(e)) + Cardinality(From(a, d)) = t.size + Extra
      /\ t.size + Extra <= InitialMaxLoad(e)
  <2>1. Cardinality(MatchReallyOccupied(b)) + Cardinality(From(a, c)) = t.size + Extra
    BY DEF Transferred
  <2>2. t.size + Extra <= InitialMaxLoad(b)
    BY DEF Transferred
  <2> QED BY <1>1, <1>2, <1>6, <1>7, <1>8, <2>1, <2>2
<1>10. CASE ~MoveOnRehash
  <2>1. u = t /\ moved = {}
    BY <1>10
  <2>2. Hollow(u, u.h, IF MoveOnRehash THEN Behind(u.arrays, d) ELSE {})
    BY <1>10, <2>1 DEF Transferred
  <2>3. \A q \in Behind(a, d) : ElementAt(a, q) \in Elements(e) \cup {NoKey}
    BY <1>2, <1>4, <1>7 DEF Transferred
  <2>4. \A q \in From(a, d) : ElementAt(a, q) \notin Elements(e)
    BY <1>2, <1>5, <1>7 DEF Transferred
  <2>5. Elements(e) \cup Elements(a) = Before \cup Coming /\ Elements(a) = Before
    BY <1>4, <1>7, <1>10 DEF Transferred
  <2> QED BY <1>2, <1>7, <1>9, <2>1, <2>2, <2>3, <2>4, <2>5 DEF Transferred
<1>11. CASE MoveOnRehash
  <2>1. moved = Behind(a, c) /\ moved \cup {p} = Behind(a, d)
    BY <1>2, <1>11
  <2> DEFINE f == u.arrays
  <2>3. Hollow(t, t.h, moved)
    BY DEF Transferred
  <2> HIDE DEF moved
  <2>4. /\ Hollow(u, t.h, Behind(a, d)) /\ u.h = t.h /\ u.size = t.size
        /\ f.groups = a.groups /\ MatchReallyOccupied(f) = MatchReallyOccupied(a)
        /\ \A i : From(f, i) = From(a, i) /\ Behind(f, i) = Behind(a, i)
        /\ Elements(f) = Elements(a) \ {k} /\ ElementAt(f, p) = NoKey
        /\ \A q \in Places(a) : q # p => ElementAt(f, q) = ElementAt(a, q)
    <3>1. /\ p \in MatchReallyOccupied(t.arrays) /\ p \notin moved
          /\ u = Changed(t, MovedFrom(t.arrays, p), t.ml, t.size)
      BY <1>3, <1>11 DEF MovedFrom
    <3>2. LeftByMove(t, moved, p, u)
      BY ONLY <2>3, <3>1, TableMoved
    <3> QED BY <2>1, <3>2 DEF LeftByMove
  <2> HIDE DEF f
  <2>7. Hollow(u, u.h, IF MoveOnRehash THEN Behind(f, d) ELSE {})
    BY <1>11, <2>1, <2>4
  <2>8. \A q \in Behind(f, d) : ElementAt(f, q) \in Elements(e) \cup {NoKey}
    <3>1. \A q \in Behind(a, c) : ElementAt(a, q) \in Elements(b) \cup {NoKey}
      BY DEF Transferred
    <3>2. Behind(a, c) \subseteq Places(a)
      BY <1>1, OccupiedFinite DEF Behind
    <3> QED BY <1>2, <1>7, <2>4, <3>1, <3>2
  <2>9. \A q \in From(f, d) : ElementAt(f, q) \notin Elements(e)
    <3>1. \A q \in From(a, c) : ElementAt(a, q) \notin Elements(b)
      BY DEF Transferred
    <3>2. From(a, d) \subseteq Places(a)
      BY <1>1, <1>2, OccupiedFinite
    <3> QED BY <1>2, <1>5, <1>7, <2>4, <3>1, <3>2
  <2>10. Elements(e) \cup Elements(f) = Before \cup Coming
    <3>1. Elements(b) \cup Elements(a) = Before \cup Coming
      BY DEF Transferred
    <3> QED BY <1>4, <1>7, <2>4, <3>1
  <2>11. /\ WellPlaced(e, u.h, {}) /\ u.size + Extra <= InitialMaxLoad(e)
         /\ Cardinality(MatchReallyOccupied(e)) + Cardinality(From(f, d)) = u.size + Extra
    BY <1>7, <1>9, <2>4
  <2>12. Transferred(u, e, d)
    <3> HIDE DEF a, d
    <3> QED BY <1>11, <2>7, <2>8, <2>9, <2>10, <2>11 DEF Transferred, f
  <2> QED BY <1>2, <1>7, <2>12
<1> QED BY <1>2, <1>7, <1>10, <1>11

LEMMA TransferElementKeeps ==
  ASSUME IInv, TransferElement, UNCHANGED use
  PROVE  IInv'
<1> DEFINE p == Place
           k == ElementAt(X.arrays, p)
           e == Emplaced(act.new, HashOf(X, k), k)
<1>1. /\ act.pc = "rehash" /\ From(X.arrays, act.cursor) # {} /\ was' = was
      /\ act' = [act EXCEPT !.cursor = Index(p) + 1, !.new = e]
      /\ IF MoveOnRehash THEN SetX([X EXCEPT !.arrays.elem[p[1]][p[2]] = NoKey])
         ELSE UNCHANGED tab
  BY DEF TransferElement, Moving
<1>2. /\ Active /\ ArgumentsOK /\ act.op \in {"rehash", "emplace", "merge"}
      /\ IsTable(X) /\ IsTable(Y) /\ (act.y # act.x => Sound(Y, Y.h))
      /\ IsArrays(act.new, Keys) /\ act.cursor \in Nat
      /\ Transferred(X, act.new, act.cursor)
      /\ act.op = "merge" => MergesNew
  BY <1>1, WhileRehashing
<1>3. PICK u : IF MoveOnRehash THEN u = Changed(X, SetElem(X.arrays, p[1], p[2], NoKey), X.ml, X.size)
               ELSE u = X
  OBVIOUS
<1>4. tab'[act.x] = u /\ Stays({act.x})
  <2>1. CASE MoveOnRehash
    <3>1. PICK f : f = SetElem(X.arrays, p[1], p[2], NoKey)
      OBVIOUS
    <3>2. [X EXCEPT !.arrays.elem[p[1]][p[2]] = NoKey] = [X EXCEPT !.arrays = f]
      BY <3>1 DEF SetElem
    <3>3. X = [arrays |-> X.arrays, size |-> X.size, ml |-> X.ml, h |-> X.h, al |-> X.al,
               kind |-> X.kind]
      BY <1>2, TableRecord
    <3>4. [X EXCEPT !.arrays = f] = u
      <4>1. PICK x : x = X
        OBVIOUS
      <4>2. [x EXCEPT !.arrays = f]
              = [arrays |-> f, size |-> x.size, ml |-> x.ml, h |-> x.h, al |-> x.al, kind |-> x.kind]
        BY <3>3, <4>1
      <4> QED BY <1>3, <2>1, <3>1, <4>1, <4>2 DEF Changed
    <3>5. SetX(u)
      BY <1>1, <2>1, <3>2, <3>4
    <3> QED BY <1>2, <3>5, OneSet DEF IInv
  <2>2. CASE ~MoveOnRehash
    <3>1. tab' = tab /\ u = X
      BY <1>1, <1>3, <2>2
    <3> QED BY <3>1, NothingSet DEF IInv, Stays, X
  <2> QED BY <2>1, <2>2
<1>5. Extra \in {0, 1} /\ e = Emplaced(act.new, Hash[X.h][k], k) /\ p = FirstFrom(X.arrays, act.cursor)
  BY DEF Extra, HashOf, Place
<1> HIDE DEF p, k, e
<1>6. Transferred(u, e, Index(p) + 1) /\ Index(p) + 1 \in Nat /\ IsArrays(e, Keys)
  BY <1>1, <1>2, <1>3, <1>5, TransferNext DEF k
<1>7. SameCall("rehash") /\ act'.new = e /\ act'.cursor = Index(p) + 1 /\ act'.outer = act.outer
  <2>1. act.pc \in Pcs /\ IsAct(act)
    BY ActFields DEF IInv, TypeOK
  <2> QED BY <1>1, <1>6, <2>1, ActShapes
<1> QED BY <1>1, <1>2, <1>4, <1>6, <1>7, RehashReached

LEMMA OtherSlotsKept ==
  ASSUME NEW a, IsArrays(a, Keys), NEW places, NEW b, b = WithoutSlots(a, places)
  PROVE  \A g \in Groups(a), n \in Slots : <<g, n>> \notin places => b.elem[g][n] = a.elem[g][n]
<1>1. /\ IsArrays(b, Keys) /\ b.groups = a.groups /\ b.built = a.built /\ b.overflow = a.overflow
      /\ \A g \in Groups(a), n \in Slots :
           /\ <<g, n>> \in places => b.meta[g][n] = Available /\ b.elem[g][n] = NoKey
           /\ <<g, n>> \notin places => b.meta[g][n] = a.meta[g][n] /\ b.elem[g][n] = a.elem[g][n]
  BY SlotsRemoved
<1> QED BY <1>1

LEMMA SourceErasure ==
  ASSUME NEW t, Sound(t, t.h), NEW c \in Nat, From(t.arrays, c) # {},
         NEW q, q = FirstFrom(t.arrays, c), NEW k, k = ElementAt(t.arrays, q),
         NEW places, places = {q}, NEW u, u = Recovered(t, places)
  PROVE  /\ Sound(u, u.h) /\ Elements(u.arrays) = Elements(t.arrays) \ {k}
         /\ \A p \in Behind(u.arrays, c) :
              p \in Behind(t.arrays, c) /\ ElementAt(u.arrays, p) = ElementAt(t.arrays, p)
<1> DEFINE a == t.arrays
           b == u.arrays
           O == MatchReallyOccupied(a)
<1>1. q \in From(a, c) /\ q \in O
  BY NextSource
<1>2. IsTable(t) /\ IsArrays(a, Keys) /\ Hollow(t, t.h, {}) /\ {} \subseteq places /\ places \subseteq O
  BY <1>1, TableFields DEF Sound, Hollow
<1>3. /\ Sound(u, t.h) /\ u.h = t.h /\ u.al = t.al /\ u.kind = t.kind
      /\ MatchReallyOccupied(b) = O \ places
      /\ \A rest : rest = O \ places => Elements(b) = ElementsIn(a, rest)
      /\ b.groups = a.groups
  BY <1>2, RecoveredSound
<1>4. Elements(b) = Elements(a) \ {k}
  <2>1. PICK rest : rest = O \ {q}
    OBVIOUS
  <2>2. ElementsIn(a, rest) = Elements(a) \ {k}
    BY <1>1, <2>1, OneErased
  <2> HIDE DEF a, b, O
  <2> QED BY <1>3, <2>1, <2>2
<1>5. b = WithoutSlots(a, places)
  <2>1. t \in [arrays : {t.arrays}, size : Nat, ml : Nat, h : Hashers, al : Allocators,
               kind : {"plain", "concurrent"}]
    BY <1>2 DEF IsTable
  <2> QED BY <2>1 DEF Recovered
<1>6. \A g \in Groups(a), n \in Slots : <<g, n>> \notin places => b.elem[g][n] = a.elem[g][n]
  <2>1. PICK x : x = a
    OBVIOUS
  <2>2. PICK y : y = b
    OBVIOUS
  <2>3. IsArrays(x, Keys) /\ y = WithoutSlots(x, places)
    BY <1>2, <1>5, <2>1, <2>2
  <2> HIDE DEF a, b, O
  <2>4. \A g \in Groups(x), n \in Slots : <<g, n>> \notin places => y.elem[g][n] = x.elem[g][n]
    BY ONLY <2>3, OtherSlotsKept
  <2> QED BY <2>1, <2>2, <2>4
<1>7. ASSUME NEW p \in Behind(b, c)
      PROVE  p \in Behind(a, c) /\ ElementAt(b, p) = ElementAt(a, p)
  <2>1. p \in O /\ p \notin places /\ ~(Index(p) >= c)
    BY <1>3 DEF Behind, From
  <2>2. p = <<p[1], p[2]>> /\ p[1] \in Groups(a) /\ p[2] \in Slots
    BY <2>1, PlaceParts DEF MatchReallyOccupied
  <2>3. ElementAt(b, p) = ElementAt(a, p)
    BY <1>6, <2>1, <2>2 DEF ElementAt
  <2> QED BY <2>1, <2>3 DEF Behind, From
<1> QED BY <1>3, <1>4, <1>7

\* What a merge leaves of its source when the element it has come to is erased.
LEMMA SourceErasedSound ==
  ASSUME IInv, act.pc \in {"merge", "rehash"}, act.op = "merge", From(Y.arrays, act.outer) # {},
         Sound(Y, Y.h), NEW v, v = SourceErased
  PROVE  /\ Sound(v, v.h) /\ Elements(v.arrays) = Elements(Y.arrays) \ {Key}
         /\ Key \in Keys /\ Key \in Elements(Y.arrays)
         /\ \A p \in Behind(v.arrays, act.outer) :
              p \in Behind(Y.arrays, act.outer) /\ ElementAt(v.arrays, p) = ElementAt(Y.arrays, p)
<1>1. PICK t, q, c : t = Y /\ c = act.outer /\ q = FirstFrom(t.arrays, c)
  OBVIOUS
<1>2. c \in Nat /\ Key = ElementAt(t.arrays, q)
  BY <1>1, ActFields DEF IInv, TypeOK, Key
<1>3. PICK places : places = {q}
  OBVIOUS
<1>4. v = Recovered(t, places) /\ Sound(t, t.h) /\ From(t.arrays, c) # {}
  BY <1>1, <1>3 DEF SourceErased
<1>5. PICK k : k = Key /\ k = ElementAt(t.arrays, q)
  BY <1>2
<1>6. /\ Sound(v, v.h) /\ Elements(v.arrays) = Elements(t.arrays) \ {k}
      /\ \A p \in Behind(v.arrays, c) :
           p \in Behind(t.arrays, c) /\ ElementAt(v.arrays, p) = ElementAt(t.arrays, p)
  <2>1. /\ Sound(t, t.h) /\ c \in Nat /\ From(t.arrays, c) # {} /\ q = FirstFrom(t.arrays, c)
        /\ k = ElementAt(t.arrays, q) /\ places = {q} /\ v = Recovered(t, places)
    BY <1>1, <1>2, <1>3, <1>4, <1>5
  <2> QED BY ONLY <2>1, SourceErasure
<1>7. Key \in Keys /\ Key \in Elements(t.arrays)
  BY <1>1, <1>2, <1>4, NextSource
<1> QED BY <1>1, <1>5, <1>6, <1>7


\* The table that a transfer which throws leaves: without the slots whose
\* elements were moved.
LEMMA TransferAbandoned ==
  ASSUME NEW t, NEW b, NEW c \in Nat, Transferred(t, b, c), NEW d \in Nat, c <= d,
         NEW gone, gone = {p \in MatchReallyOccupied(t.arrays) : Index(p) < d},
         NEW u, IF MoveOnRehash THEN u = Recovered(t, gone) ELSE u = t
  PROVE  Sound(u, u.h) /\ (~MoveOnRehash => Elements(u.arrays) = Before)
<1>1. CASE ~MoveOnRehash
  <2>1. Hollow(t, t.h, {}) /\ Elements(t.arrays) = Before /\ u = t
    BY <1>1 DEF Transferred
  <2> QED BY <1>1, <2>1 DEF Sound
<1>2. CASE MoveOnRehash
  <2>1. PICK moved : moved = Behind(t.arrays, c)
    OBVIOUS
  <2>2. Hollow(t, t.h, moved) /\ u = Recovered(t, gone)
    BY <1>2, <2>1 DEF Transferred
  <2>3. moved \subseteq gone /\ gone \subseteq MatchReallyOccupied(t.arrays)
    <3>1. t.arrays.groups \in GroupCounts
      BY <2>2, TableFields DEF Hollow
    <3>2. \A p \in MatchReallyOccupied(t.arrays) : Index(p) \in Nat
      BY <3>1, IndexOfPlace DEF MatchReallyOccupied
    <3> QED BY <2>1, <3>2 DEF Behind, From
  <2>4. Sound(u, t.h) /\ u.h = t.h
    BY <2>2, <2>3, RecoveredSound
  <2> QED BY <1>2, <2>4
<1> QED BY <1>1, <1>2

LEMMA ActFails ==
  ASSUME IsAct(act), NEW r \in Results,
         act' = [act EXCEPT !.pc = "done", !.res = r, !.new = DummyArrays]
  PROVE  SameCall("done") /\ act'.res = r
<1> DEFINE Acts(b) == [op : OfOne \cup OfTwo \cup {"none"}, x : Tables \cup {NoTable},
                       y : Tables \cup {NoTable}, key : Keys \cup {NoKey}, n : Nat, pc : Pcs,
                       new : {b}, cursor : Nat, outer : Nat, res : Results]
<1>1. PICK a : a = DummyArrays
  OBVIOUS
<1>2. IsArrays(a, Keys) /\ "done" \in Pcs /\ act \in Acts(act.new)
  BY <1>1, DummyArraysTyped DEF Pcs, IsAct
<1>3. act' = [act EXCEPT !.pc = "done", !.res = r, !.new = a]
  BY <1>1
<1>4. /\ act' \in Acts(a) /\ act'.pc = "done" /\ act'.new = a /\ act'.res = r
      /\ act'.op = act.op /\ act'.x = act.x /\ act'.y = act.y /\ act'.key = act.key /\ act'.n = act.n
  BY <1>2, <1>3
<1>5. IsAct(act')
  BY <1>2, <1>4 DEF IsAct
<1> QED BY <1>4, <1>5 DEF SameCall

LEMMA TransferThrowsKeeps ==
  ASSUME IInv, TransferThrows, UNCHANGED use
  PROVE  IInv'
<1>1. act.pc = "rehash" /\ From(X.arrays, act.cursor) # {} /\ was' = was
  BY DEF TransferThrows, Moving
<1>2. /\ Active /\ ArgumentsOK /\ act.op \in {"rehash", "emplace", "merge"}
      /\ IsTable(X) /\ IsTable(Y) /\ (act.y # act.x => Sound(Y, Y.h))
      /\ act.cursor \in Nat
      /\ Transferred(X, act.new, act.cursor)
      /\ act.op = "merge" => MergesNew
      /\ act.op # "merge" => act.y = act.x /\ Before = was[act.x]
  BY <1>1, WhileRehashing
<1>9. PICK cause \in {"hash", "element"} : \E d, t :
        /\ d = (IF cause = "element" /\ MoveOnRehash THEN Index(Place) + 1 ELSE act.cursor)
        /\ t = RecoveredUpTo(d)
        /\ IF act.op = "merge" THEN SetXY(t, SourceErased) ELSE SetX(t)
        /\ act' = [act EXCEPT !.pc = "done", !.res = cause, !.new = DummyArrays]
  BY DEF TransferThrows
<1>3. PICK d, t :
        /\ d = (IF cause = "element" /\ MoveOnRehash THEN Index(Place) + 1 ELSE act.cursor)
        /\ t = RecoveredUpTo(d)
        /\ IF act.op = "merge" THEN SetXY(t, SourceErased) ELSE SetX(t)
        /\ act' = [act EXCEPT !.pc = "done", !.res = cause, !.new = DummyArrays]
  BY <1>9
<1>4. d \in Nat /\ act.cursor <= d
  <2>1. IsArrays(X.arrays, Keys)
    BY <1>2, TableFields
  <2>2. Place \in From(X.arrays, act.cursor) /\ Index(Place) + 1 \in Nat /\ Place \in Places(X.arrays)
    BY <1>1, <1>2, <2>1, NextPlace DEF Place
  <2>3. Index(Place) \in Nat /\ Index(Place) >= act.cursor
    <3>1. X.arrays.groups \in GroupCounts
      BY <1>2, TableFields
    <3> QED BY <2>2, <3>1, IndexOfPlace DEF From
  <2> QED BY <1>2, <1>3, <2>3
<1>5. Sound(t, t.h) /\ (~MoveOnRehash => Elements(t.arrays) = Before)
  <2>1. PICK gone : gone = {p \in MatchReallyOccupied(X.arrays) : Index(p) < d}
    OBVIOUS
  <2>2. IF MoveOnRehash THEN t = Recovered(X, gone) ELSE t = X
    BY <1>3, <2>1 DEF RecoveredUpTo
  <2> QED BY <1>2, <1>4, <2>1, <2>2, TransferAbandoned
<1>6. SameCall("done") /\ act'.res = cause
  BY <1>3, ActFails DEF IInv, TypeOK, Results
<1>7. CASE act.op = "merge"
  <2>1. act.x # act.y /\ From(Y.arrays, act.outer) # {} /\ Sound(Y, Y.h)
    BY <1>2, <1>7 DEF MergesNew
  <2>2. PICK v : v = SourceErased
    OBVIOUS
  <2>3. Sound(v, v.h)
    BY <1>1, <1>7, <2>1, <2>2, SourceErasedSound
  <2>4. tab'[act.x] = t /\ tab'[act.y] = v /\ Stays({act.x, act.y})
    BY <1>2, <1>3, <1>7, <2>1, <2>2, TwoSet DEF IInv
  <2> QED BY <1>1, <1>2, <1>5, <1>6, <1>7, <2>3, <2>4, Finishing
<1>8. CASE act.op # "merge"
  <2>1. tab'[act.x] = t /\ Stays({act.x, act.y})
    BY <1>2, <1>3, <1>8, OneSet DEF IInv
  <2>2. After(act.x) = Elements(t.arrays)
    BY <1>5, <2>1, TableFields DEF After, Sound, Hollow
  <2> QED BY <1>1, <1>2, <1>5, <1>6, <1>8, <2>1, <2>2, Finishing
<1> QED BY <1>7, <1>8


\* The table that a transfer to its end leaves: all elements are in the new arrays.
LEMMA TransferEnds ==
  ASSUME NEW t, NEW b, IsArrays(b, Keys), NEW c \in Nat, Transferred(t, b, c),
         From(t.arrays, c) = {}, Extra \in {0, 1},
         NEW m, m = InitialMaxLoad(b), NEW s, s = t.size + Extra,
         NEW u, u = Changed(t, b, m, s)
  PROVE  Sound(u, u.h) /\ Elements(u.arrays) = Before \cup Coming
<1> DEFINE a     == t.arrays
           moved == IF MoveOnRehash THEN Behind(a, c) ELSE {}
<1>1. /\ IsTable(t) /\ t.h \in Hashers /\ WellPlaced(a, t.h, moved)
      /\ IsArrays(a, Keys) /\ t.size \in Nat
  <2>1. Hollow(t, t.h, moved)
    BY DEF Transferred
  <2> HIDE DEF moved
  <2> QED BY <2>1, TableFields DEF Hollow
<1>2. Behind(a, c) = MatchReallyOccupied(a) /\ Cardinality(From(a, c)) = 0
  BY NoneAhead
<1>3. Elements(a) \subseteq Elements(b)
  <2>1. \A k \in Elements(a) : k \in Keys /\ \E p \in MatchReallyOccupied(a) \ moved : ElementAt(a, p) = k
    <3> HIDE DEF moved
    <3> QED BY <1>1, ElementsHavePlaces
  <2>2. \A p \in MatchReallyOccupied(a) : ElementAt(a, p) \in Elements(b) \cup {NoKey}
    BY <1>2 DEF Transferred
  <2>3. NoKey \notin Keys
    BY HashAssumption
  <2> HIDE DEF moved
  <2> QED BY <2>1, <2>2, <2>3
<1>4. Elements(b) = Before \cup Coming
  <2>1. Elements(b) \cup Elements(a) = Before \cup Coming
    BY DEF Transferred
  <2> QED BY <1>3, <2>1
<1>5. b.groups \in GroupCounts /\ b.built \in BOOLEAN
  BY ArraysTyped
<1>6. m \in Nat /\ Capacity(b) \in Nat /\ m <= Capacity(b) /\ s \in Nat
  BY <1>1, <1>5, CapacityTyped
<1>7. /\ IsTable(u) /\ u.arrays = b /\ u.ml = m /\ u.size = s
      /\ u.h = t.h /\ u.al = t.al /\ u.kind = t.kind
  <2>1. LET v == Changed(t, b, m, s) IN
        /\ IsTable(v) /\ v.arrays = b /\ v.ml = m /\ v.size = s
        /\ v.h = t.h /\ v.al = t.al /\ v.kind = t.kind
    BY <1>1, <1>6, TableChanged DEF Changed
  <2> QED BY <2>1
<1>8. Counted(u)
  <2>1. Cardinality(MatchReallyOccupied(b)) \in Nat
    <3>1. 0 \in Nat
      OBVIOUS
    <3> QED BY <3>1, OccupiedFinite
  <2>2. Cardinality(MatchReallyOccupied(b)) + Cardinality(From(a, c)) = s /\ s <= m
    BY DEF Transferred
  <2>3. Cardinality(MatchReallyOccupied(b)) = s
    BY <1>2, <1>6, <2>1, <2>2
  <2> QED BY <1>6, <1>7, <2>2, <2>3 DEF Counted
<1>9. WellPlaced(b, t.h, {})
  BY DEF Transferred
<1> QED BY <1>1, <1>4, <1>7, <1>8, <1>9 DEF Sound, Hollow

\* A merge goes on after the element it had come to was added to its target.
LEMMA MergeGoesOn ==
  ASSUME IInv, act.pc \in {"merge", "rehash"}, act.op = "merge", UNCHANGED <<use, was>>,
         SameCall("merge"), act'.outer = act.outer, MergesNew, Sound(Y, Y.h),
         NEW u, Sound(u, u.h), Elements(u.arrays) = Before \cup {Key}, SetXY(u, SourceErased)
  PROVE  IInv'
<1>1. Active /\ ArgumentsOK /\ act.x # act.y /\ From(Y.arrays, act.outer) # {}
  BY DEF IInv, ControlOK, Active, MergesNew
<1>2. PICK v : v = SourceErased
  OBVIOUS
<1>3. /\ Sound(v, v.h) /\ Elements(v.arrays) = Elements(Y.arrays) \ {Key}
      /\ Key \in Keys /\ Key \in Elements(Y.arrays)
      /\ \A p \in Behind(v.arrays, act.outer) :
           p \in Behind(Y.arrays, act.outer) /\ ElementAt(v.arrays, p) = ElementAt(Y.arrays, p)
  BY <1>1, <1>2, SourceErasedSound
<1>4. tab'[act.x] = u /\ tab'[act.y] = v /\ Stays({act.x, act.y})
  BY <1>1, <1>2, TwoSet DEF IInv
<1>5. /\ act.x \in Tables /\ act.y \in Tables
      /\ act'.pc = "merge" /\ act'.op = "merge" /\ act'.x = act.x /\ act'.y = act.y
  BY <1>1 DEF ArgumentsOK, SameCall
<1>6. IsTable(u) /\ IsTable(v) /\ u # NoTable /\ v # NoTable
  BY <1>3, TableFields DEF Sound, Hollow
<1>7. Contents(act.x)' = Elements(u.arrays) /\ Contents(act.y)' = Elements(v.arrays) /\ Y' = v
  BY <1>4, <1>5, <1>6, ContentsOf DEF After, Y
<1>8. Contents(act.y) = Elements(Y.arrays)
  <2>1. tab[act.y] # NoTable
    BY <1>1 DEF IInv, ControlOK, ObjectsOK, Built
  <2> QED BY <1>5, <2>1, ContentsOf DEF Y
<1>9. /\ Elements(v.arrays) \subseteq was[act.y]
      /\ was[act.x] \cap was[act.y] \subseteq Elements(v.arrays)
      /\ \A p \in Behind(v.arrays, act.outer) : ElementAt(v.arrays, p) \in was[act.x]
      /\ Elements(u.arrays) = was[act.x] \cup (was[act.y] \ Elements(v.arrays))
  <2>1. Before = was[act.x] \cup (was[act.y] \ Elements(Y.arrays))
    BY <1>8 DEF Before
  <2> QED BY <1>3, <1>8, <2>1 DEF MergesNew
<1>10. MergeOK'
  <2>1. Before' = was[act.x] \cup (was[act.y] \ Elements(v.arrays))
    BY <1>5, <1>7 DEF Before
  <2> QED BY <1>5, <1>7, <1>9, <2>1 DEF MergeOK
<1>11. RehashOK' /\ CopyOK' /\ MoveOK' /\ AssignOK' /\ FillOK' /\ OpOK'
  BY <1>5 DEF RehashOK, CopyOK, MoveOK, AssignOK, FillOK, OpOK
<1>12. "merge" \in Pcs \ {"idle", "start", "done"}
       /\ "merge" \notin Beginnings /\ "merge" \notin {"copy", "move", "assign_arrays", "assign_reserve"}
  BY DEF Pcs, Beginnings
<1> HIDE DEF Beginnings
<1> QED BY <1>1, <1>3, <1>4, <1>6, <1>10, <1>11, <1>12, Continuing


LEMMA ActEnds ==
  ASSUME IsAct(act), NEW p \in Pcs, NEW r \in Results,
         act' = [act EXCEPT !.new = DummyArrays, !.cursor = 0, !.pc = p, !.res = r]
  PROVE  SameCall(p) /\ act'.res = r /\ act'.outer = act.outer
<1> DEFINE Acts(b) == [op : OfOne \cup OfTwo \cup {"none"}, x : Tables \cup {NoTable},
                       y : Tables \cup {NoTable}, key : Keys \cup {NoKey}, n : Nat, pc : Pcs,
                       new : {b}, cursor : Nat, outer : Nat, res : Results]
<1>1. PICK a : a = DummyArrays
  OBVIOUS
<1>2. IsArrays(a, Keys) /\ act \in Acts(act.new)
  BY <1>1, DummyArraysTyped DEF IsAct
<1>3. PICK u : u = [act EXCEPT !.new = a, !.cursor = 0]
  OBVIOUS
<1>4. /\ u \in Acts(a) /\ u.new = a /\ u.outer = act.outer
      /\ u.op = act.op /\ u.x = act.x /\ u.y = act.y /\ u.key = act.key /\ u.n = act.n
  BY <1>2, <1>3
<1>5. act' = [u EXCEPT !.pc = p, !.res = r]
  BY <1>1, <1>3
<1>6. /\ act' \in Acts(a) /\ act'.pc = p /\ act'.new = a /\ act'.res = r /\ act'.outer = u.outer
      /\ act'.op = u.op /\ act'.x = u.x /\ act'.y = u.y /\ act'.key = u.key /\ act'.n = u.n
  BY <1>4, <1>5
<1>7. IsAct(act')
  BY <1>2, <1>6 DEF IsAct
<1> QED BY <1>4, <1>6, <1>7 DEF SameCall

LEMMA FinishRehashKeeps ==
  ASSUME IInv, FinishRehash, UNCHANGED use
  PROVE  IInv'
<1>1. /\ act.pc = "rehash" /\ From(X.arrays, act.cursor) = {} /\ was' = was
      /\ act' = [act EXCEPT !.new = DummyArrays, !.cursor = 0,
                            !.pc = IF act.op = "merge" THEN "merge" ELSE "done",
                            !.res = IF act.op = "merge" THEN "none" ELSE "ok"]
  BY DEF FinishRehash
<1>2. /\ Active /\ ArgumentsOK /\ act.op \in {"rehash", "emplace", "merge"}
      /\ IsTable(X) /\ (act.y # act.x => Sound(Y, Y.h)) /\ IsArrays(act.new, Keys)
      /\ act.cursor \in Nat /\ Transferred(X, act.new, act.cursor)
      /\ act.op = "merge" => MergesNew
      /\ act.op # "merge" => act.y = act.x /\ Before = was[act.x]
  BY <1>1, WhileRehashing
<1>3. PICK m, s, u : /\ m = InitialMaxLoad(act.new) /\ s = X.size + Extra
                     /\ u = Changed(X, act.new, m, s)
  OBVIOUS
<1>4. X.size \in Nat /\ Extra \in {0, 1} /\ (Extra = 0 <=> act.op = "rehash")
  BY <1>2, TableFields DEF Extra
<1>5. Sound(u, u.h) /\ Elements(u.arrays) = Before \cup Coming
  BY <1>1, <1>2, <1>3, <1>4, TransferEnds
<1>6. IF act.op = "merge" THEN SetXY(u, SourceErased) ELSE SetX(u)
  <2> DEFINE t == WithNew(X, act.new)
             w == [t EXCEPT !.size = @ + 1]
  <2>1. \/ act.op = "rehash" /\ SetX(t)
        \/ act.op = "emplace" /\ SetX(w)
        \/ act.op = "merge" /\ SetXY(w, SourceErased)
    BY DEF FinishRehash
  <2>2. t = Changed(X, act.new, m, X.size) /\ w = Changed(X, act.new, m, X.size + 1)
    <3>1. PICK x, b : x = X /\ b = act.new
      OBVIOUS
    <3>2. x = [arrays |-> x.arrays, size |-> x.size, ml |-> x.ml, h |-> x.h, al |-> x.al,
               kind |-> x.kind]
      BY <1>2, <3>1, TableRecord
    <3>3. [x EXCEPT !.arrays = b, !.ml = m] = Changed(x, b, m, x.size)
      <4>1. PICK y : y = [x EXCEPT !.arrays = b]
        OBVIOUS
      <4>2. y = [arrays |-> b, size |-> x.size, ml |-> x.ml, h |-> x.h, al |-> x.al,
                 kind |-> x.kind]
        BY <3>2, <4>1
      <4>3. [x EXCEPT !.arrays = b, !.ml = m] = [y EXCEPT !.ml = m]
        BY <4>1
      <4> QED BY <4>2, <4>3 DEF Changed
    <3>4. t = Changed(x, b, m, x.size)
      BY <1>3, <3>1, <3>3 DEF WithNew, WithArrays
    <3>5. w = Changed(x, b, m, x.size + 1)
      BY <3>4 DEF Changed
    <3> QED BY <3>1, <3>4, <3>5
  <2>3. act.op = "rehash" => t = u
    BY <1>3, <1>4, <2>2
  <2>4. act.op # "rehash" => w = u
    BY <1>3, <1>4, <2>2
  <2> HIDE DEF t, w
  <2> QED BY <2>1, <2>3, <2>4
<1>7. CASE act.op = "merge"
  <2>1. /\ SameCall("merge") /\ act'.outer = act.outer
    <3>1. act' = [act EXCEPT !.new = DummyArrays, !.cursor = 0, !.pc = "merge", !.res = "none"]
      BY <1>1, <1>7
    <3> QED BY <3>1, ActEnds DEF Pcs, Results, IInv, TypeOK
  <2>2. Coming = {Key}
    BY <1>7 DEF Coming
  <2>3. Sound(Y, Y.h) /\ MergesNew
    BY <1>2, <1>7 DEF MergesNew
  <2> QED BY <1>1, <1>5, <1>6, <1>7, <2>1, <2>2, <2>3, MergeGoesOn
<1>8. CASE act.op # "merge"
  <2>1. SameCall("done") /\ act'.res = "ok"
    <3>1. act' = [act EXCEPT !.new = DummyArrays, !.cursor = 0, !.pc = "done", !.res = "ok"]
      BY <1>1, <1>8
    <3> QED BY <3>1, ActEnds DEF Pcs, Results, IInv, TypeOK
  <2>2. tab'[act.x] = u /\ Stays({act.x, act.y})
    BY <1>2, <1>6, <1>8, OneSet DEF IInv
  <2>3. After(act.x) = Elements(u.arrays)
    BY <1>5, <2>2, TableFields DEF After, Sound, Hollow
  <2>4. Delivered(After(act.x), After(act.y))
    BY <1>2, <1>5, <1>8, <2>3 DEF Delivered, Coming, Key
  <2> QED BY <1>1, <1>2, <1>5, <1>8, <2>1, <2>2, <2>4, Finishing
<1> QED BY <1>7, <1>8

-----------------------------------------------------------------------------
(* Merge *)

LEMMA MergeStartsKeeps ==
  ASSUME IInv, MergeStarts, UNCHANGED use
  PROVE  IInv'
<1>1. act.pc = "start" /\ act.op = "merge" /\ act' = [act EXCEPT !.pc = "merge"]
      /\ tab' = tab /\ was' = was
  BY DEF MergeStarts, Starts, Goto
<1>2. /\ Active /\ ArgumentsOK /\ act.outer = 0 /\ act.op \notin Constructors
      /\ IsTable(X) /\ IsTable(Y) /\ Sound(X, X.h) /\ Sound(Y, Y.h)
      /\ Contents(act.x) = was[act.x] /\ Contents(act.y) = was[act.y]
  BY <1>1, AtStart DEF Constructors, ArgumentsOK
<1>3. SameCall("merge") /\ act'.outer = act.outer
  <2>1. PICK a, i : a = act.new /\ i \in Nat
    OBVIOUS
  <2>2. IsArrays(a, Keys) /\ "merge" \in Pcs /\ IsAct(act)
    BY <2>1, ActFields DEF Pcs, IInv, TypeOK
  <2> QED BY <1>1, <2>1, <2>2, ActShapes
<1>4. act'.pc = "merge" /\ act'.op = "merge" /\ act'.x = act.x /\ act'.y = act.y
  BY <1>1, <1>3 DEF SameCall
<1>5. Behind(Y.arrays, 0) = {}
  <2>1. IsArrays(Y.arrays, Keys) /\ 0 \in Nat
    BY <1>2, TableFields
  <2> QED BY <2>1, OccupiedFinite DEF Behind
<1>6. MergeOK'
  <2>1. Contents(act.x)' = was[act.x] /\ Contents(act.y)' = was[act.y] /\ Y' = Y
    BY <1>1, <1>2, <1>4 DEF Contents, Built, Y
  <2>2. Before' = was[act.x]
    BY <1>1, <1>4, <2>1 DEF Before
  <2> QED BY <1>1, <1>2, <1>3, <1>4, <1>5, <2>1, <2>2 DEF MergeOK
<1>7. RehashOK' /\ CopyOK' /\ MoveOK' /\ AssignOK' /\ FillOK' /\ OpOK'
  BY <1>4 DEF RehashOK, CopyOK, MoveOK, AssignOK, FillOK, OpOK
<1>8. "merge" \in Pcs \ {"idle", "start", "done"}
       /\ "merge" \notin Beginnings /\ "merge" \notin {"copy", "move", "assign_arrays", "assign_reserve"}
  BY DEF Pcs, Beginnings
<1>9. Stays({act.x, act.y}) /\ tab'[act.x] = X /\ tab'[act.y] = Y
  BY <1>1, NothingSet DEF IInv, Stays, X, Y
<1> HIDE DEF Beginnings
<1> QED BY <1>1, <1>2, <1>3, <1>6, <1>7, <1>8, <1>9, Continuing


LEMMA MergeSkipsKeeps ==
  ASSUME IInv, MergeSkips, UNCHANGED use
  PROVE  IInv'
<1> DEFINE q == FirstFrom(Y.arrays, act.outer)
<1>1. /\ Merging /\ IsIn(X, Key) /\ act.pc = "merge" /\ From(Y.arrays, act.outer) # {}
      /\ act' = [act EXCEPT !.outer = Index(q) + 1] /\ tab' = tab /\ was' = was
  BY DEF MergeSkips, Merging
<1>2. /\ Active /\ ArgumentsOK /\ act.op = "merge" /\ act.outer \in Nat
      /\ IsTable(X) /\ IsTable(Y) /\ Sound(X, X.h) /\ Sound(Y, Y.h)
      /\ Contents(act.x) = Elements(X.arrays) /\ Contents(act.y) = Elements(Y.arrays)
      /\ Elements(Y.arrays) \subseteq was[act.y]
      /\ was[act.x] \cap was[act.y] \subseteq Elements(Y.arrays)
      /\ Elements(X.arrays) = was[act.x] \cup (was[act.y] \ Elements(Y.arrays))
      /\ \A p \in Behind(Y.arrays, act.outer) : ElementAt(Y.arrays, p) \in was[act.x]
  BY <1>1, WhileMerging
<1>3. Index(q) + 1 \in Nat /\ Behind(Y.arrays, Index(q) + 1) = Behind(Y.arrays, act.outer) \cup {q}
  <2>1. PICK t, c, p : t = Y /\ c = act.outer /\ p = FirstFrom(t.arrays, c)
    OBVIOUS
  <2>2. c \in Nat /\ From(t.arrays, c) # {} /\ Sound(t, t.h)
    BY <1>1, <1>2, <2>1
  <2>3. Index(p) + 1 \in Nat /\ Behind(t.arrays, Index(p) + 1) = Behind(t.arrays, c) \cup {p}
    BY <2>1, <2>2, NextSource
  <2> QED BY <2>1, <2>3
<1>4. ElementAt(Y.arrays, q) \in was[act.x]
  <2>1. Key = ElementAt(Y.arrays, q)
    BY <1>2 DEF Key
  <2>2. Key \in Keys /\ Key \in Elements(Y.arrays)
    BY <1>1, MergingKey
  <2>3. Key \in Elements(X.arrays)
    BY <1>1, <1>2, <2>2, SearchResult
  <2> QED BY <1>2, <2>1, <2>2, <2>3
<1>5. PICK i : i = Index(q) + 1
  OBVIOUS
<1>6. SameCall("merge") /\ act'.outer = i
  <2>1. PICK a : a = act.new
    OBVIOUS
  <2>2. IsArrays(a, Keys) /\ "merge" \in Pcs /\ IsAct(act) /\ i \in Nat
    BY <1>3, <1>5, <2>1, ActFields DEF Pcs, IInv, TypeOK
  <2>3. act' = [act EXCEPT !.outer = i]
    BY <1>1, <1>5
  <2> HIDE DEF q
  <2> QED BY <1>1, <2>1, <2>2, <2>3, ActShapes
<1>7. act'.pc = "merge" /\ act'.op = "merge" /\ act'.x = act.x /\ act'.y = act.y
  BY <1>2, <1>6 DEF SameCall
<1>8. \A p \in Behind(Y.arrays, i) : ElementAt(Y.arrays, p) \in was[act.x]
  BY <1>2, <1>3, <1>4, <1>5
<1> HIDE DEF q
<1>9. MergeOK'
  <2>1. /\ Contents(act.x)' = Elements(X.arrays) /\ Contents(act.y)' = Elements(Y.arrays)
        /\ Y' = Y
    BY <1>1, <1>2, <1>7 DEF Contents, Built, Y
  <2>2. Before' = was[act.x] \cup (was[act.y] \ Elements(Y.arrays))
    BY <1>1, <1>7, <2>1 DEF Before
  <2> QED BY <1>1, <1>2, <1>6, <1>7, <1>8, <2>1, <2>2 DEF MergeOK
<1>10. RehashOK' /\ CopyOK' /\ MoveOK' /\ AssignOK' /\ FillOK' /\ OpOK'
  BY <1>7 DEF RehashOK, CopyOK, MoveOK, AssignOK, FillOK, OpOK
<1>11. "merge" \in Pcs \ {"idle", "start", "done"}
       /\ "merge" \notin Beginnings /\ "merge" \notin {"copy", "move", "assign_arrays", "assign_reserve"}
  BY DEF Pcs, Beginnings
<1>12. Stays({act.x, act.y}) /\ tab'[act.x] = X /\ tab'[act.y] = Y
  BY <1>1, NothingSet DEF IInv, Stays, X, Y
<1> HIDE DEF Beginnings
<1> QED BY <1>1, <1>2, <1>6, <1>9, <1>10, <1>11, <1>12, Continuing

LEMMA MergeInPlaceKeeps ==
  ASSUME IInv, MergeInPlace, UNCHANGED use
  PROVE  IInv'
<1>1. /\ Merging /\ ~IsIn(X, Key) /\ X.size < X.ml /\ act.pc = "merge"
      /\ SetXY(Inserted(X, Key), SourceErased) /\ act' = act /\ was' = was
  BY DEF MergeInPlace, Merging, HasRoom
<1>2. /\ act.op = "merge" /\ Sound(X, X.h) /\ Sound(Y, Y.h) /\ Contents(act.x) = Elements(X.arrays)
      /\ Contents(act.y) = Elements(Y.arrays)
      /\ Elements(X.arrays) = was[act.x] \cup (was[act.y] \ Elements(Y.arrays))
  BY <1>1, WhileMerging
<1>3. Key \in Keys /\ Key \notin Elements(X.arrays) /\ MergesNew
  <2>1. Key \in Keys
    BY <1>1, MergingKey
  <2>2. Key \notin Elements(X.arrays)
    BY <1>1, <1>2, <2>1, SearchResult
  <2> QED BY <1>1, <2>1, <2>2, MergingKey
<1>4. PICK k, t, u : k = Key /\ t = X /\ u = Inserted(t, k)
  OBVIOUS
<1>5. Sound(u, u.h) /\ Elements(u.arrays) = Elements(t.arrays) \cup {k}
  <2>1. Sound(t, t.h) /\ k \in Keys /\ k \notin Elements(t.arrays) /\ t.size < t.ml
    BY <1>1, <1>2, <1>3, <1>4
  <2>2. u = Inserted(t, k)
    BY <1>4
  <2> QED BY <2>1, <2>2, InsertedSound
<1>6. Elements(u.arrays) = Before \cup {Key}
  BY <1>2, <1>4, <1>5 DEF Before
<1>7. SameCall("merge") /\ act'.outer = act.outer
  BY <1>1 DEF SameCall, IInv, TypeOK
<1>8. SetXY(u, SourceErased)
  BY <1>1, <1>4
<1> QED BY <1>1, <1>2, <1>3, <1>5, <1>6, <1>7, <1>8, MergeGoesOn

LEMMA MergeThrowsKeeps ==
  ASSUME IInv, MergeThrows, UNCHANGED use
  PROVE  IInv'
<1>1. /\ Merging /\ act.pc = "merge" /\ From(Y.arrays, act.outer) # {}
      /\ \/ SetXY(X, SourceErased) /\ Finish("hash")
         \/ /\ ~IsIn(X, Key)
            /\ \E r \in {"element", "alloc"} :
                 /\ SetXY(IF HasRoom(X) THEN InsertFailed(X, Key) ELSE X, SourceErased)
                 /\ Finish(r)
  BY DEF MergeThrows, Merging
<1>2. /\ Active /\ ArgumentsOK /\ act.op = "merge" /\ Sound(X, X.h) /\ Sound(Y, Y.h)
  BY <1>1, WhileMerging
<1>3. Key \in Keys
  BY <1>1, MergingKey
<1>5. \E t, r : /\ SetXY(t, SourceErased) /\ Finish(r) /\ Sound(t, t.h)
                /\ r \in {"hash", "element", "alloc"}
  <2>1. CASE SetXY(X, SourceErased) /\ Finish("hash")
    BY <1>2, <2>1
  <2>2. ASSUME NEW r \in {"element", "alloc"}, Finish(r),
               SetXY(IF HasRoom(X) THEN InsertFailed(X, Key) ELSE X, SourceErased)
        PROVE  \E t : SetXY(t, SourceErased) /\ Sound(t, t.h)
    <3>1. PICK t : t = InsertFailed(X, Key)
      OBVIOUS
    <3>2. HasRoom(X) => Sound(t, t.h)
      BY <1>2, <1>3, <3>1, InsertFailedSound DEF HasRoom
    <3> QED BY <1>2, <2>2, <3>1, <3>2
  <2> QED BY <1>1, <2>1, <2>2
<1>6. PICK t, r : /\ SetXY(t, SourceErased) /\ Finish(r) /\ Sound(t, t.h)
                  /\ r \in {"hash", "element", "alloc"}
  BY <1>5
<1>7. PICK v : v = SourceErased
  OBVIOUS
<1>8. Sound(v, v.h)
  BY <1>1, <1>2, <1>7, SourceErasedSound
<1>9. Stays({act.x, act.y}) /\ tab'[act.y] = v /\ (act.x # act.y => tab'[act.x] = t)
  BY <1>2, <1>6, <1>7, TwoSet DEF IInv
<1>10. SameCall("done") /\ act'.res = r /\ was' = was
  BY <1>6, ActFinishes DEF Finish, IInv, TypeOK, Results
<1>11. Sound(tab'[act.x], tab'[act.x].h) /\ Sound(tab'[act.y], tab'[act.y].h)
  BY <1>6, <1>8, <1>9
<1> QED BY <1>2, <1>6, <1>9, <1>10, <1>11, Finishing

LEMMA MergeEndsKeeps ==
  ASSUME IInv, MergeEnds, UNCHANGED use
  PROVE  IInv'
<1>1. act.pc = "merge" /\ From(Y.arrays, act.outer) = {} /\ Finish("ok") /\ tab' = tab
  BY DEF MergeEnds
<1>2. /\ Active /\ ArgumentsOK /\ act.op = "merge" /\ act.outer \in Nat
      /\ IsTable(X) /\ IsTable(Y) /\ Sound(X, X.h) /\ Sound(Y, Y.h)
      /\ Contents(act.x) = Elements(X.arrays) /\ Contents(act.y) = Elements(Y.arrays)
      /\ Elements(Y.arrays) \subseteq was[act.y]
      /\ was[act.x] \cap was[act.y] \subseteq Elements(Y.arrays)
      /\ Elements(X.arrays) = was[act.x] \cup (was[act.y] \ Elements(Y.arrays))
      /\ \A p \in Behind(Y.arrays, act.outer) : ElementAt(Y.arrays, p) \in was[act.x]
  BY <1>1, WhileMerging
<1>3. Elements(Y.arrays) \subseteq was[act.x]
  <2>1. PICK a, h : a = Y.arrays /\ h = Y.h
    OBVIOUS
  <2>2. IsArrays(a, Keys) /\ WellPlaced(a, h, {})
    BY <1>2, <2>1, TableFields DEF Sound, Hollow
  <2>3. Behind(a, act.outer) = MatchReallyOccupied(a)
    BY <1>1, <2>1, NoneAhead
  <2>4. \A k \in Elements(a) : k \in Keys /\ \E p \in MatchReallyOccupied(a) \ {} : ElementAt(a, p) = k
    BY <2>2, ElementsHavePlaces
  <2> QED BY <1>2, <2>1, <2>3, <2>4
<1>4. Elements(X.arrays) = was[act.x] \cup was[act.y] /\ Elements(Y.arrays) = was[act.x] \cap was[act.y]
  BY <1>2, <1>3
<1>5. SameCall("done") /\ act'.res = "ok" /\ was' = was
  BY <1>1, ActFinishes DEF Finish, IInv, TypeOK, Results
<1>6. /\ Stays({act.x, act.y}) /\ tab'[act.x] = X /\ tab'[act.y] = Y
  BY <1>1, NothingSet DEF IInv, Stays, X, Y
<1>7. After(act.x) = Elements(X.arrays) /\ After(act.y) = Elements(Y.arrays)
  BY <1>2, <1>6, TableFields DEF After
<1>8. Delivered(After(act.x), After(act.y))
  BY <1>2, <1>4, <1>7 DEF Delivered
<1> QED BY <1>2, <1>5, <1>6, <1>8, Finishing


-----------------------------------------------------------------------------
(* Construction and destruction *)

Of(t) == IF t = NoTable THEN {} ELSE Elements(t.arrays)

\* A call on two tables ends, and leaves these.
LEMMA FinishingTwo ==
  ASSUME IInv, Active, act.x # act.y, UNCHANGED use, NEW t, NEW u, SetXY(t, u),
         t # NoTable => Sound(t, t.h), u # NoTable => Sound(u, u.h),
         NEW r \in Results, Finish(r), act.op \notin {"emplace", "rehash"},
         r \in {"ok", "found"} => Delivered(Of(t), Of(u))
  PROVE  IInv'
<1>1. was' = was /\ SameCall("done") /\ act'.res = r
  BY ActFinishes DEF Finish, IInv, TypeOK
<1>2. ArgumentsOK
  BY DEF IInv, ControlOK, Active
<1>3. Stays({act.x, act.y}) /\ tab'[act.x] = t /\ tab'[act.y] = u
  BY <1>2, TwoSet DEF IInv
<1>4. After(act.x) = Of(t) /\ After(act.y) = Of(u)
  BY <1>3 DEF After, Of
<1> QED BY <1>1, <1>3, <1>4, Finishing

LEMMA OptionsTyped ==
  ASSUME IInv
  PROVE  /\ use.hashers \subseteq Hashers /\ use.allocators \subseteq Allocators
         /\ use.kinds \subseteq {"plain", "concurrent"} /\ use.keys \subseteq Keys
         /\ Throws \subseteq {"alloc", "element", "hash"} /\ use.calls \subseteq OfOne \cup OfTwo
<1>1. use \in Uses
  BY DEF IInv, TypeOK
<1> QED BY <1>1, UsesAssumption DEF Throws, OfOne, OfTwo, OnKey

LEMMA BlankArrays ==
  ASSUME NEW n \in Nat, Roomy(n)
  PROVE  Blank(ArraysFor(n))
<1>1. n <= SlotsFor(n) /\ SlotsFor(n) \in Nat /\ \E g \in GroupCounts : N * g > SlotsFor(n)
  BY ReserveRoom
<1>2. \E g \in GroupCounts : N * g > n
  <2>1. \A g \in GroupCounts : N * g \in Nat
    BY GroupsPositive, SlotsNumbered
  <2> QED BY <1>1, <2>1
<1>3. PICK a : a = ArraysFor(n)
  OBVIOUS
<1>4. LET b == ArraysFor(n) IN
      /\ IsArrays(b, Keys) /\ SentinelInPlace(b) /\ n <= Capacity(b)
      /\ \A g \in Groups(b), m \in Slots :
           b.elem[g][m] = NoKey /\ b.meta[g][m] \in {Available, Sentinel}
  BY <1>2, ArraysForEnough
<1> QED BY <1>4 DEF Blank

LEMMA ConstructKeeps ==
  ASSUME IInv, Construct, UNCHANGED use
  PROVE  IInv'
<1>1. act.pc = "start" /\ act.op = "construct"
  BY DEF Construct, Starts
<1>2. Active /\ ArgumentsOK /\ Unfinished = {} /\ act.y = act.x
  BY <1>1, AtStart DEF ArgumentsOK, OfOne
<1>3. PICK a : a = ArraysFor(act.n)
  OBVIOUS
<1>4. Blank(a)
  <2>1. act.n \in Nat /\ Roomy(act.n)
    BY <1>2, RoomForAll DEF ArgumentsOK, IInv
  <2> QED BY <1>3, <2>1, BlankArrays
<1>5. CASE AllocFails
  BY <1>1, <1>2, <1>5, Failing DEF AllocFails, Failures
<1>6. ASSUME NEW h \in use.hashers, NEW al \in use.allocators, NEW kind \in use.kinds,
             NEW t, t = Table(a, h, al, kind), SetX(t), Finish("ok")
      PROVE  IInv'
  <2>1. h \in Hashers /\ al \in Allocators /\ kind \in {"plain", "concurrent"}
    BY OptionsTyped
  <2>2. IsTable(t) /\ t.arrays = a /\ t.h = h /\ \A i \in Hashers : Sound(t, i)
    BY <1>4, <1>6, <2>1, TableMade
  <2>3. Elements(t.arrays) = {}
    BY <1>4, <2>2, BlankEmpty
  <2>4. Delivered({}, {}) /\ act.op \in OfOne /\ "ok" \in Results
    BY <1>1, <1>2 DEF Delivered, OfOne, Results
  <2> QED BY <1>1, <1>2, <1>6, <2>1, <2>2, <2>3, <2>4, FinishingOne
<1>7. \/ \E h \in use.hashers, al \in use.allocators, kind \in use.kinds :
           \E t : t = Table(a, h, al, kind) /\ SetX(t) /\ Finish("ok")
      \/ AllocFails
  BY <1>3 DEF Construct
<1> QED BY <1>5, <1>6, <1>7

LEMMA DestroyKeeps ==
  ASSUME IInv, Destroy, UNCHANGED use
  PROVE  IInv'
<1>1. act.pc = "start" /\ act.op = "destroy" /\ SetX(NoTable) /\ Finish("ok")
  BY DEF Destroy, Starts
<1>2. Active /\ ArgumentsOK /\ act.y = act.x
  BY <1>1, AtStart DEF ArgumentsOK, OfOne
<1>3. was' = was /\ SameCall("done") /\ act'.res = "ok"
  BY <1>1, ActFinishes DEF Finish, IInv, TypeOK, Results
<1>4. Stays({act.x, act.y}) /\ tab'[act.x] = NoTable
  BY <1>1, <1>2, OneSet DEF IInv
<1>5. After(act.x) = {}
  BY <1>4 DEF After
<1>6. Delivered(After(act.x), After(act.y))
  BY <1>1, <1>2, <1>5 DEF Delivered
<1> QED BY <1>1, <1>2, <1>3, <1>4, <1>6, Finishing


\* What Filled and FilledInPlace say of any two tables.
FilledFrom(t, s, c) ==
  /\ Sound(t, t.h) /\ Unlowered(t)
  /\ t.size + Cardinality(From(s.arrays, c)) = s.size
  /\ Elements(t.arrays) = ElementsIn(s.arrays, Behind(s.arrays, c))
FilledAlike(t, s, c) ==
  /\ IsTable(t) /\ Fresh(t) /\ SentinelInPlace(t.arrays)
  /\ MatchReallyOccupied(t.arrays) = {}
  /\ \A p \in Places(t.arrays) :
       ElementAt(t.arrays, p) = IF p \in Behind(s.arrays, c) THEN ElementAt(s.arrays, p) ELSE NoKey

\* The call is copying elements after the step.
LEMMA CopyReached ==
  ASSUME IInv, Active, UNCHANGED <<use, was>>, SameCall("copy"),
         act.op \in {"copy_construct", "copy_assign"}, act.x # act.y, Stays({act.x}),
         IsTable(Y), Sound(Y, Y.h), Contents(act.y) = was[act.y],
         NEW t, tab'[act.x] = t, NEW c, act'.cursor = c,
         IsTable(t), t.h = Y.h, Y.size <= InitialMaxLoad(t.arrays),
         IF t.arrays.groups = Y.arrays.groups THEN FilledAlike(t, Y, c) ELSE FilledFrom(t, Y, c)
  PROVE  IInv'
<1>1. /\ act'.pc = "copy" /\ act'.op = act.op /\ act'.x = act.x /\ act'.y = act.y
  BY DEF SameCall
<1>2. /\ ArgumentsOK /\ Stays({act.x, act.y}) /\ act.x \in Tables /\ act.y \in Tables
      /\ tab'[act.y] = tab[act.y]
  BY DEF IInv, ControlOK, Active, Stays, ArgumentsOK
<1>3. X' = t /\ Y' = Y /\ tab'[act.y] = Y
  BY <1>1, <1>2 DEF X, Y
<1>4. Contents(act.y)' = was[act.y]
  BY <1>1, <1>2, ContentsOf DEF After
<1>5. CopyOK'
  BY <1>1, <1>3, <1>4 DEF CopyOK, SameSize, Filled, FilledInPlace, FilledFrom, FilledAlike, Unlowered
<1>6. RehashOK' /\ MergeOK' /\ MoveOK' /\ AssignOK' /\ FillOK' /\ OpOK' /\ act.x \in Unfinished'
  BY <1>1 DEF RehashOK, MergeOK, MoveOK, AssignOK, FillOK, OpOK, Unfinished
<1>7. "copy" \in Pcs \ {"idle", "start", "done"} /\ "copy" \notin Beginnings
  BY DEF Pcs, Beginnings
<1> HIDE DEF Beginnings
<1> QED BY <1>2, <1>3, <1>5, <1>6, <1>7, Continuing

\* The call is moving elements to another allocator after the step.
LEMMA MoveReached ==
  ASSUME IInv, Active, UNCHANGED <<use, was>>, SameCall("move"), Stays({act.x}),
         act.op \in {"move_construct", "move_assign"}, act.x # act.y,
         act.op = "move_assign" => ~PropagateMove,
         act.op = "move_construct" => Sound(Y, Y.h), IsTable(Y), Contents(act.y) = was[act.y],
         NEW t, tab'[act.x] = t, NEW c, act'.cursor = c,
         Sound(Y, t.h), Y.size <= InitialMaxLoad(t.arrays), FilledFrom(t, Y, c)
  PROVE  IInv'
<1>1. /\ act'.pc = "move" /\ act'.op = act.op /\ act'.x = act.x /\ act'.y = act.y
  BY DEF SameCall
<1>2. /\ ArgumentsOK /\ Stays({act.x, act.y}) /\ act.x \in Tables /\ act.y \in Tables
      /\ tab'[act.y] = tab[act.y]
  BY DEF IInv, ControlOK, Active, Stays, ArgumentsOK
<1>3. X' = t /\ Y' = Y /\ tab'[act.y] = Y /\ IsTable(t) /\ Sound(t, t.h)
  BY <1>1, <1>2 DEF X, Y, FilledFrom, Sound, Hollow
<1>4. Contents(act.y)' = was[act.y]
  BY <1>1, <1>2, ContentsOf DEF After
<1>5. MoveOK'
  BY <1>1, <1>3, <1>4 DEF MoveOK, Filled, FilledFrom, Unlowered
<1>6. RehashOK' /\ MergeOK' /\ CopyOK' /\ AssignOK' /\ FillOK'
      /\ (act.op = "move_assign" => act.y \in Unfinished')
  BY <1>1 DEF RehashOK, MergeOK, CopyOK, AssignOK, FillOK, Unfinished
<1>7. PropagateMove' = PropagateMove
  BY DEF PropagateMove
<1>8. OpOK'
  BY <1>1, <1>7 DEF OpOK
<1>9. "move" \in Pcs \ {"idle", "start", "done"} /\ "move" \notin Beginnings
  BY DEF Pcs, Beginnings
<1> HIDE DEF Beginnings
<1> QED BY <1>2, <1>3, <1>5, <1>6, <1>8, <1>9, Continuing

\* Nothing has been copied or moved to empty arrays.
LEMMA FillBegins ==
  ASSUME NEW t, IsTable(t), Blank(t.arrays), Fresh(t), NEW s, NEW h, Sound(s, h)
  PROVE  FilledAlike(t, s, 0) /\ FilledFrom(t, s, 0)
<1> DEFINE a == s.arrays
<1>1. IsArrays(a, Keys) /\ s.size = Cardinality(MatchReallyOccupied(a)) /\ s.size \in Nat
  BY TableFields DEF Sound, Hollow, Counted
<1>2. From(a, 0) = MatchReallyOccupied(a) /\ Behind(a, 0) = {}
  <2>1. 0 \in Nat
    OBVIOUS
  <2> QED BY <1>1, <2>1, OccupiedFinite DEF Behind
<1>3. t.h \in Hashers
  BY TableFields
<1>4. Sound(t, t.h) /\ Elements(t.arrays) = {} /\ MatchReallyOccupied(t.arrays) = {}
  BY <1>3, BlankFresh
<1>5. \A p \in Places(t.arrays) : ElementAt(t.arrays, p) = NoKey
  BY EmptyWellPlaced DEF Blank
<1>6. ElementsIn(a, Behind(a, 0)) = {}
  BY <1>2 DEF ElementsIn
<1>7. t.size = 0 /\ t.ml = InitialMaxLoad(t.arrays)
  BY DEF Fresh
<1>8. FilledFrom(t, s, 0)
  BY <1>1, <1>2, <1>4, <1>6, <1>7 DEF FilledFrom, Unlowered
<1>9. FilledAlike(t, s, 0)
  BY <1>2, <1>4, <1>5 DEF FilledAlike, Blank
<1> QED BY <1>8, <1>9

\* Room for all elements of a table.
LEMMA RoomForTable ==
  ASSUME IInv, NEW t, NEW h, Sound(t, h)
  PROVE  t.size \in Nat /\ Roomy(t.size)
<1>1. t.size \in Nat /\ t.size <= Cardinality(Keys)
  BY SizeOfKeys DEF Sound
<1> QED BY <1>1, RoomForAll DEF IInv

LEMMA GoneTo ==
  ASSUME IInv, NEW p \in Pcs, Goto(p)
  PROVE  SameCall(p) /\ act'.new = act.new /\ act'.cursor = act.cursor /\ act'.outer = act.outer
<1>1. PICK a, i : a = act.new /\ i \in Nat
  OBVIOUS
<1>2. IsArrays(a, Keys) /\ IsAct(act)
  BY <1>1, ActFields DEF IInv, TypeOK
<1> QED BY <1>1, <1>2, ActShapes DEF Goto

LEMMA CopyConstructKeeps ==
  ASSUME IInv, CopyConstruct, UNCHANGED use
  PROVE  IInv'
<1>1. act.pc = "start" /\ act.op = "copy_construct"
  BY DEF CopyConstruct, Starts
<1>2. /\ Active /\ ArgumentsOK /\ Unfinished = {} /\ act.cursor = 0 /\ act.x # act.y
      /\ IsTable(Y) /\ Sound(Y, Y.h) /\ Contents(act.y) = was[act.y]
  BY <1>1, AtStart DEF ArgumentsOK, Constructors
<1>3. PICK a : a = ArraysFor(SlotsFor(Y.size))
  OBVIOUS
<1>4. Blank(a) /\ Y.size <= InitialMaxLoad(a)
  BY <1>2, <1>3, RoomForTable, ReserveRoom
<1>5. CASE AllocFails
  BY <1>1, <1>2, <1>5, Failing DEF AllocFails, Failures
<1>6. ASSUME NEW al \in use.allocators, NEW t, t = Table(a, Y.h, al, Y.kind), SetX(t), Goto("copy"),
             UNCHANGED was
      PROVE  IInv'
  <2>1. al \in Allocators /\ Y.h \in Hashers /\ Y.kind \in {"plain", "concurrent"}
    BY <1>2, OptionsTyped, TableFields
  <2>2. IsTable(t) /\ Fresh(t) /\ t.arrays = a /\ t.h = Y.h
    BY <1>4, <1>6, <2>1, TableMade
  <2>3. FilledAlike(t, Y, 0) /\ FilledFrom(t, Y, 0)
    BY <1>2, <1>4, <2>2, FillBegins
  <2>4. SameCall("copy") /\ act'.cursor = 0
    BY <1>2, <1>6, GoneTo DEF Pcs
  <2>5. Stays({act.x}) /\ tab'[act.x] = t
    BY <1>2, <1>6, OneSet DEF IInv
  <2> QED BY <1>1, <1>2, <1>4, <1>6, <2>2, <2>3, <2>4, <2>5, CopyReached
<1>7. \/ \E al \in use.allocators : \E t : t = Table(a, Y.h, al, Y.kind) /\ SetX(t)
                                            /\ Goto("copy") /\ UNCHANGED was
      \/ AllocFails
  BY <1>3 DEF CopyConstruct
<1> QED BY <1>5, <1>6, <1>7


LEMMA MoveConstructKeeps ==
  ASSUME IInv, MoveConstruct, UNCHANGED use
  PROVE  IInv'
<1>1. act.pc = "start" /\ act.op = "move_construct"
  BY DEF MoveConstruct, Starts
<1>2. /\ Active /\ ArgumentsOK /\ Unfinished = {} /\ act.cursor = 0 /\ act.x # act.y
      /\ IsTable(Y) /\ Sound(Y, Y.h) /\ Contents(act.y) = was[act.y]
      /\ Elements(Y.arrays) = was[act.y]
  BY <1>1, AtStart DEF ArgumentsOK, Constructors
<1>3. PICK a : a = ArraysFor(IF Y.size = 0 THEN 0 ELSE CapacityFor(SlotsFor(Y.size)))
  OBVIOUS
<1>4. Blank(a) /\ Y.size <= InitialMaxLoad(a)
  <2>1. CASE Y.size = 0
    BY <1>3, <2>1, BlankDummy DEF ArraysFor
  <2>2. CASE Y.size # 0
    BY <1>2, <1>3, <2>2, RoomForTable, ReserveRoom
  <2> QED BY <2>1, <2>2
<1>5. Y.h \in Hashers /\ Y.al \in Allocators /\ Y.kind \in {"plain", "concurrent"}
  BY <1>2, TableFields
<1>6. CASE AllocFails
  BY <1>1, <1>2, <1>6, Failing DEF AllocFails, Failures
<1>7. ASSUME NEW d, d = DummyArrays, NEW u, u = Table(d, Y.h, Y.al, Y.kind), SetXY(Y, u), Finish("ok")
      PROVE  IInv'
  <2>1. Blank(d)
    BY <1>7, BlankDummy
  <2>2. IsTable(u) /\ u.arrays = d /\ u.h = Y.h /\ \A i \in Hashers : Sound(u, i)
    BY <1>5, <1>7, <2>1, TableMade
  <2>3. Of(Y) = was[act.y] /\ Of(u) = {}
    BY <1>2, <2>1, <2>2, BlankEmpty, TableFields DEF Of
  <2>4. Delivered(Of(Y), Of(u)) /\ "ok" \in Results
    BY <1>1, <2>3 DEF Delivered, Results
  <2> QED BY <1>1, <1>2, <1>5, <1>7, <2>2, <2>4, FinishingTwo
<1>8. ASSUME NEW al \in use.allocators, NEW t, t = Table(a, Y.h, al, Y.kind), SetX(t), Goto("move"),
             UNCHANGED was
      PROVE  IInv'
  <2>1. al \in Allocators
    BY OptionsTyped
  <2>2. IsTable(t) /\ Fresh(t) /\ t.arrays = a /\ t.h = Y.h
    BY <1>4, <1>5, <1>8, <2>1, TableMade
  <2>3. FilledAlike(t, Y, 0) /\ FilledFrom(t, Y, 0)
    BY <1>2, <1>4, <2>2, FillBegins
  <2>4. SameCall("move") /\ act'.cursor = 0
    BY <1>2, <1>8, GoneTo DEF Pcs
  <2>5. Stays({act.x}) /\ tab'[act.x] = t
    BY <1>2, <1>8, OneSet DEF IInv
  <2> QED BY <1>1, <1>2, <1>4, <1>8, <2>2, <2>3, <2>4, <2>5, MoveReached
<1>9. \/ \E d, u : d = DummyArrays /\ u = Table(d, Y.h, Y.al, Y.kind) /\ SetXY(Y, u) /\ Finish("ok")
      \/ \E al \in use.allocators : \E t : t = Table(a, Y.h, al, Y.kind) /\ SetX(t)
                                            /\ Goto("move") /\ UNCHANGED was
      \/ AllocFails
  BY <1>3 DEF MoveConstruct
<1> QED BY <1>6, <1>7, <1>8, <1>9

-----------------------------------------------------------------------------
(* Copying and moving elements *)

LEMMA WhileCopying ==
  ASSUME IInv, act.pc = "copy"
  PROVE  /\ Active /\ ArgumentsOK /\ act.op \in {"copy_construct", "copy_assign"} /\ act.x # act.y
         /\ act.cursor \in Nat /\ IsTable(X) /\ IsTable(Y) /\ Sound(Y, Y.h)
         /\ Contents(act.y) = was[act.y] /\ Elements(Y.arrays) = was[act.y]
         /\ X.h = Y.h /\ Y.size <= InitialMaxLoad(X.arrays)
         /\ SameSize => FilledAlike(X, Y, act.cursor)
         /\ ~SameSize => FilledFrom(X, Y, act.cursor)
<1>1. /\ Active /\ ArgumentsOK /\ act.op \in {"copy_construct", "copy_assign"} /\ act.x # act.y
      /\ act.cursor \in Nat
  BY ActFields DEF IInv, TypeOK, ControlOK, OpOK, Active
<1>2. act.x \in Built /\ act.y \in Built
  BY <1>1 DEF IInv, ControlOK, ObjectsOK
<1>3. IsTable(X) /\ IsTable(Y) /\ Sound(Y, Y.h)
  BY <1>1, <1>2 DEF IInv, TypeOK, TablesOK, Unfinished, X, Y
<1>4. CopyOK
  BY DEF IInv
<1>5. Contents(act.y) = Elements(Y.arrays)
  BY <1>2 DEF Contents, Y
<1> QED BY <1>1, <1>3, <1>4, <1>5 DEF CopyOK, Filled, FilledInPlace, FilledFrom, FilledAlike, Unlowered

LEMMA WhileMoving ==
  ASSUME IInv, act.pc = "move"
  PROVE  /\ Active /\ ArgumentsOK /\ act.op \in {"move_construct", "move_assign"} /\ act.x # act.y
         /\ act.op = "move_assign" => ~PropagateMove
         /\ act.cursor \in Nat /\ IsTable(X) /\ IsTable(Y) /\ Sound(Y, X.h)
         /\ act.op = "move_construct" => Sound(Y, Y.h)
         /\ Contents(act.y) = was[act.y] /\ Elements(Y.arrays) = was[act.y]
         /\ Y.size <= InitialMaxLoad(X.arrays) /\ FilledFrom(X, Y, act.cursor)
<1>1. /\ Active /\ ArgumentsOK /\ act.op \in {"move_construct", "move_assign"} /\ act.x # act.y
      /\ act.cursor \in Nat /\ (act.op = "move_assign" => ~PropagateMove)
  BY ActFields DEF IInv, TypeOK, ControlOK, OpOK, Active
<1>2. act.x \in Built /\ act.y \in Built
  BY <1>1 DEF IInv, ControlOK, ObjectsOK
<1>3. IsTable(X) /\ IsTable(Y) /\ (act.op = "move_construct" => Sound(Y, Y.h))
  BY <1>1, <1>2 DEF IInv, TypeOK, TablesOK, Unfinished, X, Y
<1>4. MoveOK
  BY DEF IInv
<1>5. Contents(act.y) = Elements(Y.arrays)
  BY <1>2 DEF Contents, Y
<1> QED BY <1>1, <1>3, <1>4, <1>5 DEF MoveOK, Filled, FilledFrom, Unlowered

\* The next element of the source is not in the table yet, which has room for it.
LEMMA FillRoom ==
  ASSUME NEW t, NEW s, NEW c \in Nat, FilledFrom(t, s, c), NEW h, Sound(s, h),
         s.size <= InitialMaxLoad(t.arrays), From(s.arrays, c) # {},
         NEW q, q = FirstFrom(s.arrays, c), NEW k, k = ElementAt(s.arrays, q)
  PROVE  k \in Keys /\ k \notin Elements(t.arrays) /\ t.size < t.ml
<1> DEFINE a == s.arrays
<1>1. IsArrays(a, Keys) /\ WellPlaced(a, h, {}) /\ s.size \in Nat
  BY TableFields DEF Sound, Hollow
<1>2. /\ q \in From(a, c) /\ q \in MatchReallyOccupied(a)
      /\ Cardinality(From(a, c)) = Cardinality(From(a, Index(q) + 1)) + 1
      /\ Index(q) + 1 \in Nat
  BY <1>1, NextPlace
<1>3. k \in Keys
  BY <1>1, <1>2, ElementThere
<1>4. k \notin Elements(t.arrays)
  <2>1. \A p \in MatchReallyOccupied(a) : ElementAt(a, p) = k => p = q
    BY <1>1, <1>2 DEF WellPlaced
  <2>2. q \notin Behind(a, c) /\ Behind(a, c) \subseteq MatchReallyOccupied(a)
    BY <1>2 DEF Behind
  <2>3. Elements(t.arrays) = ElementsIn(a, Behind(a, c))
    BY DEF FilledFrom
  <2> QED BY <2>1, <2>2, <2>3 DEF ElementsIn
<1>5. t.size < t.ml
  <2>1. t.size \in Nat /\ InitialMaxLoad(t.arrays) \in Nat /\ t.ml = InitialMaxLoad(t.arrays)
    BY TableFields DEF FilledFrom, Sound, Hollow, Unlowered
  <2>2. Cardinality(From(a, Index(q) + 1)) \in Nat
    BY <1>1, <1>2, OccupiedFinite
  <2>3. t.size + Cardinality(From(a, c)) = s.size
    BY DEF FilledFrom
  <2> QED BY <1>1, <1>2, <2>1, <2>2, <2>3
<1> QED BY <1>3, <1>4, <1>5

LEMMA FillNext ==
  ASSUME NEW t, NEW s, NEW c \in Nat, FilledFrom(t, s, c), NEW h, Sound(s, h),
         s.size <= InitialMaxLoad(t.arrays), From(s.arrays, c) # {},
         NEW q, q = FirstFrom(s.arrays, c), NEW k, k = ElementAt(s.arrays, q),
         NEW u, u = Inserted(t, k)
  PROVE  /\ FilledFrom(u, s, Index(q) + 1) /\ Index(q) + 1 \in Nat /\ u.h = t.h
         /\ InitialMaxLoad(u.arrays) = InitialMaxLoad(t.arrays)
         /\ u.arrays.groups = t.arrays.groups /\ IsTable(u)
<1> DEFINE a == s.arrays
           d == Index(q) + 1
<1>1. IsArrays(a, Keys) /\ WellPlaced(a, h, {}) /\ s.size \in Nat
  BY TableFields DEF Sound, Hollow
<1>2. /\ d \in Nat /\ Behind(a, d) = Behind(a, c) \cup {q}
      /\ Cardinality(From(a, c)) = Cardinality(From(a, d)) + 1
  BY <1>1, NextPlace
<1>3. Cardinality(From(a, d)) \in Nat
  BY <1>1, <1>2, OccupiedFinite
<1>4. k \in Keys /\ k \notin Elements(t.arrays) /\ t.size < t.ml
  BY FillRoom
<1>5. /\ Sound(t, t.h) /\ Unlowered(t) /\ t.size + Cardinality(From(a, c)) = s.size
      /\ Elements(t.arrays) = ElementsIn(a, Behind(a, c)) /\ t.size \in Nat
  BY TableFields DEF FilledFrom, Sound, Hollow
<1>6. /\ Sound(u, u.h) /\ u.h = t.h /\ u.size = t.size + 1 /\ u.ml = t.ml
      /\ u.arrays.groups = t.arrays.groups
      /\ InitialMaxLoad(u.arrays) = InitialMaxLoad(t.arrays)
      /\ Elements(u.arrays) = Elements(t.arrays) \cup {k}
  BY <1>4, <1>5, InsertedSound
<1>7. Elements(u.arrays) = ElementsIn(a, Behind(a, d))
  BY <1>2, <1>5, <1>6 DEF ElementsIn
<1>8. u.size + Cardinality(From(a, d)) = s.size /\ Unlowered(u) /\ IsTable(u)
  BY <1>2, <1>3, <1>5, <1>6 DEF Unlowered, Sound, Hollow
<1> HIDE DEF a, d
<1>9. FilledFrom(u, s, d)
  BY <1>6, <1>7, <1>8 DEF FilledFrom, a
<1> QED BY <1>2, <1>6, <1>8, <1>9 DEF d


\* A copy at the same place, without its metadata.
LEMMA CopyNext ==
  ASSUME NEW t, NEW s, NEW c \in Nat, FilledAlike(t, s, c), NEW h, Sound(s, h),
         t.arrays.groups = s.arrays.groups, t.arrays.built, From(s.arrays, c) # {},
         NEW q, q = FirstFrom(s.arrays, c), NEW k, k = ElementAt(s.arrays, q),
         NEW u, u = Changed(t, SetElem(t.arrays, q[1], q[2], k), t.ml, t.size)
  PROVE  /\ FilledAlike(u, s, Index(q) + 1) /\ Index(q) + 1 \in Nat /\ u.h = t.h
         /\ InitialMaxLoad(u.arrays) = InitialMaxLoad(t.arrays)
         /\ u.arrays.groups = t.arrays.groups /\ IsTable(u)
<1> DEFINE a == s.arrays
           b == t.arrays
           d == Index(q) + 1
<1>1. IsArrays(a, Keys) /\ WellPlaced(a, h, {}) /\ s.size \in Nat
  BY TableFields DEF Sound, Hollow
<1>2. /\ d \in Nat /\ Behind(a, d) = Behind(a, c) \cup {q}
      /\ q \in Places(a) /\ q \in MatchReallyOccupied(a)
  BY <1>1, NextPlace
<1>3. k \in Keys
  BY <1>1, <1>2, ElementThere
<1>4. IsTable(t) /\ IsArrays(b, Keys) /\ t.ml \in Nat /\ t.size \in Nat /\ b.built \in BOOLEAN
  BY TableFields DEF FilledAlike
<1>5. Places(a) = Places(b) /\ q \in Places(b) /\ q = <<q[1], q[2]>> /\ q[1] \in Groups(b) /\ q[2] \in Slots
  <2>1. Places(a) = Places(b)
    BY SameGroups
  <2> QED BY <1>2, <2>1, PlaceParts
<1>6. PICK f : f = SetElem(b, q[1], q[2], k)
  OBVIOUS
<1>7. /\ IsArrays(f, Keys) /\ f.groups = b.groups /\ f.built = b.built
      /\ f.meta = b.meta /\ f.elem[q[1]][q[2]] = k
      /\ \A g \in Groups(b), n \in Slots : g # q[1] \/ n # q[2] => f.elem[g][n] = b.elem[g][n]
  <2>1. k \in Keys \cup {NoKey}
    BY <1>3
  <2>2. PICK x, g, n : x = b /\ g = q[1] /\ n = q[2]
    OBVIOUS
  <2>3. IsArrays(x, Keys) /\ g \in Groups(x) /\ n \in Slots /\ f = SetElem(x, g, n, k)
    BY <1>4, <1>5, <1>6, <2>2
  <2>4. /\ IsArrays(f, Keys) /\ f.groups = x.groups /\ f.built = x.built
        /\ f.meta = x.meta /\ f.overflow = x.overflow
        /\ f.elem[g][n] = k
        /\ \A i \in Groups(x), m \in Slots : i # g \/ m # n => f.elem[i][m] = x.elem[i][m]
    BY <2>1, <2>3, ElementWritten
  <2> QED BY <2>2, <2>4
<1>8. /\ IsTable(u) /\ u.arrays = f /\ u.ml = t.ml /\ u.size = t.size /\ u.h = t.h
  <2>1. LET v == Changed(t, f, t.ml, t.size) IN
        /\ IsTable(v) /\ v.arrays = f /\ v.ml = t.ml /\ v.size = t.size
        /\ v.h = t.h /\ v.al = t.al /\ v.kind = t.kind
    BY <1>4, <1>7, TableChanged DEF Changed
  <2> QED BY <1>6, <2>1
<1>9. InitialMaxLoad(f) = InitialMaxLoad(b) /\ MatchReallyOccupied(f) = MatchReallyOccupied(b)
      /\ Places(f) = Places(b) /\ Groups(f) = Groups(b)
  BY <1>7, SameCapacity, SameOccupied, SameGroups
<1>10. SentinelInPlace(f)
  <2>1. SentinelInPlace(b)
    BY DEF FilledAlike
  <2> QED BY <1>4, <1>7, <1>9, <2>1 DEF SentinelInPlace
<1>11. ASSUME NEW p \in Places(f)
       PROVE  ElementAt(f, p) = IF p \in Behind(a, d) THEN ElementAt(a, p) ELSE NoKey
  <2>1. p \in Places(b) /\ p = <<p[1], p[2]>> /\ p[1] \in Groups(b) /\ p[2] \in Slots
    BY <1>9, PlaceParts
  <2>2. CASE p = q
    BY <1>2, <1>7, <2>2 DEF ElementAt
  <2>3. CASE p # q
    <3>1. p[1] # q[1] \/ p[2] # q[2]
      BY <1>5, <2>1, <2>3
    <3>2. ElementAt(f, p) = ElementAt(b, p)
      BY <1>7, <2>1, <3>1 DEF ElementAt
    <3>3. ElementAt(b, p) = IF p \in Behind(a, c) THEN ElementAt(a, p) ELSE NoKey
      BY <2>1 DEF FilledAlike
    <3> QED BY <1>2, <2>3, <3>2, <3>3
  <2> QED BY <2>2, <2>3
<1>12. MatchReallyOccupied(f) = {} /\ Fresh(u)
  BY <1>8, <1>9 DEF FilledAlike, Fresh
<1> HIDE DEF a, b, d
<1>13. FilledAlike(u, s, d)
  BY <1>8, <1>10, <1>11, <1>12 DEF FilledAlike, a
<1> QED BY <1>2, <1>7, <1>8, <1>9, <1>13 DEF b, d

\* A table with other elements in its arrays.
LEMMA ElementsReplaced ==
  ASSUME NEW t, IsTable(t), NEW f
  PROVE  /\ [t EXCEPT !.arrays = f] = Changed(t, f, t.ml, t.size)
<1>1. t = [arrays |-> t.arrays, size |-> t.size, ml |-> t.ml, h |-> t.h, al |-> t.al, kind |-> t.kind]
  BY TableRecord
<1> QED BY <1>1 DEF Changed

LEMMA BuiltFor ==
  ASSUME NEW t, IsTable(t), NEW s, NEW h, Sound(s, h), s.size <= InitialMaxLoad(t.arrays),
         MatchReallyOccupied(s.arrays) # {}
  PROVE  t.arrays.built
<1>1. /\ t.arrays.built \in BOOLEAN /\ (~t.arrays.built => InitialMaxLoad(t.arrays) = 0)
      /\ IsArrays(s.arrays, Keys) /\ s.size \in Nat
  BY TableFields DEF Sound, Hollow
<1>2. s.size = Cardinality(MatchReallyOccupied(s.arrays))
  BY DEF Sound, Hollow, Counted
<1>3. s.size # 0
  <2>1. IsFiniteSet(MatchReallyOccupied(s.arrays))
    <3>1. 0 \in Nat
      OBVIOUS
    <3> QED BY <1>1, <3>1, OccupiedFinite
  <2> QED BY <1>2, <2>1, FS_EmptySet
<1> QED BY <1>1, <1>3

LEMMA CopyElementKeeps ==
  ASSUME IInv, CopyElement, UNCHANGED use
  PROVE  IInv'
<1>1. PICK q, k, i :
        /\ q = FirstFrom(Y.arrays, act.cursor) /\ k = ElementAt(Y.arrays, q) /\ i = Index(q) + 1
        /\ act.pc = "copy" /\ From(Y.arrays, act.cursor) # {} /\ was' = was
        /\ act' = [act EXCEPT !.cursor = i]
        /\ SetX(IF SameSize THEN [X EXCEPT !.arrays.elem[q[1]][q[2]] = k] ELSE Inserted(X, k))
  BY DEF CopyElement, Copying, CopyPlace
<1>2. /\ Active /\ ArgumentsOK /\ act.op \in {"copy_construct", "copy_assign"} /\ act.x # act.y
      /\ act.cursor \in Nat /\ IsTable(X) /\ IsTable(Y) /\ Sound(Y, Y.h)
      /\ Contents(act.y) = was[act.y] /\ Elements(Y.arrays) = was[act.y]
      /\ X.h = Y.h /\ Y.size <= InitialMaxLoad(X.arrays)
      /\ SameSize => FilledAlike(X, Y, act.cursor)
      /\ ~SameSize => FilledFrom(X, Y, act.cursor)
  BY <1>1, WhileCopying
<1>3. PICK u : u = IF SameSize THEN Changed(X, SetElem(X.arrays, q[1], q[2], k), X.ml, X.size)
                   ELSE Inserted(X, k)
  OBVIOUS
<1>4. SetX(u)
  <2>1. [X EXCEPT !.arrays.elem[q[1]][q[2]] = k] = Changed(X, SetElem(X.arrays, q[1], q[2], k), X.ml, X.size)
    <3>1. PICK f : f = SetElem(X.arrays, q[1], q[2], k)
      OBVIOUS
    <3>2. [X EXCEPT !.arrays.elem[q[1]][q[2]] = k] = [X EXCEPT !.arrays = f]
      BY <3>1 DEF SetElem
    <3>3. [X EXCEPT !.arrays = f] = Changed(X, f, X.ml, X.size)
      BY <1>2, ElementsReplaced
    <3> QED BY <3>1, <3>2, <3>3
  <2> QED BY <1>1, <1>3, <2>1
<1>5. tab'[act.x] = u /\ Stays({act.x})
  BY <1>2, <1>4, OneSet DEF IInv
<1>6. /\ IF u.arrays.groups = Y.arrays.groups THEN FilledAlike(u, Y, i) ELSE FilledFrom(u, Y, i)
      /\ IsTable(u) /\ u.h = X.h /\ i \in Nat
      /\ InitialMaxLoad(u.arrays) = InitialMaxLoad(X.arrays)
  <2>1. PICK t, s, c, h : t = X /\ s = Y /\ c = act.cursor /\ h = Y.h
    OBVIOUS
  <2>2. /\ q = FirstFrom(s.arrays, c) /\ From(s.arrays, c) # {} /\ Sound(s, h) /\ c \in Nat
        /\ k = ElementAt(s.arrays, q) /\ IsTable(t) /\ s.size <= InitialMaxLoad(t.arrays)
    BY <1>1, <1>2, <2>1
  <2>3. CASE SameSize
    <3>1. t.arrays.groups = s.arrays.groups
      BY <2>1, <2>3 DEF SameSize
    <3>2. t.arrays.built
      <4>1. MatchReallyOccupied(s.arrays) # {}
        BY <2>2 DEF From
      <4> QED BY <2>2, <4>1, BuiltFor
    <3>3. u = Changed(t, SetElem(t.arrays, q[1], q[2], k), t.ml, t.size) /\ FilledAlike(t, s, c)
      BY <1>2, <1>3, <2>1, <2>3
    <3>4. /\ FilledAlike(u, s, Index(q) + 1) /\ Index(q) + 1 \in Nat /\ u.h = t.h
          /\ InitialMaxLoad(u.arrays) = InitialMaxLoad(t.arrays)
          /\ u.arrays.groups = t.arrays.groups /\ IsTable(u)
      BY <2>2, <3>1, <3>2, <3>3, CopyNext
    <3> QED BY <1>1, <2>1, <3>1, <3>4
  <2>4. CASE ~SameSize
    <3>1. t.arrays.groups # s.arrays.groups
      BY <2>1, <2>4 DEF SameSize
    <3>2. u = Inserted(t, k) /\ FilledFrom(t, s, c)
      BY <1>2, <1>3, <2>1, <2>4
    <3>3. /\ FilledFrom(u, s, Index(q) + 1) /\ Index(q) + 1 \in Nat /\ u.h = t.h
          /\ InitialMaxLoad(u.arrays) = InitialMaxLoad(t.arrays)
          /\ u.arrays.groups = t.arrays.groups /\ IsTable(u)
      BY <2>2, <3>2, FillNext
    <3> QED BY <1>1, <2>1, <3>1, <3>3
  <2> QED BY <2>3, <2>4
<1>7. SameCall("copy") /\ act'.cursor = i
  <2>1. PICK a, p : a = act.new /\ p = act.pc
    OBVIOUS
  <2>2. IsArrays(a, Keys) /\ IsAct(act) /\ p \in Pcs
    BY <2>1, ActFields DEF IInv, TypeOK
  <2>3. SameCall(act.pc) /\ act'.cursor = i
    BY <1>1, <1>6, <2>1, <2>2, ActShapes
  <2> QED BY <1>1, <2>3
<1> QED BY <1>1, <1>2, <1>5, <1>6, <1>7, CopyReached


\* The copies at the same places are destroyed.
LEMMA CopiesDestroyed ==
  ASSUME NEW t, NEW s, NEW c, FilledAlike(t, s, c), t.arrays.built,
         NEW f, f = [t.arrays EXCEPT !.elem = NewArrays(t.arrays.groups).elem],
         NEW u, u = Changed(t, f, t.ml, t.size)
  PROVE  Sound(u, u.h)
<1> DEFINE b == t.arrays
<1>1. /\ IsTable(t) /\ IsArrays(b, Keys) /\ t.ml \in Nat /\ t.size \in Nat /\ t.h \in Hashers
      /\ b.groups \in GroupCounts
  BY TableFields DEF FilledAlike
<1>2. PICK all : all = [g \in 0 .. b.groups - 1 |-> [n \in Slots |-> NoKey]]
  OBVIOUS
<1>3. all \in [0 .. b.groups - 1 -> [Slots -> Keys \cup {NoKey}]]
  BY <1>2
<1>4. f = [b EXCEPT !.elem = all]
  BY <1>2 DEF NewArrays
<1>5. /\ IsArrays(f, Keys) /\ f.groups = b.groups /\ f.built = b.built
      /\ f.elem = all /\ f.meta = b.meta
  BY <1>1, <1>3, <1>4 DEF IsArrays, ArraysOf
<1>6. Groups(f) = Groups(b)
  BY <1>5 DEF Groups
<1>7. SentinelInPlace(f)
  <2>1. SentinelInPlace(b)
    BY DEF FilledAlike
  <2> QED BY <1>5, <1>6, <2>1 DEF SentinelInPlace
<1>8. \A g \in Groups(f), n \in Slots : f.elem[g][n] = NoKey /\ f.meta[g][n] \in {Available, Sentinel}
  <2>1. ASSUME NEW g \in Groups(b), NEW n \in Slots
        PROVE  all[g][n] = NoKey /\ b.meta[g][n] \in {Available, Sentinel}
    <3>1. all[g][n] = NoKey
      BY <1>2 DEF Groups
    <3>2. PICK p : p = <<g, n>>
      OBVIOUS
    <3>3. p \in Places(b) /\ p[1] = g /\ p[2] = n
      BY <3>2, PlaceParts
    <3>4. p \notin MatchReallyOccupied(b)
      BY DEF FilledAlike
    <3> QED BY <3>1, <3>3, <3>4 DEF MatchReallyOccupied
  <2> QED BY <1>5, <1>6, <2>1
<1>9. Blank(f)
  BY <1>5, <1>7, <1>8 DEF Blank
<1>10. /\ IsTable(u) /\ u.arrays = f /\ u.ml = t.ml /\ u.size = t.size /\ u.h = t.h
  <2>1. LET v == Changed(t, f, t.ml, t.size) IN
        /\ IsTable(v) /\ v.arrays = f /\ v.ml = t.ml /\ v.size = t.size
        /\ v.h = t.h /\ v.al = t.al /\ v.kind = t.kind
    BY <1>1, <1>5, TableChanged DEF Changed
  <2> QED BY <2>1
<1>11. Fresh(u)
  <2>1. InitialMaxLoad(f) = InitialMaxLoad(b)
    BY <1>5, SameCapacity
  <2> QED BY <1>10, <2>1 DEF FilledAlike, Fresh
<1> QED BY <1>1, <1>9, <1>10, <1>11, BlankFresh

\* The target of a call that fails is destroyed if it was under construction.
LEMMA AbortedSound ==
  ASSUME NEW t, Sound(t, t.h), NEW u, u = Aborted(t).tab
  PROVE  u # NoTable => Sound(u, u.h)
BY DEF Aborted

LEMMA CopyThrowsKeeps ==
  ASSUME IInv, CopyThrows, UNCHANGED use
  PROVE  IInv'
<1>1. PICK q, k : /\ q = FirstFrom(Y.arrays, act.cursor) /\ k = ElementAt(Y.arrays, q)
                  /\ act.pc = "copy" /\ From(Y.arrays, act.cursor) # {}
  BY DEF CopyThrows, Copying
<1>2. /\ Active /\ ArgumentsOK /\ act.op \in {"copy_construct", "copy_assign"} /\ act.x # act.y
      /\ act.cursor \in Nat /\ IsTable(X) /\ IsTable(Y) /\ Sound(Y, Y.h)
      /\ X.h = Y.h /\ Y.size <= InitialMaxLoad(X.arrays)
      /\ SameSize => FilledAlike(X, Y, act.cursor)
      /\ ~SameSize => FilledFrom(X, Y, act.cursor)
  BY <1>1, WhileCopying
<1>3. PICK cause, t :
        /\ cause \in {"hash", "element"}
        /\ t = (IF SameSize THEN [X EXCEPT !.arrays.elem = NewArrays(X.arrays.groups).elem]
                ELSE IF cause = "element" THEN InsertFailed(X, k) ELSE X)
        /\ SetX(Aborted(t).tab) /\ Finish(cause)
  BY <1>1 DEF CopyThrows, CopyPlace
<1>4. Sound(t, t.h)
  <2>1. CASE SameSize
    <3>1. PICK f : f = [X.arrays EXCEPT !.elem = NewArrays(X.arrays.groups).elem]
      OBVIOUS
    <3>2. [X EXCEPT !.arrays.elem = NewArrays(X.arrays.groups).elem] = [X EXCEPT !.arrays = f]
      BY <3>1
    <3>3. [X EXCEPT !.arrays = f] = Changed(X, f, X.ml, X.size)
      BY <1>2, ElementsReplaced
    <3>4. t = Changed(X, f, X.ml, X.size)
      BY <1>3, <2>1, <3>2, <3>3
    <3>5. X.arrays.built
      <4>1. MatchReallyOccupied(Y.arrays) # {}
        BY <1>1 DEF From
      <4> QED BY <1>2, <4>1, BuiltFor
    <3>6. FilledAlike(X, Y, act.cursor)
      BY <1>2, <2>1
    <3>7. PICK x, y, c : x = X /\ y = Y /\ c = act.cursor
      OBVIOUS
    <3>8. FilledAlike(x, y, c) /\ x.arrays.built /\ t = Changed(x, f, x.ml, x.size)
          /\ f = [x.arrays EXCEPT !.elem = NewArrays(x.arrays.groups).elem]
      BY <3>1, <3>4, <3>5, <3>6, <3>7
    <3> QED BY <3>8, CopiesDestroyed
  <2>2. CASE ~SameSize
    <3>1. PICK x, y, c, h : x = X /\ y = Y /\ c = act.cursor /\ h = Y.h
      OBVIOUS
    <3>2. /\ FilledFrom(x, y, c) /\ Sound(y, h) /\ y.size <= InitialMaxLoad(x.arrays)
          /\ From(y.arrays, c) # {} /\ q = FirstFrom(y.arrays, c) /\ k = ElementAt(y.arrays, q)
          /\ c \in Nat
      BY <1>1, <1>2, <2>2, <3>1
    <3>3. k \in Keys /\ x.size < x.ml /\ Sound(x, x.h)
      BY <3>2, FillRoom DEF FilledFrom
    <3>4. PICK w : w = InsertFailed(x, k)
      OBVIOUS
    <3>5. Sound(w, w.h)
      BY <3>3, <3>4, InsertFailedSound
    <3> QED BY <1>3, <2>2, <3>1, <3>3, <3>4, <3>5
  <2> QED BY <2>1, <2>2
<1>5. PICK u : u = Aborted(t).tab
  OBVIOUS
<1>6. u # NoTable => Sound(u, u.h)
  BY <1>4, <1>5, AbortedSound
<1>7. tab'[act.x] = u /\ tab'[act.y] = Y /\ Stays({act.x, act.y})
  <2>1. tab'[act.x] = u /\ Stays({act.x})
    BY <1>2, <1>3, <1>5, OneSet DEF IInv
  <2> QED BY <1>2, <2>1 DEF Stays, Y, ArgumentsOK
<1>8. SameCall("done") /\ act'.res = cause /\ was' = was
  BY <1>3, ActFinishes DEF Finish, IInv, TypeOK, Results
<1>9. /\ tab'[act.x] # NoTable => Sound(tab'[act.x], tab'[act.x].h)
      /\ tab'[act.y] # NoTable => Sound(tab'[act.y], tab'[act.y].h)
  BY <1>2, <1>6, <1>7
<1> QED BY <1>2, <1>3, <1>7, <1>8, <1>9, Finishing


\* The table has the elements, places, metadata and size of the other.
LEMMA GroupsCopiedSound ==
  ASSUME NEW t, NEW s, NEW c, FilledAlike(t, s, c), Sound(s, s.h), t.h = s.h,
         From(s.arrays, c) = {}, t.arrays.groups = s.arrays.groups, t.arrays.built, s.arrays.built,
         NEW u, u = GroupsCopied(t, s)
  PROVE  Sound(u, u.h) /\ u.arrays = s.arrays
<1> DEFINE a == s.arrays
           b == t.arrays
<1>1. /\ IsArrays(a, Keys) /\ WellPlaced(a, s.h, {}) /\ s.size \in Nat /\ s.ml \in Nat
      /\ IsTable(t) /\ IsArrays(b, Keys) /\ s.h \in Hashers /\ Counted(s)
  BY TableFields DEF Sound, Hollow, FilledAlike
<1>2. Groups(b) = Groups(a) /\ Places(b) = Places(a)
  BY SameGroups
<1>3. Behind(a, c) = MatchReallyOccupied(a)
  BY NoneAhead
<1>4. \A p \in Places(a) : ElementAt(b, p) = ElementAt(a, p)
  BY <1>1, <1>2, <1>3 DEF FilledAlike, WellPlaced
<1>5. \A g \in Groups(a), n \in Slots : b.elem[g][n] = a.elem[g][n]
  <2>1. ASSUME NEW g \in Groups(a), NEW n \in Slots PROVE b.elem[g][n] = a.elem[g][n]
    <3>1. PICK p : p = <<g, n>>
      OBVIOUS
    <3>2. p \in Places(a) /\ p[1] = g /\ p[2] = n
      BY <3>1, PlaceParts
    <3> QED BY <1>4, <3>2 DEF ElementAt
  <2> QED BY <2>1
<1>6. b.elem = a.elem
  <2>1. /\ b.elem \in [0 .. a.groups - 1 -> [Slots -> Keys \cup {NoKey}]]
        /\ a.elem \in [0 .. a.groups - 1 -> [Slots -> Keys \cup {NoKey}]]
    BY <1>1 DEF IsArrays, ArraysOf
  <2>2. \A g \in 0 .. a.groups - 1 : b.elem[g] \in [Slots -> Keys \cup {NoKey}]
                                     /\ a.elem[g] \in [Slots -> Keys \cup {NoKey}]
    BY <2>1
  <2>3. \A g \in 0 .. a.groups - 1 : b.elem[g] = a.elem[g]
    BY <1>5, <2>2 DEF Groups
  <2>4. PICK f, e, D, R : /\ f = b.elem /\ e = a.elem /\ D = 0 .. a.groups - 1
                          /\ R = [Slots -> Keys \cup {NoKey}]
    OBVIOUS
  <2>5. f \in [D -> R] /\ e \in [D -> R] /\ \A g \in D : f[g] = e[g]
    BY <2>1, <2>3, <2>4
  <2>6. f = e
    BY ONLY <2>5
  <2> QED BY <2>4, <2>6
<1>7. PICK f : f = [b EXCEPT !.meta = a.meta, !.overflow = a.overflow]
  OBVIOUS
<1>8. f = a
  <2>1. /\ b \in [built : BOOLEAN, groups : {a.groups}, meta : {b.meta}, elem : {b.elem},
                  overflow : {b.overflow}]
        /\ a \in [built : BOOLEAN, groups : {a.groups}, meta : {a.meta}, elem : {a.elem},
                  overflow : {a.overflow}]
    BY <1>1 DEF IsArrays, ArraysOf
  <2>2. a = [built |-> a.built, groups |-> a.groups, meta |-> a.meta, elem |-> a.elem,
             overflow |-> a.overflow]
    BY <2>1
  <2>3. f = [built |-> b.built, groups |-> b.groups, meta |-> a.meta, elem |-> b.elem,
             overflow |-> a.overflow]
    BY <1>7, <2>1
  <2>4. b.built = a.built
    BY <1>1 DEF IsArrays, ArraysOf
  <2> QED BY <1>6, <2>2, <2>3, <2>4
<1>9. u = Changed(t, a, s.ml, s.size)
  <2>1. u = [t EXCEPT !.arrays = f, !.ml = s.ml, !.size = s.size]
    BY <1>7 DEF GroupsCopied
  <2>2. PICK v : v = [t EXCEPT !.arrays = f]
    OBVIOUS
  <2>3. v = Changed(t, f, t.ml, t.size)
    BY <1>1, <2>2, ElementsReplaced
  <2>4. u = [v EXCEPT !.ml = s.ml, !.size = s.size]
    BY <2>1, <2>2
  <2> QED BY <1>8, <2>3, <2>4 DEF Changed
<1>10. /\ IsTable(u) /\ u.arrays = a /\ u.ml = s.ml /\ u.size = s.size /\ u.h = t.h
  <2>1. LET v == Changed(t, a, s.ml, s.size) IN
        /\ IsTable(v) /\ v.arrays = a /\ v.ml = s.ml /\ v.size = s.size
        /\ v.h = t.h /\ v.al = t.al /\ v.kind = t.kind
    BY <1>1, TableChanged DEF Changed
  <2> QED BY <1>9, <2>1
<1>11. Counted(u)
  BY <1>1, <1>10 DEF Counted
<1> QED BY <1>1, <1>10, <1>11 DEF Sound, Hollow

\* All elements were copied or moved.
LEMMA FillCompletes ==
  ASSUME NEW t, NEW s, NEW c, FilledFrom(t, s, c), NEW h, Sound(s, h), From(s.arrays, c) = {}
  PROVE  Sound(t, t.h) /\ Elements(t.arrays) = Elements(s.arrays)
<1>1. PICK a : a = s.arrays
  OBVIOUS
<1>2. IsArrays(a, Keys) /\ WellPlaced(a, h, {})
  BY <1>1, TableFields DEF Sound, Hollow
<1>3. PICK all : all = MatchReallyOccupied(a)
  OBVIOUS
<1>4. Elements(a) = ElementsIn(a, all)
  <2>1. all \ {} = all
    OBVIOUS
  <2>2. \A k \in Elements(a) : k \in Keys /\ \E p \in MatchReallyOccupied(a) \ {} : ElementAt(a, p) = k
    BY <1>2, ElementsHavePlaces
  <2>3. \A p \in MatchReallyOccupied(a) : ElementAt(a, p) \in Elements(a)
    BY <1>2, ElementThere
  <2> QED BY <1>3, <2>2, <2>3 DEF ElementsIn
<1>5. Behind(a, c) = all
  BY <1>1, <1>3, NoneAhead
<1> QED BY <1>1, <1>4, <1>5 DEF FilledFrom

\* There was nothing to copy.
LEMMA NothingCopied ==
  ASSUME NEW t, NEW s, NEW c, FilledAlike(t, s, c), NEW h, Sound(s, h),
         MatchReallyOccupied(s.arrays) = {}, From(s.arrays, c) = {}
  PROVE  Sound(t, t.h) /\ Elements(t.arrays) = {} /\ Elements(s.arrays) = {}
<1> DEFINE b == t.arrays
<1>1. IsTable(t) /\ Fresh(t) /\ IsArrays(b, Keys) /\ t.h \in Hashers
  BY TableFields DEF FilledAlike
<1>2. IsArrays(s.arrays, Keys) /\ WellPlaced(s.arrays, h, {})
  BY TableFields DEF Sound, Hollow
<1>3. Elements(s.arrays) = {}
  BY <1>2, ElementsHavePlaces
<1>4. Behind(s.arrays, c) = {}
  BY DEF Behind
<1>5. Blank(b)
  <2>1. ASSUME NEW g \in Groups(b), NEW n \in Slots
        PROVE  b.elem[g][n] = NoKey /\ b.meta[g][n] \in {Available, Sentinel}
    <3>1. PICK p : p = <<g, n>>
      OBVIOUS
    <3>2. p \in Places(b) /\ p[1] = g /\ p[2] = n
      BY <3>1, PlaceParts
    <3>3. p \notin MatchReallyOccupied(b) /\ ElementAt(b, p) = NoKey
      BY <1>4, <3>2 DEF FilledAlike
    <3> QED BY <3>2, <3>3 DEF MatchReallyOccupied, ElementAt
  <2>2. SentinelInPlace(b)
    BY DEF FilledAlike
  <2> QED BY <1>1, <2>1, <2>2 DEF Blank
<1> QED BY <1>1, <1>3, <1>5, BlankFresh


LEMMA FinishCopyKeeps ==
  ASSUME IInv, FinishCopy, UNCHANGED use
  PROVE  IInv'
<1>1. /\ act.pc = "copy" /\ From(Y.arrays, act.cursor) = {} /\ Finish("ok")
      /\ SetX(IF SameSize /\ X.arrays.built /\ Y.arrays.built THEN GroupsCopied(X, Y) ELSE X)
  BY DEF FinishCopy
<1>2. /\ Active /\ ArgumentsOK /\ act.op \in {"copy_construct", "copy_assign"} /\ act.x # act.y
      /\ act.cursor \in Nat /\ IsTable(X) /\ IsTable(Y) /\ Sound(Y, Y.h)
      /\ Contents(act.y) = was[act.y] /\ Elements(Y.arrays) = was[act.y]
      /\ X.h = Y.h /\ Y.size <= InitialMaxLoad(X.arrays)
      /\ SameSize => FilledAlike(X, Y, act.cursor)
      /\ ~SameSize => FilledFrom(X, Y, act.cursor)
  BY <1>1, WhileCopying
<1>3. PICK u : u = IF SameSize /\ X.arrays.built /\ Y.arrays.built THEN GroupsCopied(X, Y) ELSE X
  OBVIOUS
<1>4. Sound(u, u.h) /\ Elements(u.arrays) = Elements(Y.arrays)
  <2>1. PICK t, s, c, h : t = X /\ s = Y /\ c = act.cursor /\ h = Y.h
    OBVIOUS
  <2>2. /\ Sound(s, s.h) /\ Sound(s, h) /\ From(s.arrays, c) = {} /\ t.h = s.h /\ IsTable(t)
        /\ s.size <= InitialMaxLoad(t.arrays)
    BY <1>1, <1>2, <2>1
  <2>3. CASE ~SameSize
    <3>1. FilledFrom(t, s, c) /\ u = t
      BY <1>2, <1>3, <2>1, <2>3
    <3>2. Sound(t, t.h) /\ Elements(t.arrays) = Elements(s.arrays)
      BY <2>2, <3>1, FillCompletes
    <3> QED BY <2>1, <3>1, <3>2
  <2>4. CASE SameSize /\ t.arrays.built /\ s.arrays.built
    <3>1. FilledAlike(t, s, c) /\ t.arrays.groups = s.arrays.groups
      BY <1>2, <2>1, <2>4 DEF SameSize
    <3>2. u = GroupsCopied(t, s)
      BY <1>3, <2>1, <2>4
    <3>3. Sound(u, u.h) /\ u.arrays = s.arrays
      BY <2>2, <2>4, <3>1, <3>2, GroupsCopiedSound
    <3> QED BY <2>1, <3>3
  <2>5. CASE SameSize /\ ~(t.arrays.built /\ s.arrays.built)
    <3>1. FilledAlike(t, s, c) /\ u = t
      BY <1>2, <1>3, <2>1, <2>5
    <3>2. MatchReallyOccupied(s.arrays) = {}
      <4>1. CASE ~s.arrays.built
        BY <2>2, <4>1, StaticUnoccupied DEF Sound, Hollow, WellPlaced
      <4>2. CASE ~t.arrays.built
        BY <2>2, <4>2, BuiltFor
      <4> QED BY <2>5, <4>1, <4>2
    <3>3. Sound(t, t.h) /\ Elements(t.arrays) = {} /\ Elements(s.arrays) = {}
      BY <2>2, <3>1, <3>2, NothingCopied
    <3> QED BY <2>1, <3>1, <3>3
  <2> QED BY <2>3, <2>4, <2>5
<1>5. tab'[act.x] = u /\ tab'[act.y] = Y /\ Stays({act.x, act.y})
  <2>1. tab'[act.x] = u /\ Stays({act.x})
    BY <1>1, <1>2, <1>3, OneSet DEF IInv
  <2> QED BY <1>2, <2>1 DEF Stays, Y, ArgumentsOK
<1>6. SameCall("done") /\ act'.res = "ok" /\ was' = was
  BY <1>1, ActFinishes DEF Finish, IInv, TypeOK, Results
<1>7. After(act.x) = was[act.y] /\ After(act.y) = was[act.y]
  BY <1>2, <1>4, <1>5, TableFields DEF After, Sound, Hollow
<1>8. Delivered(After(act.x), After(act.y))
  BY <1>2, <1>7 DEF Delivered
<1> QED BY <1>2, <1>4, <1>5, <1>6, <1>8, Finishing

LEMMA MoveElementKeeps ==
  ASSUME IInv, MoveElement, UNCHANGED use
  PROVE  IInv'
<1>1. PICK t, s, c, q, k, u, i :
        /\ t = X /\ s = Y /\ c = act.cursor /\ q = FirstFrom(s.arrays, c) /\ k = ElementAt(s.arrays, q)
        /\ u = Inserted(t, k) /\ i = Index(q) + 1
  OBVIOUS
<1>2. /\ act.pc = "move" /\ From(s.arrays, c) # {} /\ was' = was
      /\ SetX(u) /\ act' = [act EXCEPT !.cursor = Index(FirstFrom(Y.arrays, @)) + 1]
  BY <1>1 DEF MoveElement, MovingOver
<1>3. /\ Active /\ ArgumentsOK /\ act.op \in {"move_construct", "move_assign"} /\ act.x # act.y
      /\ act.op = "move_assign" => ~PropagateMove
      /\ c \in Nat /\ IsTable(t) /\ IsTable(Y) /\ Sound(s, t.h)
      /\ act.op = "move_construct" => Sound(Y, Y.h)
      /\ Contents(act.y) = was[act.y]
      /\ s.size <= InitialMaxLoad(t.arrays) /\ FilledFrom(t, s, c)
  BY <1>1, <1>2, WhileMoving
<1>4. PICK h : h = t.h
  OBVIOUS
<1>5. /\ FilledFrom(u, s, i) /\ i \in Nat /\ u.h = h
      /\ InitialMaxLoad(u.arrays) = InitialMaxLoad(t.arrays)
  <2>1. /\ q = FirstFrom(s.arrays, c) /\ k = ElementAt(s.arrays, q) /\ u = Inserted(t, k)
        /\ i = Index(q) + 1
    BY <1>1
  <2>2. /\ FilledFrom(u, s, Index(q) + 1) /\ Index(q) + 1 \in Nat /\ u.h = t.h
        /\ InitialMaxLoad(u.arrays) = InitialMaxLoad(t.arrays)
        /\ u.arrays.groups = t.arrays.groups /\ IsTable(u)
    BY <1>2, <1>3, <2>1, FillNext
  <2> QED BY <1>4, <2>1, <2>2
<1>6. tab'[act.x] = u /\ Stays({act.x})
  BY <1>2, <1>3, OneSet DEF IInv
<1>7. SameCall("move") /\ act'.cursor = i
  <2>1. PICK a, p : a = act.new /\ p = act.pc
    OBVIOUS
  <2>2. IsArrays(a, Keys) /\ IsAct(act) /\ p \in Pcs
    BY <2>1, ActFields DEF IInv, TypeOK
  <2>3. act' = [act EXCEPT !.cursor = i]
    BY <1>1, <1>2
  <2>4. SameCall(act.pc) /\ act'.cursor = i
    BY <1>5, <2>1, <2>2, <2>3, ActShapes
  <2> QED BY <1>2, <2>4
<1>8. /\ Sound(Y, u.h) /\ Y.size <= InitialMaxLoad(u.arrays) /\ FilledFrom(u, Y, i)
  BY <1>1, <1>3, <1>4, <1>5
<1> QED BY <1>2, <1>3, <1>6, <1>7, <1>8, MoveReached

LEMMA SourceCleared ==
  ASSUME NEW t, NEW h, Sound(t, h), NEW u, u = Cleared(t)
  PROVE  u # NoTable /\ Sound(u, u.h) /\ Elements(u.arrays) = {} /\ Of(u) = {}
<1>1. IsTable(u) /\ Fresh(u) /\ Blank(u.arrays) /\ u.h \in Hashers /\ u # NoTable
  BY ClearedSound, TableFields
<1>2. Sound(u, u.h) /\ Elements(u.arrays) = {}
  BY <1>1, BlankFresh
<1> QED BY <1>1, <1>2 DEF Of

LEMMA MoveThrowsKeeps ==
  ASSUME IInv, MoveThrows, UNCHANGED use
  PROVE  IInv'
<1>1. PICK t, s, c, q, k :
        t = X /\ s = Y /\ c = act.cursor /\ q = FirstFrom(s.arrays, c) /\ k = ElementAt(s.arrays, q)
  OBVIOUS
<1>2. act.pc = "move" /\ From(s.arrays, c) # {}
  BY <1>1 DEF MoveThrows, MovingOver
<1>3. /\ Active /\ act.op \in {"move_construct", "move_assign"} /\ act.x # act.y
      /\ c \in Nat /\ Sound(s, t.h) /\ s.size <= InitialMaxLoad(t.arrays) /\ FilledFrom(t, s, c)
  BY <1>1, <1>2, WhileMoving
<1>4. PICK cause, w, u, v :
        /\ cause \in {"hash", "element"}
        /\ w = (IF cause = "element" THEN InsertFailed(t, k) ELSE t)
        /\ u = Aborted(w).tab /\ v = Cleared(s)
        /\ SetXY(u, v) /\ Finish(cause)
  BY <1>1 DEF MoveThrows
<1>5. PICK h : h = t.h
  OBVIOUS
<1>6. k \in Keys /\ t.size < t.ml /\ Sound(t, t.h)
  <2>1. q = FirstFrom(s.arrays, c) /\ k = ElementAt(s.arrays, q) /\ Sound(s, h)
    BY <1>1, <1>3, <1>5
  <2> QED BY <1>2, <1>3, <2>1, FillRoom DEF FilledFrom
<1>7. Sound(w, w.h)
  <2>1. PICK f : f = InsertFailed(t, k)
    OBVIOUS
  <2>2. Sound(f, f.h)
    BY <1>6, <2>1, InsertFailedSound
  <2> QED BY <1>4, <1>6, <2>1, <2>2
<1>8. u # NoTable => Sound(u, u.h)
  BY <1>4, <1>7, AbortedSound
<1>9. Sound(v, v.h)
  <2>1. Sound(s, h) /\ v = Cleared(s)
    BY <1>3, <1>4, <1>5
  <2> QED BY <2>1, SourceCleared
<1>10. cause \in Results /\ cause \notin {"ok", "found"}
  BY <1>4 DEF Results
<1>11. SetXY(u, v) /\ Finish(cause)
  BY <1>4
<1> QED BY <1>3, <1>8, <1>9, <1>10, <1>11, FinishingTwo

LEMMA FinishMoveKeeps ==
  ASSUME IInv, FinishMove, UNCHANGED use
  PROVE  IInv'
<1>1. PICK t, s, c, v : t = X /\ s = Y /\ c = act.cursor /\ v = Cleared(s)
  OBVIOUS
<1>2. act.pc = "move" /\ From(s.arrays, c) = {} /\ SetXY(t, v) /\ Finish("ok")
  BY <1>1 DEF FinishMove
<1>3. /\ Active /\ act.op \in {"move_construct", "move_assign"} /\ act.x # act.y
      /\ c \in Nat /\ IsTable(t) /\ Sound(s, t.h) /\ FilledFrom(t, s, c)
      /\ Elements(s.arrays) = was[act.y]
  BY <1>1, <1>2, WhileMoving
<1>4. PICK h : h = t.h
  OBVIOUS
<1>5. Sound(t, t.h) /\ Elements(t.arrays) = Elements(s.arrays)
  <2>1. Sound(s, h)
    BY <1>3, <1>4
  <2> QED BY <1>2, <1>3, <2>1, FillCompletes
<1>6. Sound(v, v.h) /\ Of(v) = {}
  <2>1. Sound(s, h) /\ v = Cleared(s)
    BY <1>1, <1>3, <1>4
  <2> QED BY <2>1, SourceCleared
<1>7. Of(t) = was[act.y]
  BY <1>3, <1>5, TableFields DEF Of
<1>8. Delivered(Of(t), Of(v)) /\ "ok" \in Results
  BY <1>3, <1>6, <1>7 DEF Delivered, Results
<1> QED BY <1>2, <1>3, <1>5, <1>6, <1>8, FinishingTwo


-----------------------------------------------------------------------------
(* Assignment and swap *)

\* The table with another function object, allocator or kind.
LEMMA OptionsChanged ==
  ASSUME NEW t, IsTable(t), NEW h \in Hashers, NEW al \in Allocators,
         NEW kind \in {"plain", "concurrent"},
         NEW u, u = [arrays |-> t.arrays, size |-> t.size, ml |-> t.ml, h |-> h, al |-> al, kind |-> kind]
  PROVE  /\ IsTable(u) /\ u.arrays = t.arrays /\ u.size = t.size /\ u.ml = t.ml
         /\ u.h = h /\ u.al = al /\ u.kind = kind /\ u # NoTable
         /\ \A i : Sound(t, i) => Sound(u, i)
         /\ Fresh(t) => Fresh(u)
<1>1. PICK a : a = t.arrays
  OBVIOUS
<1>2. IsArrays(a, Keys) /\ t.size \in Nat /\ t.ml \in Nat
  BY <1>1, TableFields
<1>3. /\ u \in [arrays : {a}, size : Nat, ml : Nat, h : Hashers, al : Allocators,
                kind : {"plain", "concurrent"}]
      /\ u.arrays = a /\ u.size = t.size /\ u.ml = t.ml /\ u.h = h /\ u.al = al /\ u.kind = kind
  BY <1>1, <1>2
<1>4. IsTable(u) /\ u # NoTable
  <2>1. IsTable(u)
    BY <1>2, <1>3 DEF IsTable
  <2> QED BY <2>1, TableFields
<1>5. \A i : Sound(t, i) => Sound(u, i)
  BY <1>1, <1>3, <1>4 DEF Sound, Hollow, Counted
<1>6. Fresh(t) => Fresh(u)
  BY <1>1, <1>3 DEF Fresh
<1> QED BY <1>1, <1>3, <1>4, <1>5, <1>6

LEMMA OptionsSet ==
  ASSUME NEW t, IsTable(t), NEW v
  PROVE  /\ [t EXCEPT !.h = v] = [arrays |-> t.arrays, size |-> t.size, ml |-> t.ml, h |-> v,
                                  al |-> t.al, kind |-> t.kind]
         /\ [t EXCEPT !.al = v] = [arrays |-> t.arrays, size |-> t.size, ml |-> t.ml, h |-> t.h,
                                   al |-> v, kind |-> t.kind]
         /\ [t EXCEPT !.kind = v] = [arrays |-> t.arrays, size |-> t.size, ml |-> t.ml, h |-> t.h,
                                     al |-> t.al, kind |-> v]
<1>1. t = [arrays |-> t.arrays, size |-> t.size, ml |-> t.ml, h |-> t.h, al |-> t.al, kind |-> t.kind]
  BY TableRecord
<1>2. [t EXCEPT !.h = v] = [arrays |-> t.arrays, size |-> t.size, ml |-> t.ml, h |-> v,
                            al |-> t.al, kind |-> t.kind]
  BY <1>1
<1>3. [t EXCEPT !.al = v] = [arrays |-> t.arrays, size |-> t.size, ml |-> t.ml, h |-> t.h,
                             al |-> v, kind |-> t.kind]
  BY <1>1
<1>4. [t EXCEPT !.kind = v] = [arrays |-> t.arrays, size |-> t.size, ml |-> t.ml, h |-> t.h,
                               al |-> t.al, kind |-> v]
  BY <1>1
<1> QED BY <1>2, <1>3, <1>4

LEMMA FunctionsAssigned ==
  ASSUME NEW t, IsTable(t), NEW s, IsTable(s), NEW u, u = WithFunctionsOf(t, s)
  PROVE  /\ IsTable(u) /\ u.arrays = t.arrays /\ u.size = t.size /\ u.h = s.h
         /\ \A i : Sound(t, i) => Sound(u, i)
         /\ Fresh(t) => Fresh(u)
<1>1. s.h \in Hashers /\ t.al \in Allocators /\ t.kind \in {"plain", "concurrent"}
  BY TableFields
<1>2. u = [arrays |-> t.arrays, size |-> t.size, ml |-> t.ml, h |-> s.h, al |-> t.al, kind |-> t.kind]
  BY OptionsSet DEF WithFunctionsOf
<1> QED BY <1>1, <1>2, OptionsChanged

LEMMA AllocatorAssigned ==
  ASSUME NEW t, IsTable(t), NEW al \in Allocators, NEW u, u = [t EXCEPT !.al = al]
  PROVE  /\ IsTable(u) /\ u.arrays = t.arrays /\ u.size = t.size /\ u.h = t.h
         /\ \A i : Sound(t, i) => Sound(u, i)
         /\ Fresh(t) => Fresh(u)
<1>1. PICK h \in Hashers, kind \in {"plain", "concurrent"} : h = t.h /\ kind = t.kind
  BY TableFields
<1>2. u = [arrays |-> t.arrays, size |-> t.size, ml |-> t.ml, h |-> h, al |-> al, kind |-> kind]
  BY <1>1, OptionsSet
<1>3. /\ IsTable(u) /\ u.arrays = t.arrays /\ u.size = t.size /\ u.ml = t.ml
      /\ u.h = h /\ u.al = al /\ u.kind = kind /\ u # NoTable
      /\ \A i : Sound(t, i) => Sound(u, i)
      /\ Fresh(t) => Fresh(u)
  BY ONLY IsTable(t), <1>2, OptionsChanged, h \in Hashers, al \in Allocators,
     kind \in {"plain", "concurrent"}
<1> QED BY <1>1, <1>3

LEMMA KindAssigned ==
  ASSUME NEW t, IsTable(t), NEW kind \in {"plain", "concurrent"}, NEW u, u = [t EXCEPT !.kind = kind]
  PROVE  IsTable(u) /\ u.arrays = t.arrays /\ u.h = t.h /\ \A i : Sound(t, i) => Sound(u, i)
<1>1. PICK h \in Hashers, al \in Allocators : h = t.h /\ al = t.al
  BY TableFields
<1>2. u = [arrays |-> t.arrays, size |-> t.size, ml |-> t.ml, h |-> h, al |-> al, kind |-> kind]
  BY <1>1, OptionsSet
<1>3. /\ IsTable(u) /\ u.arrays = t.arrays /\ u.size = t.size /\ u.ml = t.ml
      /\ u.h = h /\ u.al = al /\ u.kind = kind /\ u # NoTable
      /\ \A i : Sound(t, i) => Sound(u, i)
      /\ Fresh(t) => Fresh(u)
  BY ONLY IsTable(t), <1>2, OptionsChanged, h \in Hashers, al \in Allocators,
     kind \in {"plain", "concurrent"}
<1> QED BY <1>1, <1>3

LEMMA SelfAssignKeeps ==
  ASSUME IInv, SelfAssign, UNCHANGED use
  PROVE  IInv'
<1>1. /\ act.pc = "start" /\ act.op \in {"copy_assign", "move_assign"} /\ act.x = act.y
      /\ Finish("ok") /\ tab' = tab
  BY DEF SelfAssign, Starts
<1>2. /\ Active /\ ArgumentsOK /\ IsTable(X) /\ Sound(X, X.h) /\ Elements(X.arrays) = was[act.x]
  BY <1>1, AtStart DEF ArgumentsOK, Constructors
<1>3. SameCall("done") /\ act'.res = "ok" /\ was' = was
  BY <1>1, ActFinishes DEF Finish, IInv, TypeOK, Results
<1>4. Stays({act.x, act.y}) /\ tab'[act.x] = X /\ tab'[act.y] = X
  BY <1>1, NothingSet DEF IInv, Stays, X
<1>5. After(act.x) = was[act.x] /\ After(act.y) = was[act.x]
  BY <1>1, <1>2, <1>4, TableFields DEF After
<1>6. Delivered(After(act.x), After(act.y))
  BY <1>1, <1>5 DEF Delivered
<1> QED BY <1>2, <1>3, <1>4, <1>6, Finishing

\* An assignment is about to reserve after the step.
LEMMA AssignReached ==
  ASSUME IInv, Active, UNCHANGED <<use, was>>, NEW p \in {"assign_arrays", "assign_reserve"},
         SameCall(p), act.op \in {"copy_assign", "move_assign"},
         p = "assign_arrays" => act.op = "copy_assign", act.op = "move_assign" => ~PropagateMove,
         act'.cursor = 0, act'.outer = 0, act.x # act.y, Stays({act.x, act.y}),
         NEW t, NEW s, tab'[act.x] = t, tab'[act.y] = s,
         IsTable(t), Fresh(t), Blank(t.arrays), IsTable(s), Sound(s, t.h),
         Elements(s.arrays) = was[act.y], act.op = "copy_assign" => t.h = s.h
  PROVE  IInv'
<1>1. /\ act'.pc = p /\ act'.op = act.op /\ act'.x = act.x /\ act'.y = act.y
  BY DEF SameCall
<1>2. act.x \in Tables /\ act.y \in Tables
  BY DEF IInv, ControlOK, Active, ArgumentsOK
<1>3. X' = t /\ Y' = s
  BY <1>1 DEF X, Y
<1>4. Contents(act.y)' = was[act.y]
  BY <1>1, <1>2, ContentsOf, TableFields DEF After
<1>5. Sound(t, t.h)
  BY BlankFresh, TableFields
<1>6. AssignOK'
  BY <1>1, <1>3, <1>4 DEF AssignOK
<1>7. RehashOK' /\ MergeOK' /\ CopyOK' /\ MoveOK' /\ FillOK'
      /\ (act.op = "move_assign" => act.y \in Unfinished')
  BY <1>1 DEF RehashOK, MergeOK, CopyOK, MoveOK, FillOK, Unfinished
<1>8. PropagateMove' = PropagateMove
  BY DEF PropagateMove
<1>9. OpOK'
  BY <1>1, <1>8 DEF OpOK
<1>10. p \in Pcs \ {"idle", "start", "done"}
  BY DEF Pcs
<1>11. act.y \notin Unfinished' => Sound(s, s.h)
  BY <1>7
<1> HIDE DEF Beginnings
<1> QED BY <1>3, <1>5, <1>6, <1>7, <1>9, <1>10, <1>11, Continuing


LEMMA CopyAssignKeeps ==
  ASSUME IInv, CopyAssign, UNCHANGED use
  PROVE  IInv'
<1>1. PICK s, h, c, t : s = Y /\ h = X.h /\ c = Cleared(X) /\ t = WithFunctionsOf(c, s)
  OBVIOUS
<1>2. /\ act.pc = "start" /\ act.op = "copy_assign" /\ act.x # act.y
      /\ SetX(t) /\ Goto("assign_arrays") /\ UNCHANGED was
  BY <1>1 DEF CopyAssign, Starts
<1>3. /\ Active /\ ArgumentsOK /\ act.cursor = 0 /\ act.outer = 0
      /\ Sound(X, h) /\ IsTable(s) /\ Sound(s, s.h) /\ Elements(s.arrays) = was[act.y]
  BY <1>1, <1>2, AtStart DEF Constructors
<1>4. IsTable(c) /\ Fresh(c) /\ Blank(c.arrays)
  BY <1>1, <1>3, ClearedSound
<1>5. IsTable(t) /\ Fresh(t) /\ t.arrays = c.arrays /\ t.h = s.h
  BY <1>1, <1>3, <1>4, FunctionsAssigned
<1>6. SameCall("assign_arrays") /\ act'.cursor = 0 /\ act'.outer = 0
  BY <1>2, <1>3, GoneTo DEF Pcs
<1>7. Stays({act.x, act.y}) /\ tab'[act.x] = t /\ tab'[act.y] = s
  BY <1>1, <1>2, <1>3, OneSet DEF IInv, ArgumentsOK, Stays, Y
<1>8. Blank(t.arrays) /\ Sound(s, t.h)
  BY <1>3, <1>4, <1>5
<1> QED BY <1>2, <1>3, <1>5, <1>6, <1>7, <1>8, AssignReached

\* While an assignment is preparing its target.
LEMMA WhileAssigning ==
  ASSUME IInv, act.pc \in {"assign_arrays", "assign_reserve"}
  PROVE  /\ Active /\ ArgumentsOK /\ act.op \in {"copy_assign", "move_assign"} /\ act.x # act.y
         /\ act.pc = "assign_arrays" => act.op = "copy_assign"
         /\ act.op = "move_assign" => ~PropagateMove
         /\ act.cursor = 0 /\ act.outer = 0 /\ act.op \in use.calls
         /\ IsTable(X) /\ Fresh(X) /\ Blank(X.arrays) /\ X.size = 0
         /\ IsTable(Y) /\ Sound(Y, X.h)
         /\ Contents(act.y) = was[act.y] /\ Elements(Y.arrays) = was[act.y]
         /\ act.op = "copy_assign" => X.h = Y.h /\ Unfinished = {}
<1>1. /\ Active /\ ArgumentsOK /\ act.x # act.y /\ act.cursor = 0 /\ act.outer = 0
      /\ act.op \in use.calls /\ OpOK /\ ObjectsOK
  BY DEF IInv, ControlOK, Active, ArgumentsOK, Beginnings
<1>2. /\ act.op \in {"copy_assign", "move_assign"}
      /\ act.pc = "assign_arrays" => act.op = "copy_assign"
      /\ act.op = "move_assign" => ~PropagateMove
  BY <1>1 DEF OpOK
<1>3. act.x \in Built /\ act.y \in Built /\ act.x \in Tables /\ act.y \in Tables
  BY <1>1 DEF ObjectsOK, ArgumentsOK
<1>4. IsTable(X) /\ IsTable(Y)
  BY <1>3 DEF X, Y, IInv, TypeOK
<1>5. act.op = "copy_assign" => Unfinished = {}
  BY DEF Unfinished
<1>6. Contents(act.y) = was[act.y] /\ Sound(Y, X.h) /\ Fresh(X) /\ (act.op = "copy_assign" => X.h = Y.h)
  BY DEF IInv, AssignOK
<1>7. Sound(X, X.h)
  BY <1>1, <1>3 DEF IInv, TablesOK, Unfinished, X
<1>8. X.size = 0
  BY <1>6 DEF Fresh
<1>9. PICK t, h : t = X /\ h = X.h
  OBVIOUS
<1>10. Blank(X.arrays)
  <2>1. Sound(t, h) /\ t.size = 0
    BY <1>7, <1>8, <1>9
  <2> QED BY <1>9, <2>1, SoundBlank
<1>11. Elements(Y.arrays) = was[act.y]
  BY <1>3, <1>6 DEF Contents, Y
<1> QED BY <1>1, <1>2, <1>4, <1>5, <1>6, <1>8, <1>10, <1>11

LEMMA AssignArraysKeeps ==
  ASSUME IInv, AssignArrays, UNCHANGED use
  PROVE  IInv'
<1>1. PICK t, s, a : t = X /\ s = Y /\ a = ArraysFor(SlotsFor(s.size))
  OBVIOUS
<1>2. act.pc = "assign_arrays"
  BY DEF AssignArrays
<1>3. /\ Active /\ ArgumentsOK /\ act.op = "copy_assign" /\ act.x # act.y
      /\ act.cursor = 0 /\ act.outer = 0 /\ IsTable(t) /\ Fresh(t) /\ Blank(t.arrays) /\ t.size = 0
      /\ IsTable(s) /\ Sound(s, t.h) /\ Elements(s.arrays) = was[act.y] /\ t.h = s.h
      /\ Unfinished = {}
  BY <1>1, <1>2, WhileAssigning
<1>4. Blank(a)
  BY <1>1, <1>3, RoomForTable, ReserveRoom
<1>5. CASE AllocFails
  BY <1>3, <1>5, Failing DEF AllocFails, Failures
<1>6. ASSUME Goto("assign_reserve"), UNCHANGED was, NEW u, SetX(u),
             IsTable(u), Fresh(u), Blank(u.arrays), u.h = s.h
      PROVE  IInv'
  <2>1. SameCall("assign_reserve") /\ act'.cursor = 0 /\ act'.outer = 0
    BY <1>3, <1>6, GoneTo DEF Pcs
  <2>2. Stays({act.x, act.y}) /\ tab'[act.x] = u /\ tab'[act.y] = s
    BY <1>1, <1>3, <1>6, OneSet DEF IInv, ArgumentsOK, Stays, Y
  <2>3. Sound(s, u.h)
    BY <1>3, <1>6
  <2> QED BY <1>3, <1>6, <2>1, <2>2, <2>3, AssignReached
<1>7. ASSUME NEW v, v = WithArrays(t, a), NEW al, al = s.al, NEW u, u = [v EXCEPT !.al = al], SetX(u),
             Goto("assign_reserve"), UNCHANGED was
      PROVE  IInv'
  <2>1. IsTable(v) /\ Fresh(v) /\ v.arrays = a /\ v.h = t.h
    BY <1>3, <1>4, <1>7, WithArraysFresh
  <2>2. al \in Allocators
    BY <1>3, <1>7, TableFields
  <2>3. IsTable(u) /\ Fresh(u) /\ u.arrays = v.arrays /\ u.h = v.h
    BY <1>7, <2>1, <2>2, AllocatorAssigned
  <2>4. Blank(u.arrays) /\ u.h = s.h
    BY <1>3, <1>4, <2>1, <2>3
  <2> QED BY <1>6, <1>7, <2>3, <2>4
<1>8. ASSUME Goto("assign_reserve"), UNCHANGED <<tab, was>>
      PROVE  IInv'
  <2>1. SetX(t)
    BY <1>1, <1>8 DEF SetX, X, IInv, TypeOK
  <2> QED BY <1>3, <1>6, <1>8, <2>1
<1>9. \/ \E v, al, u : /\ v = WithArrays(t, a) /\ al = s.al /\ u = [v EXCEPT !.al = al] /\ SetX(u)
                       /\ Goto("assign_reserve") /\ UNCHANGED was
      \/ Goto("assign_reserve") /\ UNCHANGED <<tab, was>>
      \/ AllocFails
  BY <1>1 DEF AssignArrays
<1> QED BY <1>5, <1>7, <1>8, <1>9


\* The target has its arrays, and is filled from now on.
LEMMA ReserveDone ==
  ASSUME IInv, act.pc = "assign_reserve", UNCHANGED <<use, was>>,
         Goto(IF act.op = "copy_assign" THEN "copy" ELSE "move"),
         NEW u, SetX(u), IsTable(u), Fresh(u), Blank(u.arrays), u.h = X.h,
         Y.size <= InitialMaxLoad(u.arrays)
  PROVE  IInv'
<1>1. PICK s, h : s = Y /\ h = X.h
  OBVIOUS
<1>2. /\ Active /\ ArgumentsOK /\ act.op \in {"copy_assign", "move_assign"} /\ act.x # act.y
      /\ act.op = "move_assign" => ~PropagateMove
      /\ act.cursor = 0 /\ IsTable(Y) /\ Sound(s, h) /\ Contents(act.y) = was[act.y]
      /\ act.op = "copy_assign" => X.h = Y.h
  BY <1>1, WhileAssigning
<1>3. FilledAlike(u, s, 0) /\ FilledFrom(u, s, 0)
  BY <1>2, FillBegins
<1>4. Stays({act.x}) /\ tab'[act.x] = u
  BY <1>2, OneSet DEF IInv
<1>5. CASE act.op = "copy_assign"
  <2>1. SameCall("copy") /\ act'.cursor = 0
    BY <1>2, <1>5, GoneTo DEF Pcs
  <2>2. u.h = Y.h /\ Sound(Y, Y.h)
    BY <1>1, <1>2, <1>5
  <2> QED BY <1>1, <1>2, <1>3, <1>4, <1>5, <2>1, <2>2, CopyReached
<1>6. CASE act.op = "move_assign"
  <2>1. SameCall("move") /\ act'.cursor = 0
    BY <1>2, <1>6, GoneTo DEF Pcs
  <2>2. Sound(Y, u.h)
    BY <1>1, <1>2
  <2> QED BY <1>1, <1>2, <1>3, <1>4, <1>6, <2>1, <2>2, MoveReached
<1> QED BY <1>2, <1>5, <1>6

LEMMA AssignReserveKeeps ==
  ASSUME IInv, AssignReserve, UNCHANGED use, NoStrandedSources
  PROVE  IInv'
<1>1. PICK t, s, h, a : t = X /\ s = Y /\ h = X.h /\ a = ArraysFor(CapacityFor(SlotsFor(s.size)))
  OBVIOUS
<1>2. act.pc = "assign_reserve"
  BY DEF AssignReserve
<1>3. /\ Active /\ act.op \in {"copy_assign", "move_assign"}
      /\ act.op = "move_assign" => ~PropagateMove
      /\ act.op \in use.calls /\ IsTable(t) /\ Fresh(t) /\ Blank(t.arrays) /\ t.size = 0
      /\ Sound(s, h) /\ (act.op = "copy_assign" => Unfinished = {})
  BY <1>1, <1>2, WhileAssigning
<1>4. s.size \in Nat /\ Roomy(s.size)
  BY <1>3, RoomForTable
<1>5. CASE AllocFails
  <2>1. act.op = "copy_assign"
    <3>1. use \in Uses
      BY DEF IInv, TypeOK
    <3> QED BY <1>3, <1>5, <3>1 DEF AllocFails, NoStrandedSources, Throws, PropagateMove
  <2> QED BY <1>2, <1>3, <1>5, <2>1, Failing DEF AllocFails, Failures
<1>6. ASSUME EnoughFor(t, s.size), Goto(IF act.op = "copy_assign" THEN "copy" ELSE "move"),
             UNCHANGED <<tab, was>>
      PROVE  IInv'
  <2>1. SetX(t)
    BY <1>1, <1>6 DEF SetX, X, IInv, TypeOK
  <2>2. s.size <= InitialMaxLoad(t.arrays)
    BY <1>3, <1>4, <1>6, EnoughRoom
  <2> QED BY <1>1, <1>2, <1>3, <1>6, <2>1, <2>2, ReserveDone
<1>7. ASSUME NEW u, u = WithArrays(t, a), SetX(u), UNCHANGED was,
             Goto(IF act.op = "copy_assign" THEN "copy" ELSE "move")
      PROVE  IInv'
  <2>1. Blank(a) /\ s.size <= InitialMaxLoad(a)
    BY <1>1, <1>4, ReserveRoom
  <2>2. IsTable(u) /\ Fresh(u) /\ u.arrays = a /\ u.h = t.h
    BY <1>3, <1>7, <2>1, WithArraysFresh
  <2> QED BY <1>1, <1>2, <1>7, <2>1, <2>2, ReserveDone
<1>8. \/ /\ EnoughFor(t, s.size) /\ Goto(IF act.op = "copy_assign" THEN "copy" ELSE "move")
         /\ UNCHANGED <<tab, was>>
      \/ \E u : /\ u = WithArrays(t, a) /\ SetX(u) /\ UNCHANGED was
                /\ Goto(IF act.op = "copy_assign" THEN "copy" ELSE "move")
      \/ AllocFails
  BY <1>1 DEF AssignReserve
<1> QED BY <1>5, <1>6, <1>7, <1>8

LEMMA MoveAssignKeeps ==
  ASSUME IInv, MoveAssign, UNCHANGED use
  PROVE  IInv'
<1>1. act.pc = "start" /\ act.op = "move_assign" /\ act.x # act.y
  BY DEF MoveAssign, Starts
<1>2. PICK x, y, h, i : x = X /\ y = Y /\ h = X.h /\ i = Y.h
  OBVIOUS
<1>3. /\ Active /\ ArgumentsOK /\ act.cursor = 0 /\ act.outer = 0
      /\ IsTable(x) /\ Sound(x, h) /\ IsTable(y) /\ Sound(y, i) /\ Elements(y.arrays) = was[act.y]
  BY <1>1, <1>2, AtStart DEF Constructors
<1>4. /\ x.h \in Hashers /\ x.al \in Allocators
      /\ y.h \in Hashers /\ y.al \in Allocators /\ y.kind \in {"plain", "concurrent"}
  BY <1>3, TableFields
<1>5. ASSUME NEW al \in {x.al, y.al}, NEW t, t = [y EXCEPT !.al = al],
             NEW d, d = DummyArrays, NEW u, u = Table(d, x.h, y.al, y.kind), SetXY(t, u), Finish("ok")
      PROVE  IInv'
  <2>1. al \in Allocators
    BY <1>4, <1>5
  <2>2. IsTable(t) /\ t.arrays = y.arrays /\ t.h = y.h /\ \A j : Sound(y, j) => Sound(t, j)
    BY <1>3, <1>5, <2>1, AllocatorAssigned
  <2>3. Blank(d)
    BY <1>5, BlankDummy
  <2>4. IsTable(u) /\ u.arrays = d /\ u.h = x.h /\ \A j \in Hashers : Sound(u, j)
    BY <1>4, <1>5, <2>3, TableMade
  <2>5. Of(t) = was[act.y] /\ Of(u) = {}
    BY <1>3, <2>2, <2>3, <2>4, BlankEmpty, TableFields DEF Of
  <2>6. Delivered(Of(t), Of(u)) /\ "ok" \in Results
    BY <1>1, <2>5 DEF Delivered, Results
  <2>7. Sound(t, t.h) /\ Sound(u, u.h)
    BY <1>2, <1>3, <1>4, <2>2, <2>4
  <2> QED BY <1>1, <1>3, <1>5, <2>6, <2>7, FinishingTwo
<1>6. ASSUME ~PropagateMove, NEW c, c = Cleared(x), NEW t, t = WithFunctionsOf(c, y),
             NEW u, u = WithFunctionsOf(y, x), SetXY(t, u), Goto("assign_reserve"), UNCHANGED was
      PROVE  IInv'
  <2>1. IsTable(c) /\ Fresh(c) /\ Blank(c.arrays)
    BY <1>3, <1>6, ClearedSound
  <2>2. IsTable(t) /\ Fresh(t) /\ t.arrays = c.arrays /\ t.h = y.h
    BY <1>3, <1>6, <2>1, FunctionsAssigned
  <2>3. IsTable(u) /\ u.arrays = y.arrays /\ \A j : Sound(y, j) => Sound(u, j)
    BY <1>3, <1>6, FunctionsAssigned
  <2>4. SameCall("assign_reserve") /\ act'.cursor = 0 /\ act'.outer = 0
    BY <1>3, <1>6, GoneTo DEF Pcs
  <2>5. Stays({act.x, act.y}) /\ tab'[act.x] = t /\ tab'[act.y] = u
    BY <1>1, <1>3, <1>6, TwoSet DEF IInv
  <2>6. Blank(t.arrays) /\ Sound(u, t.h) /\ Elements(u.arrays) = was[act.y]
    BY <1>2, <1>3, <2>1, <2>2, <2>3
  <2> QED BY <1>1, <1>3, <1>6, <2>2, <2>3, <2>4, <2>5, <2>6, AssignReached
<1>7. \/ \E al \in {x.al, y.al} : \E t, d, u :
           /\ t = [y EXCEPT !.al = al] /\ d = DummyArrays /\ u = Table(d, x.h, y.al, y.kind)
           /\ SetXY(t, u) /\ Finish("ok")
      \/ \E c, t, u :
           /\ ~PropagateMove /\ c = Cleared(x) /\ t = WithFunctionsOf(c, y)
           /\ u = WithFunctionsOf(y, x) /\ SetXY(t, u) /\ Goto("assign_reserve") /\ UNCHANGED was
  BY <1>2 DEF MoveAssign
<1> QED BY <1>5, <1>6, <1>7

LEMMA SwapKeeps ==
  ASSUME IInv, Swap, UNCHANGED use
  PROVE  IInv'
<1>1. act.pc = "start" /\ act.op = "swap" /\ Finish("ok")
  BY DEF Swap, Starts
<1>2. PICK x, y : x = X /\ y = Y
  OBVIOUS
<1>3. /\ Active /\ ArgumentsOK /\ IsTable(x) /\ Sound(x, x.h) /\ IsTable(y) /\ Sound(y, y.h)
      /\ Elements(x.arrays) = was[act.x] /\ Elements(y.arrays) = was[act.y]
  BY <1>1, <1>2, AtStart DEF Constructors
<1>4. PICK b, c, t, u : /\ b = (IF PropagateSwap THEN y.al ELSE x.al)
                        /\ c = (IF PropagateSwap THEN x.al ELSE y.al)
                        /\ t = [y EXCEPT !.al = b] /\ u = [x EXCEPT !.al = c] /\ SetXY(t, u)
  BY <1>2 DEF Swap
<1>5. b \in Allocators /\ c \in Allocators
  BY <1>3, <1>4, TableFields
<1>6. IsTable(t) /\ t.arrays = y.arrays /\ t.h = y.h /\ \A j : Sound(y, j) => Sound(t, j)
  BY <1>3, <1>4, <1>5, AllocatorAssigned
<1>7. IsTable(u) /\ u.arrays = x.arrays /\ u.h = x.h /\ \A j : Sound(x, j) => Sound(u, j)
  BY <1>3, <1>4, <1>5, AllocatorAssigned
<1>8. Stays({act.x, act.y}) /\ tab'[act.y] = u /\ (act.x # act.y => tab'[act.x] = t)
  BY <1>3, <1>4, TwoSet DEF IInv
<1>9. was' = was /\ SameCall("done") /\ act'.res = "ok"
  BY <1>1, ActFinishes DEF Finish, IInv, TypeOK, Results
<1>10. Sound(t, t.h) /\ Sound(u, u.h) /\ t # NoTable /\ u # NoTable
  BY <1>3, <1>6, <1>7, TableFields
<1>11. After(act.y) = was[act.x] /\ (act.x # act.y => After(act.x) = was[act.y])
  BY <1>3, <1>6, <1>7, <1>8, <1>10 DEF After
<1>12. Delivered(After(act.x), After(act.y))
  BY <1>1, <1>11 DEF Delivered
<1>13. /\ tab'[act.x] # NoTable => Sound(tab'[act.x], tab'[act.x].h)
       /\ tab'[act.y] # NoTable => Sound(tab'[act.y], tab'[act.y].h)
  BY <1>8, <1>10
<1> QED BY <1>1, <1>3, <1>8, <1>9, <1>12, <1>13, Finishing

LEMMA ConvertKeeps ==
  ASSUME IInv, Convert, UNCHANGED use
  PROVE  IInv'
<1>1. act.pc = "start" /\ act.op = "convert"
  BY DEF Convert, Starts
<1>2. PICK y : y = Y
  OBVIOUS
<1>3. /\ Active /\ ArgumentsOK /\ Unfinished = {} /\ act.x # act.y
      /\ IsTable(y) /\ Sound(y, y.h) /\ Elements(y.arrays) = was[act.y]
  BY <1>1, <1>2, AtStart DEF Constructors
<1>4. y.h \in Hashers /\ y.al \in Allocators /\ y.kind \in {"plain", "concurrent"}
  BY <1>3, TableFields
<1>5. CASE AllocFails
  BY <1>1, <1>3, <1>5, Failing DEF AllocFails, Failures
<1>6. ASSUME NEW kind, kind = (IF y.kind = "plain" THEN "concurrent" ELSE "plain"),
             NEW t, t = [y EXCEPT !.kind = kind], NEW d, d = DummyArrays,
             NEW u, u = Table(d, y.h, y.al, y.kind), SetXY(t, u), Finish("ok")
      PROVE  IInv'
  <2>1. kind \in {"plain", "concurrent"}
    BY <1>6
  <2>2. IsTable(t) /\ t.arrays = y.arrays /\ t.h = y.h /\ \A j : Sound(y, j) => Sound(t, j)
    BY <1>3, <1>6, <2>1, KindAssigned
  <2>3. Blank(d)
    BY <1>6, BlankDummy
  <2>4. IsTable(u) /\ u.arrays = d /\ u.h = y.h /\ \A j \in Hashers : Sound(u, j)
    BY <1>4, <1>6, <2>3, TableMade
  <2>5. Of(t) = was[act.y] /\ Of(u) = {}
    BY <1>3, <2>2, <2>3, <2>4, BlankEmpty, TableFields DEF Of
  <2>6. Delivered(Of(t), Of(u)) /\ "ok" \in Results
    BY <1>1, <2>5 DEF Delivered, Results
  <2>7. Sound(t, t.h) /\ Sound(u, u.h)
    BY <1>3, <1>4, <2>2, <2>4
  <2> QED BY <1>1, <1>3, <1>6, <2>6, <2>7, FinishingTwo
<1>7. \/ \E kind, t, d, u :
           /\ kind = (IF y.kind = "plain" THEN "concurrent" ELSE "plain")
           /\ t = [y EXCEPT !.kind = kind] /\ d = DummyArrays /\ u = Table(d, y.h, y.al, y.kind)
           /\ SetXY(t, u) /\ Finish("ok")
      \/ AllocFails
  BY <1>2 DEF Convert
<1> QED BY <1>5, <1>6, <1>7


\* The size is the number of elements.
LEMMA SizeIsNumber ==
  ASSUME NEW t, NEW h, Sound(t, h)
  PROVE  /\ t.size = Cardinality(Elements(t.arrays)) /\ IsFiniteSet(Elements(t.arrays))
         /\ t.size = Cardinality(MatchReallyOccupied(t.arrays))
         /\ t.size <= t.ml /\ t.ml <= Capacity(t.arrays)
<1>1. IsTable(t) /\ WellPlaced(t.arrays, h, {}) /\ Counted(t)
  BY DEF Sound, Hollow
<1>2. PICK a : a = t.arrays /\ IsArrays(a, Keys) /\ WellPlaced(a, h, {})
  BY <1>1, TableFields
<1>3. /\ Cardinality(MatchReallyOccupied(a)) = Cardinality(Elements(a))
      /\ IsFiniteSet(Elements(a))
  BY <1>2, ElementsPerPlace
<1> QED BY <1>1, <1>2, <1>3 DEF Counted


-----------------------------------------------------------------------------
(* Filling from an archive or a list *)

\* The call is about to fill its table, or is filling it, after the step.
LEMMA FillReached ==
  ASSUME IInv, Active, UNCHANGED <<use, was>>, NEW p \in {"fill_reserve", "fill"}, SameCall(p),
         act.op \in {"load", "assign_list"}, Stays({act.x}), NEW t, tab'[act.x] = t, Sound(t, t.h),
         p = "fill_reserve" => Fresh(t) /\ act'.cursor = 0 /\ act'.outer = 0,
         p = "fill" => /\ t.size <= act'.cursor /\ act'.cursor <= act.n /\ act.n <= t.ml
                       /\ act.op = "load" => t.size = act'.cursor
  PROVE  IInv'
<1>1. ArgumentsOK /\ act.y = act.x
  BY DEF IInv, ControlOK, Active, ArgumentsOK, OfOne
<1>2. Stays({act.x, act.y}) /\ IsTable(t)
  BY <1>1 DEF Sound, Hollow
<1>3. act'.pc = p /\ act'.op = act.op /\ act'.x = act.x /\ act'.y = act.y /\ act'.n = act.n
  BY DEF SameCall
<1>4. X' = t
  BY <1>3 DEF X
<1>5. FillOK'
  BY <1>3, <1>4 DEF FillOK
<1>6. RehashOK' /\ MergeOK' /\ CopyOK' /\ MoveOK' /\ AssignOK' /\ OpOK'
  BY <1>3 DEF RehashOK, MergeOK, CopyOK, MoveOK, AssignOK, OpOK
<1>7. p \in Pcs \ {"idle", "start", "done"}
  BY DEF Pcs
<1>8. p \in Beginnings => p = "fill_reserve"
  BY DEF Beginnings
<1> HIDE DEF Beginnings
<1> QED BY <1>1, <1>2, <1>5, <1>6, <1>7, <1>8, Continuing

LEMMA RefillKeeps ==
  ASSUME IInv, Refill, UNCHANGED use
  PROVE  IInv'
<1>1. act.pc = "start" /\ act.op \in {"load", "assign_list"}
  BY DEF Refill, Starts
<1>2. PICK x, h, t : x = X /\ h = X.h /\ t = Cleared(x)
  OBVIOUS
<1>3. SetX(t) /\ Goto("fill_reserve") /\ UNCHANGED was
  BY <1>2 DEF Refill
<1>4. Active /\ ArgumentsOK /\ act.cursor = 0 /\ act.outer = 0 /\ Sound(x, h)
  BY <1>1, <1>2, AtStart DEF Constructors
<1>5. Fresh(t) /\ Sound(t, t.h)
  BY <1>2, <1>4, ClearedSound, SourceCleared
<1>6. SameCall("fill_reserve") /\ act'.cursor = 0 /\ act'.outer = 0
  BY <1>3, <1>4, GoneTo DEF Pcs
<1>7. Stays({act.x}) /\ tab'[act.x] = t
  BY <1>3, <1>4, OneSet DEF IInv
<1> QED BY <1>1, <1>3, <1>4, <1>5, <1>6, <1>7, FillReached

\* While a table is reserved for or filled.
LEMMA WhileFilling ==
  ASSUME IInv, act.pc \in {"fill_reserve", "fill"}
  PROVE  /\ Active /\ ArgumentsOK /\ act.op \in {"load", "assign_list"} /\ act.y = act.x
         /\ Unfinished = {} /\ act.cursor \in Nat /\ act.n \in Numbers /\ act.n \in Nat
         /\ IsTable(X) /\ Sound(X, X.h)
         /\ act.pc = "fill_reserve" => Fresh(X) /\ act.cursor = 0 /\ act.outer = 0
         /\ act.pc = "fill" => /\ X.size <= act.cursor /\ act.cursor <= act.n /\ act.n <= X.ml
                               /\ act.op = "load" => X.size = act.cursor
<1>1. Active /\ ArgumentsOK /\ OpOK /\ ObjectsOK
  BY DEF IInv, ControlOK, Active
<1>2. act.op \in {"load", "assign_list"} /\ act.y = act.x /\ act.n \in Numbers
  BY <1>1 DEF OpOK, ArgumentsOK, OfOne
<1>3. act.x \in Built /\ act.x \in Tables
  BY <1>1 DEF ObjectsOK, ArgumentsOK
<1>4. Unfinished = {}
  BY DEF Unfinished
<1>5. IsTable(X) /\ Sound(X, X.h)
  BY <1>3, <1>4 DEF X, IInv, TypeOK, TablesOK
<1>6. act.cursor \in Nat /\ act.n \in Nat
  BY ActFields DEF IInv, TypeOK
<1>7. act.pc = "fill_reserve" => act.cursor = 0 /\ act.outer = 0
  BY DEF IInv, ControlOK, Beginnings
<1>8. /\ act.pc = "fill_reserve" => Fresh(X)
      /\ act.pc = "fill" => /\ X.size <= act.cursor /\ act.cursor <= act.n /\ act.n <= X.ml
                            /\ act.op = "load" => X.size = act.cursor
  BY DEF IInv, FillOK
<1> QED BY <1>1, <1>2, <1>4, <1>5, <1>6, <1>7, <1>8

LEMMA FillReserveKeeps ==
  ASSUME IInv, FillReserve, UNCHANGED use
  PROVE  IInv'
<1>1. PICK x, h, n, a : x = X /\ h = X.h /\ n = act.n /\ a = FillArrays(x, n)
  OBVIOUS
<1>2. act.pc = "fill_reserve"
  BY DEF FillReserve
<1>3. /\ Active /\ ArgumentsOK /\ act.op \in {"load", "assign_list"} /\ Unfinished = {}
      /\ act.cursor = 0 /\ n \in Numbers /\ n \in Nat
      /\ IsTable(x) /\ Sound(x, h) /\ Fresh(x) /\ x.size = 0
  BY <1>1, <1>2, WhileFilling DEF Fresh
<1>4. Blank(x.arrays)
  BY <1>3, SoundBlank
<1>5. Roomy(n)
  BY <1>3, RoomForAll DEF IInv
<1>6. Blank(a) /\ n <= InitialMaxLoad(a)
  <2>1. CASE a = ArraysFor(CapacityFor(SlotsFor(n)))
    BY <1>3, <1>5, <2>1, ReserveRoom
  <2>2. CASE n = 0 /\ a = DummyArrays
    BY <2>2, BlankDummy
  <2>3. CASE EnoughFor(x, n) /\ a = x.arrays
    BY <1>3, <1>4, <1>5, <2>3, EnoughRoom
  <2> QED BY <1>1, <2>1, <2>2, <2>3 DEF FillArrays
<1>7. CASE AllocFails
  BY <1>2, <1>3, <1>7, Failing DEF AllocFails, Failures
<1>8. ASSUME NEW u, SetX(u), Goto("fill"), UNCHANGED was,
             IsTable(u), Fresh(u), Blank(u.arrays), n <= InitialMaxLoad(u.arrays)
      PROVE  IInv'
  <2>1. Sound(u, u.h) /\ u.size = 0 /\ u.ml = InitialMaxLoad(u.arrays)
    BY <1>8, BlankFresh, TableFields DEF Fresh
  <2>2. SameCall("fill") /\ act'.cursor = 0
    BY <1>3, <1>8, GoneTo DEF Pcs
  <2>3. Stays({act.x}) /\ tab'[act.x] = u
    BY <1>3, <1>8, OneSet DEF IInv
  <2>4. /\ u.size <= act'.cursor /\ act'.cursor <= act.n /\ act.n <= u.ml
        /\ act.op = "load" => u.size = act'.cursor
    BY <1>1, <1>3, <1>8, <2>1, <2>2
  <2> QED BY <1>3, <1>8, <2>1, <2>2, <2>3, <2>4, FillReached
<1>9. ASSUME Capacity(a) = Capacity(x.arrays), SetX(x), Goto("fill"), UNCHANGED was
      PROVE  IInv'
  <2>1. InitialMaxLoad(a) = InitialMaxLoad(x.arrays)
    BY <1>9 DEF InitialMaxLoad
  <2> QED BY <1>3, <1>4, <1>6, <1>8, <1>9, <2>1
<1>10. ASSUME NEW u, u = WithArrays(x, a), SetX(u), Goto("fill"), UNCHANGED was
       PROVE  IInv'
  <2>1. IsTable(u) /\ Fresh(u) /\ u.arrays = a
    BY <1>3, <1>6, <1>10, WithArraysFresh
  <2> QED BY <1>6, <1>8, <1>10, <2>1
<1>11. \/ Capacity(a) = Capacity(x.arrays) /\ SetX(x) /\ Goto("fill") /\ UNCHANGED was
       \/ \E u : u = WithArrays(x, a) /\ SetX(u) /\ Goto("fill") /\ UNCHANGED was
       \/ AllocFails
  BY <1>1 DEF FillReserve
<1> QED BY <1>7, <1>9, <1>10, <1>11

\* Filling ends, with all items or an exception.
LEMMA FillFinishes ==
  ASSUME IInv, act.pc = "fill", UNCHANGED use, NEW t, SetX(t), Sound(t, t.h),
         NEW r \in Results, Finish(r),
         r \in {"ok", "found"} /\ act.op = "load" => Cardinality(Elements(t.arrays)) = act.n
  PROVE  IInv'
<1>1. Active /\ ArgumentsOK /\ act.op \in {"load", "assign_list"} /\ act.y = act.x
  BY WhileFilling
<1>2. was' = was /\ SameCall("done") /\ act'.res = r
  BY ActFinishes DEF Finish, IInv, TypeOK
<1>3. Stays({act.x, act.y}) /\ tab'[act.x] = t
  BY <1>1, OneSet DEF IInv
<1>4. After(act.x) = Elements(t.arrays)
  BY <1>3, TableFields DEF After, Sound, Hollow
<1>5. act'.res \in {"ok", "found"} => Delivered(After(act.x), After(act.y))
  BY <1>1, <1>2, <1>4 DEF Delivered
<1> QED BY <1>1, <1>2, <1>3, <1>5, Finishing

LEMMA FillItemKeeps ==
  ASSUME IInv, UNCHANGED use, NEW k \in use.keys, FillItem(k)
  PROVE  IInv'
<1>1. PICK x, c : x = X /\ c = act.cursor
  OBVIOUS
<1>2. act.pc = "fill" /\ c < act.n /\ ~IsIn(x, k)
  BY <1>1 DEF FillItem, Filling
<1>3. /\ Active /\ ArgumentsOK /\ act.op \in {"load", "assign_list"} /\ c \in Nat /\ act.n \in Nat
      /\ IsTable(x) /\ Sound(x, x.h)
      /\ x.size <= c /\ c <= act.n /\ act.n <= x.ml /\ (act.op = "load" => x.size = c)
  BY <1>1, <1>2, WhileFilling
<1>4. x.size \in Nat /\ x.ml \in Nat /\ x.size < x.ml
  BY <1>2, <1>3, TableFields
<1>5. k \in Keys /\ k \notin Elements(x.arrays)
  BY <1>2, <1>3, OptionsTyped, SearchResult
<1>6. ASSUME NEW u, u = Inserted(x, k), SetX(u), act' = [act EXCEPT !.cursor = c + 1], UNCHANGED was
      PROVE  IInv'
  <2>1. Sound(u, u.h) /\ u.size = x.size + 1 /\ u.ml = x.ml
    BY <1>3, <1>4, <1>5, <1>6, InsertedSound
  <2>2. PICK p, a, i : p = "fill" /\ a = act.new /\ i = c + 1 /\ p \in Pcs
    BY DEF Pcs
  <2>3. IsAct(act) /\ IsArrays(a, Keys) /\ i \in Nat
    BY <1>3, <2>2, ActFields DEF IInv, TypeOK
  <2>4. SameCall(act.pc) /\ act'.cursor = i
    BY <1>6, <2>2, <2>3, ActShapes
  <2>5. Stays({act.x}) /\ tab'[act.x] = u
    BY <1>3, <1>6, OneSet DEF IInv
  <2>6. /\ u.size <= act'.cursor /\ act'.cursor <= act.n /\ act.n <= u.ml
        /\ act.op = "load" => u.size = act'.cursor
    BY <1>2, <1>3, <1>4, <2>1, <2>2, <2>4
  <2>7. SameCall("fill")
    BY <1>2, <2>4
  <2> QED BY <1>3, <1>6, <2>1, <2>5, <2>6, <2>7, FillReached
<1>7. ASSUME NEW u, u = InsertFailed(x, k), SetX(u), Finish("element")
      PROVE  IInv'
  <2>1. Sound(u, u.h)
    BY <1>3, <1>4, <1>5, <1>7, InsertFailedSound
  <2>2. "element" \in Results /\ "element" \notin {"ok", "found"}
    BY DEF Results
  <2> QED BY <1>2, <1>7, <2>1, <2>2, FillFinishes
<1>8. \/ \E u : u = Inserted(x, k) /\ SetX(u) /\ act' = [act EXCEPT !.cursor = c + 1] /\ UNCHANGED was
      \/ \E u : u = InsertFailed(x, k) /\ SetX(u) /\ Finish("element")
  BY <1>1 DEF FillItem
<1> QED BY <1>6, <1>7, <1>8

LEMMA FillRepeatedKeeps ==
  ASSUME IInv, UNCHANGED use, NEW k \in use.keys, FillRepeated(k)
  PROVE  IInv'
<1>1. PICK x, c : x = X /\ c = act.cursor
  OBVIOUS
<1>2. act.pc = "fill" /\ c < act.n /\ tab' = tab
  BY <1>1 DEF FillRepeated, Filling
<1>3. /\ Active /\ ArgumentsOK /\ act.op \in {"load", "assign_list"} /\ c \in Nat /\ act.n \in Nat
      /\ IsTable(x) /\ Sound(x, x.h) /\ x.size <= c /\ c <= act.n /\ act.n <= x.ml
  BY <1>1, <1>2, WhileFilling
<1>4. SetX(x) /\ x.size \in Nat
  BY <1>1, <1>2, <1>3, TableFields DEF SetX, X, IInv, TypeOK
<1>5. CASE act.op = "load"
  <2>1. Finish("bad_archive")
    BY <1>5 DEF FillRepeated
  <2>2. "bad_archive" \in Results /\ "bad_archive" \notin {"ok", "found"}
    BY DEF Results
  <2> QED BY <1>2, <1>3, <1>4, <2>1, <2>2, FillFinishes
<1>6. CASE act.op # "load"
  <2>1. act' = [act EXCEPT !.cursor = c + 1] /\ UNCHANGED was
    BY <1>1, <1>6 DEF FillRepeated
  <2>2. PICK p, a, i : p = "fill" /\ a = act.new /\ i = c + 1 /\ p \in Pcs
    BY DEF Pcs
  <2>3. IsAct(act) /\ IsArrays(a, Keys) /\ i \in Nat
    BY <1>3, <2>2, ActFields DEF IInv, TypeOK
  <2>4. SameCall("fill") /\ act'.cursor = i
    BY <1>2, <2>1, <2>2, <2>3, ActShapes
  <2>5. Stays({act.x}) /\ tab'[act.x] = x
    BY <1>3, <1>4, OneSet DEF IInv
  <2>6. x.size <= act'.cursor /\ act'.cursor <= act.n
    BY <1>2, <1>3, <1>4, <2>2, <2>4
  <2> QED BY <1>3, <1>6, <2>1, <2>4, <2>5, <2>6, FillReached
<1> QED BY <1>5, <1>6

LEMMA FillThrowsKeeps ==
  ASSUME IInv, FillThrows, UNCHANGED use
  PROVE  IInv'
<1>1. PICK cause \in {"hash", "element"} : act.pc = "fill" /\ Finish(cause) /\ tab' = tab
  BY DEF FillThrows, Filling
<1>2. Active /\ Unfinished = {} /\ act.op \in {"load", "assign_list"}
  BY <1>1, WhileFilling
<1> QED BY <1>1, <1>2, Failing DEF Failures

LEMMA FillEndsKeeps ==
  ASSUME IInv, FillEnds, UNCHANGED use
  PROVE  IInv'
<1>1. act.pc = "fill" /\ act.cursor = act.n /\ Finish("ok") /\ tab' = tab
  BY DEF FillEnds
<1>2. PICK x, a, h : x = X /\ a = X.arrays /\ h = X.h
  OBVIOUS
<1>3. Sound(x, h) /\ (act.op = "load" => x.size = act.n)
  BY <1>1, <1>2, WhileFilling
<1>4. x.size = Cardinality(Elements(a))
  BY <1>2, <1>3, SizeIsNumber
<1>5. SetX(x)
  BY <1>1, <1>2 DEF SetX, X, IInv, TypeOK
<1>6. "ok" \in Results /\ Sound(x, x.h)
  BY <1>2, <1>3 DEF Results
<1> QED BY <1>1, <1>2, <1>3, <1>4, <1>5, <1>6, FillFinishes


-----------------------------------------------------------------------------
(* The theorems *)

LEMMA StutteringKeeps ==
  ASSUME IInv, UNCHANGED vars
  PROVE  IInv'
<1> USE DEF vars
<1>1. X' = X /\ Y' = Y /\ Built' = Built /\ \A z \in Tables : Contents(z)' = Contents(z)
  BY DEF X, Y, Built, Contents
<1>2. TypeOK'
  BY <1>1 DEF IInv, TypeOK
<1>3. ControlOK' /\ Active' = Active
  BY <1>1 DEF IInv, ControlOK, ArgumentsOK, OpOK, ObjectsOK, Active, Numbers, PropagateMove
<1>4. Unfinished' = Unfinished
  BY DEF Unfinished
<1>5. TablesOK' /\ HistoryOK'
  BY <1>1, <1>4 DEF IInv, TablesOK, HistoryOK
<1>6. act.pc # "idle" => act.x \in Tables /\ act.y \in Tables
  BY DEF IInv, ControlOK, ArgumentsOK
<1>7. Key' = Key /\ Extra' = Extra /\ Coming' = Coming /\ MoveOnRehash' = MoveOnRehash
  BY <1>1 DEF Key, Extra, Coming, MoveOnRehash
<1>8. act.pc # "idle" => Before' = Before
  BY <1>1, <1>6 DEF Before
<1>9. RehashOK'
  BY <1>1, <1>7, <1>8 DEF IInv, RehashOK, RehashTables, RehashElements
<1>10. MergeOK'
  BY <1>1, <1>6, <1>7, <1>8 DEF IInv, MergeOK
<1>11. CopyOK' /\ MoveOK' /\ AssignOK' /\ FillOK'
  BY <1>1, <1>6 DEF IInv, CopyOK, MoveOK, AssignOK, FillOK, SameSize, Filled, FilledInPlace
<1>12. CallsDeliver' /\ StrongGuarantee'
  BY <1>1, <1>6, <1>7 DEF IInv, CallsDeliver, StrongGuarantee, Succeeded, Failed, AtRest
<1> QED BY <1>2, <1>3, <1>5, <1>9, <1>10, <1>11, <1>12 DEF IInv

\* One step per action.
LEMMA StepKeeps ==
  ASSUME IInv, NoStrandedSources, Step, UNCHANGED use
  PROVE  IInv'
<1>1. CASE Call \/ Return
  BY <1>1, CallKeeps, ReturnKeeps
<1>2. CASE EmplaceFinds \/ EmplaceInPlace \/ EmplaceWithRehash \/ EmplaceFails \/ KeyHashThrows
  BY <1>2, EmplaceFindsKeeps, EmplaceInPlaceKeeps, EmplaceWithRehashKeeps, FailuresKeep
<1>3. CASE EraseKey \/ Pull \/ EraseIf \/ ClearTable
  BY <1>3, EraseKeyKeeps, EraseIfKeeps, ClearTableKeeps
<1>4. CASE RehashSame \/ RehashStarts \/ TransferElement \/ TransferThrows \/ FinishRehash
  BY <1>4, RehashSameKeeps, RehashStartsKeeps, TransferElementKeeps, TransferThrowsKeeps,
     FinishRehashKeeps
<1>5. CASE MergeStarts \/ MergeSkips \/ MergeInPlace \/ MergeThrows \/ MergeEnds
  BY <1>5, MergeStartsKeeps, MergeSkipsKeeps, MergeInPlaceKeeps, MergeThrowsKeeps, MergeEndsKeeps
<1>6. CASE Construct \/ Destroy \/ CopyConstruct \/ MoveConstruct
  BY <1>6, ConstructKeeps, DestroyKeeps, CopyConstructKeeps, MoveConstructKeeps
<1>7. CASE CopyElement \/ CopyThrows \/ FinishCopy \/ MoveElement \/ MoveThrows \/ FinishMove
  BY <1>7, CopyElementKeeps, CopyThrowsKeeps, FinishCopyKeeps, MoveElementKeeps, MoveThrowsKeeps,
     FinishMoveKeeps
<1>8. CASE SelfAssign \/ CopyAssign \/ AssignArrays \/ AssignReserve \/ MoveAssign \/ Swap \/ Convert
  BY <1>8, SelfAssignKeeps, CopyAssignKeeps, AssignArraysKeeps, AssignReserveKeeps, MoveAssignKeeps,
     SwapKeeps, ConvertKeeps
<1>9. CASE Refill \/ FillReserve \/ FillThrows \/ FillEnds
  BY <1>9, RefillKeeps, FillReserveKeeps, FillThrowsKeeps, FillEndsKeeps
<1>10. CASE \E k \in use.keys : FillItem(k) \/ FillRepeated(k)
  BY <1>10, FillItemKeeps, FillRepeatedKeeps
<1> QED BY <1>1, <1>2, <1>3, <1>4, <1>5, <1>6, <1>7, <1>8, <1>9, <1>10 DEF Step

LEMMA NextKeeps ==
  ASSUME IInv, NoStrandedSources, [Next]_vars
  PROVE  IInv'
<1>1. CASE Next
  BY <1>1, StepKeeps DEF Next
<1>2. CASE UNCHANGED vars
  BY <1>2, StutteringKeeps
<1> QED BY <1>1, <1>2

\* After any calls, exceptions and interrupted transfers, the tables are what the
\* invariant says of them.  The hypothesis leaves out what the run of
\* SourceSearchable shows: a reservation of a move assignment that fails.
THEOREM Invariance ==
  ASSUME NoStrandedSources
  PROVE  Spec => []IInv
<1>1. Init => IInv
  BY InitHolds
<1>2. IInv /\ [Next]_vars => IInv'
  BY NextKeeps
<1> QED BY <1>1, <1>2, PTL DEF Spec

\* Between calls every table is sound with its own hash function.
LEMMA AtRestSound ==
  ASSUME IInv, AtRest, NEW x \in Built
  PROVE  x \in Tables /\ IsTable(tab[x]) /\ Sound(tab[x], tab[x].h)
         /\ Contents(x) = Elements(tab[x].arrays)
<1>1. Unfinished = {} /\ x \in Tables
  BY DEF Unfinished, AtRest, Built
<1>2. IsTable(tab[x]) /\ Sound(tab[x], tab[x].h)
  BY <1>1 DEF IInv, TypeOK, TablesOK
<1> QED BY <1>1, <1>2 DEF Contents

LEMMA SoundSearchable ==
  ASSUME NEW t, Sound(t, t.h)
  PROVE  Searchable(t)
<1> SUFFICES ASSUME NEW p \in MatchReallyOccupied(t.arrays), NEW k, k = ElementAt(t.arrays, p)
             PROVE  k # NoKey /\ Found(t.arrays, HashOf(t, k), k) = {p}
  BY DEF Searchable
<1>1. PICK a, h : h \in Hashers /\ a = t.arrays /\ h = t.h /\ IsArrays(a, Keys) /\ WellPlaced(a, h, {})
  BY TableFields DEF Sound, Hollow
<1>2. k # NoKey /\ k \in Keys
  BY <1>1, ElementThere
<1>3. Found(a, Hash[h][k], k) = {q \in MatchReallyOccupied(a) : ElementAt(a, q) = k}
  BY <1>1, <1>2, FoundPlaces
<1>4. Found(a, Hash[h][k], k) = {p}
  BY <1>1, <1>2, <1>3, FoundPlaces
<1> QED BY <1>1, <1>2, <1>4 DEF HashOf

\* Each element is in one slot only, where a search with the table's own hash
\* function finds it.
THEOREM AlwaysSearchable ==
  ASSUME NoStrandedSources
  PROVE  Spec => []ElementsSearchable
<1>1. IInv => ElementsSearchable
  BY AtRestSound, SoundSearchable DEF ElementsSearchable
<1> QED BY <1>1, Invariance, PTL

\* The size is the number of elements, within a maximum load the slots can take.
THEOREM SizeAlwaysExact ==
  ASSUME NoStrandedSources
  PROVE  Spec => []SizeIsExact
<1>1. ASSUME IInv, AtRest, NEW x \in Built
      PROVE  /\ tab[x].size = Cardinality(MatchReallyOccupied(tab[x].arrays))
             /\ tab[x].size <= tab[x].ml /\ tab[x].ml <= Capacity(tab[x].arrays)
  <2>1. PICK t, h : t = tab[x] /\ h = tab[x].h
    OBVIOUS
  <2>2. Sound(t, h)
    BY <1>1, <2>1, AtRestSound
  <2> QED BY <2>1, <2>2, SizeIsNumber
<1>2. IInv => SizeIsExact
  BY <1>1 DEF SizeIsExact
<1> QED BY <1>2, Invariance, PTL

\* There is room for every item of an archive or list, so that the items stay in
\* the slots they were put in.
THEOREM LoadingAlwaysStable ==
  ASSUME NoStrandedSources
  PROVE  Spec => []LoadingIsStable
<1>1. ASSUME IInv, Filling
      PROVE  HasRoom(X)
  <2>1. /\ act.cursor < act.n /\ act.cursor \in Nat /\ act.n \in Nat /\ IsTable(X)
        /\ X.size <= act.cursor /\ act.n <= X.ml
    BY <1>1, WhileFilling DEF Filling
  <2>2. X.size \in Nat /\ X.ml \in Nat
    BY <2>1, TableFields
  <2> QED BY <2>1, <2>2 DEF HasRoom
<1>2. IInv => LoadingIsStable
  BY <1>1 DEF LoadingIsStable
<1> QED BY <1>2, Invariance, PTL

\* An operation that returns has done what it says, to both of its tables and to
\* no other.
THEOREM CallsAlwaysDeliver ==
  ASSUME NoStrandedSources
  PROVE  Spec => []CallsDeliver
<1>1. IInv => CallsDeliver
  BY DEF IInv
<1> QED BY <1>1, Invariance, PTL

\* An insertion or a rehash that throws has no effect where elements are copied.
THEOREM StrongGuaranteeHolds ==
  ASSUME NoStrandedSources
  PROVE  Spec => []StrongGuarantee
<1>1. IInv => StrongGuarantee
  BY DEF IInv
<1> QED BY <1>1, Invariance, PTL

LEMMA EqualSameContents ==
  ASSUME NEW t, Sound(t, t.h), NEW u, Sound(u, u.h)
  PROVE  Equal(t, u) <=> Elements(t.arrays) = Elements(u.arrays)
<1>1. PICK A, B, h, i : A = Elements(t.arrays) /\ B = Elements(u.arrays) /\ h = t.h /\ i = u.h
  OBVIOUS
<1>2. t.size = Cardinality(A) /\ u.size = Cardinality(B) /\ IsFiniteSet(A) /\ IsFiniteSet(B)
  <2>1. Sound(t, h) /\ Sound(u, i)
    BY <1>1
  <2> QED BY <1>1, <2>1, SizeIsNumber
<1>3. A \subseteq Keys
  <2>1. PICK a : a = t.arrays /\ IsArrays(a, Keys) /\ WellPlaced(a, h, {})
    BY <1>1, TableFields DEF Sound, Hollow
  <2> QED BY <1>1, <2>1, ElementsPerPlace
<1>4. (\A p \in MatchReallyOccupied(t.arrays) : IsIn(u, ElementAt(t.arrays, p))) <=> A \subseteq B
  <2>1. A = ElementsIn(t.arrays, MatchReallyOccupied(t.arrays))
    <3>1. PICK a : a = t.arrays /\ IsArrays(a, Keys) /\ WellPlaced(a, h, {})
      BY <1>1, TableFields DEF Sound, Hollow
    <3>2. \A p \in MatchReallyOccupied(a) : ElementAt(a, p) \in Elements(a)
      BY <3>1, ElementThere
    <3>3. \A k \in Elements(a) : \E p \in MatchReallyOccupied(a) : k = ElementAt(a, p)
      BY <3>1, ElementsHavePlaces
    <3> QED BY <1>1, <3>1, <3>2, <3>3 DEF ElementsIn
  <2>2. \A k \in Keys : IsIn(u, k) <=> k \in B
    BY <1>1, SearchResult
  <2> QED BY <1>3, <2>1, <2>2 DEF ElementsIn
<1>5. A \subseteq B /\ Cardinality(A) = Cardinality(B) => A = B
  BY <1>2, FS_Subset
<1> QED BY <1>1, <1>2, <1>4, <1>5 DEF Equal

\* operator== is equality of contents.
THEOREM EqualityAlwaysOfContents ==
  ASSUME NoStrandedSources
  PROVE  Spec => []EqualityIsOfContents
<1>1. ASSUME IInv, AtRest, NEW x \in Built, NEW y \in Built
      PROVE  Equal(tab[x], tab[y]) <=> Contents(x) = Contents(y)
  <2>1. /\ Sound(tab[x], tab[x].h) /\ Contents(x) = Elements(tab[x].arrays)
        /\ Sound(tab[y], tab[y].h) /\ Contents(y) = Elements(tab[y].arrays)
    BY <1>1, AtRestSound
  <2> QED BY <2>1, EqualSameContents
<1>2. IInv => EqualityIsOfContents
  BY <1>1 DEF EqualityIsOfContents
<1> QED BY <1>2, Invariance, PTL
==============================================================================
