----------------------------- MODULE TableArrays -----------------------------
(***************************************************************************)
(* foa::table_arrays and what table_core does to a pair of arrays: groups  *)
(* of slots with their metadata and overflow bits, and the elements of the *)
(* slots.  Shared by the sequential and the concurrent table.              *)
(*                                                                         *)
(* A hash is a record: top stands for its high bits, which choose the      *)
(* group, tag is the reduced hash kept in the metadata.                    *)
(***************************************************************************)
EXTENDS Naturals, FiniteSets, FiniteSetsExt

CONSTANTS
  N,            \* slots per group: 15 in the code
  GroupCounts,  \* the numbers of groups of arrays: powers of two, at least 2
  TopRange,     \* the number of values of a hash's high bits
  NoKey         \* no element in the slot

ASSUME SlotsAssumption == N \in Nat \ {0} /\ TopRange \in Nat \ {0}

ASSUME GroupCountsAssumption == 2 \in GroupCounts /\ GroupCounts \subseteq Nat \ {0, 1}

\* Arrays have sizes that the prober, which adds 1, 2, 3... to the position, has
\* "traversed" when it ends: it has been at every group.
ASSUME ProberAssumption ==
  \A groups \in GroupCounts :
    {((i * (i + 1)) \div 2) % groups : i \in 0 .. groups - 1} = 0 .. groups - 1

Available == 0
Sentinel  == 1

Slots  == 0 .. N - 1
Bytes  == 0 .. 255
Hashes == [top : 0 .. TopRange - 1, tag : 2 .. 255]
Groups(a) == 0 .. a.groups - 1
Places(a) == Groups(a) \X Slots

-----------------------------------------------------------------------------
(* Sizes *)

NewArrays(groups) ==
  [built    |-> TRUE,
   groups   |-> groups,
   meta     |-> [g \in 0 .. groups - 1 |-> [n \in Slots |->
                   IF g = groups - 1 /\ n = N - 1 THEN Sentinel ELSE Available]],
   elem     |-> [g \in 0 .. groups - 1 |-> [n \in Slots |-> NoKey]],
   overflow |-> [g \in 0 .. groups - 1 |-> {}]]

\* The static arrays of all empty tables: as many groups as the smallest arrays,
\* each with a sentinel, and no elements.
DummyArrays ==
  [NewArrays(2) EXCEPT !.built = FALSE,
     !.meta = [g \in {0, 1} |-> [n \in Slots |-> IF n = N - 1 THEN Sentinel ELSE Available]]]

Capacity(a) == IF a.built THEN a.groups * N - 1 ELSE 0

\* 100% of up to two groups, 87.5% of more.
InitialMaxLoad(a) ==
  IF Capacity(a) <= 2 * N - 1 THEN Capacity(a) ELSE (7 * Capacity(a)) \div 8

\* A power of two, at least 2, with room for n elements and the sentinel.
GroupsFor(n)   == Min({g \in GroupCounts : g >= n \div N + 1})
ArraysFor(n)   == IF n = 0 THEN DummyArrays ELSE NewArrays(GroupsFor(n))
CapacityFor(n) == GroupsFor(n) * N - 1

\* The slots for n elements at the maximum load factor of 7/8, rounded up.
SlotsFor(n) == (8 * n + 6) \div 7

\* Room for one more element, and for one more per 61.
GrowthArrays(size) == ArraysFor(SlotsFor(size + size \div 61 + 1))

-----------------------------------------------------------------------------
(* Groups *)

Position(a, hash) == (hash.top * a.groups) \div TopRange

\* The group pow2_quadratic_prober is at after i steps from g.
Probe(a, g, i) == (g + (i * (i + 1)) \div 2) % a.groups

OverflowBit(tag) == tag % 8
NotOverflowed(a, g, tag) == OverflowBit(tag) \notin a.overflow[g]
MaybeCausedOverflow(a, g, n) == ~NotOverflowed(a, g, a.meta[g][n])
MatchAvailable(a, g) == {n \in Slots : a.meta[g][n] = Available}
MatchReallyOccupied(a) == {p \in Places(a) : a.meta[p[1]][p[2]] \notin {Available, Sentinel}}
Lowest(S) == CHOOSE n \in S : \A m \in S : n <= m

SetMeta(a, g, n, byte) == [a EXCEPT !.meta[g][n] = byte]
SetElem(a, g, n, k)    == [a EXCEPT !.elem[g][n] = k]
MarkOverflow(a, g, tag) == [a EXCEPT !.overflow[g] = @ \cup {OverflowBit(tag)}]

\* Arrays of g groups whose elements are among keys.
ArraysOf(g, keys) ==
  [built    : BOOLEAN,
   groups   : {g},
   meta     : [0 .. g - 1 -> [Slots -> Bytes]],
   elem     : [0 .. g - 1 -> [Slots -> keys \cup {NoKey}]],
   overflow : [0 .. g - 1 -> SUBSET (0 .. 7)]]
IsArrays(a, keys) == a.groups \in GroupCounts /\ a \in ArraysOf(a.groups, keys)

\* The sentinel stands in the last slot; the static arrays never change.
SentinelInPlace(a) ==
  IF a.built THEN \A g \in Groups(a), n \in Slots :
                    a.meta[g][n] = Sentinel <=> g = a.groups - 1 /\ n = N - 1
  ELSE a = DummyArrays

\* The constructed elements.
Elements(a) == {a.elem[p[1]][p[2]] : p \in Places(a)} \ {NoKey}

\* The first i groups that a search or an insertion looks at.
Tries(a, hash, i) == {Probe(a, Position(a, hash), j) : j \in 0 .. i - 1}

-----------------------------------------------------------------------------
(* Lookup and insertion *)

\* find: groups are searched until one that is not overflowed for the hash.
Passed(a, hash, i)  == \A g \in Tries(a, hash, i) : ~NotOverflowed(a, g, hash.tag)
Reached(a, hash, g) ==
  \E i \in Groups(a) : Probe(a, Position(a, hash), i) = g /\ Passed(a, hash, i)
Found(a, hash, k) ==
  {p \in Places(a) : /\ a.meta[p[1]][p[2]] = hash.tag /\ a.elem[p[1]][p[2]] = k
                     /\ Reached(a, hash, p[1])}

\* nosize_unchecked_emplace_at: the full groups passed are marked, the element
\* is constructed in the first available slot.
IsTarget(a, hash, i) ==
  /\ MatchAvailable(a, Probe(a, Position(a, hash), i)) # {}
  /\ \A g \in Tries(a, hash, i) : MatchAvailable(a, g) = {}
TargetStep(a, hash) == CHOOSE i \in Groups(a) : IsTarget(a, hash, i)

PassedMarked(a, hash) ==
  [a EXCEPT !.overflow = [g \in Groups(a) |->
     IF g \in Tries(a, hash, TargetStep(a, hash)) THEN @[g] \cup {OverflowBit(hash.tag)}
     ELSE @[g]]]

\* Mutant: the full groups passed are not marked.
EmplacedUnmarked(a, hash, k) ==
  LET g == Probe(a, Position(a, hash), TargetStep(a, hash))
      n == Lowest(MatchAvailable(a, g))
  IN  SetElem(SetMeta(a, g, n, hash.tag), g, n, k)

Emplaced(a, hash, k) ==
  LET g == Probe(a, Position(a, hash), TargetStep(a, hash))
      n == Lowest(MatchAvailable(a, g))
  IN  SetElem(SetMeta(PassedMarked(a, hash), g, n, hash.tag), g, n, k)

-----------------------------------------------------------------------------
(* Removal *)

\* Slots whose elements are destroyed, made available.
WithoutSlots(a, places) ==
  [a EXCEPT
     !.meta = [g \in Groups(a) |-> [n \in Slots |->
                 IF <<g, n>> \in places THEN Available ELSE @[g][n]]],
     !.elem = [g \in Groups(a) |-> [n \in Slots |->
                 IF <<g, n>> \in places THEN NoKey ELSE @[g][n]]]]

\* How much recover_slot lowers the maximum load for these slots.
Drift(a, places) == Cardinality({p \in places : MaybeCausedOverflow(a, p[1], p[2])})

\* The metadata is wiped, overflow bits too; static arrays are left alone.
ClearedArrays(a) == IF a.built THEN NewArrays(a.groups) ELSE a
=============================================================================
