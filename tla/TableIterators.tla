--------------------------- MODULE TableIterators ---------------------------
(***************************************************************************)
(* table_iterator: the traversal of arrays whose first group is the one of *)
(* GroupLayouts, by the increment for each of the two layouts of a group.  *)
(*                                                                         *)
(* An iterator is a pair of pointers: pc, to a byte of the metadata (whose *)
(* groups are N + 1 bytes long in the regular layout, and as many in the   *)
(* interleaved one), and p, to an element (N per group).                   *)
(***************************************************************************)
EXTENDS GroupLayouts

SizeOfGroup == N + 1
End == [pc |-> 0, p |-> "null"]
First(x) == CHOOSE p \in x : \A q \in x : p <= q

\* A group in both layouts.
Words(b) == [w \in {0, 1} |-> UNION {Left(mask(Half(b[p], w)), p) : p \in Slots}]
Group(b) == [bytes |-> b, words |-> Words(b)]
Holding(places, byte, last) ==
  Group([p \in Slots |-> IF last /\ p = N - 1 THEN SentinelByte
                         ELSE IF p \in places THEN byte ELSE Available])

OccupiedBytes(gs, g) == {q \in Slots : gs[g].bytes[q] # Available}
OccupiedWords(gs, g) == Occupied(gs[g].words)

-----------------------------------------------------------------------------
(* Regular layout: byte by byte to the end of the group, then group by group *)

increment_regular(gs, it) ==
  LET g     == it.pc \div SizeOfGroup
      n     == it.pc % SizeOfGroup
      later == {q \in OccupiedBytes(gs, g) : q > n}
      h     == First({i \in DOMAIN gs : i > g /\ OccupiedBytes(gs, i) # {}})
      q     == First(IF later # {} THEN later ELSE OccupiedBytes(gs, h))
  IN  IF gs[IF later # {} THEN g ELSE h].bytes[q] = SentinelByte THEN End
      ELSE IF later # {} THEN [pc |-> it.pc + (q - n), p |-> it.p + (q - n)]
      ELSE [pc |-> it.pc + (SizeOfGroup - n) + (h - g - 1) * SizeOfGroup + q,
            p  |-> it.p + (N - n) + (h - g - 1) * N + q]

-----------------------------------------------------------------------------
(* Interleaved layout: the mask of the group with the slots passed shifted out *)

\* Mutant: the element pointer is not taken back to the start of its group.
increment_from_slot(gs, it) ==
  LET g  == it.pc \div SizeOfGroup
      n0 == it.pc % SizeOfGroup
      later == {q \in OccupiedWords(gs, g) : q > n0}
      h == IF later # {} THEN g
           ELSE First({i \in DOMAIN gs : i > g /\ OccupiedWords(gs, i) # {}})
      n == First(IF later # {} THEN later ELSE OccupiedWords(gs, h))
  IN  IF SentinelAt(gs[h].words, n) THEN End
      ELSE [pc |-> it.pc - n0 + (h - g) * SizeOfGroup + n, p |-> it.p + (h - g) * N + n]

increment_interleaved(gs, it) ==
  LET g  == it.pc \div SizeOfGroup
      n0 == it.pc % SizeOfGroup
      later == {q \in OccupiedWords(gs, g) : q > n0}
      h == IF later # {} THEN g
           ELSE First({i \in DOMAIN gs : i > g /\ OccupiedWords(gs, i) # {}})
      n == First(IF later # {} THEN later ELSE OccupiedWords(gs, h))
  IN  IF SentinelAt(gs[h].words, n) THEN End
      ELSE [pc |-> it.pc - n0 + (h - g) * SizeOfGroup + n,
            p  |-> it.p - n0 + (h - g) * N + n]

\* The iterator to slot n of group g, as find and emplace make it.
make_iterator(g, n) == [pc |-> g * SizeOfGroup + n, p |-> g * N + n]

increment(gs, it, regular) ==
  IF regular THEN increment_regular(gs, it) ELSE increment_interleaved(gs, it)

begin(gs, regular) ==
  IF 0 \in (IF regular THEN OccupiedBytes(gs, 0) ELSE OccupiedWords(gs, 0))
  THEN make_iterator(0, 0) ELSE increment(gs, make_iterator(0, 0), regular)

\* erase returns the position, which is advanced when it is asked for, the slot
\* being available by then.
Erased(gs, g, n) == [gs EXCEPT ![g] = Group([@.bytes EXCEPT ![n] = Available])]
erase_return_type(gs, g, n, regular) ==
  increment(Erased(gs, g, n), make_iterator(g, n), regular)

-----------------------------------------------------------------------------
(* Properties *)

\* The arrays whose first group is the one in the state: it is the last one, or
\* the last one follows, at once or after an empty group.
Followed(this, last) ==
  {[g \in 0 .. 1 |-> IF g = 0 THEN this ELSE last],
   [g \in 0 .. 2 |-> IF g = 0 THEN this ELSE IF g = 1 THEN Holding({}, 0, FALSE) ELSE last]}
Endings(hash) == {Holding(places, reduced_hash(hash), TRUE) : places \in SUBSET (0 .. N - 2)}
Arrays ==
  LET this == [bytes |-> bytes, words |-> m] IN
  IF sentinel THEN {[g \in {0} |-> this]}
  ELSE UNION {Followed(this, last) : last \in UNION {Endings(hash) : hash \in Hashes}}

Elements(gs) == {x \in (DOMAIN gs) \X Slots :
                   gs[x[1]].bytes[x[2]] \notin {Available, SentinelByte}}
After(x, y) == x[1] > y[1] \/ (x[1] = y[1] /\ x[2] > y[2])
NextElement(places) ==
  IF places = {} THEN End
  ELSE LET x == CHOOSE y \in places : \A z \in places : z = y \/ After(z, y)
       IN  make_iterator(x[1], x[2])

Traverses(gs, regular) ==
  /\ begin(gs, regular) = NextElement(Elements(gs))
  /\ \A x \in Elements(gs) :
       LET next == NextElement({y \in Elements(gs) : After(y, x)}) IN
       /\ increment(gs, make_iterator(x[1], x[2]), regular) = next
       /\ erase_return_type(gs, x[1], x[2], regular) = next

\* In both layouts begin is the first element, the increment of an element is
\* the next one in the order of slots, and end after the last: so is that of an
\* element just erased, which its metadata no longer shows ("valid even if *it
\* was erased"), and pc and p never disagree about where they are.
IteratorsTraverse ==
  writing = Idle /\ reader.at = "idle" =>
    \A gs \in Arrays, regular \in BOOLEAN : Traverses(gs, regular)
=============================================================================
