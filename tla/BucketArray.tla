----------------------------- MODULE BucketArray -----------------------------
(***************************************************************************)
(* fca.hpp: the array of buckets of the closed-addressing containers.      *)
(* Each bucket heads a chain of nodes.  The buckets are grouped by N; a    *)
(* group has a bitmask of its buckets that have nodes, and the groups with *)
(* some are linked in a circle, so that iteration passes over the empty    *)
(* ones.  One bucket more than asked for, always marked and never filled,  *)
(* ends the iteration.                                                     *)
(*                                                                         *)
(* A chain is the sequence of its nodes, a node the element it holds.      *)
(***************************************************************************)
EXTENDS PrimeFmod, FiniteSets, Sequences

CONSTANTS
  N,       \* bucket_group::N, the bits of a size_t
  Sizes    \* the numbers of buckets that arrays have, in order

ASSUME BucketArrayAssumption ==
  /\ N \in Nat \ {0}
  /\ \A i \in 1..Len(Sizes) : Sizes[i] \in Nat \ {0} /\ Sizes[i] % N # 0
  /\ \A i \in 2..Len(Sizes) : Sizes[i-1] < Sizes[i]

Null == -1

bucket_count_for(n) ==
  IF n = 0 THEN 0
  ELSE LET enough == {i \in 1..Len(Sizes) : n <= Sizes[i]}
       IN  IF enough = {} THEN Sizes[Len(Sizes)]
           ELSE Sizes[CHOOSE i \in enough : \A j \in enough : i <= j]

buckets_len(a) == a.size + 1
groups_len(a)  == a.size \div N + 1
Groups(a)      == IF a.size = 0 THEN {} ELSE 0..groups_len(a) - 1
LastGroup(a)   == groups_len(a) - 1
EndBucket(a)   == buckets_len(a) - 1

\* An array without memory of its own: by default, or moved from.
NoArray == [size |-> 0, chain |-> [b \in {} |-> <<>>], group |-> [g \in {} |-> Null]]

\* The empty arrays.  The last group is linked, with the mark of the end.
EmptyArray ==
  [size \in {Sizes[i] : i \in 1..Len(Sizes)} |->
     [size  |-> size,
      chain |-> [b \in 0..size |-> <<>>],
      group |-> [g \in 0..(size \div N) |->
        IF g = size \div N
        THEN [buckets |-> N * (size \div N), bitmask |-> {size % N}, next |-> g, prev |-> g]
        ELSE [buckets |-> Null, bitmask |-> {}, next |-> Null, prev |-> Null]]]]
NewArray(n) == IF n = 0 THEN NoArray ELSE EmptyArray[bucket_count_for(n)]

-----------------------------------------------------------------------------
(* Iterators over the buckets: a bucket and its group *)

end(a) == [p |-> EndBucket(a), pbg |-> Null]
at(a, n) == IF a.size > 0 THEN [p |-> n, pbg |-> n \div N] ELSE end(a)

\* The lowest of some bits, N if there is none.
countr_zero(bits) == IF bits = {} THEN N ELSE CHOOSE b \in bits : \A c \in bits : b <= c

increment(a, it) ==
  LET g == a.group[it.pbg]
      n == countr_zero({b \in g.bitmask : b >= it.p - g.buckets + 1})
      h == a.group[g.next]
  IN  IF n < N THEN [it EXCEPT !.p = g.buckets + n]
      ELSE [p |-> h.buckets + countr_zero(h.bitmask), pbg |-> g.next]

begin(a) == IF a.size = 0 THEN end(a) ELSE increment(a, at(a, a.size))

\* The buckets that are met from begin to end, and the nodes in their chains.
Visited(a) ==
  LET it[i \in 0..a.size] == IF i = 0 THEN begin(a) ELSE increment(a, it[i-1])
      walk[i \in 0..a.size] ==
        IF it[i].p = EndBucket(a) \/ i = a.size THEN <<>> ELSE <<it[i].p>> \o walk[i+1]
  IN  walk[0]
Joined(a, order) ==
  LET join[i \in 0..Len(order)] == IF i = 0 THEN <<>> ELSE join[i-1] \o a.chain[order[i]]
  IN  join[Len(order)]
Iteration(a) == Joined(a, Visited(a))

\* All the nodes, by bucket: the order of raw().
Nodes(a) == Joined(a, [i \in 1..a.size |-> i - 1])

-----------------------------------------------------------------------------
(* Insertion and extraction of nodes *)

\* Mutant: a bucket is marked only with the first of its group.
append_bucket_group_first(a, it) ==
  LET g == it.pbg
      last == LastGroup(a)
      after == a.group[last].next
  IN  IF a.chain[it.p] # <<>> \/ a.group[g].bitmask # {} THEN a
      ELSE [a EXCEPT !.group[g].buckets = N * (it.p \div N), !.group[g].bitmask = {it.p % N},
                     !.group[g].next = after, !.group[after].prev = g,
                     !.group[g].prev = last, !.group[last].next = g]
append_bucket_group(a, it) ==
  LET g == it.pbg
      last == LastGroup(a)
      after == a.group[last].next
      linked ==
        IF a.group[g].bitmask # {} THEN a.group
        ELSE [a.group EXCEPT ![g].buckets = N * (it.p \div N),
                             ![g].next = after, ![after].prev = g,
                             ![g].prev = last, ![last].next = g]
  IN  IF a.chain[it.p] # <<>> THEN a
      ELSE [a EXCEPT !.group = [linked EXCEPT ![g].bitmask = @ \cup {it.p % N}]]

insert_node(a, it, e) ==
  [append_bucket_group(a, it) EXCEPT !.chain[it.p] = <<e>> \o @]

\* Mutant: the hint is not used.
insert_node_in_front(a, it, e, hint) == insert_node(a, it, e)
\* After the hint, a place of the chain, or in front if it is none.
insert_node_hint(a, it, e, hint) ==
  LET c == a.chain[it.p]
  IN  IF hint = 0 THEN insert_node(a, it, e)
      ELSE [append_bucket_group(a, it) EXCEPT !.chain[it.p] =
              SubSeq(c, 1, hint) \o <<e>> \o SubSeq(c, hint + 1, Len(c))]

WithoutNode(a, b, i) ==
  [a EXCEPT !.chain[b] = SubSeq(@, 1, i - 1) \o SubSeq(@, i + 1, Len(@))]

unlink_group(a, g) ==
  LET next == a.group[g].next
      prev == a.group[g].prev
  IN  [a EXCEPT !.group[next].prev = prev, !.group[prev].next = next,
                !.group[g].next = Null, !.group[g].prev = Null]

\* Mutant: a group without marks stays on the circle.
unlink_bucket_only(a, it) ==
  [a EXCEPT !.group[it.pbg].bitmask = @ \ {it.p - a.group[it.pbg].buckets}]
unlink_bucket(a, it) ==
  LET left == a.group[it.pbg].bitmask \ {it.p - a.group[it.pbg].buckets}
      b == [a EXCEPT !.group[it.pbg].bitmask = left]
  IN  IF left = {} THEN unlink_group(b, it.pbg) ELSE b

\* Takes the i-th node of the chain out.
extract_node(a, it, i) ==
  LET b == WithoutNode(a, it.p, i)
  IN  IF b.chain[it.p] = <<>> THEN unlink_bucket(b, it) ELSE b

\* After nodes were taken out of chains with no care for the bitmasks.
unlink_empty_buckets(a) ==
  LET last == LastGroup(a)
      Full(g, n) == a.chain[N * g + n] # <<>>
      Kept(g) == {n \in a.group[g].bitmask : Full(g, n)}
      upto[g \in Groups(a)] ==
        LET b == IF g = 0 THEN a ELSE upto[g-1]
            c == [b EXCEPT !.group[g].bitmask = Kept(g)]
        IN  IF g = last
            THEN [b EXCEPT !.group[g].bitmask = {n \in @ : n < a.size % N => Full(g, n)}]
            ELSE IF a.group[g].buckets = Null THEN b
            ELSE IF Kept(g) = {} /\ b.group[g].next # Null THEN unlink_group(c, g)
            ELSE c
  IN  upto[last]

-----------------------------------------------------------------------------
(* What the array promises its container *)

\* The groups on the circle that starts and ends at the last one.
Circle(a) ==
  LET from[i \in 0..groups_len(a)] ==
        IF i = 0 THEN {LastGroup(a)} ELSE from[i-1] \cup {a.group[g].next : g \in from[i-1]}
  IN  from[groups_len(a)]

Linked(a) ==
  a.size > 0 =>
    /\ \A g \in Groups(a) :
         /\ a.group[g].bitmask =
              {b % N : b \in {c \in 0..a.size : c \div N = g /\ (a.chain[c] # <<>> \/ c = a.size)}}
         /\ a.group[g].bitmask # {} => a.group[g].buckets = N * g
    /\ Circle(a) = {g \in Groups(a) : a.group[g].bitmask # {}}
    /\ \A g \in Circle(a) : a.group[a.group[g].next].prev = g
=============================================================================
