-------------------------- MODULE MCConcurrentTable --------------------------
(* Instances of ConcurrentTable for TLC. *)
EXTENDS ConcurrentTableInvariant, TLC

CONSTANTS a, b, c, t1, t2, t3

\* The sizes of arrays within reach.
PowersOfTwo == {2 ^ i : i \in 1 .. 10}

\* All keys have the same hash and start in the first group, so that all but the
\* first overflow into others.
SameFirst == [k \in Keys |-> [top |-> 0, tag |-> 2]]

\* What the threads do.
AllClients(ops) == [t \in Threads |-> ops]
EveryOp     == AllClients({"insert", "assign", "erase", "visit", "reserve"})
OneInserter ==
  [t \in Threads |-> IF t = t1 THEN {"insert", "erase"}
                     ELSE {"visit_while", "erase_if", "bulk", "clear"}]

\* Threads are alike, and so are keys with the same hash.
Symmetry == {p @@ q : p \in Permutations(Threads), q \in Permutations(Keys)}
=============================================================================
