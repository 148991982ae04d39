---------------------------- MODULE MCTableCore ----------------------------
EXTENDS TableCoreInvariant, TLC

CONSTANTS k1, k2, k3, k4, h1, h2

\* The sizes of arrays within reach.
PowersOfTwo == {2 ^ i : i \in 1 .. 10}

\* Nothing tells tables, or allocators, apart.
Symmetry == Permutations(Tables) \cup Permutations(Allocators)

\* One hash function sends k2 to one end of the array and the others to the
\* other end, h2 the other way round; the reduced hashes of k1 and k3 share an
\* overflow bit.
TwoHashes ==
  [h \in Hashers |-> [k \in Keys |->
     [top |-> IF (h = h1) <=> (k = k2) THEN 1 ELSE 0,
      tag |-> CASE k = k1 -> 2 [] k = k2 -> 3 [] k = k3 -> 10 [] k = k4 -> 11]]]

Anything == {"alloc", "element", "hash"}

\* One table, all the calls on it, with elements that are copied or moved.
OneTable ==
  {[propagate |-> {}, moves |-> m, throws |-> Anything, allocators |-> {al}, hashers |-> Hashers,
    tables |-> {x}, keys |-> Keys, kinds |-> {"plain"}, sizes |-> {4},
    calls |-> {"construct", "emplace", "erase", "pull", "erase_if", "clear", "rehash", "destroy"}] :
   m \in BOOLEAN, al \in Allocators, x \in Tables}

\* Tables constructed from one another, assigned, swapped and compared.
Assignments ==
  {"construct", "emplace", "destroy", "copy_construct", "move_construct",
   "copy_assign", "move_assign", "swap"}
TwoTables(p, m, throws, als, kinds, calls) ==
  [propagate |-> p, moves |-> m, throws |-> throws, allocators |-> als, kinds |-> kinds,
   hashers |-> Hashers, tables |-> Tables, keys |-> {k1, k2, k3}, sizes |-> {}, calls |-> calls]
Propagating ==
  TwoTables({"copy", "move", "swap"}, FALSE, Anything, Allocators, {"plain"}, Assignments)
Staying(throws) == TwoTables({}, TRUE, throws, Allocators, {"concurrent"}, Assignments)
\* Two keys under two hash functions, and three under one.
Restricted(uses) ==
  {[u EXCEPT !.keys = {k1, k2}] : u \in uses} \cup {[u EXCEPT !.hashers = {h1}] : u \in uses}

Merges ==
  Restricted({TwoTables({}, TRUE, Anything, {al}, {"concurrent"},
                        {"construct", "emplace", "merge"}) : al \in Allocators})

\* Tables of the two kinds, converted to one another, and loaded from archives.
Conversions ==
  Restricted({[TwoTables({}, TRUE, {"alloc", "element"}, {al}, {"plain", "concurrent"},
                         {"construct", "erase", "convert", "load", "assign_list"})
               EXCEPT !.sizes = {3}] : al \in Allocators})

CoreUses == OneTable \cup {Propagating, Staying({"element", "hash"})} \cup Merges \cup Conversions
Unlimited == {Staying(Anything)}
=============================================================================
