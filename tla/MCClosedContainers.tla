-------------------------- MODULE MCClosedContainers --------------------------
EXTENDS ClosedContainers

CONSTANTS a1, a2, b1, t1, t2, h1, h2, m1, m2

\* Two elements with equivalent keys and one with another key, which the
\* first hash function sends to the same bucket of 3 and to another of more.
KeyOfElement == [e \in {a1, a2, b1} |-> IF e = b1 THEN 2 ELSE 1]
HashOfKey == [h \in {h1, h2} |-> IF h = h1 THEN <<17, 27>> ELSE <<44, 13>>]
BucketCounts == <<3, 5, 7, 11>>

Anything == {"alloc", "element", "hash", "functions"}

\* One table and its node handle: everything but the calls with two tables.
Single ==
  {[unique |-> u, propagate |-> {}, throws |-> Anything, allocators |-> {m1}, tables |-> {t1},
    hashers |-> {h1}, factors |-> {<<1, 1>>, <<1, 2>>, <<1, 0>>}, counts |-> {5}, nodes |-> 4,
    calls |-> {"construct", "construct_range", "assign_list", "destroy", "emplace", "emplace_hint", "insert_or_assign",
               "insert_range", "erase_key", "erase", "erase_if", "clear", "extract", "insert_node",
               "drop_node", "rehash", "reserve", "max_load_factor"}] : u \in BOOLEAN}

Two(u, p, throws, al, hs) ==
  [unique |-> u, propagate |-> p, throws |-> throws, allocators |-> al, tables |-> {t1, t2},
   hashers |-> hs, factors |-> {<<2, 1>>}, counts |-> {}, nodes |-> 3,
   calls |-> {"construct", "emplace", "copy_construct", "move_construct", "copy_assign",
              "move_assign", "swap", "merge", "destroy", "max_load_factor"}]

\* Allocators that stay; that propagate, with one hash function and several
\* factors, and with two and one.
Several ==
  UNION {{Two(u, {}, Anything, {m1, m2}, {h1}),
          Two(u, {"move", "swap"}, {"alloc"}, {m1, m2}, {h1}),
          [Two(u, {"move", "swap"}, {"alloc"}, {m1, m2}, {h1, h2}) EXCEPT !.factors = {}]} :
         u \in BOOLEAN}

\* The last call is read by no action: states that differ in it are one.
View == <<tab, handle, live, use>>

ClosedUses == Single \cup Several
StaleUses == {Two(TRUE, {"copy"}, {}, {m1, m2}, {h1})}
=============================================================================
