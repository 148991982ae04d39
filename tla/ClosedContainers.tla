--------------------------- MODULE ClosedContainers ---------------------------
(***************************************************************************)
(* unordered_map, unordered_set, unordered_multimap and unordered_multiset *)
(* on top of ClosedTable: what they have in common, and all of it.         *)
(***************************************************************************)
EXTENDS UniqueContainers, EquivalentContainers

Construct(x) ==
  /\ x \in use.tables \ Built
  /\ \E n \in use.counts \cup {0}, h \in use.hashers, al \in use.allocators :
       On("construct", x, <<>>,
          Then(construct_functions(State), LAMBDA s : Constructed(s, x, n, <<1, 1>>, h, al)))
CopyConstruct(x, y) ==
  /\ x \in use.tables \ Built /\ y \in Built /\ Fits(tab[y].size)
  /\ \E al \in use.allocators : Onto("copy_construct", x, y, copy_construct(State, x, y, al))
MoveConstruct(x, y) ==
  /\ x \in use.tables \ Built /\ y \in Built
  /\ \/ Onto("move_construct", x, y, move_construct(State, x, y))
     \/ /\ Fits(tab[y].size)
        /\ \E al \in use.allocators :
             Onto("move_construct", x, y, move_construct_with(State, x, y, al))
Destroy(x) == x \in Built /\ On("destroy", x, <<>>, {Ok(Destroyed(State, x))})

Erase(x) ==
  /\ x \in Built
  /\ \E pos \in PlacesIn(x) :
       On("erase", x, <<NodeAt(tab[x].arr, pos)>>, {Ok(erase_node(State, x, pos))})
EraseRange(x) ==
  /\ x \in Built
  /\ LET places == Places(tab[x])
     IN  \E i \in 1..Len(places), n \in 0..Len(places) :
           /\ i + n <= Len(places) + 1
           /\ On("erase", x, [j \in 1..n |-> NodeAt(tab[x].arr, places[i + j - 1])],
                 erase_nodes_range(State, x, places[i], n))
EraseIf(x, e) ==
  x \in Built /\ On("erase_if", x, <<e>>, erase_if(State, x, {e}))
Clear(x) == x \in Built /\ On("clear", x, <<>>, {Ok(clear_impl(State, x))})

DropNode ==
  /\ handle # NoHandle
  /\ On("drop_node", NoTable, <<>>,
        {Ok([DeleteNodes(State, handle.al, 1) EXCEPT !.handle = NoHandle])})

Rehash(x) ==
  x \in Built /\ \E n \in use.counts : On("rehash", x, <<>>, rehash(State, x, n))
Reserve(x) ==
  x \in Built /\ \E n \in use.counts : On("reserve", x, <<>>, reserve(State, x, n))
MaxLoadFactor(x) ==
  /\ x \in Built
  /\ \E z \in use.factors : On("max_load_factor", x, <<>>, {Ok(WithFactor(State, x, z))})

CopyAssign(x, y) ==
  /\ Pair(x, y) /\ Fits(tab[y].size)
  /\ Onto("copy_assign", x, y, assign(State, x, y))
MoveAssign(x, y) ==
  /\ Pair(x, y) /\ Fits(tab[y].size)
  /\ Onto("move_assign", x, y, move_assign(State, x, y))
Swap(x, y) ==
  /\ Pair(x, y) /\ ("swap" \in use.propagate \/ tab[x].al = tab[y].al)
  /\ Onto("swap", x, y, swap(State, x, y))

Step ==
  \/ DropNode
  \/ \E x \in Tables :
       \/ Construct(x) \/ Destroy(x) \/ Erase(x) \/ EraseRange(x) \/ Clear(x)
       \/ Rehash(x) \/ Reserve(x) \/ MaxLoadFactor(x)
       \/ \E e \in Elements : EraseIf(x, e)
       \/ \E y \in Tables :
            CopyConstruct(x, y) \/ MoveConstruct(x, y)
            \/ CopyAssign(x, y) \/ MoveAssign(x, y) \/ Swap(x, y)

Next == Step \/ UniqueStep \/ EquivStep

Spec == Init /\ [][Next]_vars

-----------------------------------------------------------------------------
(* Lookup *)

count(t, k) == IF use.unique THEN count_unique(t, k) ELSE count_equiv(t, k)
equal_range(t, k) ==
  IF use.unique THEN equal_range_unique(t, k) ELSE equal_range_equiv(t, k)

\* The bucket interface: the bucket of a key, its size, what is in it.
bucket(t, k) == Position(t.h, k, t.arr)
bucket_size(t, n) == IF t.size > 0 THEN Len(t.arr.chain[n]) ELSE 0
local_range(t, n) == IF t.arr.size = 0 THEN <<>> ELSE t.arr.chain[n]

-----------------------------------------------------------------------------
(* Properties *)

\* The bitmasks mark the buckets that have nodes, and the circle of groups
\* goes, both ways, through those with a mark: what append_bucket_group, the
\* unlinking and unlink_empty_buckets maintain, also when a rehash throws.
BucketsLinked == \A x \in Built : Linked(tab[x].arr)

\* Iteration from begin() passes each node of the table once and then stops,
\* and size_ is the number of them.
IterationIsComplete ==
  \A x \in Built :
    LET t == tab[x]
        places == Places(t)
        nodes == {p \in (DOMAIN t.arr.chain) \X (1..use.nodes) : p[2] <= Len(t.arr.chain[p[1]])}
    IN  /\ t.size = Len(Nodes(t.arr))
        /\ {<<places[i].it.p, places[i].i>> : i \in 1..Len(places)} = nodes
        /\ places # <<>> => AtEnd(t.arr, Advanced(t.arr, Last(places)))

\* Every element is in the bucket that the table's own hash function gives, and
\* lookup answers for each key with all its elements, in the iteration and in
\* the bucket: equivalent ones stay next to each other in rehashes that reverse
\* the chains, insertions with a hint, and assignments that exchange the function.
BagOf(seq) == [e \in Elements |-> Cardinality({i \in 1..Len(seq) : seq[i] = e})]
Between(t, r) ==
  [j \in 1..Rank(t, r[2]) - Rank(t, r[1]) |->
     NodeAt(t.arr, Places(t)[Rank(t, r[1]) + j - 1])]
ElementsFindable ==
  \A x \in Built, e \in Elements :
    LET t == tab[x]
        k == KeyOf[e]
        IsKey(f) == KeyOf[f] = k
        all == SelectSeq(Nodes(t.arr), IsKey)
    IN  /\ BagOf(Between(t, equal_range(t, k))) = BagOf(all)
        /\ BagOf(SelectSeq(local_range(t, bucket(t, k)), IsKey)) = BagOf(all)
        /\ count(t, k) = Len(all)
        /\ bucket_size(t, bucket(t, k)) >= Len(all)
        /\ use.unique => (contains(t, k) <=> all = <<at_key(t, k)>>)

\* The multiplications that find the bucket of an element compute a remainder.
RemainderExact ==
  \A x \in Built, e \in Elements :
    LET d == tab[x].arr.size
        v == Hash[tab[x].h][KeyOf[e]]
    IN  d > 0 => Position(tab[x].h, KeyOf[e], tab[x].arr)
                   = (IF d < HalfRange THEN Folded(v) ELSE v) % d

\* max_load_ is that of the buckets the table has: none for a table without
\* buckets, which is how insertion knows that it must make some.
MaxLoadIsCurrent ==
  \A x \in Built : tab[x].max_load = MaxLoadOf(tab[x].mlf, tab[x].arr.size)

\* No node or array is lost, or freed twice, or given to another allocator
\* than its own, whatever threw; no spare function object outlives its call.
MemoryIsAccounted ==
  /\ \A al \in Allocators :
       LET mine == {x \in Built : tab[x].al = al}
       IN  /\ live[al].nodes =
                MapThenSumSet(LAMBDA x : Len(Nodes(tab[x].arr)), mine)
                + IF handle # NoHandle /\ handle.al = al THEN 1 ELSE 0
           /\ live[al].arrays = Cardinality({x \in mine : tab[x].arr.size > 0})
  /\ \A x \in Built : tab[x].spare = NoHasher

\* operator== compares contents, whatever the order of the elements, the
\* numbers of buckets and the hash functions.
EqualityIsOfContents ==
  \A x, y \in Built :
    (IF use.unique THEN equals_unique(State, x, y) ELSE equals_equiv(State, x, y))
      <=> BagOf(Nodes(tab[x].arr)) = BagOf(Nodes(tab[y].arr))

\* implementation.hpp says of max_load_ "Only resize when size >= mlf_ * count",
\* and the insertions compare size_ + 1 with it: a table never holds back from
\* resizing with a max_load_ above that of the buckets it has.
ResizesAtMaxLoad ==
  \A x \in Built : tab[x].max_load <= MaxLoadOf(tab[x].mlf, tab[x].arr.size)

\* An insertion leaves no table with more elements than max_load_ allows, a
\* hash function that throws or not, and whatever factor was set before.
GrowsWithinMaxLoad ==
  [][\A x \in Built :
       (tab'[x] # NoTable /\ tab'[x].size > tab[x].size) => tab'[x].size <= tab'[x].max_load]_vars

\* The abstract containers, of which the tables are an implementation.
Bags ==
  INSTANCE UnorderedBags WITH
    Containers <- Tables, Absent <- NoTable,
    bag <- [x \in Tables |-> IF x \in Built THEN BagOf(Nodes(tab[x].arr)) ELSE NoTable],
    held <- handle.e, unique <- use.unique, hashing <- ("hash" \in use.throws)
ImplementsBags == Bags!Spec
=============================================================================
