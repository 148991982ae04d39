----------------------------- MODULE ClosedTable -----------------------------
(***************************************************************************)
(* detail::table, the table under unordered_(multi)map and                 *)
(* unordered_(multi)set: chains of nodes in an array of buckets, with      *)
(* unique keys or with the elements of equivalent keys next to each other. *)
(*                                                                         *)
(* One thread calls it.  Every allocation, construction of an element,     *)
(* copy of a function object and call of a hash function may throw, so     *)
(* that an operation has several outcomes: it is written as the set of     *)
(* them, each with the state it leaves.                                    *)
(***************************************************************************)
EXTENDS BucketArray, SequencesExt, EquivalentGroups

CONSTANTS
  Tables, Elements,
  KeyOf,          \* the key of each element
  Hashers,        \* hash function objects that differ
  Hash,           \* the hash of each key by each of them
  Allocators,     \* allocators that compare different
  Uses,           \* element and allocator types, and what is done with them
  SizeMax,        \* the greatest size_t
  NoTable, NoElement, NoHasher

ASSUME ClosedTableAssumption ==
  /\ NoElement \notin Elements /\ NoHasher \notin Hashers
  /\ \A h \in Hashers, e \in Elements : Hash[h][KeyOf[e]] \in Nat
  /\ SizeMax \in Nat
ASSUME ClosedUsesAssumption ==
  \A u \in Uses :
    /\ u.unique \in BOOLEAN
    /\ u.propagate \subseteq {"copy", "move", "swap"}
    /\ u.throws \subseteq {"alloc", "element", "hash", "functions"}
    /\ u.allocators \subseteq Allocators
    /\ u.tables \subseteq Tables
    /\ u.factors \subseteq Nat \X Nat     \* max load factors, <<n, d>> for n/d, d = 0 for infinity
    /\ u.counts \subseteq Nat             \* arguments of rehash and reserve
    /\ u.nodes \in Nat                    \* bound: nodes at a time

VARIABLES
  tab,      \* the tables
  handle,   \* the node handle
  live,     \* nodes and bucket arrays allocated and not deallocated, per allocator
  call,     \* history: the last call, its arguments and whether it returned
  use       \* the use that is made of tables, once and for all

vars == <<tab, handle, live, call, use>>

-----------------------------------------------------------------------------
(* Outcomes *)

State == [tab |-> tab, handle |-> handle, live |-> live]

Ok(s)    == [s |-> s, ok |-> TRUE]
Fails(s) == [s |-> s, ok |-> FALSE]

\* What follows a call, if it returns.
Then(outcomes, Next(_)) == UNION {IF r.ok THEN Next(r.s) ELSE {r} : r \in outcomes}
\* What a catch block or a destructor does, if it throws.
Catch(outcomes, Undone(_)) == {IF r.ok THEN r ELSE Fails(Undone(r.s)) : r \in outcomes}
\* One call after the other with each of some arguments.
Each(s, args, Op(_, _)) ==
  FoldLeft(LAMBDA outcomes, e : Then(outcomes, LAMBDA u : Op(u, e)), {Ok(s)}, args)

MayThrow(kinds, s) == IF kinds \cap use.throws = {} THEN {Ok(s)} ELSE {Ok(s), Fails(s)}
hash(s) == MayThrow({"hash"}, s)

-----------------------------------------------------------------------------
(* Memory *)

\* construct_node and its variants, and delete_node.
construct_node(s, al) ==
  Then(MayThrow({"alloc", "element"}, s),
       LAMBDA u : {Ok([u EXCEPT !.live[al].nodes = @ + 1])})
DeleteNodes(s, al, n) == [s EXCEPT !.live[al].nodes = @ - n]

\* A node held by a node_tmp: deleted again if what follows throws.
WithNode(s, al, Next(_)) ==
  Then(construct_node(s, al),
       LAMBDA u : Catch(Next(u), LAMBDA v : DeleteNodes(v, al, 1)))

\* The buckets and groups of an array for n buckets.
NewBuckets(s, al, n) ==
  IF n = 0 THEN {Ok(s)}
  ELSE Then(MayThrow({"alloc"}, s), LAMBDA u : {Ok([u EXCEPT !.live[al].arrays = @ + 1])})
FreeBuckets(s, al, a) ==
  IF a.size = 0 THEN s ELSE [s EXCEPT !.live[al].arrays = @ - 1]

-----------------------------------------------------------------------------
(* Hash and equality function objects, with room for a spare *)

construct_functions(s) == MayThrow({"functions"}, s)
construct_spare_functions(s, x, h) ==
  Then(construct_functions(s), LAMBDA u : {Ok([u EXCEPT !.tab[x].spare = h])})
cleanup_spare_functions(s, x) == [s EXCEPT !.tab[x].spare = NoHasher]
switch_functions(s, x) ==
  [s EXCEPT !.tab[x].h = s.tab[x].spare, !.tab[x].spare = NoHasher]

-----------------------------------------------------------------------------
(* Places in a table: a bucket's iterator and an index into its chain, from 1 *)

Position(h, k, a) == IF a.size = 0 THEN 0 ELSE position(Hash[h][k], a.size)
BucketOf(t, e) == at(t.arr, Position(t.h, KeyOf[e], t.arr))

find_node_impl(a, it, k) ==
  LET found == {i \in 1..Len(a.chain[it.p]) : KeyOf[a.chain[it.p][i]] = k}
  IN  IF it.p = EndBucket(a) \/ found = {} THEN 0
      ELSE CHOOSE i \in found : \A j \in found : i <= j

NodeAt(a, pos) == a.chain[pos.it.p][pos.i]
AtEnd(a, pos)  == pos.it.p = EndBucket(a)

BeginOf(t) == [it |-> IF t.size = 0 THEN end(t.arr) ELSE begin(t.arr), i |-> 1]
Advanced(a, pos) ==
  IF pos.i < Len(a.chain[pos.it.p]) THEN [pos EXCEPT !.i = @ + 1]
  ELSE [it |-> increment(a, pos.it), i |-> 1]

\* The places from begin to end, in their order.
Places(t) ==
  LET n == Len(Nodes(t.arr))
      place[j \in 1..n] == IF j = 1 THEN BeginOf(t) ELSE Advanced(t.arr, place[j-1])
  IN  IF t.size = 0 THEN <<>> ELSE [j \in 1..n |-> place[j]]

-----------------------------------------------------------------------------
(* Reserve and rehash *)

MaxLoadOf(mlf, bc) ==
  IF bc = 0 THEN 0 ELSE IF mlf[2] = 0 THEN SizeMax ELSE (mlf[1] * bc) \div mlf[2]
recalculate_max_load(t) == [t EXCEPT !.max_load = MaxLoadOf(t.mlf, t.arr.size)]

Ceil(n, mlf) == IF mlf[2] = 0 THEN 0 ELSE (n * mlf[2] + mlf[1] - 1) \div mlf[1]
min_buckets(n, mlf) == IF Ceil(n, mlf) = 0 /\ n > 0 THEN 1 ELSE Ceil(n, mlf)
MaxOf(m, n) == IF m > n THEN m ELSE n

transfer_node(t, a, e) == insert_node(a, at(a, Position(t.h, KeyOf[e], a)), e)

\* A hash call that throws costs the nodes that were moved until then.
rehash_impl(s, x, n) ==
  LET t == s.tab[x]
      all == Nodes(t.arr)
      Moved(i) == FoldLeft(LAMBDA a, e : transfer_node(t, a, e), NewArray(n), SubSeq(all, 1, i))
      First(a) == CHOOSE b \in 0..a.size : a.chain[b] # <<>> /\ \A c \in 0..b-1 : a.chain[c] = <<>>
      rest[i \in 0..Len(all)] ==
        IF i = 0 THEN t.arr ELSE WithoutNode(rest[i-1], First(rest[i-1]), 1)
      Thrown(u, i) ==
        LET lost == Len(Iteration(Moved(i)))
        IN  [DeleteNodes(FreeBuckets(u, t.al, Moved(i)), t.al, lost) EXCEPT
               !.tab[x].arr = unlink_empty_buckets(rest[i]), !.tab[x].size = @ - lost]
      Done(u) ==
        [FreeBuckets(u, t.al, t.arr) EXCEPT
           !.tab[x] = recalculate_max_load([t EXCEPT !.arr = Moved(Len(all))])]
  IN  Then(NewBuckets(s, t.al, n),
           LAMBDA u : {Ok(Done(u))} \cup
             {Fails(Thrown(u, i)) : i \in IF "hash" \in use.throws THEN 0..Len(all)-1 ELSE {}})

rehash(s, x, n) ==
  LET t == s.tab[x]
      m == bucket_count_for(MaxOf(min_buckets(t.size, t.mlf), n))
  IN  IF m = t.arr.size THEN {Ok(s)} ELSE rehash_impl(s, x, m)
reserve(s, x, n) == rehash(s, x, min_buckets(n, s.tab[x].mlf))
reserve_for_insert(s, x, n) ==
  LET t == s.tab[x]
  IN  IF n > t.max_load THEN rehash_impl(s, x, MaxOf(1 + Ceil(n, t.mlf), t.arr.size + 1))
      ELSE {Ok(s)}

\* Mutant: the new element is not counted.
RoomForNone(s, x) ==
  IF s.tab[x].arr.size = 0 \/ s.tab[x].size > s.tab[x].max_load
  THEN reserve(s, x, s.tab[x].size + 1) ELSE {Ok(s)}

\* The test of every insertion of one element.
RoomForOne(s, x) ==
  IF s.tab[x].size + 1 > s.tab[x].max_load THEN reserve(s, x, s.tab[x].size + 1) ELSE {Ok(s)}

-----------------------------------------------------------------------------
(* Insertion, keys unique *)

Found(s, x, e) == find_node_impl(s.tab[x].arr, BucketOf(s.tab[x], e), KeyOf[e])
Linking(s, x, e) ==
  [s EXCEPT !.tab[x].arr = insert_node(@, BucketOf(s.tab[x], e), e), !.tab[x].size = @ + 1]

NewElement(s, x, e) ==
  WithNode(s, s.tab[x].al, LAMBDA u :
    Then(RoomForOne(u, x), LAMBDA v : {Ok(Linking(v, x, e))}))

\* The key is known before the node is made.
emplace_unique(s, x, e) ==
  Then(hash(s), LAMBDA u : IF Found(u, x, e) # 0 THEN {Ok(u)} ELSE NewElement(u, x, e))

\* Mutant: the node is kept although there is one like it.
emplace_unique_leaking(s, x, e) ==
  WithNode(s, s.tab[x].al, LAMBDA u :
    Then(hash(u), LAMBDA v :
      IF Found(v, x, e) # 0 THEN {Ok(v)}
      ELSE Then(RoomForOne(v, x), LAMBDA w : {Ok(Linking(w, x, e))})))

\* The key is that of the node, which is deleted if there is one like it.
NodeMade(s, x, e) ==
  Then(hash(s), LAMBDA u :
    IF Found(u, x, e) # 0 THEN {Ok(DeleteNodes(u, u.tab[x].al, 1))}
    ELSE Then(RoomForOne(u, x), LAMBDA v : {Ok(Linking(v, x, e))}))
emplace_unique_no_key(s, x, e) ==
  WithNode(s, s.tab[x].al, LAMBDA u : NodeMade(u, x, e))

\* From something else, which a key is made of first.
emplace_unique_converting_key(s, x, e) ==
  Then(MayThrow({"element"}, s), LAMBDA u : emplace_unique(u, x, e))

\* By its types, a key is found in the arguments, is made of one of them, or is
\* only known from the element.
emplace_extracted(s, x, e) ==
  emplace_unique(s, x, e) \cup emplace_unique_converting_key(s, x, e)
    \cup emplace_unique_no_key(s, x, e)

\* A hint is a place, or end.
HintFits(s, x, hint, e) ==
  LET a == s.tab[x].arr IN ~AtEnd(a, hint) /\ KeyOf[NodeAt(a, hint)] = KeyOf[e]
emplace_hint_unique(s, x, hint, e) ==
  IF HintFits(s, x, hint, e) THEN {Ok(s)} ELSE emplace_unique(s, x, e)
\* The hint is looked at when the node has been made, and the hash not needed if
\* it fits.
emplace_hint_unique_no_key(s, x, hint, e) ==
  WithNode(s, s.tab[x].al, LAMBDA u :
    IF HintFits(u, x, hint, e) THEN {Ok(DeleteNodes(u, u.tab[x].al, 1))}
    ELSE NodeMade(u, x, e))
\* What a key could be made of counts as no key here.
emplace_hint_extracted(s, x, hint, e) ==
  emplace_hint_unique(s, x, hint, e) \cup emplace_hint_unique_no_key(s, x, hint, e)

\* The mapped value is made with the node, and not if there is the key.
try_emplace_unique(s, x, e) ==
  Then(hash(s), LAMBDA u : IF Found(u, x, e) # 0 THEN {Ok(u)} ELSE NewElement(u, x, e))
try_emplace_hint_unique(s, x, hint, e) ==
  IF HintFits(s, x, hint, e) THEN {Ok(s)} ELSE try_emplace_unique(s, x, e)

insert_or_assign_unique(s, x, e) ==
  Then(hash(s), LAMBDA u :
    LET i == Found(u, x, e)
    IN  IF i = 0 THEN NewElement(u, x, e)
        ELSE Then(MayThrow({"element"}, u),
                  LAMBDA v : {Ok([v EXCEPT !.tab[x].arr.chain[BucketOf(v.tab[x], e).p][i] = e])}))

insert_range_unique(s, x, es) == Each(s, es, LAMBDA u, e : emplace_unique_no_key(u, x, e))

-----------------------------------------------------------------------------
(* Insertion, equivalent keys *)

LinkingAfter(s, x, e, i) ==
  [s EXCEPT !.tab[x].arr = insert_node_hint(@, BucketOf(s.tab[x], e), e, i), !.tab[x].size = @ + 1]

\* Where a node that held an element is after a rehash: nothing tells it from
\* another with an equal one.
NowAt(s, x, e, old) ==
  LET c == s.tab[x].arr.chain[BucketOf(s.tab[x], e).p]
  IN  IF old = NoElement THEN {0} ELSE {i \in 1..Len(c) : c[i] = old}

\* The node that the hint is, and the place after a reservation.
LinkingAt(s, x, e, old) == {Ok(LinkingAfter(s, x, e, i)) : i \in NowAt(s, x, e, old)}
Hinted(s, x, e) ==
  LET i == Found(s, x, e)
  IN  IF i = 0 THEN NoElement ELSE s.tab[x].arr.chain[BucketOf(s.tab[x], e).p][i]

\* Of a node made by the caller, which a node_tmp holds.
emplace_equiv(s, x, e) ==
  WithNode(s, s.tab[x].al, LAMBDA u :
    Then(hash(u), LAMBDA v :
      LET hint == Hinted(v, x, e)
      IN  IF v.tab[x].size + 1 > v.tab[x].max_load
          THEN Then(reserve(v, x, v.tab[x].size + 1), LAMBDA w : LinkingAt(w, x, e, hint))
          ELSE {Ok(LinkingAfter(v, x, e, Found(v, x, e)))}))

emplace_hint_equiv(s, x, hint, e) ==
  LET t == s.tab[x]
      needs_rehash == t.size + 1 > t.max_load
      usable == HintFits(s, x, hint, e)
      Linked2(v) ==
        LET old == IF usable THEN NodeAt(t.arr, hint) ELSE Hinted(v, x, e)
        IN  IF needs_rehash
            THEN Then(reserve(v, x, t.size + 1), LAMBDA w : LinkingAt(w, x, e, old))
            ELSE {Ok(LinkingAfter(v, x, e, IF usable THEN hint.i ELSE Found(v, x, e)))}
  IN  WithNode(s, t.al, LAMBDA u :
        IF usable /\ ~needs_rehash THEN Linked2(u) ELSE Then(hash(u), Linked2))

emplace_no_rehash_equiv(s, x, e) ==
  WithNode(s, s.tab[x].al, LAMBDA u :
    Then(hash(u), LAMBDA v : {Ok(LinkingAfter(v, x, e, Found(v, x, e)))}))

\* A range of known length is reserved for, unless it has one element.
insert_range_equiv(s, x, es, forward) ==
  IF forward /\ Len(es) # 1
  THEN Then(reserve_for_insert(s, x, s.tab[x].size + Len(es)), LAMBDA u :
         Each(u, es, LAMBDA v, e : emplace_no_rehash_equiv(v, x, e)))
  ELSE Each(s, es, LAMBDA v, e : emplace_equiv(v, x, e))

-----------------------------------------------------------------------------
(* Erasure and extraction *)

\* extract_node or extract_node_after, the element gone from the table.
Unlinking(s, x, pos) ==
  [s EXCEPT !.tab[x].arr = extract_node(@, pos.it, pos.i), !.tab[x].size = @ - 1]
erase_node(s, x, pos) == DeleteNodes(Unlinking(s, x, pos), s.tab[x].al, 1)

\* find_prev: where the key is first.
FirstOf(s, x, e) == [it |-> BucketOf(s.tab[x], e), i |-> Found(s, x, e)]
IsThere(s, x, e) == s.tab[x].size > 0 /\ Found(s, x, e) # 0

erase_key_unique(s, x, e) ==
  Then(hash(s), LAMBDA u :
    {Ok(IF IsThere(u, x, e) THEN erase_node(u, x, FirstOf(u, x, e)) ELSE u)})

\* Mutant: only the first of the equivalent keys goes.
erase_key_equiv_first(s, x, e) == erase_key_unique(s, x, e)
\* The run of equivalent keys that starts at the first.
erase_key_equiv(s, x, e) ==
  LET pos == FirstOf(s, x, e)
      c == s.tab[x].arr.chain[pos.it.p]
      run == {j \in pos.i..Len(c) : \A i \in pos.i..j : KeyOf[c[i]] = KeyOf[e]}
      n == Cardinality(run)
      left == [s.tab[x].arr EXCEPT
                 !.chain[pos.it.p] = SubSeq(c, 1, pos.i - 1) \o SubSeq(c, pos.i + n, Len(c))]
      erased == IF left.chain[pos.it.p] = <<>> THEN unlink_bucket(left, pos.it) ELSE left
  IN  Then(hash(s), LAMBDA u :
        {Ok(IF ~IsThere(u, x, e) THEN u
            ELSE DeleteNodes([u EXCEPT !.tab[x].arr = erased, !.tab[x].size = @ - n],
                             u.tab[x].al, n))})

\* The n nodes from a place on, each taken out before the bucket of the next
\* is looked for, and a bucket left when its end is reached.
erase_nodes_range(s, x, first, n) ==
  LET step(u) ==
        LET a == WithoutNode(u.a, u.pos.it.p, u.pos.i)
            next == [it |-> increment(a, u.pos.it), i |-> 1]
        IN  IF u.pos.i <= Len(a.chain[u.pos.it.p]) THEN [a |-> a, pos |-> u.pos]
            ELSE [a |-> IF a.chain[u.pos.it.p] = <<>> THEN unlink_bucket(a, u.pos.it) ELSE a,
                  pos |-> next]
      upto[i \in 0..n] ==
        IF i = 0 THEN [a |-> s.tab[x].arr, pos |-> first] ELSE step(upto[i-1])
  IN  {Ok(DeleteNodes([s EXCEPT !.tab[x].arr = upto[n].a, !.tab[x].size = @ - n],
                      s.tab[x].al, n))}

\* The elements of F satisfy the predicate.  The loop goes on from the place
\* that erase returns, found before it erases.
erase_if(s, x, F) ==
  LET step(u) ==
        LET a == u.s.tab[x].arr
            next == Advanced(a, u.pos)
            same == next.it.p = u.pos.it.p
        IN  IF NodeAt(a, u.pos) \notin F THEN [s |-> u.s, pos |-> next]
            ELSE [s |-> erase_node(u.s, x, u.pos), pos |-> IF same THEN u.pos ELSE next]
      upto[i \in 0..s.tab[x].size] ==
        IF i = 0 THEN [s |-> s, pos |-> BeginOf(s.tab[x])] ELSE step(upto[i-1])
  IN  {Ok(upto[s.tab[x].size].s)}

\* Every node, from the first bucket on.
RemoveAll(s, x) ==
  LET n == Len(Nodes(s.tab[x].arr))
      left[i \in 0..n] ==
        IF i = 0 THEN s
        ELSE erase_node(left[i-1], x, [it |-> begin(left[i-1].tab[x].arr), i |-> 1])
  IN  left[n]
clear_impl(s, x) == RemoveAll(s, x)
delete_buckets(s, x) ==
  [FreeBuckets(RemoveAll(s, x), s.tab[x].al, s.tab[x].arr) EXCEPT !.tab[x].arr = NoArray]

-----------------------------------------------------------------------------
(* Node handles and merge *)

NoHandle == [e |-> NoElement, al |-> NoElement]
Held(e, al) == [e |-> e, al |-> al]

extract_by_key(s, x, e) ==
  LET pos == FirstOf(s, x, e)
  IN  IF s.tab[x].size = 0 THEN {Ok(s)}
      ELSE Then(hash(s), LAMBDA u :
             {Ok(IF pos.i = 0 THEN u
                 ELSE [Unlinking(u, x, pos) EXCEPT
                         !.handle = Held(NodeAt(u.tab[x].arr, pos), u.tab[x].al)])})
extract_by_iterator(s, x, pos) ==
  {Ok([Unlinking(s, x, pos) EXCEPT !.handle = Held(NodeAt(s.tab[x].arr, pos), s.tab[x].al)])}

\* The handle's node goes into the table, or stays where it is.
move_insert_node_type_unique(s, x) ==
  LET e == s.handle.e
  IN  Then(hash(s), LAMBDA u :
        IF Found(u, x, e) # 0 THEN {Ok(u)}
        ELSE Then(reserve_for_insert(u, x, u.tab[x].size + 1),
                  LAMBDA v : {Ok([Linking(v, x, e) EXCEPT !.handle = NoHandle])}))
move_insert_node_type_with_hint_unique(s, x, hint) ==
  LET e == s.handle.e
  IN  IF HintFits(s, x, hint, e) THEN {Ok(s)}
      ELSE Then(hash(s), LAMBDA u :
             IF Found(u, x, e) # 0 THEN {Ok(u)}
             ELSE Then(RoomForOne(u, x),
                       LAMBDA v : {Ok([Linking(v, x, e) EXCEPT !.handle = NoHandle])}))
NodeIntoEquiv(s, x, e) ==
  Then(reserve_for_insert(s, x, s.tab[x].size + 1), LAMBDA u :
    Then(hash(u), LAMBDA v : {Ok(LinkingAfter(v, x, e, Found(v, x, e)))}))
move_insert_node_type_equiv(s, x) ==
  Then(NodeIntoEquiv(s, x, s.handle.e), LAMBDA u : {Ok([u EXCEPT !.handle = NoHandle])})
move_insert_node_type_with_hint_equiv(s, x, hint) ==
  LET e == s.handle.e
      usable == HintFits(s, x, hint, e)
      old == NodeAt(s.tab[x].arr, hint)
  IN  Then(hash(s), LAMBDA u : Then(RoomForOne(u, x), LAMBDA v :
        {Ok([r.s EXCEPT !.handle = NoHandle]) :
           r \in IF usable THEN LinkingAt(v, x, e, old)
                 ELSE {Ok(LinkingAfter(v, x, e, Found(v, x, e)))}}))

\* Of the elements not visited yet in the source, the first.
merge_unique(s, x, y) ==
  LET n == Len(Nodes(s.tab[y].arr))
      one(u, j) ==
        LET pos == Places(u.tab[y])[Len(Nodes(u.tab[y].arr)) - n + j]
            e == NodeAt(u.tab[y].arr, pos)
        IN  Then(hash(u), LAMBDA v :
              {Ok(IF Found(v, x, e) # 0 THEN v ELSE Linking(Unlinking(v, y, pos), x, e))})
  IN  IF s.tab[y].size = 0 THEN {Ok(s)}
      ELSE Then(reserve_for_insert(s, x, s.tab[x].size + s.tab[y].size),
                LAMBDA u : Each(u, [j \in 1..n |-> j], one))

\* Each element travels in a handle of its own, which goes with it if the
\* insertion throws.
merge_equiv(s, x, y) ==
  LET one(u, j) ==
        LET pos == BeginOf(u.tab[y])
            e == NodeAt(u.tab[y].arr, pos)
        IN  Catch(NodeIntoEquiv(Unlinking(u, y, pos), x, e),
                  LAMBDA v : DeleteNodes(v, u.tab[y].al, 1))
  IN  Each(s, [j \in 1..s.tab[y].size |-> j], one)

-----------------------------------------------------------------------------
(* Construction, assignment and swap *)

Table(mlf, h, al) ==
  [arr |-> NoArray, size |-> 0, mlf |-> mlf, max_load |-> 0, h |-> h, al |-> al, spare |-> NoHasher]
MovedFrom(t) == [t EXCEPT !.arr = NoArray, !.size = 0, !.max_load = 0]

\* A table of at least n buckets.
Constructed(s, x, n, mlf, h, al) ==
  Then(NewBuckets(s, al, n), LAMBDA u :
    {Ok([u EXCEPT !.tab[x] =
           recalculate_max_load([Table(mlf, h, al) EXCEPT !.arr = NewArray(n)])])})
\* The destructor, also of a table whose owner's constructor throws.
Destroyed(s, x) == [delete_buckets(s, x) EXCEPT !.tab[x] = NoTable]

Contents(s, x) == LET t == s.tab[x] IN IF t.size = 0 THEN <<>> ELSE Iteration(t.arr)

CopyOne(s, x, e) ==
  Then(hash(s), LAMBDA u : Then(construct_node(u, u.tab[x].al), LAMBDA v :
    {Ok(IF use.unique THEN Linking(v, x, e) ELSE LinkingAfter(v, x, e, Found(v, x, e)))}))
copy_buckets(s, x, y) ==
  Then(reserve_for_insert(s, x, s.tab[y].size), LAMBDA u :
    Each(u, Contents(u, y), LAMBDA v, e : CopyOne(v, x, e)))
\* The elements left behind are as they were, but moved from.
move_assign_buckets(s, x, y) == Each(s, Contents(s, y), LAMBDA v, e : CopyOne(v, x, e))

copy_construct(s, x, y, al) ==
  LET t == s.tab[y]
  IN  Then(construct_functions(s), LAMBDA u :
        Then(Constructed(u, x, t.size, t.mlf, t.h, al), LAMBDA v :
          IF t.size = 0 THEN {Ok(v)}
          ELSE Catch(copy_buckets(v, x, y), LAMBDA w : Destroyed(w, x))))

\* Mutant: the maximum load stays behind.
MoveBucketsOnly(s, x, y) ==
  LET t == s.tab[y]
  IN  [FreeBuckets(s, s.tab[x].al, s.tab[x].arr) EXCEPT
         !.tab[x] = [@ EXCEPT !.arr = t.arr, !.size = t.size], !.tab[y] = MovedFrom(t)]
MoveBuckets(s, x, y) ==
  LET t == s.tab[y]
  IN  [FreeBuckets(s, s.tab[x].al, s.tab[x].arr) EXCEPT
         !.tab[x] = [@ EXCEPT !.arr = t.arr, !.size = t.size, !.max_load = t.max_load],
         !.tab[y] = MovedFrom(t)]

move_construct(s, x, y) ==
  LET t == s.tab[y]
  IN  Then(construct_functions(s), LAMBDA u :
        {Ok([u EXCEPT !.tab[x] = [t EXCEPT !.spare = NoHasher], !.tab[y] = MovedFrom(t)])})

\* With an allocator given: element by element if it is another one.
MoveOne(s, x, e) ==
  WithNode(s, s.tab[x].al, LAMBDA u : Then(hash(u), LAMBDA v : {Ok(Linking(v, x, e))}))
move_construct_buckets(s, x, y) ==
  IF s.tab[x].al = s.tab[y].al THEN {Ok(MoveBuckets(s, x, y))}
  ELSE IF s.tab[y].size = 0 THEN {Ok(s)}
  ELSE Then(reserve(s, x, s.tab[y].size), LAMBDA u :
         Each(u, Contents(u, y), LAMBDA v, e : MoveOne(v, x, e)))
move_construct_with(s, x, y, al) ==
  LET t == s.tab[y]
  IN  Then(construct_functions(s), LAMBDA u :
        Then(Constructed(u, x, t.arr.size, t.mlf, t.h, al), LAMBDA v :
          Catch(move_construct_buckets(v, x, y), LAMBDA w : Destroyed(w, x))))

WithFactor(s, x, mlf) == [s EXCEPT !.tab[x] = recalculate_max_load([@ EXCEPT !.mlf = mlf])]

\* copy assignment, of tables whose allocators stay or are equal.
assign_keeping(s, x, y) ==
  Then(construct_spare_functions(s, x, s.tab[y].h), LAMBDA u :
    Then(Catch(Then(reserve_for_insert(WithFactor(u, x, u.tab[y].mlf), x, u.tab[y].size),
                    LAMBDA v : {Ok(clear_impl(v, x))}),
               LAMBDA v : cleanup_spare_functions(v, x)),
         LAMBDA w : copy_buckets(switch_functions(w, x), x, y)))
\* ... and of tables whose allocators differ, and are copied.
assign_propagating(s, x, y) ==
  LET t == s.tab[y]
      fresh == NewArray(t.size)
  IN  Then(NewBuckets(s, t.al, t.size), LAMBDA u :
        Then(Catch(construct_spare_functions(u, x, t.h), LAMBDA v : FreeBuckets(v, t.al, fresh)),
             LAMBDA v :
               LET w == [delete_buckets(switch_functions(v, x), x) EXCEPT
                           !.tab[x].al = t.al, !.tab[x].arr = fresh, !.tab[x].mlf = t.mlf]
               IN  Then(reserve(w, x, t.size), LAMBDA z :
                     IF t.size # 0 THEN copy_buckets(z, x, y) ELSE {Ok(z)})))
assign(s, x, y) ==
  IF "copy" \in use.propagate /\ s.tab[x].al # s.tab[y].al
  THEN assign_propagating(s, x, y) ELSE assign_keeping(s, x, y)

\* move assignment, of the array of buckets ...
move_assign_array(s, x, y) ==
  Then(construct_spare_functions(s, x, s.tab[y].h), LAMBDA u :
    LET w == [delete_buckets(switch_functions(u, x), x) EXCEPT
                !.tab[x].al = u.tab[y].al, !.tab[x].mlf = u.tab[y].mlf]
    IN  {Ok(MoveBuckets(w, x, y))})
\* ... and of each element.
move_assign_realloc(s, x, y) ==
  Then(construct_spare_functions(s, x, s.tab[y].h), LAMBDA u :
    Then(Catch(Then(IF u.tab[y].size > 0
                    THEN reserve_for_insert(WithFactor(u, x, u.tab[y].mlf), x, u.tab[y].size)
                    ELSE {Ok(WithFactor(u, x, u.tab[y].mlf))},
                    LAMBDA v : {Ok(clear_impl(v, x))}),
               LAMBDA v : cleanup_spare_functions(v, x)),
         LAMBDA w : move_assign_buckets(switch_functions(w, x), x, y)))
move_assign(s, x, y) ==
  IF "move" \in use.propagate \/ s.tab[x].al = s.tab[y].al
  THEN move_assign_array(s, x, y) ELSE move_assign_realloc(s, x, y)

swap(s, x, y) ==
  LET t == s.tab[x]
      u == s.tab[y]
      al(v, w) == IF "swap" \in use.propagate THEN w.al ELSE v.al
      Swapped(v) == [v EXCEPT !.tab[x] = [u EXCEPT !.al = al(t, u)],
                              !.tab[y] = [t EXCEPT !.al = al(u, t)]]
  IN  Then(construct_spare_functions(s, x, u.h), LAMBDA v :
        Then(Catch(construct_spare_functions(v, y, t.h), LAMBDA w : cleanup_spare_functions(w, x)),
             LAMBDA w : {Ok(Swapped(w))}))

-----------------------------------------------------------------------------
(* Ranges of equivalent keys *)

\* From an element on, in the order of iteration, where the key is another one.
next_group(seq, i) ==
  CHOOSE j \in i + 1..Len(seq) + 1 :
    /\ \A m \in i..j - 1 : KeyOf[seq[m]] = KeyOf[seq[i]]
    /\ j <= Len(seq) => KeyOf[seq[j]] # KeyOf[seq[i]]
Group(seq, i) == SubSeq(seq, i, next_group(seq, i) - 1)

FindIn(t, k) ==
  IF t.size = 0 THEN 0
  ELSE find_node_impl(t.arr, at(t.arr, Position(t.h, k, t.arr)), k)

EndOf(t) == [it |-> end(t.arr), i |-> 1]
find(t, k) ==
  IF FindIn(t, k) = 0 THEN EndOf(t)
  ELSE [it |-> at(t.arr, Position(t.h, k, t.arr)), i |-> FindIn(t, k)]

\* How far a place is in the iteration.
Rank(t, pos) ==
  CHOOSE j \in 1..Len(Places(t)) + 1 :
    IF AtEnd(t.arr, pos) THEN j = Len(Places(t)) + 1
    ELSE j <= Len(Places(t)) /\ Places(t)[j].it.p = pos.it.p /\ Places(t)[j].i = pos.i

\* The run of the key in its bucket.
group_count(t, k) ==
  LET c == t.arr.chain[Position(t.h, k, t.arr)]
      first == FindIn(t, k)
  IN  IF first = 0 THEN 0
      ELSE Cardinality({j \in first..Len(c) : \A i \in first..j : KeyOf[c[i]] = k})

-----------------------------------------------------------------------------
(* Equality *)

FindPlace(t, seq, k) ==
  CHOOSE i \in 1..Len(seq) : KeyOf[seq[i]] = k /\ \A j \in 1..i-1 : KeyOf[seq[j]] # k
equals_unique(s, x, y) ==
  LET t == s.tab[y]
      Same(e) ==
        LET it == at(t.arr, Position(t.h, KeyOf[e], t.arr))
            i == find_node_impl(t.arr, it, KeyOf[e])
        IN  i # 0 /\ t.arr.chain[it.p][i] = e
  IN  /\ s.tab[x].size = t.size
      /\ \A i \in 1..Len(Contents(s, x)) : Same(Contents(s, x)[i])
\* Mutant: the sizes are not compared.
equals_equiv_part(s, x, y) ==
  LET c == Contents(s, x)
      d == Contents(s, y)
      starts == {i \in 1..Len(c) : i = 1 \/ KeyOf[c[i-1]] # KeyOf[c[i]]}
  IN  \A i \in starts :
        /\ FindIn(s.tab[y], KeyOf[c[i]]) # 0
        /\ group_equals_equiv(Group(c, i), Group(d, FindPlace(s.tab[y], d, KeyOf[c[i]])))
equals_equiv(s, x, y) ==
  LET c == Contents(s, x)
      d == Contents(s, y)
      starts == {i \in 1..Len(c) : i = 1 \/ KeyOf[c[i-1]] # KeyOf[c[i]]}
  IN  /\ s.tab[x].size = s.tab[y].size
      /\ \A i \in starts :
           /\ FindIn(s.tab[y], KeyOf[c[i]]) # 0
           /\ group_equals_equiv(Group(c, i), Group(d, FindPlace(s.tab[y], d, KeyOf[c[i]])))
=============================================================================
