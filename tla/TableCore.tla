------------------------------ MODULE TableCore ------------------------------
(***************************************************************************)
(* foa::table_core and foa::table, the table under the open-addressing     *)
(* containers: insertion, erasure, rehashing, construction, assignment,    *)
(* swap and merge of tables with hash functions and allocators of their    *)
(* own, and what each operation leaves behind when one of its allocations, *)
(* element constructions or hash calls throws.  Also what concurrent_table *)
(* does the same way under its exclusive lock, the conversions between the *)
(* two kinds of table, and loading from an archive.                        *)
(*                                                                         *)
(* One operation is in progress at a time.  An action is the part of it    *)
(* between two calls that may throw, and takes that call's outcome.        *)
(***************************************************************************)
EXTENDS TableArrays

CONSTANTS
  Tables, Keys,
  Hashers,        \* hash function objects that differ
  Hash,           \* the hash of each key by each of them
  Allocators,     \* allocators that compare different
  Uses,           \* element and allocator types, and what is done with them
  NoTable         \* an object not constructed

ASSUME HashAssumption ==
  NoKey \notin Keys /\ Hash \in [Hashers -> [Keys -> Hashes]]
ASSUME UsesAssumption ==
  \A u \in Uses :
    /\ u.propagate \subseteq {"copy", "move", "swap"}   \* propagate_on_container_...
    /\ u.moves \in BOOLEAN                  \* elements are moved, not copied, to new arrays
    /\ u.throws \subseteq {"alloc", "element", "hash"}
    /\ u.allocators \subseteq Allocators    \* those that tables are constructed with
    /\ u.hashers \subseteq Hashers          \* and the hash functions
    /\ u.tables \subseteq Tables /\ u.keys \subseteq Keys
    /\ u.kinds \subseteq {"plain", "concurrent"}
    /\ u.sizes \subseteq Nat      \* arguments of the constructor, of rehash, load and so on
    /\ u.calls \subseteq {"construct", "copy_construct", "move_construct", "destroy",
                          "emplace", "erase", "pull", "erase_if", "clear", "rehash",
                          "copy_assign", "move_assign", "swap", "merge",
                          "convert", "load", "assign_list"}

\* There are arrays of the sizes that all keys, and the numbers given, ask for.
ASSUME EnoughGroupsAssumption ==
  /\ IsFiniteSet(Keys)
  /\ \A u \in Uses : \A n \in u.sizes \cup {Cardinality(Keys)} :
       \E g \in GroupCounts : N * g > SlotsFor(n + n \div 61 + 1)

\* What a table is, and that an object not constructed is none.
AllArrays == UNION {ArraysOf(g, Keys) : g \in GroupCounts}
TableObjects ==
  [arrays : AllArrays, size : Nat, ml : Nat, h : Hashers, al : Allocators,
   kind : {"plain", "concurrent"}]
ASSUME NoTableAssumption == NoTable \notin TableObjects

VARIABLES
  tab,     \* the tables
  live,    \* arrays allocated and not deallocated, per allocator
  alive,   \* elements constructed and not destroyed
  act,     \* the operation in progress and its local variables
  was,     \* history: what was in the tables when it was called
  use      \* the use that is made of tables, once and for all

vars == <<tab, live, alive, act, was, use>>

PropagateCopy == "copy" \in use.propagate
PropagateMove == "move" \in use.propagate
PropagateSwap == "swap" \in use.propagate
MoveOnRehash  == use.moves
Throws        == use.throws

-----------------------------------------------------------------------------
(* Tables *)

Table(a, h, al, kind) ==
  [arrays |-> a, size |-> 0, ml |-> InitialMaxLoad(a), h |-> h, al |-> al, kind |-> kind]

Built == {x \in Tables : tab[x] # NoTable}
Contents(x) == IF x \in Built THEN Elements(tab[x].arrays) ELSE {}
HashOf(t, k) == Hash[t.h][k]

\* Slots in the order of for_all_elements.
Index(p) == p[1] * N + p[2]
From(a, c) == {p \in MatchReallyOccupied(a) : Index(p) >= c}
FirstFrom(a, c) == CHOOSE p \in From(a, c) : \A q \in From(a, c) : Index(p) <= Index(q)
ElementAt(a, p) == a.elem[p[1]][p[2]]
Count(a) == Cardinality({p \in Places(a) : ElementAt(a, p) # NoKey})

\* clear, which leaves the static arrays of an empty table alone.
Cleared(t) ==
  IF t.arrays.built
  THEN LET a == ClearedArrays(t.arrays)
       IN  [t EXCEPT !.arrays = a, !.ml = InitialMaxLoad(a), !.size = 0]
  ELSE t

\* recover_slot for each of the slots, their elements destroyed.
Recovered(t, places) ==
  [t EXCEPT !.arrays = WithoutSlots(@, places),
            !.ml = @ - Drift(t.arrays, places),
            !.size = @ - Cardinality(places)]

\* unchecked_insert.
Inserted(t, k) == [t EXCEPT !.arrays = Emplaced(@, HashOf(t, k), k), !.size = @ + 1]
\* ... and its element's constructor throws.
InsertFailed(t, k) == [t EXCEPT !.arrays = PassedMarked(@, HashOf(t, k))]

\* The arrays for n elements, by noshrink_reserve: the old ones if large enough.
EnoughFor(t, n) == n = 0 \/ CapacityFor(SlotsFor(n)) <= Capacity(t.arrays)
WithArrays(t, a) == [t EXCEPT !.arrays = a, !.ml = InitialMaxLoad(a)]

\* The arrays of a concurrent table come with an array of group accesses.
Blocks(kind, a) == IF ~a.built THEN 0 ELSE IF kind = "concurrent" THEN 2 ELSE 1

\* The effect on live of table t allocating and deallocating arrays.
Allocated(l, t, a)   == [l EXCEPT ![t.al] = @ + Blocks(t.kind, a)]
Deallocated(l, t, a) == [l EXCEPT ![t.al] = @ - Blocks(t.kind, a)]

-----------------------------------------------------------------------------
(* Calls *)

Idle == [op |-> "none", x |-> NoTable, y |-> NoTable, key |-> NoKey, n |-> 0,
         pc |-> "idle", new |-> DummyArrays, cursor |-> 0, outer |-> 0, res |-> "none"]

Init ==
  /\ tab = [x \in Tables |-> NoTable]
  /\ live = [b \in Allocators |-> 0]
  /\ alive = 0
  /\ act = Idle
  /\ was = [x \in Tables |-> {}]
  /\ use \in Uses

\* The tables there are, and those that may be constructed.
There  == use.tables \cap Built
NotYet == use.tables \ Built
Numbers == use.sizes \cup {0}

\* The operation o is called on table x: with table y, key k or number n.
Called(o, x, y, k, n) ==
  /\ o \in use.calls
  /\ act' = [Idle EXCEPT !.op = o, !.x = x, !.y = y, !.key = k, !.n = n, !.pc = "start"]
  /\ was' = [z \in Tables |-> Contents(z)]
  /\ UNCHANGED <<tab, live, alive>>
CalledWithKey(o)    == \E x \in There, k \in use.keys : Called(o, x, x, k, 0)
CalledWithNumber(o) == \E x \in There, n \in Numbers : Called(o, x, x, NoKey, n)
CalledOnTable(o)    == \E x \in There : Called(o, x, x, NoKey, 0)
CalledWithTable(o, x, y) == tab[x].kind = tab[y].kind /\ Called(o, x, y, NoKey, 0)
ConstructsFrom(o)   == \E x \in NotYet, y \in There : Called(o, x, y, NoKey, 0)

\* The constructor of a range inserts it into an empty table, which is destroyed
\* if that throws.
CallConstruct == \E x \in NotYet, n \in Numbers : Called("construct", x, x, NoKey, n)
CallCopyConstruct == ConstructsFrom("copy_construct")
CallMoveConstruct == ConstructsFrom("move_construct")
CallConvert       == ConstructsFrom("convert")
CallDestroy       == CalledOnTable("destroy")

CallAssign ==
  \E o \in {"copy_assign", "move_assign"}, x, y \in There : CalledWithTable(o, x, y)
\* A list is assigned by clear and insert, but for concurrent tables.
CallAssignList ==
  \E x \in There, n \in Numbers :
    tab[x].kind = "concurrent" /\ Called("assign_list", x, x, NoKey, n)

\* insert_or_assign assigns to the element it finds; the elements of a range are
\* inserted one by one, and hints are ignored.
CallInsert  == CalledWithKey("emplace")
CallEmplace == CalledWithKey("emplace")

CallErase   == CalledWithKey("erase")
CallEraseIf == CalledOnTable("erase_if")
CallPull ==
  \E x \in There : \E k \in use.keys \cap Contents(x) :
    tab[x].kind = "plain" /\ Called("pull", x, x, k, 0)
CallClear   == CalledOnTable("clear")
CallRehash  == CalledWithNumber("rehash")
CallLoad    == CalledWithNumber("load")

\* The preconditions of swap and merge.
CallSwap ==
  \E x, y \in There :
    (PropagateSwap \/ tab[x].al = tab[y].al) /\ CalledWithTable("swap", x, y)
CallMerge ==
  \E x, y \in There : tab[x].al = tab[y].al /\ CalledWithTable("merge", x, y)

\* The calls that the language and the preconditions allow.
Call ==
  /\ act.pc = "idle"
  /\ \/ CallConstruct \/ CallCopyConstruct \/ CallMoveConstruct \/ CallConvert
     \/ CallDestroy \/ CallAssign \/ CallAssignList \/ CallInsert \/ CallEmplace
     \/ CallErase \/ CallEraseIf \/ CallPull \/ CallClear \/ CallRehash \/ CallLoad
     \/ CallSwap \/ CallMerge

X == tab[act.x]
Y == tab[act.y]
Starts(o) == act.pc = "start" /\ act.op = o

Goto(pc)    == act' = [act EXCEPT !.pc = pc]
Finish(res) == act' = [act EXCEPT !.pc = "done", !.res = res] /\ UNCHANGED was
SetX(t) == tab' = [tab EXCEPT ![act.x] = t]
SetXY(t, u) == tab' = [tab EXCEPT ![act.x] = t, ![act.y] = u]

Return ==
  /\ act.pc = "done"
  /\ act' = Idle /\ was' = [x \in Tables |-> {}]
  /\ UNCHANGED <<tab, live, alive>>

\* allocate throws: nothing was changed since the last action.
AllocFails == "alloc" \in Throws /\ UNCHANGED <<tab, live, alive>> /\ Finish("alloc")

-----------------------------------------------------------------------------
(* Insertion and erasure *)

Key == IF act.op = "merge" THEN ElementAt(Y.arrays, FirstFrom(Y.arrays, act.outer)) ELSE act.key

\* A merge has come to an element of its source.
Merging == act.pc = "merge" /\ From(Y.arrays, act.outer) # {}

HasRoom(t) == t.size < t.ml
IsIn(t, k) == Found(t.arrays, HashOf(t, k), k) # {}

EmplaceFinds ==
  /\ Starts("emplace") /\ IsIn(X, act.key)
  /\ Finish("found") /\ UNCHANGED <<tab, live, alive>>

EmplaceInPlace ==
  /\ Starts("emplace") /\ ~IsIn(X, act.key) /\ HasRoom(X)
  /\ \/ SetX(Inserted(X, act.key)) /\ alive' = alive + 1 /\ Finish("ok")
     \/ /\ "element" \in Throws
        /\ SetX(InsertFailed(X, act.key)) /\ UNCHANGED alive /\ Finish("element")
  /\ UNCHANGED live

\* The element is constructed in the new arrays before anything else is moved
\* there; if that throws, the arrays are deallocated and nothing has changed.
EmplaceWithRehash ==
  /\ Starts("emplace") \/ Merging
  /\ ~IsIn(X, Key) /\ ~HasRoom(X)
  /\ LET a == GrowthArrays(X.size) IN
     /\ act' = [act EXCEPT !.pc = "rehash", !.cursor = 0,
                           !.new = Emplaced(a, HashOf(X, Key), Key)]
     /\ live' = Allocated(live, X, a)
     /\ alive' = alive + 1
  /\ UNCHANGED <<tab, was>>

EmplaceFails ==
  /\ Starts("emplace") /\ ~IsIn(X, act.key) /\ ~HasRoom(X)
  /\ \E cause \in Throws \cap {"alloc", "element"} : Finish(cause)
  /\ UNCHANGED <<tab, live, alive>>

\* The hash of the key is computed before anything else.
KeyHashThrows ==
  /\ Starts("emplace") \/ Starts("erase")
  /\ "hash" \in Throws
  /\ Finish("hash") /\ UNCHANGED <<tab, live, alive>>

\* The element is erased on exit, whether or not it could be moved out.
Pull ==
  /\ Starts("pull")
  /\ SetX(Recovered(X, Found(X.arrays, HashOf(X, act.key), act.key)))
  /\ alive' = alive - 1
  /\ \E res \in {"ok"} \cup (Throws \cap {"element"}) : Finish(res)
  /\ UNCHANGED live

\* The elements that the predicate is true of.
EraseIf ==
  /\ Starts("erase_if")
  /\ \E places \in SUBSET MatchReallyOccupied(X.arrays) :
       SetX(Recovered(X, places)) /\ alive' = alive - Cardinality(places)
  /\ Finish("ok") /\ UNCHANGED live

EraseKey ==
  /\ Starts("erase")
  /\ LET places == Found(X.arrays, HashOf(X, act.key), act.key) IN
     /\ SetX(Recovered(X, places))
     /\ alive' = alive - Cardinality(places)
  /\ Finish("ok") /\ UNCHANGED live

ClearTable ==
  /\ Starts("clear")
  /\ SetX(Cleared(X)) /\ alive' = alive - Count(X.arrays)
  /\ Finish("ok") /\ UNCHANGED live

-----------------------------------------------------------------------------
(* Rehashing *)

RehashTo(n) ==
  LET m == Max({n, SlotsFor(X.size)}) IN IF m = 0 THEN 0 ELSE CapacityFor(m)

RehashSame ==
  /\ Starts("rehash") /\ RehashTo(act.n) = Capacity(X.arrays)
  /\ Finish("ok") /\ UNCHANGED <<tab, live, alive>>

RehashStarts ==
  /\ Starts("rehash") /\ RehashTo(act.n) # Capacity(X.arrays)
  /\ LET a == ArraysFor(RehashTo(act.n)) IN
     \/ /\ act' = [act EXCEPT !.pc = "rehash", !.cursor = 0, !.new = a]
        /\ live' = Allocated(live, X, a)
        /\ UNCHANGED <<tab, alive, was>>
     \/ a.built /\ AllocFails

\* The element the transfer has come to.
Moving == act.pc = "rehash" /\ From(X.arrays, act.cursor) # {}
Place  == FirstFrom(X.arrays, act.cursor)

TransferElement ==
  /\ Moving
  /\ LET k == ElementAt(X.arrays, Place) IN
     /\ act' = [act EXCEPT !.cursor = Index(Place) + 1,
                           !.new = Emplaced(@, HashOf(X, k), k)]
     /\ IF MoveOnRehash
        THEN /\ SetX([X EXCEPT !.arrays.elem[Place[1]][Place[2]] = NoKey])
             /\ UNCHANGED alive
        ELSE alive' = alive + 1 /\ UNCHANGED tab
  /\ UNCHANGED <<live, was>>

\* The source element of a merge, erased when erase_on_exit goes out of scope.
SourceErased == Recovered(Y, {FirstFrom(Y.arrays, act.outer)})

\* Mutant: slots are recovered although their elements were copied.
RecoveredAlways(c) == Recovered(X, {p \in MatchReallyOccupied(X.arrays) : Index(p) < c})

\* The slots before c, whose elements were moved away, are recovered.
RecoveredUpTo(c) ==
  IF MoveOnRehash THEN Recovered(X, {p \in MatchReallyOccupied(X.arrays) : Index(p) < c})
  ELSE X

\* The hash function throws, or the element's constructor, which destroys the
\* element if it was being moved.
TransferThrows ==
  /\ Moving
  /\ \E cause \in Throws \cap {"hash", "element"} :
     LET destroyed == cause = "element" /\ MoveOnRehash
         t == RecoveredUpTo(IF destroyed THEN Index(Place) + 1 ELSE act.cursor)
     IN  /\ IF act.op = "merge" THEN SetXY(t, SourceErased) ELSE SetX(t)
         /\ alive' = alive - Count(act.new) - (IF destroyed THEN 1 ELSE 0)
                           - (IF act.op = "merge" THEN 1 ELSE 0)
         /\ live' = Deallocated(live, X, act.new)
         /\ act' = [act EXCEPT !.pc = "done", !.res = cause, !.new = DummyArrays]
  /\ UNCHANGED was

\* Mutant: the maximum load stays that of the old arrays.
WithNewKeepingMaxLoad(t, a) == [t EXCEPT !.arrays = a]
WithNew(t, a) == WithArrays(t, a)

\* Mutant: the originals of copied elements are never destroyed.
OriginalsLeft == 0
\* The elements still in the old arrays: all of them if they were copied.
Originals == Count(X.arrays)

\* The originals are destroyed and the old arrays deallocated.
FinishRehash ==
  /\ act.pc = "rehash" /\ From(X.arrays, act.cursor) = {}
  /\ alive' = alive - Originals - (IF act.op = "merge" THEN 1 ELSE 0)
  /\ live' = Deallocated(live, X, X.arrays)
  /\ LET t == WithNew(X, act.new)
         u == [t EXCEPT !.size = @ + 1]
     IN  \/ act.op = "rehash" /\ SetX(t)
         \/ act.op = "emplace" /\ SetX(u)
         \/ act.op = "merge" /\ SetXY(u, SourceErased)
  /\ act' = [act EXCEPT !.new = DummyArrays, !.cursor = 0,
                        !.pc = IF act.op = "merge" THEN "merge" ELSE "done",
                        !.res = IF act.op = "merge" THEN "none" ELSE "ok"]
  /\ UNCHANGED was

-----------------------------------------------------------------------------
(* Merge *)

MergeStarts == Starts("merge") /\ Goto("merge") /\ UNCHANGED <<tab, live, alive, was>>

\* Mutant: the erasure is not rolled back.
MergeSkipsErasing ==
  /\ Merging /\ IsIn(X, Key)
  /\ SetXY(X, SourceErased) /\ alive' = alive - 1
  /\ UNCHANGED <<live, act, was>>

MergeSkips ==
  /\ Merging /\ IsIn(X, Key)
  /\ act' = [act EXCEPT !.outer = Index(FirstFrom(Y.arrays, @)) + 1]
  /\ UNCHANGED <<tab, live, alive, was>>

\* One element constructed, its source erased.
MergeInPlace ==
  /\ Merging /\ ~IsIn(X, Key) /\ HasRoom(X)
  /\ SetXY(Inserted(X, Key), SourceErased)
  /\ UNCHANGED <<live, alive, act, was>>

\* The source is erased whatever it was that threw.
MergeThrows ==
  /\ Merging
  /\ \/ "hash" \in Throws /\ SetXY(X, SourceErased) /\ Finish("hash")
     \/ /\ ~IsIn(X, Key)
        /\ \E cause \in Throws \cap (IF HasRoom(X) THEN {"element"} ELSE {"element", "alloc"}) :
             /\ SetXY(IF HasRoom(X) THEN InsertFailed(X, Key) ELSE X, SourceErased)
             /\ Finish(cause)
  /\ alive' = alive - 1
  /\ UNCHANGED live

MergeEnds ==
  /\ act.pc = "merge" /\ From(Y.arrays, act.outer) = {}
  /\ Finish("ok") /\ UNCHANGED <<tab, live, alive>>

-----------------------------------------------------------------------------
(* Construction and destruction *)

Construct ==
  /\ Starts("construct")
  /\ LET a == ArraysFor(act.n) IN
     \/ /\ \E h \in use.hashers, al \in use.allocators, kind \in use.kinds :
             LET t == Table(a, h, al, kind) IN SetX(t) /\ live' = Allocated(live, t, a)
        /\ Finish("ok") /\ UNCHANGED alive
     \/ a.built /\ AllocFails

Destroy ==
  /\ Starts("destroy")
  /\ SetX(NoTable)
  /\ alive' = alive - Count(X.arrays)
  /\ live' = Deallocated(live, X, X.arrays)
  /\ Finish("ok")

\* The allocator is the one given, or select_on_container_copy_construction's.
CopyConstruct ==
  /\ Starts("copy_construct")
  /\ LET a == ArraysFor(SlotsFor(Y.size)) IN
     \/ /\ \E al \in use.allocators :
             LET t == Table(a, Y.h, al, Y.kind) IN SetX(t) /\ live' = Allocated(live, t, a)
        /\ Goto("copy")
        /\ UNCHANGED <<alive, was>>
     \/ a.built /\ AllocFails

\* The arrays are taken over if the allocators are equal.
MoveConstruct ==
  /\ Starts("move_construct")
  /\ \/ /\ SetXY(Y, Table(DummyArrays, Y.h, Y.al, Y.kind))
        /\ Finish("ok") /\ UNCHANGED <<live, alive>>
     \/ \E al \in use.allocators \ {Y.al} :
        LET a == ArraysFor(IF Y.size = 0 THEN 0 ELSE CapacityFor(SlotsFor(Y.size))) IN
        \/ /\ LET t == Table(a, Y.h, al, Y.kind) IN SetX(t) /\ live' = Allocated(live, t, a)
           /\ Goto("move")
           /\ UNCHANGED <<alive, was>>
        \/ a.built /\ AllocFails

\* The table under construction is destroyed when an exception leaves its
\* constructor; what an assignment has copied or moved so far stays.
Aborted(t) ==
  IF act.op \in {"copy_construct", "move_construct"}
  THEN [tab |-> NoTable, live |-> Deallocated(live, t, t.arrays),
        alive |-> alive - Cardinality(MatchReallyOccupied(t.arrays))]
  ELSE [tab |-> t, live |-> live, alive |-> alive]

-----------------------------------------------------------------------------
(* Copying elements *)

SameSize == X.arrays.groups = Y.arrays.groups
\* The copies of the elements before c, at the same places.
Copied(c) == {p \in MatchReallyOccupied(Y.arrays) : Index(p) < c}
CopyPlace == FirstFrom(Y.arrays, act.cursor)
Copying   == act.pc = "copy" /\ From(Y.arrays, act.cursor) # {}

\* Into arrays of the same size element by element, otherwise by inserting.
CopyElement ==
  /\ Copying
  /\ LET k == ElementAt(Y.arrays, CopyPlace) IN
     SetX(IF SameSize THEN [X EXCEPT !.arrays.elem[CopyPlace[1]][CopyPlace[2]] = k]
                      ELSE Inserted(X, k))
  /\ alive' = alive + 1
  /\ act' = [act EXCEPT !.cursor = Index(CopyPlace) + 1]
  /\ UNCHANGED <<live, was>>

\* The copies at the same places are destroyed: their metadata was never set.
CopyThrows ==
  /\ Copying
  /\ \E cause \in Throws \cap (IF SameSize THEN {"element"} ELSE {"hash", "element"}) :
     LET t == IF SameSize THEN [X EXCEPT !.arrays.elem = NewArrays(X.arrays.groups).elem]
              ELSE IF cause = "element" THEN InsertFailed(X, ElementAt(Y.arrays, CopyPlace))
              ELSE X
         gone == IF SameSize THEN Cardinality(Copied(act.cursor)) ELSE 0
         end == Aborted(t)
     IN  /\ SetX(end.tab)
         /\ live' = end.live
         /\ alive' = end.alive - gone
         /\ Finish(cause)

\* copy_groups_array_from, with the overflow bits and the maximum load.
GroupsCopied(t, u) ==
  [t EXCEPT !.arrays.meta = u.arrays.meta, !.arrays.overflow = u.arrays.overflow,
            !.ml = u.ml, !.size = u.size]

FinishCopy ==
  /\ act.pc = "copy" /\ From(Y.arrays, act.cursor) = {}
  /\ SetX(IF SameSize /\ X.arrays.built /\ Y.arrays.built THEN GroupsCopied(X, Y) ELSE X)
  /\ Finish("ok") /\ UNCHANGED <<live, alive>>

-----------------------------------------------------------------------------
(* Moving elements to a table with a different allocator *)

MovingOver == act.pc = "move" /\ From(Y.arrays, act.cursor) # {}

\* The source elements are moved from, and destroyed when all is done.
MoveElement ==
  /\ MovingOver
  /\ SetX(Inserted(X, ElementAt(Y.arrays, FirstFrom(Y.arrays, act.cursor))))
  /\ alive' = alive + 1
  /\ act' = [act EXCEPT !.cursor = Index(FirstFrom(Y.arrays, @)) + 1]
  /\ UNCHANGED <<live, was>>

MoveThrows ==
  /\ MovingOver
  /\ \E cause \in Throws \cap {"hash", "element"} :
     LET k == ElementAt(Y.arrays, FirstFrom(Y.arrays, act.cursor))
         end == Aborted(IF cause = "element" THEN InsertFailed(X, k) ELSE X)
     IN  /\ SetXY(end.tab, Cleared(Y))
         /\ live' = end.live
         /\ alive' = end.alive - Count(Y.arrays)
         /\ Finish(cause)

FinishMove ==
  /\ act.pc = "move" /\ From(Y.arrays, act.cursor) = {}
  /\ SetXY(X, Cleared(Y))
  /\ alive' = alive - Count(Y.arrays)
  /\ Finish("ok") /\ UNCHANGED live

-----------------------------------------------------------------------------
(* Assignment and swap *)

SelfAssign ==
  /\ Starts("copy_assign") \/ Starts("move_assign")
  /\ act.x = act.y
  /\ Finish("ok") /\ UNCHANGED <<tab, live, alive>>

\* Mutant: the function objects are not assigned.
KeepsFunctions(t, u) == t
WithFunctionsOf(t, u) == [t EXCEPT !.h = u.h]

\* The table is cleared and has the other's function objects from now on.
CopyAssign ==
  /\ Starts("copy_assign") /\ act.x # act.y
  /\ SetX(WithFunctionsOf(Cleared(X), Y))
  /\ alive' = alive - Count(X.arrays)
  /\ Goto("assign_arrays")
  /\ UNCHANGED <<live, was>>

OldAllocator(t, u) == t

\* A different allocator propagated: the old arrays go back to the old one.
AssignArrays ==
  /\ act.pc = "assign_arrays"
  /\ LET a == ArraysFor(SlotsFor(Y.size)) IN
     \/ /\ PropagateCopy /\ X.al # Y.al
        /\ \/ /\ SetX([WithArrays(X, a) EXCEPT !.al = Y.al])
              /\ live' = Deallocated(Allocated(live, Y, a), OldAllocator(X, Y), X.arrays)
              /\ Goto("assign_reserve")
              /\ UNCHANGED <<alive, was>>
           \/ a.built /\ AllocFails
     \/ /\ ~(PropagateCopy /\ X.al # Y.al)
        /\ Goto("assign_reserve")
        /\ UNCHANGED <<tab, live, alive, was>>

\* noshrink_reserve(x.size()), for copies and for moved elements.
AssignReserve ==
  /\ act.pc = "assign_reserve"
  /\ LET a == ArraysFor(CapacityFor(SlotsFor(Y.size)))
         next == IF act.op = "copy_assign" THEN "copy" ELSE "move"
     IN  \/ /\ EnoughFor(X, Y.size)
            /\ Goto(next) /\ UNCHANGED <<tab, live, alive, was>>
         \/ /\ ~EnoughFor(X, Y.size)
            /\ \/ /\ SetX(WithArrays(X, a))
                  /\ live' = Deallocated(Allocated(live, X, a), X, X.arrays)
                  /\ Goto(next) /\ UNCHANGED <<alive, was>>
               \/ AllocFails

\* The arrays are taken over if the allocator is propagated or equal.
MoveAssign ==
  /\ Starts("move_assign") /\ act.x # act.y
  /\ alive' = alive - Count(X.arrays)
  /\ IF PropagateMove \/ X.al = Y.al
     THEN /\ SetXY([Y EXCEPT !.al = IF PropagateMove THEN Y.al ELSE X.al],
                   Table(DummyArrays, X.h, Y.al, Y.kind))
          /\ live' = Deallocated(live, X, X.arrays)
          /\ Finish("ok")
     ELSE /\ SetXY(WithFunctionsOf(Cleared(X), Y), WithFunctionsOf(Y, X))
          /\ Goto("assign_reserve")
          /\ UNCHANGED <<live, was>>

Swap ==
  /\ Starts("swap")
  /\ SetXY([Y EXCEPT !.al = IF PropagateSwap THEN Y.al ELSE X.al],
           [X EXCEPT !.al = IF PropagateSwap THEN X.al ELSE Y.al])
  /\ Finish("ok") /\ UNCHANGED <<live, alive>>

-----------------------------------------------------------------------------
(* Conversion between plain and concurrent tables *)

\* The other kind of table takes the arrays over: only the group accesses are
\* allocated or deallocated.  The source gets the empty arrays.
Convert ==
  /\ Starts("convert")
  /\ LET t == [Y EXCEPT !.kind = IF Y.kind = "plain" THEN "concurrent" ELSE "plain"] IN
     \/ /\ SetXY(t, Table(DummyArrays, Y.h, Y.al, Y.kind))
        /\ live' = Deallocated(Allocated(live, t, Y.arrays), Y, Y.arrays)
        /\ Finish("ok") /\ UNCHANGED alive
     \/ Y.kind = "plain" /\ Y.arrays.built /\ AllocFails

-----------------------------------------------------------------------------
(* Loading from an archive, and assignment of a list *)

Refill ==
  /\ Starts("load") \/ Starts("assign_list")
  /\ SetX(Cleared(X)) /\ alive' = alive - Count(X.arrays)
  /\ Goto("fill_reserve")
  /\ UNCHANGED <<live, was>>

\* Mutant: the maximum load factor is left out.
FillArraysTight(t, n) == IF act.op = "load" THEN ArraysFor(n) ELSE t.arrays

\* A load reserves for the count in the archive, to the exact number of groups;
\* the assignment keeps arrays that are large enough.
FillArrays(t, n) ==
  IF act.op = "load" THEN (IF n = 0 THEN DummyArrays ELSE ArraysFor(CapacityFor(SlotsFor(n))))
  ELSE IF EnoughFor(t, n) THEN t.arrays ELSE ArraysFor(CapacityFor(SlotsFor(n)))

FillReserve ==
  /\ act.pc = "fill_reserve"
  /\ LET a == FillArrays(X, act.n)
         same == Capacity(a) = Capacity(X.arrays)
     IN  \/ /\ SetX(IF same THEN X ELSE WithArrays(X, a))
            /\ live' = IF same THEN live ELSE Deallocated(Allocated(live, X, a), X, X.arrays)
            /\ Goto("fill")
            /\ UNCHANGED <<alive, was>>
         \/ ~same /\ a.built /\ AllocFails

\* Items come in any order and may be repeated.  The load of a concurrent table
\* does not test for room; the others would rehash without it, which is left out
\* because LoadingIsStable shows that there always is.
Filling == act.pc = "fill" /\ act.cursor < act.n
FillItem(k) ==
  /\ Filling /\ ~IsIn(X, k)
  /\ HasRoom(X) \/ (act.op = "load" /\ X.kind = "concurrent")
  /\ \/ /\ SetX(Inserted(X, k)) /\ alive' = alive + 1
        /\ act' = [act EXCEPT !.cursor = @ + 1] /\ UNCHANGED was
     \/ /\ "element" \in Throws
        /\ SetX(InsertFailed(X, k)) /\ UNCHANGED alive /\ Finish("element")
  /\ UNCHANGED live

\* A repeated item is an error of the archive, and of no account in a list.
FillRepeated(k) ==
  /\ Filling /\ IsIn(X, k)
  /\ IF act.op = "load" THEN Finish("bad_archive")
     ELSE act' = [act EXCEPT !.cursor = @ + 1] /\ UNCHANGED was
  /\ UNCHANGED <<tab, live, alive>>

\* Reading the item, or hashing it.
FillThrows ==
  /\ Filling
  /\ \E cause \in Throws \cap {"hash", "element"} : Finish(cause)
  /\ UNCHANGED <<tab, live, alive>>

FillEnds ==
  /\ act.pc = "fill" /\ act.cursor = act.n
  /\ Finish("ok") /\ UNCHANGED <<tab, live, alive>>

-----------------------------------------------------------------------------
Step ==
  \/ Call \/ Return
  \/ EmplaceFinds \/ EmplaceInPlace \/ EmplaceWithRehash \/ EmplaceFails
  \/ KeyHashThrows \/ EraseKey \/ Pull \/ EraseIf \/ ClearTable
  \/ RehashSame \/ RehashStarts \/ TransferElement \/ TransferThrows \/ FinishRehash
  \/ MergeStarts \/ MergeSkips \/ MergeInPlace \/ MergeThrows \/ MergeEnds
  \/ Construct \/ Destroy \/ CopyConstruct \/ MoveConstruct
  \/ CopyElement \/ CopyThrows \/ FinishCopy
  \/ MoveElement \/ MoveThrows \/ FinishMove
  \/ SelfAssign \/ CopyAssign \/ AssignArrays \/ AssignReserve \/ MoveAssign \/ Swap
  \/ Convert \/ Refill \/ FillReserve \/ FillThrows \/ FillEnds
  \/ \E k \in use.keys : FillItem(k) \/ FillRepeated(k)

Next == Step /\ UNCHANGED use

Spec == Init /\ [][Next]_vars

-----------------------------------------------------------------------------
(* Comparison *)

\* Mutant: the sizes are not compared.
EqualWithoutSize(t, u) ==
  \A p \in MatchReallyOccupied(t.arrays) : IsIn(u, ElementAt(t.arrays, p))

Equal(t, u) ==
  /\ t.size = u.size
  /\ \A p \in MatchReallyOccupied(t.arrays) : IsIn(u, ElementAt(t.arrays, p))

-----------------------------------------------------------------------------
(* Properties *)

AtRest == act.pc \in {"idle", "done"}

\* Each element is in one slot only, where a search with the table's own hash
\* function finds it, after whatever calls and exceptions.
Searchable(t) ==
  \A p \in MatchReallyOccupied(t.arrays) :
    LET k == ElementAt(t.arrays, p) IN k # NoKey /\ Found(t.arrays, HashOf(t, k), k) = {p}
ElementsSearchable == AtRest => \A x \in Built : Searchable(tab[x])

\* The size is exact, and within a maximum load that the slots can take, however
\* often the maximum load was lowered by erasures, copied and swapped.
SizeIsExact ==
  AtRest => \A x \in Built :
    /\ tab[x].size = Cardinality(MatchReallyOccupied(tab[x].arrays))
    /\ tab[x].size <= tab[x].ml /\ tab[x].ml <= Capacity(tab[x].arrays)

\* No exception leaks arrays, or deallocates them twice or with an allocator
\* that did not allocate them; none leaks an element or destroys one twice.
MemoryAccounted ==
  AtRest =>
    /\ \A al \in Allocators :
         live[al] = MapThenSumSet(LAMBDA x : Blocks(tab[x].kind, tab[x].arrays),
                                  {x \in Built : tab[x].al = al})
    /\ alive = Cardinality(UNION {{x} \X MatchReallyOccupied(tab[x].arrays) : x \in Built})

Succeeded(ops) == act.pc = "done" /\ act.res \in {"ok", "found"} /\ act.op \in ops
Failed(ops)    == act.pc = "done" /\ act.res \notin {"ok", "found"} /\ act.op \in ops

\* An operation that returns has done what it says, to both of its tables and
\* to no other: the contents before it determine those after it.
CallsDeliver ==
  LET x == act.x
      y == act.y
      Then(cx, cy) == Contents(x) = cx /\ (y # x => Contents(y) = cy)
  IN  /\ Succeeded({"emplace"}) => Then(was[x] \cup {act.key}, {})
      /\ Succeeded({"erase", "pull"}) => Then(was[x] \ {act.key}, {})
      /\ Succeeded({"clear", "destroy", "construct"}) => Then({}, {})
      /\ Succeeded({"rehash"}) => Then(was[x], {})
      /\ Succeeded({"copy_construct", "copy_assign"}) => Then(was[y], was[y])
      /\ Succeeded({"move_construct", "move_assign", "convert"}) => Then(was[y], {})
      /\ Succeeded({"load"}) => Cardinality(Contents(x)) = act.n
      /\ Succeeded({"swap"}) => Then(was[y], was[x])
      /\ Succeeded({"merge"}) => Then(was[x] \cup was[y], was[x] \cap was[y])
      /\ AtRest => \A z \in Tables \ {x, y} : act.pc = "done" => Contents(z) = was[z]

\* The elements of a container that is loaded stay where they are, so that the
\* positions of iterators in the archive can be told ("critical so that iterator
\* tracking is stable", serialize_container.hpp): there is room for every item.
LoadingIsStable == Filling => HasRoom(X)

\* Where elements are copied to new arrays, an insertion or a rehash that throws
\* has no effect, though it had come to any element of the transfer.
StrongGuarantee ==
  ~MoveOnRehash /\ Failed({"emplace", "rehash"}) => Contents(act.x) = was[act.x]

\* operator==, which compares sizes and looks each element of one table up in
\* the other, is equality of contents, whatever the hash functions and arrays.
EqualityIsOfContents ==
  AtRest => \A x, y \in Built : Equal(tab[x], tab[y]) <=> Contents(x) = Contents(y)

\* Every key that a table has is found in it, "Incorrect output of count."
\* otherwise (test/helpers/invariants.hpp:58), also in the source of a move
\* assignment whose allocation throws.
SourceSearchable ==
  Failed({"move_assign"}) /\ act.res = "alloc" => Searchable(tab[act.y])
=============================================================================
