-------------------------- MODULE TableCoreInvariant --------------------------
(***************************************************************************)
(* An inductive invariant of TableCore: what the tables are like between   *)
(* any two calls of an operation that may throw, and what has become by    *)
(* then of the elements there were when it started.                        *)
(***************************************************************************)
EXTENDS TableCore

-----------------------------------------------------------------------------
(* One table *)

IsTable(t) ==
  /\ IsArrays(t.arrays, Keys)
  /\ t \in [arrays : {t.arrays}, size : Nat, ml : Nat, h : Hashers, al : Allocators,
            kind : {"plain", "concurrent"}]

\* The elements, but for those moved away from some slots, are where a search
\* with the hash function finds them, in one slot each.
WellPlaced(a, h, moved) ==
  LET there == MatchReallyOccupied(a) \ moved IN
  /\ SentinelInPlace(a)
  /\ moved \subseteq MatchReallyOccupied(a)
  /\ \A p \in Places(a) : ElementAt(a, p) # NoKey <=> p \in there
  /\ \A p \in there : LET hash == Hash[h][ElementAt(a, p)] IN
       a.meta[p[1]][p[2]] = hash.tag /\ Reached(a, hash, p[1])
  /\ \A p, q \in there : ElementAt(a, p) = ElementAt(a, q) => p = q

Counted(t) ==
  /\ t.size = Cardinality(MatchReallyOccupied(t.arrays))
  /\ t.size <= t.ml /\ t.ml <= Capacity(t.arrays)

Hollow(t, h, moved) ==
  IsTable(t) /\ h \in Hashers /\ WellPlaced(t.arrays, h, moved) /\ Counted(t)
Sound(t, h) == Hollow(t, h, {})

\* No elements yet, and the maximum load not lowered by erasures.
Fresh(t)     == t.size = 0 /\ t.ml = InitialMaxLoad(t.arrays)
Unlowered(t) == t.ml = InitialMaxLoad(t.arrays)

\* The places whose elements have been transferred, and the elements.
Behind(a, c)      == MatchReallyOccupied(a) \ From(a, c)
ElementsIn(a, ps) == {ElementAt(a, p) : p \in ps}

-----------------------------------------------------------------------------
(* Types and control *)

Constructors == {"construct", "copy_construct", "move_construct", "convert"}
OnKey        == {"emplace", "erase", "pull"}
OfTwo        == {"copy_construct", "move_construct", "convert", "copy_assign", "move_assign",
                 "swap", "merge"}
OfOne        == {"construct", "destroy", "erase_if", "clear", "rehash", "load", "assign_list"} \cup OnKey

Pcs     == {"idle", "start", "rehash", "merge", "copy", "move", "assign_arrays", "assign_reserve",
            "fill_reserve", "fill", "done"}
Results == {"none", "ok", "found", "alloc", "element", "hash", "bad_archive"}
IsAct(c) ==
  /\ IsArrays(c.new, Keys)
  /\ c \in [op : OfOne \cup OfTwo \cup {"none"}, x : Tables \cup {NoTable},
            y : Tables \cup {NoTable}, key : Keys \cup {NoKey}, n : Nat, pc : Pcs,
            new : {c.new}, cursor : Nat, outer : Nat, res : Results]

TypeOK ==
  /\ tab = [z \in Tables |-> tab[z]] /\ \A z \in Built : IsTable(tab[z])
  /\ was \in [Tables -> SUBSET Keys]
  /\ IsAct(act)
  /\ use \in Uses

Active == act.pc \notin {"idle", "done"}

ArgumentsOK ==
  /\ act.x \in Tables /\ act.y \in Tables
  /\ act.op \in use.calls /\ act.op \in OfOne \cup OfTwo
  /\ act.n \in Numbers
  /\ act.op \in OnKey => act.key \in Keys
  /\ act.op \in OfOne => act.y = act.x

\* The operations that come by each point.
OpOK ==
  /\ act.pc = "rehash" => act.op \in {"rehash", "emplace", "merge"}
  /\ act.pc = "merge" => act.op = "merge"
  /\ act.pc = "copy" => act.op \in {"copy_construct", "copy_assign"}
  /\ act.pc = "move" => act.op \in {"move_construct", "move_assign"}
  /\ act.pc = "assign_arrays" => act.op = "copy_assign"
  /\ act.pc = "assign_reserve" => act.op \in {"copy_assign", "move_assign"}
  /\ act.pc \in {"fill_reserve", "fill"} => act.op \in {"load", "assign_list"}
  /\ act.pc \in {"assign_reserve", "move"} /\ act.op = "move_assign" => ~PropagateMove

Beginnings == {"start", "assign_arrays", "assign_reserve", "fill_reserve"}

\* Objects are there unless they are about to be constructed.
ObjectsOK ==
  IF act.pc = "start" /\ act.op \in Constructors
  THEN act.x \notin Built /\ (act.op = "construct" \/ act.y \in Built)
  ELSE act.x \in Built /\ act.y \in Built

ControlOK ==
  /\ act.pc # "idle" => ArgumentsOK
  /\ Active => OpOK /\ ObjectsOK
  /\ act.pc \in {"copy", "move", "assign_arrays", "assign_reserve"} => act.x # act.y
  /\ act.pc \in Beginnings => act.cursor = 0 /\ act.outer = 0

-----------------------------------------------------------------------------
(* The tables, and what was in them *)

\* A table that is not sound, or not with its own hash function.
Unfinished ==
  IF act.pc \in {"rehash", "copy"} THEN {act.x}
  ELSE IF act.op = "move_assign" /\ act.pc \in {"assign_reserve", "move"} THEN {act.y}
  ELSE {}
TablesOK == \A z \in Built \ Unfinished : Sound(tab[z], tab[z].h)

HistoryOK ==
  /\ act.pc = "start" => \A z \in Tables : Contents(z) = was[z]
  /\ act.pc # "idle" => \A z \in Tables \ {act.x, act.y} : Contents(z) = was[z]

\* What the table had when a rehash began, and the element that is inserted.
Before == IF act.op = "merge" THEN was[act.x] \cup (was[act.y] \ Contents(act.y)) ELSE was[act.x]
Coming == IF act.op = "rehash" THEN {} ELSE {Key}
Extra  == IF act.op = "rehash" THEN 0 ELSE 1

RehashTables ==
  LET old  == X.arrays
      left == From(old, act.cursor)
      occupied == MatchReallyOccupied(act.new)
  IN
  /\ Hollow(X, X.h, IF MoveOnRehash THEN Behind(old, act.cursor) ELSE {})
  /\ WellPlaced(act.new, X.h, {})
  /\ Cardinality(occupied) + Cardinality(left) = X.size + Extra
  /\ X.size + Extra <= InitialMaxLoad(act.new)

RehashElements ==
  LET old == X.arrays IN
  /\ \A p \in Behind(old, act.cursor) : ElementAt(old, p) \in Elements(act.new) \cup {NoKey}
  /\ \A p \in From(old, act.cursor) : ElementAt(old, p) \notin Elements(act.new)
  /\ Elements(act.new) \cup Elements(old) = Before \cup Coming
  /\ ~MoveOnRehash => Elements(old) = Before

RehashOK == act.pc = "rehash" => RehashTables /\ RehashElements

MergeOK ==
  act.pc \in {"merge", "rehash"} /\ act.op = "merge" =>
    /\ Contents(act.y) \subseteq was[act.y] /\ was[act.x] \cap was[act.y] \subseteq Contents(act.y)
    /\ \A p \in Behind(Y.arrays, act.outer) : ElementAt(Y.arrays, p) \in was[act.x]
    /\ act.pc = "merge" => Contents(act.x) = Before
    /\ act.pc = "rehash" => /\ From(Y.arrays, act.outer) # {} /\ Key \notin was[act.x]
                            /\ act.x # act.y

\* A table that is filled from another one by insertions.
Filled ==
  /\ Sound(X, X.h) /\ Unlowered(X)
  /\ X.size + Cardinality(From(Y.arrays, act.cursor)) = Y.size
  /\ Elements(X.arrays) = ElementsIn(Y.arrays, Behind(Y.arrays, act.cursor))

\* A table that gets copies at the same places, and has no metadata yet.
FilledInPlace ==
  /\ IsTable(X) /\ Fresh(X) /\ SentinelInPlace(X.arrays)
  /\ MatchReallyOccupied(X.arrays) = {}
  /\ \A p \in Places(X.arrays) :
       ElementAt(X.arrays, p) = IF p \in Behind(Y.arrays, act.cursor) THEN ElementAt(Y.arrays, p)
                                ELSE NoKey

CopyOK ==
  act.pc = "copy" =>
    /\ Contents(act.y) = was[act.y] /\ X.h = Y.h
    /\ Y.size <= InitialMaxLoad(X.arrays)
    /\ IF SameSize THEN FilledInPlace ELSE Filled

MoveOK ==
  act.pc = "move" =>
    /\ Contents(act.y) = was[act.y] /\ Sound(Y, X.h)
    /\ Y.size <= InitialMaxLoad(X.arrays) /\ Filled

AssignOK ==
  act.pc \in {"assign_arrays", "assign_reserve"} =>
    /\ Contents(act.y) = was[act.y] /\ Sound(Y, X.h) /\ Fresh(X)
    /\ act.op = "copy_assign" => X.h = Y.h

FillOK ==
  /\ act.pc = "fill_reserve" => Fresh(X)
  /\ act.pc = "fill" => /\ X.size <= act.cursor /\ act.cursor <= act.n /\ act.n <= X.ml
                        /\ act.op = "load" => X.size = act.cursor

IInv ==
  /\ TypeOK /\ ControlOK /\ TablesOK /\ HistoryOK
  /\ RehashOK /\ MergeOK /\ CopyOK /\ MoveOK /\ AssignOK /\ FillOK
  /\ CallsDeliver /\ StrongGuarantee

\* No move assignment with allocators that are not propagated has its reservation
\* fail, which leaves the source with the hash function of the target.
NoStrandedSources ==
  \A u \in Uses : "move_assign" \in u.calls /\ "alloc" \in u.throws => "move" \in u.propagate
==============================================================================
