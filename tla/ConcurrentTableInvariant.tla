----------------------- MODULE ConcurrentTableInvariant -----------------------
(***************************************************************************)
(* An inductive invariant of ConcurrentTable: what the threads inside the  *)
(* container rely on while they race, and what a rehash relies on while it *)
(* is alone.  Its parts are named for what they say; where a part is about *)
(* each thread, what it says of one is a predicate of its own.             *)
(***************************************************************************)
EXTENDS ConcurrentTable

-----------------------------------------------------------------------------
(* Types *)

Pcs      == Inside \cup Outside \cup {"rehash_move"}
Calls    == KeyOps \cup Sweeps \cup {"bulk", "clear", "reserve"}
Outcomes == {"found", "missing", "inserted", "erased", "kept", "stopped", "swept", "threw",
             "reserved", "cleared"}
Matches  == [key : Keys, mask : SUBSET Slots]
Locals   ==
  [mode : {"shared", "exclusive"}, step : Nat, scan : SUBSET Nat, mask : SUBSET Slots,
   slot : Slots, ticket : Nat, todo : Seq(Keys), batch : Seq(Matches)]

TypeOK ==
  /\ IsArrays(arrays, Keys) /\ IsArrays(newArrays, Keys)
  /\ cursor \in Nat /\ size \in Nat /\ ml \in Nat
  /\ pc \in [Threads -> Pcs]
  /\ op \in [Threads -> Calls \cup {"none"}]
  /\ key \in [Threads -> Keys \cup {NoKey}]
  /\ res \in [Threads -> Outcomes \cup {"none"}]
  /\ loc \in [Threads -> Locals]
  /\ moved \subseteq Threads

-----------------------------------------------------------------------------
(* Control: where a thread can be in which operation, with which outcome *)

Erasing == {"erase_ml", "erase_meta", "erase_size"}

OpOK(t) ==
  /\ pc[t] = "idle" => op[t] = "none"
  /\ pc[t] \in {"enter", "leave"} => op[t] \in KeyOps \cup Sweeps \cup {"bulk"}
  /\ pc[t] \in Searching => op[t] \in KeyOps \cup {"bulk"}
  /\ pc[t] = "visiting" => op[t] \in {"insert", "visit", "bulk"}
  /\ pc[t] \in {"read_counter", "reserve_size", "rehash_enter"} \cup Reserved => op[t] = "insert"
  /\ pc[t] \in Erasing => op[t] \in {"erase", "erase_if"}
  /\ pc[t] \in {"sweep", "sweep_slot"} => op[t] \in Sweeps
  /\ pc[t] \in {"bulk_match", "bulk_next"} => op[t] = "bulk"
  /\ pc[t] = "clear_enter" => op[t] = "clear"
  /\ pc[t] = "reserve_enter" => op[t] = "reserve"
  /\ pc[t] = "rehash_move" => op[t] \in {"insert", "reserve"}
  /\ pc[t] = "done" => op[t] \in {"insert", "clear", "reserve"}

OutcomeOK(t) ==
  \/ res[t] = "none" /\ pc[t] # "visiting"
  \/ pc[t] = "visiting" /\ (res[t] = "found" \/ (res[t] = "inserted" /\ op[t] = "insert"))
  \/ pc[t] \in {"rollback_slot", "rollback_size"} /\ res[t] = "threw"
  \/ pc[t] \in {"bulk_next", "bulk_match"} /\ res[t] \in {"found", "missing"}
  \/ pc[t] \in Erasing /\ op[t] = "erase" /\ res[t] = "erased"
  \/ pc[t] \in {"leave", "done"}

\* The operations on a key have one; those that erase lock exclusively.
ArgumentsOK(t) ==
  /\ op[t] \in KeyOps \/ (op[t] = "bulk" /\ pc[t] \in Searching \cup {"visiting"}) => key[t] \in Keys
  /\ op[t] \in {"erase", "erase_if"} => loc[t].mode = "exclusive"

LocalsOK(t) ==
  /\ pc[t] \in {"idle", "enter", "reserve_enter", "rehash_enter", "rehash_move"} =>
       loc[t].mask = {} /\ loc[t].batch = <<>>
  /\ pc[t] = "check_overflow" => loc[t].mask = {}
  /\ pc[t] \in {"compare", "check_overflow"} /\ op[t] = "insert" => loc[t].scan = {}
  /\ pc[t] \in {"reserve_size", "check_size"} => loc[t].step = 0
  /\ pc[t] = "bulk_match" => loc[t].step \in 1 .. Len(loc[t].batch)

ControlOK == \A t \in Threads : OpOK(t) /\ OutcomeOK(t) /\ ArgumentsOK(t) /\ LocalsOK(t)

-----------------------------------------------------------------------------
(* Locks *)

LocksExclude ==
  /\ \A t, u \in Threads :
       t # u /\ pc[t] \in HoldingGroup /\ pc[u] \in HoldingGroup /\ At(t) = At(u) =>
         LockMode(t) = "shared" /\ LockMode(u) = "shared"
  /\ \A t, u \in Threads :
       pc[t] = "rehash_move" => pc[u] \notin Inside /\ (pc[u] = "rehash_move" => u = t)

-----------------------------------------------------------------------------
(* Arrays *)

Occupied(a, g, n) == a.meta[g][n] \notin {Available, Sentinel}
Empty(a, g, n)    == a.elem[g][n] = NoKey

\* What Findable says.
ElementsReached(a) ==
  \A g \in Groups(a), n \in Slots : ~Empty(a, g, n) =>
    /\ a.meta[g][n] = Hash[a.elem[g][n]].tag
    /\ Reached(a, Hash[a.elem[g][n]], g)

ArraysOK ==
  /\ SentinelInPlace(arrays) /\ SentinelInPlace(newArrays)
  /\ ElementsReached(arrays) /\ ElementsReached(newArrays)

-----------------------------------------------------------------------------
(* Threads that have a slot: occupied, and without an element *)

Owners == {"bump", "construct", "rollback_slot", "erase_ml", "erase_meta"}
Owns(t, g, n) == pc[t] \in Owners /\ At(t) = g /\ loc[t].slot = n

OwnsSlot(t) ==
  pc[t] \in Owners =>
    /\ Occupied(arrays, At(t), loc[t].slot) /\ Empty(arrays, At(t), loc[t].slot)
    /\ pc[t] \in {"bump", "construct"} => arrays.meta[At(t)][loc[t].slot] = Hash[key[t]].tag

SlotsOwned ==
  /\ \A t \in Threads : OwnsSlot(t)
  /\ Rehashing = {} =>
       \A g \in Groups(arrays), n \in Slots :
         Occupied(arrays, g, n) /\ Empty(arrays, g, n) => \E t \in Threads : Owns(t, g, n)

\* The slots a sweep has yet to visit in the group it has locked have elements.
SweepOK(t) ==
  pc[t] \in {"sweep_slot"} \cup Erasing /\ op[t] \in Sweeps =>
    /\ loc[t].step \in Groups(arrays)
    /\ pc[t] = "sweep_slot" => loc[t].mask # {}
    /\ \A n \in loc[t].mask : ~Empty(arrays, loc[t].step, n)
SweepMasks == \A t \in Threads : SweepOK(t)

\* A slot that matched is not the sentinel's.
Matched(g, S) == \A n \in S : arrays.meta[g][n] # Sentinel
MatchedOK(t) ==
  /\ pc[t] \in Searching => Matched(At(t), loc[t].mask)
  /\ pc[t] \in Inside => \A i \in 1 .. Len(loc[t].batch) :
       Matched(Home(arrays, loc[t].batch[i].key), loc[t].batch[i].mask)
MasksMatched == \A t \in Threads : MatchedOK(t)

-----------------------------------------------------------------------------
(* Insertion *)

\* The search for a slot has marked the groups it has passed.
AllMarked(tag) == \A g \in Groups(arrays) : ~NotOverflowed(arrays, g, tag)
Walked(t) ==
  pc[t] \in {"probe", "bump", "construct"} =>
    \/ AllMarked(Hash[key[t]].tag)
    \/ loc[t].step \in Groups(arrays) /\ Passed(arrays, Hash[key[t]], loc[t].step)
GroupsMarked == \A t \in Threads : Walked(t)

\* A slot has an element with key k, or is about to have it.
Constructing(t, k, g, n) == pc[t] = "construct" /\ key[t] = k /\ Owns(t, g, n)
Has(k, g, n) == arrays.elem[g][n] = k \/ \E t \in Threads : Constructing(t, k, g, n)

\* No key is in two places, counting those under construction.
OncePerKey(a) ==
  \A g, h \in Groups(a), m, n \in Slots :
    ~Empty(a, g, m) /\ a.elem[g][m] = a.elem[h][n] => g = h /\ m = n
NoKeyTwice ==
  /\ \A k \in Keys, g, h \in Groups(arrays), m, n \in Slots :
       Has(k, g, m) /\ Has(k, h, n) => g = h /\ m = n
  /\ OncePerKey(newArrays)

\* The search of t has yet to come to slot n of group g.
Ahead(t, g, n) ==
  \E i \in Groups(arrays) :
    /\ Probe(arrays, Home(arrays, key[t]), i) = g /\ Passed(arrays, Hash[key[t]], i)
    /\ \/ i > loc[t].step
       \/ i = loc[t].step /\ pc[t] = "match" /\ (n \in loc[t].mask \/ n \notin loc[t].scan)
       \/ i = loc[t].step /\ pc[t] = "compare" /\ n \in loc[t].mask

\* The insertion counter works: an insertion whose counter is what it has read
\* will still find its key, wherever that is.
CounterOK(t) ==
  Recorded(t) /\ t \notin moved =>
    \A g \in Groups(arrays), n \in Slots :
      Has(key[t], g, n) => pc[t] \in Searching /\ Ahead(t, g, n)
CounterTells == \A t \in Threads : CounterOK(t)

-----------------------------------------------------------------------------
(* Sizes *)

Count(places) == Cardinality({t \in Threads : pc[t] \in places})

\* Reservations that have been granted.
Granted == {"probe", "bump", "construct", "rollback_slot", "rollback_size"}
\* Those that will be if the maximum load is m.
Grantable(m) == Cardinality({t \in Threads : pc[t] = "check_size" /\ loc[t].ticket <= m})

\* No more reservations are granted than the maximum load of the arrays allows.
LoadBounded ==
  /\ ml <= InitialMaxLoad(arrays)
  /\ Cardinality(Contents) + Count(Granted) + Count({"erase_ml"}) + Grantable(ml) <= ml
  /\ Cardinality(Contents) + Count(Granted) + Count(Erasing) + Grantable(InitialMaxLoad(arrays))
       <= InitialMaxLoad(arrays)

-----------------------------------------------------------------------------
(* Rehashing *)

Index(g, n) == g * N + n

\* The old arrays: what the transfer has passed is in the new arrays, and gone
\* from here if it was moved; what it has not is not there.
OldArraysOK ==
  \A g \in Groups(arrays), n \in Slots :
    /\ Occupied(arrays, g, n) /\ Empty(arrays, g, n) => MoveOnRehash /\ Index(g, n) < cursor
    /\ ~Empty(arrays, g, n) =>
         IF Index(g, n) < cursor
         THEN ~MoveOnRehash /\ arrays.elem[g][n] \in Elements(newArrays)
         ELSE arrays.elem[g][n] \notin Elements(newArrays)

NewArraysOK ==
  /\ \A g \in Groups(newArrays), n \in Slots : Occupied(newArrays, g, n) => ~Empty(newArrays, g, n)
  /\ Cardinality(Contents) <= InitialMaxLoad(newArrays)
  /\ IF MoveOnRehash THEN Cardinality(Destroyed(cursor)) = Cardinality(Elements(newArrays))
     ELSE Elements(newArrays) \subseteq Elements(arrays)

RehashOK ==
  IF Rehashing = {} THEN newArrays = DummyArrays /\ cursor = 0
  ELSE OldArraysOK /\ NewArraysOK

-----------------------------------------------------------------------------
IInv ==
  /\ TypeOK /\ ControlOK /\ LocksExclude /\ ArraysOK /\ SlotsOwned /\ SweepMasks /\ MasksMatched
  /\ GroupsMarked /\ NoKeyTwice /\ CounterTells /\ SizeAccounts /\ LoadBounded /\ RehashOK

-----------------------------------------------------------------------------
(* What the operations will answer: a second invariant, of the history       *)
(* variables, by which the table implements ConcurrentSet.                    *)

\* The operations have nothing left to answer when they return, and a bulk visit
\* has each of its keys once.
EachKeyOnce(l) ==
  /\ \A i, j \in 1 .. Len(l.todo) : l.todo[i] = l.todo[j] => i = j
  /\ \A i, j \in 1 .. Len(l.batch) : l.batch[i].key = l.batch[j].key => i = j
  /\ \A i \in 1 .. Len(l.todo), j \in 1 .. Len(l.batch) : l.todo[i] # l.batch[j].key
CallOK(t) ==
  /\ op[t] = "none" => key[t] = NoKey /\ res[t] = "none"
  /\ op[t] # "bulk" => loc[t].todo = <<>> /\ loc[t].batch = <<>>
  /\ EachKeyOnce(loc[t])
  /\ pc[t] \in {"leave", "done"} => loc[t].todo = <<>> /\ loc[t].batch = <<>>
  /\ pc[t] \in {"leave", "done", "bulk_next", "bulk_match"} =>
       res[t] # "none" \/ (op[t] = "bulk" /\ key[t] = NoKey)
  /\ pc[t] = "enter" /\ op[t] = "bulk" => key[t] = NoKey
  /\ pc[t] = "enter" /\ op[t] # "insert" => loc[t].step = 0 /\ loc[t].scan = {}
  /\ pc[t] \in {"compare", "check_overflow", "visiting", "bulk_next"} /\ op[t] # "insert" =>
       loc[t].scan = {}
  /\ pc[t] \in Erasing /\ op[t] = "erase" => res[t] = "erased"

\* What is missing is known to have been missing.
MissedOK(t) ==
  LET asked == Asked(op[t], key[t], loc[t], res[t])
  IN  missed[t] \subseteq asked /\ asked \ Contents \subseteq missed[t]

\* A lookup whose key has been there since the call has yet to come to it.
LookupOK(t) ==
  pc[t] \in Searching /\ op[t] # "insert" /\ key[t] \notin missed[t] =>
    \E g \in Groups(arrays), n \in Slots : arrays.elem[g][n] = key[t] /\ Ahead(t, g, n)

\* The slot n of the first group of the i-th key of a batch is recorded, or will be.
Recording(t, i, n) ==
  \/ n \in loc[t].batch[i].mask
  \/ pc[t] = "bulk_match" /\ (i > loc[t].step \/ (i = loc[t].step /\ n \notin loc[t].scan))
BatchOK(t) ==
  op[t] = "bulk" /\ pc[t] \in Inside => \A i \in 1 .. Len(loc[t].batch) :
    LET k == loc[t].batch[i].key
    IN  k \notin missed[t] =>
          \E g \in Groups(arrays), n \in Slots :
            arrays.elem[g][n] = k /\ (g = Home(arrays, k) => Recording(t, i, n))

\* A sweep has yet to meet what is in the slots before it, and if an element it
\* has not met has been there since the call it is in one of them.
ToVisit(t, g, n) ==
  \/ g \notin loc[t].scan
  \/ g = loc[t].step /\ n \in loc[t].mask /\ pc[t] # "sweep"
SweepMeets(t) ==
  /\ op[t] \notin Sweeps \/ res[t] # "none" => unmet[t] = {}
  /\ op[t] \in Sweeps /\ pc[t] = "enter" => unmet[t] = Keys
  /\ op[t] \in Sweeps /\ pc[t] \in {"sweep", "sweep_slot"} \cup Erasing =>
       /\ pc[t] # "sweep" => loc[t].step \in loc[t].scan
       /\ \A g \in Groups(arrays), n \in Slots :
            ToVisit(t, g, n) /\ ~Empty(arrays, g, n) => arrays.elem[g][n] \in unmet[t]
       /\ \A k \in unmet[t] \ missed[t] :
            \E g \in Groups(arrays), n \in Slots : arrays.elem[g][n] = k /\ ToVisit(t, g, n)

HistoryTyped == missed \in [Threads -> SUBSET Keys] /\ unmet \in [Threads -> SUBSET Keys]
AnswersOK ==
  /\ HistoryTyped
  /\ \A t \in Threads : CallOK(t) /\ MissedOK(t) /\ LookupOK(t) /\ BatchOK(t) /\ SweepMeets(t)
=============================================================================
