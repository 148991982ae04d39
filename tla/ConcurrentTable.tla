--------------------------- MODULE ConcurrentTable ---------------------------
(***************************************************************************)
(* foa::concurrent_table, the table under the concurrent containers: the   *)
(* group metadata, overflow bytes, group locks and insertion counters, the *)
(* atomic size and maximum load, and the operations that race on them --   *)
(* lookup, optimistic insertion, erasure, visitation in bulk and of the    *)
(* whole table, clearing, reserving and rehashing.                         *)
(*                                                                         *)
(* An action is one access to shared memory, or the accesses a thread      *)
(* makes to a group while it holds that group's lock.  The two levels of   *)
(* locks appear as what they promise (RWLock, ContainerLock): who holds    *)
(* which is a function of where the threads are.                           *)
(***************************************************************************)
EXTENDS TableArrays, Sequences

CONSTANTS
  Threads, Keys,
  Hash,           \* the hash of each key
  Modes,          \* the group access of visitation: "shared" or "exclusive"
  Clients,        \* the operations each thread calls
  BulkVisitSize,  \* bulk visitation takes fewer than twice as many keys at a time
  MayThrow,       \* constructors, hash and visitation functions may throw
  MoveOnRehash    \* elements are moved, not copied, to new arrays

ASSUME HashAssumption == NoKey \notin Keys /\ Hash \in [Keys -> Hashes]
KeyOps == {"insert", "visit", "erase"}
Sweeps == {"visit_while", "erase_if"}

ASSUME ClientsAssumption ==
  /\ Modes \subseteq {"shared", "exclusive"} /\ BulkVisitSize \in Nat \ {0}
  /\ Clients \in [Threads -> SUBSET (KeyOps \cup Sweeps \cup {"bulk", "clear", "reserve", "assign"})]
  /\ MayThrow \in BOOLEAN /\ MoveOnRehash \in BOOLEAN

ASSUME FiniteAssumption == IsFiniteSet(Threads) /\ IsFiniteSet(Keys)

\* There are arrays of the sizes that growing and reserving can ask for.
ASSUME EnoughGroupsAssumption ==
  LET keys == Cardinality(Keys)
  IN  \E g \in GroupCounts : N * g > 2 * N /\ N * g > SlotsFor(keys + keys \div 61 + 1)

VARIABLES
  arrays,      \* groups: metadata, elements and overflow bits
  newArrays,   \* the arrays being filled by a rehash
  cursor,      \* the slots of the old arrays already transferred
  size,        \* size_ctrl.size
  ml,          \* size_ctrl.ml, the maximum load
  pc, op, key, \* where each thread is, in which operation, on which key
  res,         \* its outcome, once decided
  loc,         \* its local variables
  moved,       \* the threads whose insertion counter is no longer what they read
  missed,      \* history: the keys each asks for that were missing since its call
  unmet        \* history: the keys each sweep has not met since they came in

sharedVars == <<arrays, newArrays, cursor, size, ml>>
threadVars == <<pc, op, key, res, loc, moved>>
vars == <<arrays, newArrays, cursor, size, ml, pc, op, key, res, loc, moved, missed, unmet>>

Home(a, k) == Position(a, Hash[k])
Contents == Elements(arrays) \cup Elements(newArrays)

-----------------------------------------------------------------------------
(* Locks *)

\* Mutant: elements are constructed after the group is unlocked.
HoldingGroupUnlessConstructing == {"visiting", "erase_ml", "erase_meta", "erase_size",
                                   "bump", "rollback_slot", "sweep_slot"}

HoldingGroup == {"visiting", "erase_ml", "erase_meta", "erase_size",
                 "bump", "construct", "rollback_slot", "sweep_slot"}
Searching    == {"match", "compare", "check_overflow"}
Visiting     == {"sweep", "bulk_match", "bulk_next"}
Reserved     == {"check_size", "undo_size", "probe", "bump", "construct",
                 "rollback_slot", "rollback_size"}
Inside       == {"read_counter", "reserve_size", "leave"}
                \cup Searching \cup Reserved \cup HoldingGroup \cup Visiting
Outside      == {"idle", "enter", "clear_enter", "rehash_enter", "reserve_enter", "done"}

\* Threads with the container's lock, in shared and in exclusive mode.
InsideThreads == {t \in Threads : pc[t] \in Inside}
Rehashing     == {t \in Threads : pc[t] = "rehash_move"}
CanEnter          == Rehashing = {}
CanEnterExclusive == Rehashing = {} /\ InsideThreads = {}

\* The group a thread is at, and the mode in which it holds its lock.
At(t) == IF op[t] \in Sweeps THEN loc[t].step
         ELSE Probe(arrays, Home(arrays, key[t]), loc[t].step)
Holds(t, g) == pc[t] \in HoldingGroup /\ At(t) = g
LockMode(t) ==
  IF pc[t] = "sweep_slot" \/ (pc[t] = "visiting" /\ res[t] = "found") THEN loc[t].mode
  ELSE "exclusive"
CanLock(g, mode) ==
  \A t \in Threads : Holds(t, g) => mode = "shared" /\ LockMode(t) = "shared"

-----------------------------------------------------------------------------
(* Control *)

NoLocals(mode) ==
  [mode |-> mode, step |-> 0, scan |-> {}, mask |-> {}, slot |-> 0, ticket |-> 0,
   todo |-> <<>>, batch |-> <<>>]

Goto(t, to) == pc' = [pc EXCEPT ![t] = to]

\* Local steps leave everything but pc and the local variables.
Local(t, to, l) ==
  /\ Goto(t, to)
  /\ loc' = [loc EXCEPT ![t] = l]
  /\ UNCHANGED <<sharedVars, op, key, res, moved>>

Init ==
  /\ arrays = DummyArrays /\ newArrays = DummyArrays /\ cursor = 0
  /\ size = 0 /\ ml = 0
  /\ pc  = [t \in Threads |-> "idle"]
  /\ op  = [t \in Threads |-> "none"]
  /\ key = [t \in Threads |-> NoKey]
  /\ res = [t \in Threads |-> "none"]
  /\ loc = [t \in Threads |-> NoLocals("shared")]
  /\ moved = {}
  /\ missed = [t \in Threads |-> {}]
  /\ unmet  = [t \in Threads |-> {}]

\* The keys of a bulk visit that have no answer yet, but for the current one.
KeysLeft(l) == {l.todo[i] : i \in DOMAIN l.todo} \cup {l.batch[i].key : i \in DOMAIN l.batch}

\* History: operations in progress watch the elements each step leaves.
Asked(o, k, l, r) ==
  (IF r # "none" THEN {} ELSE IF o \in Sweeps THEN Keys ELSE {k} \cap Keys) \cup KeysLeft(l)
Met(t) ==
  IF pc[t] = "sweep_slot" /\ <<pc'[t], loc'[t]>> # <<pc[t], loc[t]>>
  THEN {arrays.elem[At(t)][Lowest(loc[t].mask)]} ELSE {}
Watch ==
  /\ missed' = [t \in Threads |-> {k \in Asked(op'[t], key'[t], loc'[t], res'[t]) :
                                     k \in missed[t] \/ k \notin Contents'}]
  /\ unmet' = [t \in Threads |->
                 IF op'[t] \notin Sweeps \/ res'[t] # "none" THEN {}
                 ELSE IF op[t] = "none" THEN Keys
                 ELSE (unmet[t] \ Met(t)) \cup (Contents' \ Contents)]

\* The arguments of bulk visits: no keys, or all of them in any order.
Ranges == {<<>>} \cup {ks \in [1 .. Cardinality(Keys) -> Keys] :
                         \A i, j \in DOMAIN ks : ks[i] = ks[j] => i = j}

\* The operation o, one of those t does, is called on key k.
CallWith(t, o, k, l, to) ==
  /\ o \in Clients[t]
  /\ op' = [op EXCEPT ![t] = o]
  /\ key' = [key EXCEPT ![t] = k]
  /\ loc' = [loc EXCEPT ![t] = l]
  /\ Goto(t, to)
  /\ UNCHANGED <<sharedVars, res, moved>>
\* Groups are accessed by the mode m.
CallKey(t, o, m)   == \E k \in Keys : CallWith(t, o, k, NoLocals(m), "enter")
CallSweep(t, o, m) == CallWith(t, o, NoKey, NoLocals(m), "enter")

\* insert_or_assign assigns in an exclusive visit, insert and emplace have
\* nothing to do to an element they find, and the calls of a range follow one
\* another.
CallInsert(t)         == CallKey(t, "insert", "shared")
CallInsertOrAssign(t) == "assign" \in Clients[t] /\ CallKey(t, "insert", "exclusive")
\* What is found is visited, by the c... functions as a constant.
CallInsertOrVisit(t)  == \E m \in Modes : CallKey(t, "insert", m)
CallEmplaceOrVisit(t) == \E m \in Modes : CallKey(t, "insert", m)
CallTryEmplace(t)     == \E m \in Modes : CallKey(t, "insert", m)
\* The new element is visited too, before its group is unlocked.
CallInsertAndVisit(t) == \E m \in Modes : CallKey(t, "insert", m)

CallVisit(t)      == \E m \in Modes : CallKey(t, "visit", m)
CallContains(t)   == CallKey(t, "visit", "shared")
CallBulkVisit(t)  ==
  \E m \in Modes, ks \in Ranges :
    CallWith(t, "bulk", NoKey, [NoLocals(m) EXCEPT !.todo = ks], "enter")
\* visit_all is a visit_while whose function is always true.
CallVisitAll(t)   == \E m \in Modes : CallSweep(t, "visit_while", m)
CallVisitWhile(t) == \E m \in Modes : CallSweep(t, "visit_while", m)

\* erase is an erase_if whose function is always true.
CallErase(t)   == CallKey(t, "erase", "exclusive")
CallEraseIf(t) == CallSweep(t, "erase_if", "exclusive")
CallClear(t)   == CallWith(t, "clear", NoKey, loc[t], "clear_enter")
CallReserve(t) == CallWith(t, "reserve", NoKey, loc[t], "reserve_enter")

Call(t) ==
  /\ pc[t] = "idle"
  /\ \/ CallInsert(t) \/ CallInsertOrAssign(t) \/ CallInsertOrVisit(t)
     \/ CallInsertAndVisit(t) \/ CallEmplaceOrVisit(t) \/ CallTryEmplace(t)
     \/ CallVisit(t) \/ CallContains(t) \/ CallBulkVisit(t)
     \/ CallVisitAll(t) \/ CallVisitWhile(t)
     \/ CallErase(t) \/ CallEraseIf(t) \/ CallClear(t) \/ CallReserve(t)

\* shared_access(), and what each operation does first.
EnterFor(t, ops, to) == pc[t] = "enter" /\ op[t] \in ops /\ CanEnter /\ Local(t, to, loc[t])
EnterInsert(t) == EnterFor(t, {"insert"}, "read_counter")
EnterVisit(t)  == EnterFor(t, {"visit"}, "match")
EnterErase(t)  == EnterFor(t, {"erase"}, "match")
EnterSweep(t)  == EnterFor(t, Sweeps, "sweep")
EnterBulk(t)   == EnterFor(t, {"bulk"}, "bulk_next")
Enter(t) == EnterInsert(t) \/ EnterVisit(t) \/ EnterErase(t) \/ EnterSweep(t) \/ EnterBulk(t)

\* The operation returns or throws; what is still locked of the container is
\* released.
Leave(t) ==
  /\ pc[t] \in {"leave", "done"}
  /\ Goto(t, "idle")
  /\ op' = [op EXCEPT ![t] = "none"]
  /\ key' = [key EXCEPT ![t] = NoKey]
  /\ res' = [res EXCEPT ![t] = "none"]
  /\ loc' = [loc EXCEPT ![t] = NoLocals("shared")]
  /\ moved' = moved \ {t}
  /\ UNCHANGED sharedVars

\* The outcome of t is r; it goes on at to.
Decide(t, r, to) ==
  /\ res' = [res EXCEPT ![t] = r]
  /\ Goto(t, to)

-----------------------------------------------------------------------------
(* Lookup *)

\* A bulk visit goes on to its next key.
Answered(t) == IF op[t] = "bulk" THEN "bulk_next" ELSE "leave"

\* The metadata is read without a lock, slot after slot in any order, while the
\* other threads write it.
MatchSlot(t) ==
  /\ pc[t] = "match"
  /\ \E n \in Slots \ loc[t].scan :
     LET hit  == arrays.meta[At(t)][n] = Hash[key[t]].tag
         mask == IF hit THEN loc[t].mask \cup {n} ELSE loc[t].mask
         scan == loc[t].scan \cup {n}
     IN  IF scan # Slots
         THEN Local(t, "match", [loc[t] EXCEPT !.scan = scan, !.mask = mask])
         ELSE Local(t, IF mask = {} THEN "check_overflow" ELSE "compare",
                       [loc[t] EXCEPT !.scan = {}, !.mask = mask])

\* Mutant: the occupation of the matched slots is not checked again.
ComparedUnchecked(t) == loc[t].mask

\* Under the group's lock the matched slots are looked at again, and compared
\* if they are still occupied.
Compared(t) == {n \in loc[t].mask : arrays.meta[At(t)][n] # Available}
Hits(t) == {n \in Compared(t) : arrays.elem[At(t)][n] = key[t]}

CompareMisses(t) ==
  /\ pc[t] = "compare" /\ CanLock(At(t), loc[t].mode) /\ Hits(t) = {}
  /\ Local(t, "check_overflow", [loc[t] EXCEPT !.mask = {}])

\* The visitation function is called under the group's lock.
CompareFinds(t) ==
  /\ pc[t] = "compare" /\ op[t] # "erase" /\ CanLock(At(t), loc[t].mode)
  /\ Hits(t) # {}
  /\ Decide(t, "found", "visiting")
  /\ loc' = [loc EXCEPT ![t].mask = {}, ![t].slot = Lowest(Hits(t))]
  /\ UNCHANGED <<sharedVars, op, key, moved>>

FinishVisit(t) == pc[t] = "visiting" /\ Local(t, Answered(t), loc[t])

\* Mutant: the search ends at the first group.
CheckOverflowFirstGroup(t) ==
  /\ pc[t] = "check_overflow"
  /\ \/ op[t] = "insert" /\ Local(t, "reserve_size", [loc[t] EXCEPT !.step = 0])
     \/ op[t] # "insert" /\ Decide(t, "missing", Answered(t))
        /\ UNCHANGED <<sharedVars, op, key, loc, moved>>

\* The overflow byte is read after the lock is released.
CheckOverflow(t) ==
  LET tag == Hash[key[t]].tag
      more == ~NotOverflowed(arrays, At(t), tag) /\ loc[t].step + 1 < arrays.groups
  IN
  /\ pc[t] = "check_overflow"
  /\ \/ more /\ Local(t, "match", [loc[t] EXCEPT !.step = @ + 1])
     \/ ~more /\ op[t] = "insert" /\ Local(t, "reserve_size", [loc[t] EXCEPT !.step = 0])
     \/ ~more /\ op[t] # "insert" /\ Decide(t, "missing", Answered(t))
        /\ UNCHANGED <<sharedVars, op, key, loc, moved>>

-----------------------------------------------------------------------------
(* Erasure: the element is destroyed and its slot recovered, group locked *)

\* erase_if: the predicate says no.
KeepElement(t) ==
  /\ pc[t] = "compare" /\ op[t] = "erase" /\ CanLock(At(t), loc[t].mode)
  /\ Hits(t) # {}
  /\ Decide(t, "kept", "leave")
  /\ UNCHANGED <<sharedVars, op, key, loc, moved>>

\* A sweep goes on to the next slot it has to visit or to the next group.
AfterSlot(mask) == IF mask = {} THEN "sweep" ELSE "sweep_slot"

DestroyElement(t) ==
  /\ pc[t] = "compare" /\ op[t] = "erase" /\ CanLock(At(t), loc[t].mode)
  /\ Hits(t) # {}
  /\ LET n == Lowest(Hits(t)) IN
       /\ arrays' = SetElem(arrays, At(t), n, NoKey)
       /\ loc' = [loc EXCEPT ![t].mask = {}, ![t].slot = n]
  /\ Decide(t, "erased", "erase_ml")
  /\ UNCHANGED <<newArrays, cursor, size, ml, op, key, moved>>

\* The anti-drift mechanism: a slot that may have caused overflow lowers ml.
LowerMaxLoad(t) ==
  /\ pc[t] = "erase_ml"
  /\ ml' = IF MaybeCausedOverflow(arrays, At(t), loc[t].slot) THEN ml - 1 ELSE ml
  /\ Goto(t, "erase_meta")
  /\ UNCHANGED <<arrays, newArrays, cursor, size, op, key, res, loc, moved>>

ResetSlot(t) ==
  /\ pc[t] = "erase_meta"
  /\ arrays' = SetMeta(arrays, At(t), loc[t].slot, Available)
  /\ Goto(t, "erase_size")
  /\ UNCHANGED <<newArrays, cursor, size, ml, op, key, res, loc, moved>>

DecreaseSize(t) ==
  /\ pc[t] = "erase_size"
  /\ size' = size - 1
  /\ Goto(t, IF op[t] = "erase_if" THEN AfterSlot(loc[t].mask) ELSE "leave")
  /\ UNCHANGED <<arrays, newArrays, cursor, ml, op, key, res, loc, moved>>

-----------------------------------------------------------------------------
(* Visitation of the whole table *)

\* Mutant: the sweep ends at an empty group.
SweepGroupsInUse(t) ==
  /\ pc[t] = "sweep" /\ arrays.built
  /\ \E g \in Groups(arrays) \ loc[t].scan :
     LET mask == {n \in Slots : <<g, n>> \in MatchReallyOccupied(arrays)} IN
     /\ CanLock(g, loc[t].mode)
     /\ Local(t, AfterSlot(mask),
              [loc[t] EXCEPT !.scan = IF mask = {} THEN Groups(arrays) ELSE @ \cup {g},
                             !.step = g, !.mask = mask])

\* One group after the other, in any order as under an execution policy (in
\* order without): the occupied slots are looked up and visited under the lock.
\* (visit_all is a visit_while whose function always returns true.)
SweepGroup(t) ==
  /\ pc[t] = "sweep" /\ arrays.built
  /\ \E g \in Groups(arrays) \ loc[t].scan :
     LET mask == {n \in Slots : <<g, n>> \in MatchReallyOccupied(arrays)} IN
     /\ CanLock(g, loc[t].mode)
     /\ Local(t, AfterSlot(mask),
              [loc[t] EXCEPT !.scan = @ \cup {g}, !.step = g, !.mask = mask])

\* The function is called on the lowest slot left, and the sweep goes on.
SweepSlot(t) ==
  /\ pc[t] = "sweep_slot"
  /\ LET rest == loc[t].mask \ {Lowest(loc[t].mask)}
     IN  Local(t, AfterSlot(rest), [loc[t] EXCEPT !.mask = rest])

\* The predicate of erase_if holds of the element: it is erased on the spot.
SweepErases(t) ==
  /\ pc[t] = "sweep_slot" /\ op[t] = "erase_if"
  /\ LET n == Lowest(loc[t].mask) IN
       /\ arrays' = SetElem(arrays, At(t), n, NoKey)
       /\ loc' = [loc EXCEPT ![t].mask = @ \ {n}, ![t].slot = n]
  /\ Goto(t, "erase_ml")
  /\ UNCHANGED <<newArrays, cursor, size, ml, op, key, res, moved>>

\* The function of visit_while returns false or throws, or the predicate of
\* erase_if throws.
SweepStops(t) ==
  /\ pc[t] = "sweep_slot"
  /\ Decide(t, IF op[t] = "visit_while" THEN "stopped" ELSE "threw", "leave")
  /\ UNCHANGED <<sharedVars, op, key, loc, moved>>

SweepEnds(t) ==
  /\ pc[t] = "sweep" /\ (arrays.built => Groups(arrays) = loc[t].scan)
  /\ Decide(t, "swept", "leave")
  /\ UNCHANGED <<sharedVars, op, key, loc, moved>>

-----------------------------------------------------------------------------
(* Bulk visitation: what matches in the first group of each key of a batch is *)
(* recorded before the first key is looked up.                                *)

BatchSize(n) == IF n < 2 * BulkVisitSize THEN n ELSE BulkVisitSize

NextBatch(t) ==
  /\ pc[t] = "bulk_next" /\ loc[t].batch = <<>> /\ loc[t].todo # <<>>
  /\ LET n == BatchSize(Len(loc[t].todo)) IN
     Local(t, "bulk_match",
           [loc[t] EXCEPT !.batch = [i \in 1 .. n |-> [key |-> loc[t].todo[i], mask |-> {}]],
                          !.todo = SubSeq(@, n + 1, Len(@)), !.step = 1, !.scan = {}])

BulkMatchSlot(t) ==
  /\ pc[t] = "bulk_match"
  /\ \E n \in Slots \ loc[t].scan :
     LET i == loc[t].step
         k == loc[t].batch[i].key
         hit == arrays.meta[Home(arrays, k)][n] = Hash[k].tag
         l == [loc[t] EXCEPT !.batch[i].mask = IF hit THEN @ \cup {n} ELSE @]
     IN  IF loc[t].scan \cup {n} # Slots
         THEN Local(t, "bulk_match", [l EXCEPT !.scan = @ \cup {n}])
         ELSE Local(t, IF i = Len(l.batch) THEN "bulk_next" ELSE "bulk_match",
                       [l EXCEPT !.scan = {}, !.step = i + 1])

\* The lookup of a key starts from the slots recorded for it.
NextKey(t) ==
  /\ pc[t] = "bulk_next" /\ loc[t].batch # <<>>
  /\ LET first == Head(loc[t].batch) IN
     /\ key' = [key EXCEPT ![t] = first.key]
     /\ loc' = [loc EXCEPT ![t].batch = Tail(@), ![t].step = 0, ![t].mask = first.mask]
     /\ Goto(t, IF first.mask = {} THEN "check_overflow" ELSE "compare")
  /\ res' = [res EXCEPT ![t] = "none"]
  /\ UNCHANGED <<sharedVars, op, moved>>

BulkEnds(t) ==
  /\ pc[t] = "bulk_next" /\ loc[t].batch = <<>> /\ loc[t].todo = <<>>
  /\ Local(t, "leave", loc[t])

-----------------------------------------------------------------------------
(* Optimistic insertion *)

\* The counter is recorded: from here on increments by others are noticed.
ReadCounter(t) ==
  /\ pc[t] = "read_counter"
  /\ Goto(t, "match")
  /\ loc' = [loc EXCEPT ![t] = NoLocals(loc[t].mode)]
  /\ moved' = moved \ {t}
  /\ UNCHANGED <<sharedVars, op, key, res>>

ReserveSize(t) ==
  /\ pc[t] = "reserve_size"
  /\ size' = size + 1
  /\ loc' = [loc EXCEPT ![t].ticket = size + 1]
  /\ Goto(t, "check_size")
  /\ UNCHANGED <<arrays, newArrays, cursor, ml, op, key, res, moved>>

\* Mutant: one reservation too many.
CheckSizeOffByOne(t) ==
  /\ pc[t] = "check_size"
  /\ Local(t, IF loc[t].ticket <= ml + 1 THEN "probe" ELSE "undo_size",
              [loc[t] EXCEPT !.ticket = 0])

CheckSize(t) ==
  /\ pc[t] = "check_size"
  /\ Local(t, IF loc[t].ticket <= ml THEN "probe" ELSE "undo_size",
              [loc[t] EXCEPT !.ticket = 0])

\* Mutant: the reservation is kept.
UndoSizeForgotten(t) ==
  /\ pc[t] = "undo_size"
  /\ Goto(t, "rehash_enter")
  /\ loc' = [loc EXCEPT ![t] = NoLocals(loc[t].mode)]
  /\ moved' = moved \ {t}
  /\ UNCHANGED <<sharedVars, op, key, res>>

\* No room: the reservation and the container lock are released.
UndoSize(t) ==
  /\ pc[t] = "undo_size"
  /\ size' = size - 1
  /\ Goto(t, "rehash_enter")
  /\ loc' = [loc EXCEPT ![t] = NoLocals(loc[t].mode)]
  /\ moved' = moved \ {t}
  /\ UNCHANGED <<arrays, newArrays, cursor, ml, op, key, res>>

\* Mutant: the full groups passed are not marked.
ProbeGroupUnmarked(t) ==
  /\ pc[t] = "probe" /\ CanLock(At(t), "exclusive")
  /\ LET free == MatchAvailable(arrays, At(t)) IN
     IF free = {}
     THEN loc' = [loc EXCEPT ![t].step = (@ + 1) % (2 * arrays.groups)]
          /\ UNCHANGED <<arrays, pc>>
     ELSE /\ arrays' = SetMeta(arrays, At(t), Lowest(free), Hash[key[t]].tag)
          /\ loc' = [loc EXCEPT ![t].slot = Lowest(free)]
          /\ Goto(t, "bump")
  /\ UNCHANGED <<newArrays, cursor, size, ml, op, key, res, moved>>

\* A full group is marked and left; an available slot is occupied at once and
\* the group stays locked.  The loop has no end: it goes round the table.
ProbeGroup(t) ==
  /\ pc[t] = "probe" /\ CanLock(At(t), "exclusive")
  /\ LET free == MatchAvailable(arrays, At(t)) IN
     IF free = {}
     THEN /\ arrays' = MarkOverflow(arrays, At(t), Hash[key[t]].tag)
          /\ loc' = [loc EXCEPT ![t].step = (@ + 1) % (2 * arrays.groups)]
          /\ UNCHANGED pc
     ELSE /\ arrays' = SetMeta(arrays, At(t), Lowest(free), Hash[key[t]].tag)
          /\ loc' = [loc EXCEPT ![t].slot = Lowest(free)]
          /\ Goto(t, "bump")
  /\ UNCHANGED <<newArrays, cursor, size, ml, op, key, res, moved>>

\* insert_counter(pos0)++: whoever has recorded this counter will notice.
SameCounter(t, u) == Home(arrays, key[t]) = Home(arrays, key[u])
Recorded(u) == /\ op[u] = "insert"
               /\ pc[u] \in Searching \cup {"reserve_size", "check_size", "probe", "bump"}

\* Mutant: the previous value of the counter is not looked at.
BumpCounterBlind(t) ==
  /\ pc[t] = "bump"
  /\ moved' = (moved \cup {u \in Threads : Recorded(u) /\ SameCounter(t, u)}) \ {t}
  /\ Goto(t, "construct")
  /\ UNCHANGED <<sharedVars, op, key, res, loc>>

BumpCounter(t) ==
  /\ pc[t] = "bump"
  /\ moved' = (moved \cup {u \in Threads : Recorded(u) /\ SameCounter(t, u)}) \ {t}
  /\ Goto(t, IF t \in moved THEN "rollback_slot" ELSE "construct")
  /\ UNCHANGED <<sharedVars, op, key, res, loc>>

\* The element is there from now on, and visited before the lock is released.
Construct(t) ==
  /\ pc[t] = "construct"
  /\ arrays' = SetElem(arrays, At(t), loc[t].slot, key[t])
  /\ Decide(t, "inserted", "visiting")
  /\ UNCHANGED <<newArrays, cursor, size, ml, op, key, loc, moved>>

ConstructThrows(t) ==
  /\ MayThrow /\ pc[t] = "construct"
  /\ Decide(t, "threw", "rollback_slot")
  /\ UNCHANGED <<sharedVars, op, key, loc, moved>>

RollbackSlot(t) ==
  /\ pc[t] = "rollback_slot"
  /\ arrays' = SetMeta(arrays, At(t), loc[t].slot, Available)
  /\ Goto(t, "rollback_size")
  /\ UNCHANGED <<newArrays, cursor, size, ml, op, key, res, loc, moved>>

\* Start over, or leave with the exception.
RollbackSize(t) ==
  /\ pc[t] = "rollback_size"
  /\ size' = size - 1
  /\ Goto(t, IF res[t] = "threw" THEN "leave" ELSE "read_counter")
  /\ loc' = [loc EXCEPT ![t] = NoLocals(loc[t].mode)]
  /\ UNCHANGED <<arrays, newArrays, cursor, ml, op, key, res, moved>>

-----------------------------------------------------------------------------
(* Operations under exclusive access *)

\* rehash_if_full: another thread may have rehashed, or elements been erased.
SkipRehash(t) ==
  /\ pc[t] = "rehash_enter" /\ CanEnterExclusive
  /\ size # ml
  /\ Local(t, "enter", loc[t])

StartRehash(t) ==
  /\ pc[t] = "rehash_enter" /\ CanEnterExclusive
  /\ size = ml
  /\ newArrays' = GrowthArrays(size)
  /\ Goto(t, "rehash_move")
  /\ UNCHANGED <<arrays, cursor, size, ml, op, key, res, loc, moved>>

\* rehash(n), or reserve() of as much, where n is none or more than the smallest
\* arrays have: nothing to do, or a transfer to arrays for n or for the elements.
RehashArguments == {0, 2 * N}
RehashCapacity(n) ==
  LET m == Max({n, SlotsFor(size)}) IN IF m = 0 THEN 0 ELSE CapacityFor(m)

ReserveTable(t) ==
  /\ pc[t] = "reserve_enter" /\ CanEnterExclusive
  /\ \E n \in RehashArguments :
     IF RehashCapacity(n) = Capacity(arrays)
     THEN Decide(t, "reserved", "done") /\ UNCHANGED newArrays
     ELSE /\ newArrays' = ArraysFor(RehashCapacity(n))
          /\ Goto(t, "rehash_move") /\ UNCHANGED res
  /\ UNCHANGED <<arrays, cursor, size, ml, op, key, loc, moved>>

\* The slot the transfer has come to, and the groups its key would try.
CursorGroup == cursor \div N
CursorSlot  == cursor % N
InOldArrays == CursorGroup < arrays.groups
NextElement == arrays.elem[CursorGroup][CursorSlot]

TransferElement(t) ==
  /\ pc[t] = "rehash_move" /\ InOldArrays
  /\ cursor' = cursor + 1
  /\ IF NextElement = NoKey THEN UNCHANGED <<arrays, newArrays>>
     ELSE /\ newArrays' = Emplaced(newArrays, Hash[NextElement], NextElement)
          /\ arrays' = IF MoveOnRehash
                       THEN SetElem(arrays, CursorGroup, CursorSlot, NoKey)
                       ELSE arrays
  /\ UNCHANGED <<size, ml, pc, op, key, res, loc, moved>>

\* An insertion starts over.
AfterRehash(t) ==
  IF op[t] = "insert" THEN Goto(t, "enter") /\ UNCHANGED res ELSE Decide(t, "reserved", "done")

\* Mutant: the maximum load stays that of the old arrays.
FinishRehashKeepsMaxLoad(t) ==
  /\ pc[t] = "rehash_move" /\ ~InOldArrays
  /\ arrays' = newArrays
  /\ newArrays' = DummyArrays
  /\ cursor' = 0
  /\ AfterRehash(t)
  /\ UNCHANGED <<size, ml, op, key, loc, moved>>

FinishRehash(t) ==
  /\ pc[t] = "rehash_move" /\ ~InOldArrays
  /\ arrays' = newArrays
  /\ newArrays' = DummyArrays
  /\ cursor' = 0
  /\ ml' = InitialMaxLoad(newArrays)
  /\ AfterRehash(t)
  /\ UNCHANGED <<size, op, key, loc, moved>>

\* The first s slots, those whose element has been moved away.
Destroyed(s) ==
  {p \in MatchReallyOccupied(arrays) : MoveOnRehash /\ p[1] * N + p[2] < s}

\* The hash function throws, or the element's construction, which destroys an
\* element that was being moved: the slots emptied so far are recovered and the
\* new arrays thrown away.
TransferThrows(t) ==
  /\ MayThrow /\ pc[t] = "rehash_move" /\ InOldArrays /\ NextElement # NoKey
  /\ \E s \in {cursor, cursor + 1} :
     /\ arrays' = WithoutSlots(arrays, Destroyed(s))
     /\ ml' = ml - Drift(arrays, Destroyed(s))
     /\ size' = size - Cardinality(Destroyed(s))
  /\ newArrays' = DummyArrays
  /\ cursor' = 0
  /\ Decide(t, "threw", "done")
  /\ UNCHANGED <<op, key, loc, moved>>

\* clear() under exclusive access, taken and released.
ClearTable(t) ==
  /\ pc[t] = "clear_enter" /\ CanEnterExclusive
  /\ arrays' = ClearedArrays(arrays)
  /\ ml' = InitialMaxLoad(arrays)
  /\ size' = 0
  /\ Decide(t, "cleared", "done")
  /\ UNCHANGED <<newArrays, cursor, op, key, loc, moved>>

-----------------------------------------------------------------------------
Search(t) == MatchSlot(t) \/ CompareMisses(t) \/ CompareFinds(t) \/ FinishVisit(t)
             \/ CheckOverflow(t)
Sweep(t) == SweepGroup(t) \/ SweepSlot(t) \/ SweepErases(t) \/ SweepStops(t) \/ SweepEnds(t)
BulkVisit(t) == NextBatch(t) \/ BulkMatchSlot(t) \/ NextKey(t) \/ BulkEnds(t)

\* Mutant: recover_slot decreases the size before the maximum load.
EraseStepSizeFirst(t) ==
  \/ KeepElement(t) \/ DestroyElement(t)
  \/ /\ pc[t] = "erase_ml" /\ size' = size - 1 /\ Goto(t, "erase_meta")
     /\ UNCHANGED <<arrays, newArrays, cursor, ml, op, key, res, loc, moved>>
  \/ /\ pc[t] = "erase_meta" /\ Goto(t, "erase_size")
     /\ ml' = IF MaybeCausedOverflow(arrays, At(t), loc[t].slot) THEN ml - 1 ELSE ml
     /\ UNCHANGED <<arrays, newArrays, cursor, size, op, key, res, loc, moved>>
  \/ /\ pc[t] = "erase_size" /\ Goto(t, "leave")
     /\ arrays' = SetMeta(arrays, At(t), loc[t].slot, Available)
     /\ UNCHANGED <<newArrays, cursor, size, ml, op, key, res, loc, moved>>

EraseStep(t) == KeepElement(t) \/ DestroyElement(t) \/ LowerMaxLoad(t) \/ ResetSlot(t) \/ DecreaseSize(t)
InsertStep(t) ==
  \/ ReadCounter(t) \/ ReserveSize(t) \/ CheckSize(t) \/ UndoSize(t) \/ ProbeGroup(t)
  \/ BumpCounter(t) \/ Construct(t) \/ ConstructThrows(t)
  \/ RollbackSlot(t) \/ RollbackSize(t)
ExclusiveStep(t) ==
  \/ SkipRehash(t) \/ StartRehash(t) \/ TransferElement(t) \/ FinishRehash(t)
  \/ TransferThrows(t) \/ ReserveTable(t) \/ ClearTable(t)

Progress(t) == Enter(t) \/ Search(t) \/ EraseStep(t) \/ InsertStep(t) \/ Sweep(t)
               \/ BulkVisit(t) \/ ExclusiveStep(t) \/ Leave(t)
Next == (\E t \in Threads : Call(t) \/ Progress(t)) /\ Watch

Spec == Init /\ [][Next]_vars

\* Every thread inside an operation is scheduled; a thread waiting for the
\* exclusive lock gets it if it is free again and again; calls stop some day.
Fairness ==
  /\ \A t \in Threads : /\ WF_<<sharedVars, threadVars>>(Progress(t))
                        /\ SF_<<sharedVars, threadVars>>(ExclusiveStep(t))
  /\ <>[][\A t \in Threads : ~Call(t)]_vars
FairSpec == Spec /\ Fairness

-----------------------------------------------------------------------------
(* Properties *)

\* Of threads inserting the same key at the same time, one succeeds: no key is
\* ever in two slots.  Nothing but the insertion counter prevents it.
NoDuplicates ==
  \A a \in {arrays, newArrays} : \A g, h \in Groups(a), m, n \in Slots :
    a.elem[g][m] = a.elem[h][n] /\ a.elem[g][m] # NoKey => g = h /\ m = n

\* Lookup stops at the first group that is not overflowed for the hash, so each
\* element needs the mark in all the groups of its probe sequence before its own.
Findable ==
  \A a \in {arrays, newArrays} : \A g \in Groups(a), n \in Slots :
    LET k == a.elem[g][n] IN k # NoKey => <<g, n>> \in Found(a, Hash[k], k)

\* A lookup compares only elements that are alive: it has read the metadata long
\* before it got the group's lock, and the slots may have been emptied or taken
\* again for elements under construction.
ComparesLiveElements ==
  \A t \in Threads : pc[t] = "compare" /\ CanLock(At(t), loc[t].mode) =>
    \A n \in Compared(t) : arrays.elem[At(t)][n] # NoKey

\* The atomic size counts the elements, plus the reservations not yet turned
\* into elements or given back, plus the erasures that have yet to decrease it.
SizeAccounts ==
  size = Cardinality(Contents)
       + Cardinality({t \in Threads : pc[t] \in Reserved})
       + Cardinality({t \in Threads : pc[t] \in {"erase_ml", "erase_meta", "erase_size"}})

\* rehash_if_full tests size == ml: with a size beyond the maximum load the
\* insertion that found the table full would never rehash and retry for ever.
SizeWithinMaxLoad ==
  InsideThreads = {} => size <= ml /\ ml <= Capacity(arrays)

\* The search for a slot has no end but finding one: a slot is free for every
\* thread whose reservation was granted.
RoomForReserved ==
  Cardinality({t \in Threads : pc[t] = "probe"})
    <= Cardinality({p \in Places(arrays) : arrays.meta[p[1]][p[2]] = Available})

\* Once no new operation is called, those in progress come to an end.
OperationsReturn == \A t \in Threads : pc[t] # "idle" ~> pc[t] = "idle"

\* The table implements the set of ConcurrentSet.
Set == INSTANCE ConcurrentSet WITH
  set <- Contents,
  left <- [t \in Threads |-> KeysLeft(loc[t]) \cup unmet[t]],
  MayLose <- MayThrow /\ MoveOnRehash
ImplementsSet == Set!Spec
=============================================================================
