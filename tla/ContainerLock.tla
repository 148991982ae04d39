---------------------------- MODULE ContainerLock ----------------------------
(***************************************************************************)
(* The container-level lock of foa::concurrent_table: an array of          *)
(* rw_spinlocks used as one reader-writer lock.  A shared access locks the *)
(* mutex of its thread, an exclusive one all of them in order, an access   *)
(* to two tables both arrays in the order of their addresses.  Visitation  *)
(* functions run with a shared access and a group lock and may operate on  *)
(* other containers; entry traces detect those that go back to their own.  *)
(*                                                                         *)
(* Each mutex behaves as RWLock says: a writer that finds readers inside   *)
(* announces itself and keeps new readers out.                             *)
(***************************************************************************)
EXTENDS Naturals, Sequences, FiniteSets, FiniteSetsExt

CONSTANTS
  Threads,
  Tables,    \* the containers, by address
  NoTable,   \* a null pointer to a container
  M,         \* mutexes of a multimutex: 128 in the code
  Slot,      \* the mutex of each thread in shared access, thread_local id
  Nested,    \* <<x, y>>: visitation functions of x operate on y
  MaxDepth   \* bound: accesses nested in one thread

ASSUME ThreadsAssumption == IsFiniteSet(Threads)
ASSUME TablesAssumption == Tables \subseteq Nat /\ NoTable \notin Tables
ASSUME SlotAssumption   == M \in Nat \ {0} /\ Slot \in [Threads -> 0 .. M - 1]
ASSUME NestedAssumption == /\ Nested \subseteq Tables \X Tables
                           /\ \A x \in Tables : <<x, x>> \notin Nested
                           /\ MaxDepth \in Nat \ {0}

VARIABLES
  stack,    \* the accesses each thread has begun and not ended
  pending,  \* the mutexes with the writer_pending bit set
  header    \* the newest entry_trace of each thread

vars == <<stack, pending, header>>

-----------------------------------------------------------------------------
(* Which mutexes an access locks, in which order and mode *)

Request(x, i, mode) == [mutex |-> <<x, i>>, mode |-> mode]

\* The mutex of the thread, and then a group's: a table has one group, number M.
SharedPlan(t, x, mode) == <<Request(x, Slot[t], "shared"), Request(x, M, mode)>>

ExclusivePlan(x) == [i \in 1 .. M |-> Request(x, i - 1, "exclusive")]

\* Mutant: the two tables are locked in the order given.
BothPlanAsGiven(x, y) == ExclusivePlan(x) \o (IF x = y THEN <<>> ELSE ExclusivePlan(y))

BothPlan(x, y) ==
  IF x = y THEN ExclusivePlan(x)
  ELSE ExclusivePlan(Min({x, y})) \o ExclusivePlan(Max({x, y}))

-----------------------------------------------------------------------------
(* Entry traces: a list threaded through the accesses of a thread *)

Null == <<0, 0>>
Entry(px, next) == [px |-> px, next |-> next]

\* Mutant: the first entry is cleared before the second.
ClearedInOrder(f, h) ==
  LET h1 == f.tr1.next IN IF f.tr2.px = NoTable THEN h1 ELSE f.tr2.next

\* The header after the entries of an access are cleared, newest first.
Cleared(f, h) ==
  LET Clear(e, from) == IF e.px = NoTable THEN from ELSE e.next
  IN  Clear(f.tr1, Clear(f.tr2, h))

-----------------------------------------------------------------------------
(* Mutexes *)

Depth(t) == Len(stack[t])
Top(t)   == stack[t][Depth(t)]
SetTop(t, f) == stack' = [stack EXCEPT ![t][Depth(t)] = f]

\* A thread has what the accesses on its stack have been granted.
HasLocked(t, m, mode) ==
  \E d \in 1 .. Depth(t) : \E i \in 1 .. stack[t][d].got :
    stack[t][d].plan[i] = Request(m[1], m[2], mode)

Held(m, mode) == \E t \in Threads : HasLocked(t, m, mode)
\* Mutant: readers come in while a writer is inside.
GrantableToReaders(r) ==
  IF r.mode = "shared" THEN r.mutex \notin pending
  ELSE ~Held(r.mutex, "exclusive") /\ ~Held(r.mutex, "shared")

Grantable(r) ==
  /\ ~Held(r.mutex, "exclusive")
  /\ IF r.mode = "shared" THEN r.mutex \notin pending ELSE ~Held(r.mutex, "shared")

Waiting(t) == Depth(t) > 0 /\ ~Top(t).releasing /\ Top(t).got < Len(Top(t).plan)
Entered(t) == Depth(t) > 0 /\ ~Top(t).releasing /\ Top(t).got = Len(Top(t).plan)
Wanted(t)  == Top(t).plan[Top(t).got + 1]

-----------------------------------------------------------------------------
Init ==
  /\ stack = [t \in Threads |-> <<>>]
  /\ pending = {}
  /\ header = [t \in Threads |-> Null]

\* An operation is called by the thread, or by a visitation function.
MayBegin(t) == \/ Depth(t) = 0
               \/ Depth(t) < MaxDepth /\ Entered(t) /\ Top(t).kind = "visit"
MayAccess(t, x) == Depth(t) > 0 => <<Top(t).tr1.px, x>> \in Nested

\* The entries are traced before the first mutex is locked.
Push(t, kind, x, y, plan) ==
  LET d == Depth(t) + 1 IN
  /\ stack' = [stack EXCEPT ![t] = Append(@,
       [kind |-> kind, plan |-> plan, got |-> 0, releasing |-> FALSE,
        tr1 |-> Entry(x, header[t]),
        tr2 |-> Entry(IF y = x THEN NoTable ELSE y, <<d, 1>>)])]
  /\ header' = [header EXCEPT ![t] = IF y = x THEN <<d, 1>> ELSE <<d, 2>>]
  /\ UNCHANGED pending

\* visit, insert, erase..., with a callback under shared_access().
BeginShared(t, x) ==
  \E mode \in {"shared", "exclusive"} : Push(t, "visit", x, x, SharedPlan(t, x, mode))
\* clear, rehash..., under exclusive_access().
BeginExclusive(t, x) == Push(t, "exclusive", x, x, ExclusivePlan(x))
\* swap, merge, assignment and comparison under exclusive_access(x, y), where y
\* may be x itself.
BeginBoth(t, x) ==
  \E y \in Tables : MayAccess(t, y) /\ Push(t, "both", x, y, BothPlan(x, y))
Begin(t) ==
  /\ MayBegin(t)
  /\ \E x \in Tables :
     /\ MayAccess(t, x)
     /\ BeginShared(t, x) \/ BeginExclusive(t, x) \/ BeginBoth(t, x)

Acquire(t) ==
  /\ Waiting(t) /\ Grantable(Wanted(t))
  /\ SetTop(t, [Top(t) EXCEPT !.got = @ + 1])
  /\ pending' = IF Wanted(t).mode = "exclusive" THEN pending \ {Wanted(t).mutex} ELSE pending
  /\ UNCHANGED header

\* A writer that finds readers inside sets the writer_pending bit.
Announce(t) ==
  /\ Waiting(t) /\ Wanted(t).mode = "exclusive" /\ Wanted(t).mutex \notin pending
  /\ Held(Wanted(t).mutex, "shared")
  /\ pending' = pending \cup {Wanted(t).mutex}
  /\ UNCHANGED <<stack, header>>

\* The operation is over; its mutexes are unlocked in reverse order.
Finish(t) ==
  /\ Entered(t)
  /\ SetTop(t, [Top(t) EXCEPT !.releasing = TRUE])
  /\ UNCHANGED <<pending, header>>

Release(t) ==
  /\ Depth(t) > 0 /\ Top(t).releasing /\ Top(t).got > 0
  /\ SetTop(t, [Top(t) EXCEPT !.got = @ - 1])
  /\ UNCHANGED <<pending, header>>

\* The entries are cleared after the last mutex is unlocked.
End(t) ==
  /\ Depth(t) > 0 /\ Top(t).releasing /\ Top(t).got = 0
  /\ stack' = [stack EXCEPT ![t] = SubSeq(@, 1, Depth(t) - 1)]
  /\ header' = [header EXCEPT ![t] = Cleared(Top(t), @)]
  /\ UNCHANGED pending

Step(t) == Acquire(t) \/ Announce(t) \/ Finish(t) \/ Release(t) \/ End(t)
Next == \E t \in Threads : Begin(t) \/ Step(t)

Spec == Init /\ [][Next]_vars

\* Threads inside an operation are scheduled, and calls stop some day.
FairSpec == /\ Spec
            /\ \A t \in Threads : WF_vars(Step(t))
            /\ <>[][\A t \in Threads : ~Begin(t)]_vars

-----------------------------------------------------------------------------
(* Properties *)

\* The array of mutexes acts as one reader-writer lock: while a thread is inside
\* an exclusive operation on a table, or one on two, no other has access to it.
EnteredExclusive(t, x) == \A i \in 0 .. M - 1 : HasLocked(t, <<x, i>>, "exclusive")
EnteredShared(t, x)    == HasLocked(t, <<x, Slot[t]>>, "shared")

ContainerHold(x) == [t \in Threads |->
  IF EnteredExclusive(t, x) THEN "exclusive" ELSE IF EnteredShared(t, x) THEN "shared" ELSE "none"]

Container(x) == INSTANCE RWLock WITH
  hold <- ContainerHold(x), pending <- FALSE, MaxReaders <- Cardinality(Threads)

ImplementsRWLock ==
  /\ \A x \in Tables : Container(x)!Init
  /\ [][\A x \in Tables : [Container(x)!Next]_(Container(x)!vars)]_vars

\* The entry traces of a thread are exactly its accesses, newest first: no entry
\* is lost (reentrancy would go undetected) and none outlives its access.
Traced(t) == {n \in (1 .. Depth(t)) \X {1, 2} : n[2] = 1 \/ stack[t][n[1]].tr2.px # NoTable}
Before(m, n) == m[1] < n[1] \/ (m[1] = n[1] /\ m[2] < n[2])
Newest(S) == IF S = {} THEN Null ELSE CHOOSE n \in S : \A m \in S \ {n} : Before(m, n)
Linked(t, n) == IF n[2] = 1 THEN stack[t][n[1]].tr1.next ELSE stack[t][n[1]].tr2.next
TraceIsStack ==
  \A t \in Threads :
    /\ header[t] = Newest(Traced(t))
    /\ \A n \in Traced(t) : Linked(t, n) = Newest({m \in Traced(t) : Before(m, n)})

\* "Blocking is taken care of automatically by the library and the user need not
\* take any special precaution": every operation ends.
OperationsReturn == \A t \in Threads : Depth(t) > 0 ~> Depth(t) = 0
=============================================================================
