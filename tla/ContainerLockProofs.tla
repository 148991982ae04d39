-------------------------- MODULE ContainerLockProofs --------------------------
(***************************************************************************)
(* Proofs about the container-level lock, for any finite set of threads,   *)
(* any number of mutexes and of tables.                                    *)
(***************************************************************************)
EXTENDS ContainerLock, FiniteSetTheorems, TLAPS

-----------------------------------------------------------------------------
(* The inductive invariant *)

Mutexes  == Tables \X (0 .. M)
Modes    == {"shared", "exclusive"}
Requests == [mutex : Mutexes, mode : Modes]
Entries  == [px : Tables \cup {NoTable}, next : Nat \X Nat]
Accesses == [kind : {"visit", "exclusive", "both"}, plan : Seq(Requests), got : Nat,
             releasing : BOOLEAN, tr1 : Entries, tr2 : Entries]

TypeOK ==
  /\ stack \in [Threads -> Seq(Accesses)]
  /\ pending \in SUBSET Mutexes
  /\ header \in [Threads -> Nat \X Nat]

\* An access has been granted no more than it asks for.  All but the newest of a
\* thread are operations whose visitation function is running.
AccessOK(a) == a.got <= Len(a.plan) /\ a.tr1.px \in Tables
Visiting(a) == a.kind = "visit" /\ ~a.releasing /\ a.got = Len(a.plan)
AccessesOK(t) ==
  \A d \in 1 .. Depth(t) : AccessOK(stack[t][d]) /\ (d < Depth(t) => Visiting(stack[t][d]))

\* A mutex held exclusively is held by nobody else, and in no other mode.
MutexExcludes(m) ==
  \A t, u \in Threads :
    HasLocked(t, m, "exclusive") => /\ ~HasLocked(u, m, "shared")
                                    /\ HasLocked(u, m, "exclusive") => u = t

IInv ==
  /\ TypeOK
  /\ \A t \in Threads : AccessesOK(t)
  /\ \A m \in Mutexes : MutexExcludes(m)

-----------------------------------------------------------------------------
(* Requests and plans *)

LEMMA RequestTyped ==
  ASSUME NEW x \in Tables, NEW i \in 0 .. M, NEW mode \in Modes
  PROVE  /\ Request(x, i, mode) \in Requests
         /\ Request(x, i, mode).mutex = <<x, i>> /\ Request(x, i, mode).mode = mode
BY DEF Request, Requests, Mutexes

LEMMA RequestIs ==
  \A x, i, mode : Request(x, i, mode).mutex = <<x, i>> /\ Request(x, i, mode).mode = mode
BY DEF Request

LEMMA ExclusivePlanTyped ==
  ASSUME NEW x \in Tables
  PROVE  /\ ExclusivePlan(x) \in Seq(Requests) /\ Len(ExclusivePlan(x)) = M
         /\ \A i \in 1 .. M : ExclusivePlan(x)[i] = Request(x, i - 1, "exclusive")
<1>1. \A i \in 1 .. M : Request(x, i - 1, "exclusive") \in Requests
  BY RequestTyped, SlotAssumption DEF Modes
<1> HIDE DEF Requests
<1> QED BY <1>1, SlotAssumption DEF ExclusivePlan

LEMMA SharedPlanTyped ==
  ASSUME NEW x \in Tables, NEW t \in Threads, NEW mode \in Modes
  PROVE  /\ SharedPlan(t, x, mode) \in Seq(Requests) /\ Len(SharedPlan(t, x, mode)) = 2
         /\ SharedPlan(t, x, mode)[1] = Request(x, Slot[t], "shared")
         /\ SharedPlan(t, x, mode)[2] = Request(x, M, mode)
<1>1. Request(x, Slot[t], "shared") \in Requests /\ Request(x, M, mode) \in Requests
  BY RequestTyped, SlotAssumption DEF Modes
<1> QED BY <1>1 DEF SharedPlan

LEMMA ExtremesOfTwo ==
  ASSUME NEW x \in Nat, NEW y \in Nat, x # y
  PROVE  IF x < y THEN Min({x, y}) = x /\ Max({x, y}) = y
                  ELSE Min({x, y}) = y /\ Max({x, y}) = x
BY DEF Min, Max

LEMMA ConcatOf ==
  ASSUME NEW S, NEW p \in Seq(S), NEW q \in Seq(S), NEW n \in Nat, Len(p) = n, Len(q) = n
  PROVE  /\ p \o q \in Seq(S) /\ Len(p \o q) = n + n
         /\ \A i \in 1 .. n : (p \o q)[i] = p[i] /\ (p \o q)[n + i] = q[i]
OBVIOUS

\* p locks two tables, a before b.
LocksInOrder(p, a, b) ==
  /\ p \in Seq(Requests) /\ Len(p) = M + M
  /\ \A i \in 1 .. M : /\ p[i] = Request(a, i - 1, "exclusive")
                       /\ p[M + i] = Request(b, i - 1, "exclusive")

LEMMA ConcatOfPlans ==
  ASSUME NEW a \in Tables, NEW b \in Tables
  PROVE  LocksInOrder(ExclusivePlan(a) \o ExclusivePlan(b), a, b)
<1>1. /\ ExclusivePlan(a) \in Seq(Requests) /\ ExclusivePlan(b) \in Seq(Requests)
      /\ Len(ExclusivePlan(a)) = M /\ Len(ExclusivePlan(b)) = M /\ M \in Nat
  BY ExclusivePlanTyped, SlotAssumption
<1>2. PICK p, q : p = ExclusivePlan(a) /\ q = ExclusivePlan(b)
  OBVIOUS
<1>3. p \in Seq(Requests) /\ q \in Seq(Requests) /\ Len(p) = M /\ Len(q) = M /\ M \in Nat
  BY <1>1, <1>2
<1>4. /\ p \o q \in Seq(Requests) /\ Len(p \o q) = M + M
      /\ \A i \in 1 .. M : (p \o q)[i] = p[i] /\ (p \o q)[M + i] = q[i]
  BY <1>3, ConcatOf
<1> QED BY <1>2, <1>4, ExclusivePlanTyped DEF LocksInOrder

\* Whichever way two tables are given, the one at the lower address is locked first.
LEMMA BothPlanOrdered ==
  ASSUME NEW x \in Tables, NEW y \in Tables
  PROVE  /\ x = y => BothPlan(x, y) = ExclusivePlan(x)
         /\ x < y => LocksInOrder(BothPlan(x, y), x, y)
         /\ y < x => LocksInOrder(BothPlan(x, y), y, x)
<1>1. x \in Nat /\ y \in Nat
  BY TablesAssumption
<1>2. /\ x < y => BothPlan(x, y) = ExclusivePlan(x) \o ExclusivePlan(y)
      /\ y < x => BothPlan(x, y) = ExclusivePlan(y) \o ExclusivePlan(x)
  <2>1. CASE x < y
    BY <1>1, <2>1, ExtremesOfTwo DEF BothPlan
  <2>2. CASE y < x
    BY <1>1, <2>2, ExtremesOfTwo DEF BothPlan
  <2> QED BY <1>1, <2>1, <2>2
<1> QED BY <1>2, ConcatOfPlans DEF BothPlan

LEMMA BothPlanTyped ==
  ASSUME NEW x \in Tables, NEW y \in Tables
  PROVE  BothPlan(x, y) \in Seq(Requests)
<1>1. x \in Nat /\ y \in Nat
  BY TablesAssumption
<1> QED BY <1>1, BothPlanOrdered, ExclusivePlanTyped DEF LocksInOrder

-----------------------------------------------------------------------------
(* Stacks *)

\* Adding an access to a stack, taking the newest away, and changing it.
LEMMA StackOps ==
  ASSUME NEW S, NEW s \in Seq(S), NEW f \in S
  PROVE  /\ Append(s, f) \in Seq(S) /\ Len(Append(s, f)) = Len(s) + 1
         /\ Append(s, f)[Len(s) + 1] = f
         /\ \A d \in 1 .. Len(s) : Append(s, f)[d] = s[d]
         /\ Len(s) > 0 =>
              /\ SubSeq(s, 1, Len(s) - 1) \in Seq(S)
              /\ Len(SubSeq(s, 1, Len(s) - 1)) = Len(s) - 1
              /\ \A d \in 1 .. Len(s) - 1 : SubSeq(s, 1, Len(s) - 1)[d] = s[d]
              /\ [s EXCEPT ![Len(s)] = f] \in Seq(S)
              /\ Len([s EXCEPT ![Len(s)] = f]) = Len(s)
              /\ [s EXCEPT ![Len(s)] = f][Len(s)] = f
              /\ \A d \in 1 .. Len(s) - 1 : [s EXCEPT ![Len(s)] = f][d] = s[d]
<1>1. /\ Append(s, f) \in Seq(S) /\ Len(Append(s, f)) = Len(s) + 1
      /\ Append(s, f)[Len(s) + 1] = f
      /\ \A d \in 1 .. Len(s) : Append(s, f)[d] = s[d]
  OBVIOUS
<1>2. ASSUME Len(s) > 0
      PROVE  /\ SubSeq(s, 1, Len(s) - 1) \in Seq(S)
             /\ Len(SubSeq(s, 1, Len(s) - 1)) = Len(s) - 1
             /\ \A d \in 1 .. Len(s) - 1 : SubSeq(s, 1, Len(s) - 1)[d] = s[d]
  <2>1. PICK n \in Nat : n = Len(s) - 1
    BY <1>2
  <2>2. \A d \in 1 .. n : s[d] \in S
    BY <2>1
  <2>3. Len(SubSeq(s, 1, n)) = n
    BY <2>1
  <2>4. \A d \in 1 .. n : SubSeq(s, 1, n)[d] = s[d]
    BY <2>1
  <2>5. SubSeq(s, 1, n) \in Seq(S)
    BY <2>1, <2>2
  <2> QED BY <2>1, <2>3, <2>4, <2>5
<1>3. ASSUME Len(s) > 0
      PROVE  /\ [s EXCEPT ![Len(s)] = f] \in Seq(S)
             /\ Len([s EXCEPT ![Len(s)] = f]) = Len(s)
  BY <1>3
<1>4. ASSUME Len(s) > 0
      PROVE  /\ [s EXCEPT ![Len(s)] = f][Len(s)] = f
             /\ \A d \in 1 .. Len(s) - 1 : [s EXCEPT ![Len(s)] = f][d] = s[d]
  BY <1>4
<1> QED BY <1>1, <1>2, <1>3, <1>4

LEMMA ElementOfSequence == ASSUME NEW S, NEW s \in Seq(S), NEW i \in Nat, i < Len(s) PROVE s[i + 1] \in S
OBVIOUS

\* The stacks of the other threads do not change.
OthersStay(t) == \A u \in Threads : u # t => stack'[u] = stack[u]

Pushed(t, f) ==
  /\ stack' \in [Threads -> Seq(Accesses)] /\ OthersStay(t)
  /\ Depth(t)' = Depth(t) + 1 /\ stack'[t][Depth(t) + 1] = f
  /\ \A d \in 1 .. Depth(t) : stack'[t][d] = stack[t][d]

Popped(t) ==
  /\ stack' \in [Threads -> Seq(Accesses)] /\ OthersStay(t)
  /\ Depth(t)' = Depth(t) - 1
  /\ \A d \in 1 .. Depth(t) - 1 : stack'[t][d] = stack[t][d]

TopBecomes(t, f) ==
  /\ stack' \in [Threads -> Seq(Accesses)] /\ OthersStay(t)
  /\ Depth(t)' = Depth(t) /\ stack'[t][Depth(t)] = f
  /\ \A d \in 1 .. Depth(t) - 1 : stack'[t][d] = stack[t][d]

LEMMA StackSteps ==
  ASSUME NEW t \in Threads, NEW f \in Accesses, TypeOK
  PROVE  /\ Depth(t) \in Nat
         /\ \A d \in 1 .. Depth(t) : stack[t][d] \in Accesses
         /\ stack' = [stack EXCEPT ![t] = Append(@, f)] => Pushed(t, f)
         /\ Depth(t) > 0 /\ stack' = [stack EXCEPT ![t] = SubSeq(@, 1, Depth(t) - 1)] => Popped(t)
         /\ Depth(t) > 0 /\ SetTop(t, f) => TopBecomes(t, f)
<1>1. PICK A : A = Accesses
  OBVIOUS
<1>2. stack \in [Threads -> Seq(A)] /\ stack[t] \in Seq(A) /\ f \in A
  BY <1>1 DEF TypeOK
<1>3. Depth(t) \in Nat /\ \A d \in 1 .. Depth(t) : stack[t][d] \in A
  BY <1>2 DEF Depth
<1>4. ASSUME stack' = [stack EXCEPT ![t] = Append(@, f)] PROVE Pushed(t, f)
  <2>1. stack'[t] = Append(stack[t], f) /\ OthersStay(t) /\ stack' \in [Threads -> Seq(A)]
    BY <1>2, <1>4, StackOps DEF OthersStay
  <2> QED BY <1>1, <1>2, <2>1, StackOps DEF Pushed, Depth
<1>5. ASSUME Depth(t) > 0, stack' = [stack EXCEPT ![t] = SubSeq(@, 1, Depth(t) - 1)]
      PROVE  Popped(t)
  <2>1. stack'[t] = SubSeq(stack[t], 1, Depth(t) - 1) /\ OthersStay(t) /\ stack' \in [Threads -> Seq(A)]
    BY <1>2, <1>5, StackOps DEF OthersStay, Depth
  <2> QED BY <1>1, <1>2, <1>5, <2>1, StackOps DEF Popped, Depth
<1>6. ASSUME Depth(t) > 0, SetTop(t, f) PROVE TopBecomes(t, f)
  <2>1. stack'[t] = [stack[t] EXCEPT ![Len(stack[t])] = f] /\ OthersStay(t)
        /\ stack' \in [Threads -> Seq(A)]
    BY <1>2, <1>6, StackOps DEF OthersStay, Depth, SetTop
  <2> QED BY <1>1, <1>2, <1>6, <2>1, StackOps DEF TopBecomes, Depth
<1> QED BY <1>1, <1>3, <1>4, <1>5, <1>6

-----------------------------------------------------------------------------
(* What the steps of a thread do to its stack *)

LEMMA EntryTyped ==
  ASSUME NEW px \in Tables \cup {NoTable}, NEW next \in Nat \X Nat
  PROVE  /\ Entry(px, next) \in Entries
         /\ Entry(px, next).px = px /\ Entry(px, next).next = next
BY DEF Entry, Entries

\* The access that Push puts on the stack.
NewAccess(t, kind, x, y, plan) ==
  [kind |-> kind, plan |-> plan, got |-> 0, releasing |-> FALSE,
   tr1 |-> Entry(x, header[t]),
   tr2 |-> Entry(IF y = x THEN NoTable ELSE y, <<Depth(t) + 1, 1>>)]

LEMMA TopTyped ==
  ASSUME TypeOK, NEW t \in Threads
  PROVE  /\ Depth(t) \in Nat
         /\ \A d \in 1 .. Depth(t) :
              /\ stack[t][d] \in Accesses
              /\ stack[t][d].got \in Nat /\ stack[t][d].plan \in Seq(Requests)
              /\ stack[t][d].releasing \in BOOLEAN
              /\ Len(stack[t][d].plan) \in Nat
<1>1. Depth(t) \in Nat /\ \A d \in 1 .. Depth(t) : stack[t][d] \in Accesses
  <2>1. PICK A : A = Accesses
    OBVIOUS
  <2>2. stack[t] \in Seq(A)
    BY <2>1 DEF TypeOK
  <2> QED BY <2>1, <2>2 DEF Depth
<1>2. \A f \in Accesses : /\ f.got \in Nat /\ f.plan \in Seq(Requests)
                          /\ f.releasing \in BOOLEAN /\ Len(f.plan) \in Nat
  <2>1. PICK R : R = Requests
    OBVIOUS
  <2>2. \A f \in Accesses : f.got \in Nat /\ f.plan \in Seq(R) /\ f.releasing \in BOOLEAN
    BY <2>1 DEF Accesses
  <2> QED BY <2>1, <2>2
<1> QED BY <1>1, <1>2

LEMMA TopOK ==
  ASSUME IInv, NEW t \in Threads, Depth(t) > 0
  PROVE  /\ TypeOK /\ Depth(t) \in Nat /\ Top(t) \in Accesses /\ Top(t).got \in Nat
         /\ Top(t).plan \in Seq(Requests) /\ Len(Top(t).plan) \in Nat
         /\ AccessOK(Top(t))
<1>1. Depth(t) \in Nat /\ Depth(t) \in 1 .. Depth(t) /\ Top(t) = stack[t][Depth(t)]
  BY TopTyped DEF IInv, Top
<1> QED BY <1>1, TopTyped DEF IInv, AccessesOK

LEMMA PushStep ==
  ASSUME IInv, NEW t \in Threads, NEW kind \in {"visit", "exclusive", "both"},
         NEW x \in Tables, NEW y \in Tables, NEW plan \in Seq(Requests),
         Push(t, kind, x, y, plan)
  PROVE  /\ NewAccess(t, kind, x, y, plan) \in Accesses
         /\ Pushed(t, NewAccess(t, kind, x, y, plan))
         /\ pending' = pending
         /\ header' = [header EXCEPT ![t] = IF y = x THEN <<Depth(t) + 1, 1>> ELSE <<Depth(t) + 1, 2>>]
<1>1. header[t] \in Nat \X Nat /\ Depth(t) \in Nat
  BY TopTyped DEF IInv, TypeOK
<1>2. /\ Entry(x, header[t]) \in Entries
      /\ Entry(IF y = x THEN NoTable ELSE y, <<Depth(t) + 1, 1>>) \in Entries
  <2>1. PICK px : px = IF y = x THEN NoTable ELSE y
    OBVIOUS
  <2>2. px \in Tables \cup {NoTable} /\ <<Depth(t) + 1, 1>> \in Nat \X Nat
    BY <1>1, <2>1
  <2> QED BY <1>1, <2>1, <2>2, EntryTyped
<1>3. NewAccess(t, kind, x, y, plan) \in Accesses
  BY <1>2 DEF NewAccess, Accesses
<1>4. stack' = [stack EXCEPT ![t] = Append(@, NewAccess(t, kind, x, y, plan))]
  BY DEF Push, NewAccess
<1> QED BY <1>3, <1>4, StackSteps DEF IInv, Push

\* What a call puts on the stack of its thread.
Calls(t, kind, x, y, plan) ==
  /\ MayBegin(t) /\ MayAccess(t, x) /\ (y # x => MayAccess(t, y))
  /\ \/ kind = "visit" /\ y = x /\ \E mode \in Modes : plan = SharedPlan(t, x, mode)
     \/ kind = "exclusive" /\ y = x /\ plan = ExclusivePlan(x)
     \/ kind = "both" /\ plan = BothPlan(x, y)
  /\ plan \in Seq(Requests)
  /\ Push(t, kind, x, y, plan)

LEMMA BeginStep ==
  ASSUME NEW t \in Threads, Begin(t)
  PROVE  \E kind \in {"visit", "exclusive", "both"}, x \in Tables, y \in Tables, plan \in Seq(Requests) :
           Calls(t, kind, x, y, plan)
<1>1. PICK x \in Tables : /\ MayBegin(t) /\ MayAccess(t, x)
                          /\ BeginShared(t, x) \/ BeginExclusive(t, x) \/ BeginBoth(t, x)
  BY DEF Begin
<1>2. CASE BeginShared(t, x)
  <2>1. PICK mode \in Modes : Push(t, "visit", x, x, SharedPlan(t, x, mode))
    BY <1>2 DEF BeginShared, Modes
  <2>2. SharedPlan(t, x, mode) \in Seq(Requests)
    BY SharedPlanTyped
  <2>3. Calls(t, "visit", x, x, SharedPlan(t, x, mode))
    BY <1>1, <2>1, <2>2 DEF Calls
  <2> QED BY <2>2, <2>3
<1>3. CASE BeginExclusive(t, x)
  <2>1. ExclusivePlan(x) \in Seq(Requests)
    BY ExclusivePlanTyped
  <2>2. Calls(t, "exclusive", x, x, ExclusivePlan(x))
    BY <1>1, <1>3, <2>1 DEF Calls, BeginExclusive
  <2> QED BY <2>1, <2>2
<1>4. CASE BeginBoth(t, x)
  <2>1. PICK y \in Tables : MayAccess(t, y) /\ Push(t, "both", x, y, BothPlan(x, y))
    BY <1>4 DEF BeginBoth
  <2>2. BothPlan(x, y) \in Seq(Requests)
    BY BothPlanTyped
  <2>3. Calls(t, "both", x, y, BothPlan(x, y))
    BY <1>1, <2>1, <2>2 DEF Calls
  <2> QED BY <2>2, <2>3
<1> QED BY <1>1, <1>2, <1>3, <1>4

\* The newest access of a thread takes, or gives back, a mutex, or is over.
LEMMA TopStep ==
  ASSUME IInv, NEW t \in Threads, NEW f, Depth(t) > 0, SetTop(t, f),
         \/ f = [Top(t) EXCEPT !.got = @ + 1]
         \/ f = [Top(t) EXCEPT !.got = @ - 1] /\ Top(t).got > 0
         \/ f = [Top(t) EXCEPT !.releasing = TRUE]
  PROVE  /\ TopBecomes(t, f) /\ f.plan = Top(t).plan /\ f.kind = Top(t).kind
         /\ f.tr1 = Top(t).tr1 /\ f.tr2 = Top(t).tr2
<1>1. PICK P, a : P = Seq(Requests) /\ a = Top(t)
  OBVIOUS
<1>2. a \in Accesses
  BY <1>1, TopTyped DEF IInv, Top
<1>3. f \in Accesses /\ f.plan = a.plan /\ f.kind = a.kind /\ f.tr1 = a.tr1 /\ f.tr2 = a.tr2
  <2>1. a \in [kind : {"visit", "exclusive", "both"}, plan : P, got : Nat,
               releasing : BOOLEAN, tr1 : Entries, tr2 : Entries]
    BY <1>1, <1>2 DEF Accesses
  <2>2. CASE f = [a EXCEPT !.got = @ + 1]
    BY <1>1, <2>1, <2>2 DEF Accesses
  <2>3. CASE f = [a EXCEPT !.got = @ - 1] /\ a.got > 0
    BY <1>1, <2>1, <2>3 DEF Accesses
  <2>4. CASE f = [a EXCEPT !.releasing = TRUE]
    BY <1>1, <2>1, <2>4 DEF Accesses
  <2> QED BY <1>1, <2>2, <2>3, <2>4
<1> QED BY <1>1, <1>3, StackSteps DEF IInv

-----------------------------------------------------------------------------
(* The mutexes a thread has locked *)

\* Nothing that thread u has locked changes.
KeepsLocks(u) ==
  \A m \in Mutexes, mode \in Modes : HasLocked(u, m, mode)' <=> HasLocked(u, m, mode)

LEMMA OthersKeepLocks ==
  ASSUME NEW t \in Threads, OthersStay(t), NEW u \in Threads, u # t
  PROVE  KeepsLocks(u)
BY DEF OthersStay, KeepsLocks, HasLocked, Depth

LEMMA PushedKeepsLocks ==
  ASSUME NEW t \in Threads, NEW f, TypeOK, Pushed(t, f), f.got = 0
  PROVE  KeepsLocks(t)
<1>1. Depth(t) \in Nat /\ Depth(t)' = Depth(t) + 1
  BY TopTyped DEF Pushed
<1>2. \A d \in 1 .. Depth(t)' : IF d = Depth(t) + 1 THEN stack'[t][d].got = 0
                                                  ELSE d \in 1 .. Depth(t) /\ stack'[t][d] = stack[t][d]
  BY <1>1 DEF Pushed
<1> QED BY <1>1, <1>2 DEF KeepsLocks, HasLocked

LEMMA PoppedKeepsLocks ==
  ASSUME NEW t \in Threads, TypeOK, Depth(t) > 0, Popped(t), Top(t).got = 0
  PROVE  KeepsLocks(t)
<1>1. Depth(t) \in Nat /\ Depth(t)' = Depth(t) - 1
  BY TopTyped DEF Popped
<1>2. \A d \in 1 .. Depth(t) : IF d = Depth(t) THEN stack[t][d].got = 0
                                               ELSE d \in 1 .. Depth(t)' /\ stack'[t][d] = stack[t][d]
  BY <1>1 DEF Popped, Top
<1> QED BY <1>1, <1>2 DEF KeepsLocks, HasLocked

\* A mutex more or less in the newest access.
LEMMA TopLocks ==
  ASSUME NEW t \in Threads, NEW f, TypeOK, Depth(t) > 0, TopBecomes(t, f), f.plan = Top(t).plan,
         NEW m \in Mutexes, NEW mode \in Modes
  PROVE  /\ f.got = Top(t).got => (HasLocked(t, m, mode)' <=> HasLocked(t, m, mode))
         /\ f.got = Top(t).got + 1 =>
              (HasLocked(t, m, mode)' <=> \/ HasLocked(t, m, mode)
                                          \/ Wanted(t) = Request(m[1], m[2], mode))
         /\ f.got = Top(t).got - 1 => (HasLocked(t, m, mode)' => HasLocked(t, m, mode))
<1>1. /\ Depth(t) \in Nat /\ Depth(t)' = Depth(t) /\ Top(t).got \in Nat
      /\ stack[t][Depth(t)] = Top(t) /\ stack'[t][Depth(t)] = f
  BY TopTyped DEF TopBecomes, Top
<1>2. \A d \in 1 .. Depth(t) : d = Depth(t) \/ stack'[t][d] = stack[t][d]
  BY <1>1 DEF TopBecomes
<1>3. PICK r : r = Request(m[1], m[2], mode)
  OBVIOUS
<1>4. HasLocked(t, m, mode) <=>
        \E d \in 1 .. Depth(t) : \E i \in 1 .. stack[t][d].got : stack[t][d].plan[i] = r
  BY <1>3 DEF HasLocked
<1>5. HasLocked(t, m, mode)' <=>
        \E d \in 1 .. Depth(t) : \E i \in 1 .. stack'[t][d].got : stack'[t][d].plan[i] = r
  BY <1>1, <1>3 DEF HasLocked
<1>6. ASSUME f.got = Top(t).got
      PROVE  HasLocked(t, m, mode)' <=> HasLocked(t, m, mode)
  BY <1>1, <1>2, <1>4, <1>5, <1>6
<1>7. ASSUME f.got = Top(t).got + 1
      PROVE  HasLocked(t, m, mode)' <=> HasLocked(t, m, mode) \/ Wanted(t) = r
  <2>1. Wanted(t) = f.plan[f.got] /\ f.got \in 1 .. f.got
        /\ \A i \in 1 .. f.got : i \in 1 .. Top(t).got \/ i = f.got
    BY <1>1, <1>7 DEF Wanted
  <2>2. HasLocked(t, m, mode)' => HasLocked(t, m, mode) \/ Wanted(t) = r
    BY <1>1, <1>2, <1>4, <1>5, <1>7, <2>1
  <2>3. HasLocked(t, m, mode) => HasLocked(t, m, mode)'
    BY <1>1, <1>2, <1>4, <1>5, <1>7
  <2>4. ASSUME Wanted(t) = r
        PROVE  HasLocked(t, m, mode)'
    <3>1. Depth(t) \in 1 .. Depth(t)
      BY <1>1
    <3>2. f.got \in 1 .. stack'[t][Depth(t)].got /\ stack'[t][Depth(t)].plan[f.got] = r
      BY <1>1, <2>1, <2>4
    <3> QED BY <1>5, <3>1, <3>2
  <2> QED BY <2>2, <2>3, <2>4
<1>8. ASSUME f.got = Top(t).got - 1, HasLocked(t, m, mode)'
      PROVE  HasLocked(t, m, mode)
  BY <1>1, <1>2, <1>4, <1>5, <1>8
<1> QED BY <1>3, <1>6, <1>7, <1>8

-----------------------------------------------------------------------------
(* The invariant is inductive *)

LEMMA InitIInv == Init => IInv
<1> SUFFICES ASSUME Init PROVE IInv
  OBVIOUS
<1>1. \A t \in Threads : stack[t] = <<>> /\ Depth(t) = 0
  BY DEF Init, Depth
<1>2. TypeOK
  <2>1. PICK A : A = Accesses
    OBVIOUS
  <2>2. <<>> \in Seq(A) /\ Null \in Nat \X Nat
    BY DEF Null
  <2> QED BY <2>1, <2>2 DEF Init, TypeOK
<1>3. \A t \in Threads : AccessesOK(t)
  BY <1>1 DEF AccessesOK
<1>4. \A m \in Mutexes : MutexExcludes(m)
  BY <1>1 DEF MutexExcludes, HasLocked
<1> QED BY <1>2, <1>3, <1>4 DEF IInv

\* A step that grants no mutex.
LEMMA NothingGranted ==
  ASSUME NEW t \in Threads, \A m \in Mutexes : MutexExcludes(m),
         \A u \in Threads, m \in Mutexes, mode \in Modes : HasLocked(u, m, mode)' => HasLocked(u, m, mode)
  PROVE  \A m \in Mutexes : MutexExcludes(m)'
BY DEF MutexExcludes, Modes

LEMMA OthersOK ==
  ASSUME IInv, NEW t \in Threads, OthersStay(t), AccessesOK(t)'
  PROVE  \A u \in Threads : AccessesOK(u)'
<1> SUFFICES ASSUME NEW u \in Threads, u # t PROVE AccessesOK(u)'
  OBVIOUS
<1>1. stack'[u] = stack[u] /\ Depth(u)' = Depth(u)
  BY DEF OthersStay, Depth
<1> QED BY <1>1 DEF IInv, AccessesOK

LEMMA BeginIInv ==
  ASSUME IInv, NEW t \in Threads, Begin(t)
  PROVE  IInv'
<1>1. PICK kind \in {"visit", "exclusive", "both"}, x \in Tables, y \in Tables, plan \in Seq(Requests) :
        Calls(t, kind, x, y, plan)
  BY BeginStep
<1>2. PICK f : f = NewAccess(t, kind, x, y, plan)
  OBVIOUS
<1>3. /\ f \in Accesses /\ Pushed(t, f) /\ pending' = pending
      /\ header' = [header EXCEPT ![t] = IF y = x THEN <<Depth(t) + 1, 1>> ELSE <<Depth(t) + 1, 2>>]
  BY <1>1, <1>2, PushStep DEF Calls
<1>4. f.got = 0 /\ f.plan = plan /\ f.tr1.px = x /\ Len(plan) \in Nat
  BY <1>1, <1>2 DEF NewAccess, Entry
<1>5. Depth(t) \in Nat /\ TypeOK
  BY TopTyped DEF IInv
<1>6. TypeOK'
  BY <1>3, <1>5 DEF TypeOK, Pushed
<1>7. AccessesOK(t)'
  <2>1. \A d \in 1 .. Depth(t) : AccessOK(stack[t][d]) /\ (d < Depth(t) => Visiting(stack[t][d]))
    BY DEF IInv, AccessesOK
  <2>2. Depth(t) > 0 => Visiting(stack[t][Depth(t)])
    BY <1>1, <1>5 DEF Calls, MayBegin, Entered, Top, Visiting
  <2>3. AccessOK(f)
    BY <1>4 DEF AccessOK
  <2>4. \A d \in 1 .. Depth(t) + 1 : AccessOK(stack'[t][d]) /\ (d < Depth(t) + 1 => Visiting(stack'[t][d]))
    <3> SUFFICES ASSUME NEW d \in 1 .. Depth(t) + 1
                 PROVE  AccessOK(stack'[t][d]) /\ (d < Depth(t) + 1 => Visiting(stack'[t][d]))
      OBVIOUS
    <3>1. CASE d = Depth(t) + 1
      BY <1>3, <1>5, <2>3, <3>1 DEF Pushed
    <3>2. CASE d \in 1 .. Depth(t)
      <4>1. stack'[t][d] = stack[t][d] /\ AccessOK(stack[t][d]) /\ Visiting(stack[t][d])
        BY <1>3, <1>5, <2>1, <2>2, <3>2 DEF Pushed
      <4> QED BY <4>1
    <3> QED BY <1>5, <3>1, <3>2
  <2> QED BY <1>3, <2>4 DEF AccessesOK, Pushed, AccessOK, Visiting
<1>8. \A u \in Threads : AccessesOK(u)'
  BY <1>3, <1>7, OthersOK DEF Pushed
<1>9. \A u \in Threads : KeepsLocks(u)
  BY <1>3, <1>4, <1>5, PushedKeepsLocks, OthersKeepLocks DEF Pushed
<1> QED BY <1>6, <1>8, <1>9, NothingGranted DEF IInv, KeepsLocks

LEMMA EndIInv ==
  ASSUME IInv, NEW t \in Threads, End(t)
  PROVE  IInv' /\ Popped(t) /\ \A u \in Threads : KeepsLocks(u)
<1>1. Depth(t) \in Nat /\ Depth(t) > 0 /\ Top(t).got = 0 /\ TypeOK /\ Top(t) \in Accesses
  BY TopOK DEF End
<1>2. Popped(t) /\ pending' = pending /\ header' = [header EXCEPT ![t] = Cleared(Top(t), @)]
  BY <1>1, StackSteps DEF End
<1>3. Cleared(Top(t), header[t]) \in Nat \X Nat
  <2>1. PICK a, P : a = Top(t) /\ P = Seq(Requests)
    OBVIOUS
  <2>2. a.tr1 \in Entries /\ a.tr2 \in Entries
    BY <1>1, <2>1 DEF Accesses
  <2>3. header[t] \in Nat \X Nat
    BY <1>1 DEF TypeOK
  <2> QED BY <2>1, <2>2, <2>3 DEF Cleared, Entries
<1>4. TypeOK'
  BY <1>1, <1>2, <1>3 DEF TypeOK, Popped
<1>5. AccessesOK(t)'
  <2>1. \A d \in 1 .. Depth(t) : AccessOK(stack[t][d]) /\ (d < Depth(t) => Visiting(stack[t][d]))
    BY DEF IInv, AccessesOK
  <2>2. \A d \in 1 .. Depth(t) - 1 : AccessOK(stack'[t][d]) /\ Visiting(stack'[t][d])
    <3> SUFFICES ASSUME NEW d \in 1 .. Depth(t) - 1
                 PROVE  AccessOK(stack'[t][d]) /\ Visiting(stack'[t][d])
      OBVIOUS
    <3>1. stack'[t][d] = stack[t][d] /\ AccessOK(stack[t][d]) /\ Visiting(stack[t][d])
      BY <1>1, <1>2, <2>1 DEF Popped
    <3> QED BY <3>1
  <2> QED BY <1>2, <2>2 DEF AccessesOK, Popped, AccessOK, Visiting
<1>6. \A u \in Threads : AccessesOK(u)'
  BY <1>2, <1>5, OthersOK DEF Popped
<1>7. \A u \in Threads : KeepsLocks(u)
  BY <1>1, <1>2, PoppedKeepsLocks, OthersKeepLocks DEF Popped
<1> QED BY <1>2, <1>4, <1>6, <1>7, NothingGranted DEF IInv, KeepsLocks

\* Steps of the newest access.
LEMMA TopIInv ==
  ASSUME IInv, NEW t \in Threads, NEW f, TopBecomes(t, f), Depth(t) > 0,
         f.got <= Len(f.plan), f.plan = Top(t).plan, f.tr1 = Top(t).tr1,
         pending' \in SUBSET Mutexes, header' = header,
         \A m \in Mutexes : MutexExcludes(m)'
  PROVE  IInv'
<1>1. Depth(t) \in Nat /\ Top(t) \in Accesses /\ TypeOK
  BY TopOK
<1>2. TypeOK'
  BY <1>1 DEF TypeOK, TopBecomes
<1>3. AccessesOK(t)'
  <2>1. \A d \in 1 .. Depth(t) : AccessOK(stack[t][d]) /\ (d < Depth(t) => Visiting(stack[t][d]))
    BY DEF IInv, AccessesOK
  <2>2. AccessOK(f)
    BY <1>1, TopOK DEF AccessOK
  <2>3. \A d \in 1 .. Depth(t) : AccessOK(stack'[t][d]) /\ (d < Depth(t) => Visiting(stack'[t][d]))
    <3> SUFFICES ASSUME NEW d \in 1 .. Depth(t)
                 PROVE  AccessOK(stack'[t][d]) /\ (d < Depth(t) => Visiting(stack'[t][d]))
      OBVIOUS
    <3>1. CASE d = Depth(t)
      BY <1>1, <2>2, <3>1 DEF TopBecomes
    <3>2. CASE d < Depth(t)
      <4>1. stack'[t][d] = stack[t][d] /\ AccessOK(stack[t][d]) /\ Visiting(stack[t][d])
        BY <1>1, <2>1, <3>2 DEF TopBecomes
      <4> QED BY <4>1
    <3> QED BY <1>1, <3>1, <3>2
  <2> QED BY <2>3 DEF AccessesOK, TopBecomes, AccessOK, Visiting
<1>4. \A u \in Threads : AccessesOK(u)'
  BY <1>3, OthersOK DEF TopBecomes
<1> QED BY <1>2, <1>4 DEF IInv

\* A mutex that thread t gets was free for it.
LEMMA AcquireStep ==
  ASSUME IInv, NEW t \in Threads, Acquire(t)
  PROVE  /\ IInv'
         /\ \A u \in Threads : u # t => KeepsLocks(u)
         /\ \A m \in Mutexes, mode \in Modes :
              HasLocked(t, m, mode)' <=> HasLocked(t, m, mode) \/ Wanted(t) = Request(m[1], m[2], mode)
<1>1. /\ Depth(t) \in Nat /\ Depth(t) > 0 /\ TypeOK /\ Top(t) \in Accesses
      /\ Top(t).got \in Nat /\ Top(t).plan \in Seq(Requests) /\ Top(t).got < Len(Top(t).plan)
  BY TopOK DEF Acquire, Waiting
<1>2. PICK f : f = [Top(t) EXCEPT !.got = @ + 1]
  OBVIOUS
<1>3. TopBecomes(t, f) /\ f.plan = Top(t).plan /\ f.tr1 = Top(t).tr1
  BY <1>1, <1>2, TopStep DEF Acquire
<1>4. f.got = Top(t).got + 1
  BY <1>1, <1>2 DEF Accesses
<1>5. \A u \in Threads : u # t => KeepsLocks(u)
  BY <1>3, OthersKeepLocks DEF TopBecomes
<1>6. \A m \in Mutexes, mode \in Modes :
        HasLocked(t, m, mode)' <=> HasLocked(t, m, mode) \/ Wanted(t) = Request(m[1], m[2], mode)
  BY <1>1, <1>3, <1>4, TopLocks
<1>7. \A m \in Mutexes : MutexExcludes(m)'
  <2> SUFFICES ASSUME NEW m \in Mutexes PROVE MutexExcludes(m)'
    OBVIOUS
  <2>1. MutexExcludes(m)
    BY DEF IInv
  <2>2. \A mode \in Modes : Wanted(t) = Request(m[1], m[2], mode) => Wanted(t).mutex = m /\ Wanted(t).mode = mode
    BY DEF Request, Mutexes
  <2>3. Grantable(Wanted(t))
    BY DEF Acquire
  <2>4. \A u \in Threads : ~(Wanted(t).mutex = m /\ HasLocked(u, m, "exclusive"))
    BY <2>3 DEF Grantable, Held
  <2>5. Wanted(t).mutex = m /\ Wanted(t).mode = "exclusive" => \A u \in Threads : ~HasLocked(u, m, "shared")
    BY <2>3 DEF Grantable, Held
  <2>6. \A u \in Threads : u # t => /\ HasLocked(u, m, "exclusive")' <=> HasLocked(u, m, "exclusive")
                                    /\ HasLocked(u, m, "shared")' <=> HasLocked(u, m, "shared")
    BY <1>5 DEF KeepsLocks, Modes
  <2>7. /\ HasLocked(t, m, "exclusive")' <=> \/ HasLocked(t, m, "exclusive")
                                             \/ Wanted(t) = Request(m[1], m[2], "exclusive")
        /\ HasLocked(t, m, "shared")' <=> \/ HasLocked(t, m, "shared")
                                          \/ Wanted(t) = Request(m[1], m[2], "shared")
    BY <1>6 DEF Modes
  <2> QED BY <2>1, <2>2, <2>4, <2>5, <2>6, <2>7 DEF MutexExcludes, Modes
<1>8. pending' \in SUBSET Mutexes
  BY <1>1 DEF Acquire, TypeOK
<1>9. f.got <= Len(f.plan) /\ header' = header
  BY <1>1, <1>3, <1>4 DEF Acquire
<1>10. IInv'
  BY <1>1, <1>3, <1>7, <1>8, <1>9, TopIInv
<1> QED BY <1>5, <1>6, <1>10

LEMMA FinishIInv ==
  ASSUME IInv, NEW t \in Threads, Finish(t)
  PROVE  IInv' /\ \A u \in Threads : KeepsLocks(u)
<1>1. /\ Depth(t) \in Nat /\ Depth(t) > 0 /\ TypeOK /\ Top(t) \in Accesses
      /\ Top(t).got \in Nat /\ Top(t).got = Len(Top(t).plan)
  BY TopOK DEF Finish, Entered
<1>2. PICK f : f = [Top(t) EXCEPT !.releasing = TRUE]
  OBVIOUS
<1>3. TopBecomes(t, f) /\ f.plan = Top(t).plan /\ f.tr1 = Top(t).tr1
  BY <1>1, <1>2, TopStep DEF Finish
<1>4. f.got = Top(t).got
  BY <1>1, <1>2 DEF Accesses
<1>5. \A u \in Threads : KeepsLocks(u)
  BY <1>1, <1>3, <1>4, TopLocks, OthersKeepLocks DEF KeepsLocks, TopBecomes
<1>6. \A m \in Mutexes : MutexExcludes(m)'
  BY <1>5, NothingGranted DEF KeepsLocks, IInv
<1>7. pending' \in SUBSET Mutexes /\ header' = header /\ f.got <= Len(f.plan)
  BY <1>1, <1>3, <1>4 DEF Finish, TypeOK
<1>8. IInv'
  BY <1>1, <1>3, <1>6, <1>7, TopIInv
<1> QED BY <1>5, <1>8

LEMMA ReleaseStep ==
  ASSUME IInv, NEW t \in Threads, Release(t)
  PROVE  /\ IInv'
         /\ \A u \in Threads : u # t => KeepsLocks(u)
         /\ \A m \in Mutexes, mode \in Modes : HasLocked(t, m, mode)' => HasLocked(t, m, mode)
<1>1. /\ Depth(t) \in Nat /\ Depth(t) > 0 /\ TypeOK /\ Top(t) \in Accesses
      /\ Top(t).got \in Nat /\ Top(t).got > 0 /\ Top(t).got <= Len(Top(t).plan)
      /\ Len(Top(t).plan) \in Nat
  BY TopOK DEF Release, AccessOK
<1>2. PICK f : f = [Top(t) EXCEPT !.got = @ - 1]
  OBVIOUS
<1>3. TopBecomes(t, f) /\ f.plan = Top(t).plan /\ f.tr1 = Top(t).tr1
  BY <1>1, <1>2, TopStep DEF Release
<1>4. f.got = Top(t).got - 1
  BY <1>1, <1>2 DEF Accesses
<1>5. \A u \in Threads : u # t => KeepsLocks(u)
  BY <1>3, OthersKeepLocks DEF TopBecomes
<1>6. \A m \in Mutexes, mode \in Modes : HasLocked(t, m, mode)' => HasLocked(t, m, mode)
  BY <1>1, <1>3, <1>4, TopLocks
<1>7. \A m \in Mutexes : MutexExcludes(m)'
  BY <1>5, <1>6, NothingGranted DEF KeepsLocks, IInv
<1>8. pending' \in SUBSET Mutexes /\ header' = header /\ f.got <= Len(f.plan)
  BY <1>1, <1>3, <1>4 DEF Release, TypeOK
<1>9. IInv'
  BY <1>1, <1>3, <1>7, <1>8, TopIInv
<1> QED BY <1>5, <1>6, <1>9

\* Steps that leave all stacks alone.
LEMMA SameStacks ==
  ASSUME IInv, stack' = stack, pending' \in SUBSET Mutexes, header' = header
  PROVE  IInv' /\ \A u \in Threads : KeepsLocks(u)
<1>1. TypeOK'
  BY DEF IInv, TypeOK
<1>2. \A u \in Threads : AccessesOK(u)'
  BY DEF IInv, AccessesOK, Depth
<1>3. \A u \in Threads : KeepsLocks(u)
  BY DEF KeepsLocks, HasLocked, Depth
<1> QED BY <1>1, <1>2, <1>3, NothingGranted DEF IInv, KeepsLocks, MutexExcludes, Modes

LEMMA AnnounceIInv ==
  ASSUME IInv, NEW t \in Threads, Announce(t)
  PROVE  IInv' /\ \A u \in Threads : KeepsLocks(u)
<1>1. Wanted(t) \in Requests
  <2>1. /\ Depth(t) > 0 /\ Top(t).got \in Nat /\ Top(t).plan \in Seq(Requests)
        /\ Top(t).got < Len(Top(t).plan)
    BY TopOK DEF Announce, Waiting
  <2>2. PICK R, p, g : R = Requests /\ p = Top(t).plan /\ g = Top(t).got
    OBVIOUS
  <2> QED BY <2>1, <2>2, ElementOfSequence DEF Wanted
<1>2. pending' \in SUBSET Mutexes
  BY <1>1 DEF IInv, TypeOK, Announce, Requests
<1> QED BY <1>2, SameStacks DEF Announce

LEMMA NextIInv ==
  ASSUME IInv, [Next]_vars
  PROVE  IInv'
<1>1. CASE UNCHANGED vars
  BY <1>1, SameStacks DEF vars, IInv, TypeOK
<1>2. CASE Next
  BY <1>2, BeginIInv, AcquireStep, AnnounceIInv, FinishIInv, ReleaseStep, EndIInv DEF Next, Step
<1> QED BY <1>1, <1>2

\* What every state of the container-level locks satisfies: a mutex held exclusively
\* is held once, and the accesses of a thread are nested in one another.
THEOREM Invariance == Spec => []IInv
<1> QED BY InitIInv, NextIInv, PTL DEF Spec

-----------------------------------------------------------------------------
(* The mutexes of a table act as one reader-writer lock *)

LEMMA MutexesOfTable ==
  ASSUME NEW x \in Tables
  PROVE  /\ \A i \in 0 .. M - 1 : <<x, i>> \in Mutexes
         /\ <<x, 0>> \in Mutexes /\ 0 \in 0 .. M - 1
         /\ \A t \in Threads : Slot[t] \in 0 .. M - 1 /\ <<x, Slot[t]>> \in Mutexes
BY SlotAssumption DEF Mutexes

LEMMA EntersApart ==
  ASSUME IInv, NEW x \in Tables, NEW t \in Threads, EnteredExclusive(t, x), NEW u \in Threads
  PROVE  ~EnteredShared(u, x) /\ (EnteredExclusive(u, x) => u = t)
<1>1. HasLocked(t, <<x, 0>>, "exclusive") /\ HasLocked(t, <<x, Slot[u]>>, "exclusive")
  BY MutexesOfTable DEF EnteredExclusive
<1>2. MutexExcludes(<<x, 0>>) /\ MutexExcludes(<<x, Slot[u]>>)
  BY MutexesOfTable DEF IInv
<1>3. EnteredExclusive(u, x) => HasLocked(u, <<x, 0>>, "exclusive")
  BY MutexesOfTable DEF EnteredExclusive
<1> QED BY <1>1, <1>2, <1>3 DEF MutexExcludes, EnteredShared

LEMMA KeptHold ==
  ASSUME NEW x \in Tables, NEW u \in Threads, KeepsLocks(u)
  PROVE  ContainerHold(x)'[u] = ContainerHold(x)[u]
<1>1. \A i \in 0 .. M - 1 : HasLocked(u, <<x, i>>, "exclusive")' <=> HasLocked(u, <<x, i>>, "exclusive")
  BY MutexesOfTable DEF KeepsLocks, Modes
<1>2. HasLocked(u, <<x, Slot[u]>>, "shared")' <=> HasLocked(u, <<x, Slot[u]>>, "shared")
  BY MutexesOfTable DEF KeepsLocks, Modes
<1> QED BY <1>1, <1>2 DEF ContainerHold, EnteredExclusive, EnteredShared

LEMMA HoldersOf ==
  ASSUME NEW x
  PROVE  /\ Container(x)!ExclusiveHolders = {t \in Threads : EnteredExclusive(t, x)}
         /\ Container(x)!SharedHolders = {t \in Threads : ~EnteredExclusive(t, x) /\ EnteredShared(t, x)}
BY DEF Container!ExclusiveHolders, Container!SharedHolders, ContainerHold

LEMMA SameCardinality == \A x, S : Container(x)!Cardinality(S) = Cardinality(S)
BY DEF Container!Cardinality, Cardinality

LEMMA InitRefines ==
  ASSUME Init, NEW x \in Tables
  PROVE  Container(x)!Init
<1>1. \A t \in Threads : Depth(t) = 0
  BY DEF Init, Depth
<1>2. \A t \in Threads : \A m, mode : ~HasLocked(t, m, mode)
  BY <1>1 DEF HasLocked
<1>3. \A t \in Threads : ~EnteredExclusive(t, x) /\ ~EnteredShared(t, x)
  BY <1>2, MutexesOfTable DEF EnteredExclusive, EnteredShared
<1> QED BY <1>3 DEF Container!Init, ContainerHold

\* Steps after which everyone has the access it had.
LEMMA HoldStays ==
  ASSUME NEW x \in Tables, \A u \in Threads : ContainerHold(x)'[u] = ContainerHold(x)[u]
  PROVE  [Container(x)!Next]_(Container(x)!vars)
<1>1. ContainerHold(x)' = ContainerHold(x)
  BY DEF ContainerHold
<1> QED BY <1>1 DEF Container!vars

LEMMA AcquireRefines ==
  ASSUME IInv, IInv', NEW t \in Threads, Acquire(t), NEW x \in Tables
  PROVE  [Container(x)!Next]_(Container(x)!vars)
<1> DEFINE hold == ContainerHold(x)
<1>1. /\ \A u \in Threads : u # t => KeepsLocks(u)
      /\ \A m \in Mutexes, mode \in Modes :
           HasLocked(t, m, mode)' <=> HasLocked(t, m, mode) \/ Wanted(t) = Request(m[1], m[2], mode)
  BY AcquireStep
<1>2. \A u \in Threads : u # t => hold'[u] = hold[u]
  BY <1>1, KeptHold
<1>3. CASE hold'[t] = hold[t]
  BY <1>2, <1>3, HoldStays
<1>4. CASE hold'[t] # hold[t]
  <2>1. /\ EnteredExclusive(t, x) => EnteredExclusive(t, x)'
        /\ EnteredShared(t, x) => EnteredShared(t, x)'
    BY <1>1, MutexesOfTable DEF EnteredExclusive, EnteredShared, Modes
  <2>2. /\ EnteredExclusive(t, x)' => ~EnteredShared(t, x)'
        /\ hold[t] \in {"none", "shared", "exclusive"}
    <3>1. \A u \in Threads, v \in Threads : EnteredExclusive(u, x) => ~EnteredShared(v, x)
      BY EntersApart
    <3>2. \A u \in Threads, v \in Threads : EnteredExclusive(u, x)' => ~EnteredShared(v, x)'
      BY MutexesOfTable DEF EnteredExclusive, EnteredShared, IInv, MutexExcludes
    <3> QED BY <3>2 DEF ContainerHold
  <2>3. hold[t] = "none" /\ ~EnteredExclusive(t, x) /\ ~EnteredShared(t, x)
    BY <1>4, <2>1, <2>2 DEF ContainerHold
  <2>4. hold' = [hold EXCEPT ![t] = hold'[t]]
    BY <1>2 DEF ContainerHold
  <2>5. CASE EnteredExclusive(t, x)'
    <3>1. hold'[t] = "exclusive"
      BY <2>5 DEF ContainerHold
    <3>2. \A u \in Threads : u # t => ~EnteredExclusive(u, x)' /\ ~EnteredShared(u, x)'
      BY <2>5, MutexesOfTable DEF EnteredExclusive, EnteredShared, IInv, MutexExcludes
    <3>3. \A u \in Threads : ~EnteredExclusive(u, x) /\ ~EnteredShared(u, x)
      BY <1>1, <2>3, <3>2, MutexesOfTable DEF EnteredExclusive, EnteredShared, KeepsLocks, Modes
    <3>4. Container(x)!AcquireExclusive(t)
      BY <2>3, <2>4, <3>1, <3>3, HoldersOf DEF Container!AcquireExclusive
    <3> QED BY <3>4 DEF Container!Next
  <2>6. CASE ~EnteredExclusive(t, x)'
    <3>1. EnteredShared(t, x)' /\ hold'[t] = "shared"
      BY <1>4, <2>3, <2>6 DEF ContainerHold
    <3>2. \A u \in Threads : ~EnteredExclusive(u, x)'
      BY <2>6, <3>1, MutexesOfTable DEF EnteredExclusive, EnteredShared, IInv, MutexExcludes
    <3>3. \A u \in Threads : ~EnteredExclusive(u, x)
      BY <1>1, <2>3, <3>2, MutexesOfTable DEF EnteredExclusive, KeepsLocks, Modes
    <3>4. Container(x)!ExclusiveHolders = {}
      BY <3>3, HoldersOf
    <3>5. Cardinality(Container(x)!SharedHolders) < Cardinality(Threads)
      <4>1. Container(x)!SharedHolders \subseteq Threads /\ t \notin Container(x)!SharedHolders
        BY <2>3, HoldersOf
      <4> QED BY <4>1, ThreadsAssumption, FS_Subset, FS_CardinalityType
    <3>6. Container(x)!AcquireShared(t)
      BY <2>3, <2>4, <3>1, <3>4, <3>5, SameCardinality DEF Container!AcquireShared
    <3> QED BY <3>6 DEF Container!Next
  <2> QED BY <2>5, <2>6
<1> QED BY <1>3, <1>4

LEMMA ReleaseRefines ==
  ASSUME IInv, NEW t \in Threads, Release(t), NEW x \in Tables
  PROVE  [Container(x)!Next]_(Container(x)!vars)
<1> DEFINE hold == ContainerHold(x)
<1>1. /\ \A u \in Threads : u # t => KeepsLocks(u)
      /\ \A m \in Mutexes, mode \in Modes : HasLocked(t, m, mode)' => HasLocked(t, m, mode)
  BY ReleaseStep
<1>2. \A u \in Threads : u # t => hold'[u] = hold[u]
  BY <1>1, KeptHold
<1>3. CASE hold'[t] = hold[t]
  BY <1>2, <1>3, HoldStays
<1>4. CASE hold'[t] # hold[t]
  <2>1. /\ EnteredExclusive(t, x)' => EnteredExclusive(t, x)
        /\ EnteredShared(t, x)' => EnteredShared(t, x)
    BY <1>1, MutexesOfTable DEF EnteredExclusive, EnteredShared, Modes
  <2>2. EnteredExclusive(t, x) => ~EnteredShared(t, x)
    BY EntersApart
  <2>3. hold[t] # "none" /\ hold'[t] = "none"
    BY <1>4, <2>1, <2>2 DEF ContainerHold
  <2>4. hold' = [hold EXCEPT ![t] = "none"]
    BY <1>2, <2>3 DEF ContainerHold
  <2>5. Container(x)!Release(t)
    BY <2>3, <2>4 DEF Container!Release
  <2> QED BY <2>5 DEF Container!Next
<1> QED BY <1>3, <1>4

LEMMA BeginKeepsLocks ==
  ASSUME IInv, NEW t \in Threads, Begin(t)
  PROVE  \A u \in Threads : KeepsLocks(u)
<1>1. PICK kind \in {"visit", "exclusive", "both"}, x \in Tables, y \in Tables, plan \in Seq(Requests) :
        Calls(t, kind, x, y, plan)
  BY BeginStep
<1>2. PICK f : f = NewAccess(t, kind, x, y, plan)
  OBVIOUS
<1>3. Pushed(t, f) /\ f.got = 0
  BY <1>1, <1>2, PushStep DEF Calls, NewAccess
<1> QED BY <1>3, PushedKeepsLocks, OthersKeepLocks DEF Pushed, IInv

LEMMA StepRefines ==
  ASSUME IInv, [Next]_vars, NEW x \in Tables
  PROVE  [Container(x)!Next]_(Container(x)!vars)
<1>1. IInv'
  BY NextIInv
<1>2. ASSUME \A u \in Threads : KeepsLocks(u)
      PROVE  [Container(x)!Next]_(Container(x)!vars)
  BY <1>2, KeptHold, HoldStays
<1>3. CASE UNCHANGED vars
  BY <1>2, <1>3, SameStacks DEF vars, IInv, TypeOK
<1>4. CASE Next
  <2>1. PICK t \in Threads : Begin(t) \/ Step(t)
    BY <1>4 DEF Next
  <2> QED BY <1>1, <1>2, <2>1, BeginKeepsLocks, AcquireRefines, AnnounceIInv, FinishIInv, ReleaseRefines,
             EndIInv DEF Step
<1> QED BY <1>3, <1>4

\* The mutexes of each table act as one reader-writer lock: whatever the threads do
\* with all the tables, they see a behaviour of RWLock in each.
THEOREM ActsAsOneLock == Spec => ImplementsRWLock
<1>1. Init => \A x \in Tables : Container(x)!Init
  BY InitRefines
<1>2. IInv /\ [Next]_vars => [\A x \in Tables : [Container(x)!Next]_(Container(x)!vars)]_vars
  BY StepRefines
<1> QED BY <1>1, <1>2, Invariance, PTL DEF Spec, ImplementsRWLock

-----------------------------------------------------------------------------
(* The entry traces *)

TraceOK(t) ==
  /\ header[t] = Newest(Traced(t))
  /\ \A n \in Traced(t) : Linked(t, n) = Newest({m \in Traced(t) : Before(m, n)})

LEMMA NewestIs ==
  ASSUME NEW S \in SUBSET (Nat \X Nat), NEW n \in S, \A m \in S \ {n} : Before(m, n)
  PROVE  Newest(S) = n
<1>1. \A k \in S : (\A m \in S \ {k} : Before(m, k)) => k = n
  <2> SUFFICES ASSUME NEW k \in S, \A m \in S \ {k} : Before(m, k), k # n PROVE FALSE
    OBVIOUS
  <2>1. Before(n, k) /\ Before(k, n)
    OBVIOUS
  <2>2. k[1] \in Nat /\ k[2] \in Nat /\ n[1] \in Nat /\ n[2] \in Nat
    OBVIOUS
  <2> QED BY <2>1, <2>2 DEF Before
<1> QED BY <1>1 DEF Newest

\* A step that leaves the entries of a thread and its header alone.
LEMMA SameTrace ==
  ASSUME NEW t \in Threads, TraceOK(t), header'[t] = header[t], Depth(t)' = Depth(t),
         \A d \in 1 .. Depth(t) : /\ stack'[t][d].tr1 = stack[t][d].tr1
                                  /\ stack'[t][d].tr2 = stack[t][d].tr2
  PROVE  TraceOK(t)'
<1>1. Traced(t)' = Traced(t)
  BY DEF Traced
<1>2. \A n \in Traced(t) : Linked(t, n)' = Linked(t, n)
  BY DEF Traced, Linked
<1>3. PICK T : T = Traced(t)
  OBVIOUS
<1>4. \A n \in T : Linked(t, n)' = Newest({m \in T : Before(m, n)})
  BY <1>2, <1>3 DEF TraceOK
<1>5. header'[t] = Newest(T)
  BY <1>3 DEF TraceOK
<1> QED BY <1>1, <1>3, <1>4, <1>5 DEF TraceOK

LEMMA OthersTrace ==
  ASSUME \A u \in Threads : TraceOK(u), NEW t \in Threads, OthersStay(t), TraceOK(t)',
         \A u \in Threads : u # t => header'[u] = header[u]
  PROVE  \A u \in Threads : TraceOK(u)'
<1> SUFFICES ASSUME NEW u \in Threads, u # t PROVE TraceOK(u)'
  OBVIOUS
<1>1. stack'[u] = stack[u] /\ Depth(u)' = Depth(u)
  BY DEF OthersStay, Depth
<1> QED BY <1>1, SameTrace

LEMMA TopTrace ==
  ASSUME IInv, \A u \in Threads : TraceOK(u), NEW t \in Threads, NEW f, Depth(t) > 0, TopBecomes(t, f),
         f.tr1 = Top(t).tr1, f.tr2 = Top(t).tr2, header' = header
  PROVE  \A u \in Threads : TraceOK(u)'
<1>1. Depth(t) \in Nat /\ Depth(t)' = Depth(t)
  BY TopOK DEF TopBecomes
<1>2. \A d \in 1 .. Depth(t) : /\ stack'[t][d].tr1 = stack[t][d].tr1
                               /\ stack'[t][d].tr2 = stack[t][d].tr2
  <2> SUFFICES ASSUME NEW d \in 1 .. Depth(t)
               PROVE  stack'[t][d].tr1 = stack[t][d].tr1 /\ stack'[t][d].tr2 = stack[t][d].tr2
    OBVIOUS
  <2>1. CASE d = Depth(t)
    BY <2>1 DEF TopBecomes, Top
  <2>2. CASE d < Depth(t)
    BY <1>1, <2>2 DEF TopBecomes
  <2> QED BY <1>1, <2>1, <2>2
<1>3. TraceOK(t)'
  BY <1>1, <1>2, SameTrace
<1> QED BY <1>3, OthersTrace DEF TopBecomes

\* The entries of a new access come before all others.
LEMMA BeginTrace ==
  ASSUME IInv, \A u \in Threads : TraceOK(u), NEW t \in Threads, Begin(t)
  PROVE  \A u \in Threads : TraceOK(u)'
<1>1. PICK kind \in {"visit", "exclusive", "both"}, x \in Tables, y \in Tables, plan \in Seq(Requests) :
        Calls(t, kind, x, y, plan)
  BY BeginStep
<1>2. PICK f, D : f = NewAccess(t, kind, x, y, plan) /\ D = Depth(t) + 1
  OBVIOUS
<1>3. PICK T : T = Traced(t)
  OBVIOUS
<1>4. /\ Pushed(t, f) /\ Depth(t) \in Nat /\ D \in Nat
      /\ header' = [header EXCEPT ![t] = IF y = x THEN <<D, 1>> ELSE <<D, 2>>] /\ t \in DOMAIN header
  BY <1>1, <1>2, PushStep, TopTyped DEF Calls, IInv, TypeOK
<1>5. /\ f.tr1.next = header[t] /\ f.tr2.next = <<D, 1>>
      /\ f.tr2.px = IF y = x THEN NoTable ELSE y
  BY <1>2 DEF NewAccess, Entry
<1>6. /\ Depth(t)' = D /\ stack'[t][D] = f
      /\ \A d \in 1 .. Depth(t) : stack'[t][d] = stack[t][d]
  BY <1>2, <1>4 DEF Pushed
<1>7. y # NoTable
  BY TablesAssumption
<1>8. T \in SUBSET (Nat \X Nat) /\ \A m \in T : m[1] < D
  BY <1>2, <1>3, <1>4 DEF Traced
<1>9. Traced(t)' = T \cup {<<D, 1>>} \cup (IF y = x THEN {} ELSE {<<D, 2>>})
  <2>1. \A n \in (1 .. Depth(t)) \X {1, 2} : n \in Traced(t)' <=> n \in T
    BY <1>3, <1>6, <1>4, <1>2 DEF Traced
  <2>2. \A n \in {D} \X {1, 2} : n \in Traced(t)' <=> n[2] = 1 \/ y # x
    BY <1>2, <1>4, <1>5, <1>6, <1>7 DEF Traced
  <2>3. Traced(t)' \subseteq (1 .. D) \X {1, 2} /\ T \subseteq (1 .. Depth(t)) \X {1, 2}
    BY <1>3, <1>6 DEF Traced
  <2>4. (1 .. D) \X {1, 2} = ((1 .. Depth(t)) \X {1, 2}) \cup ({D} \X {1, 2})
    BY <1>2, <1>4
  <2> QED BY <2>1, <2>2, <2>3, <2>4
<1>10. header'[t] = Newest(Traced(t)')
  <2>1. CASE y = x
    BY <1>4, <1>8, <1>9, <2>1, NewestIs DEF Before
  <2>2. CASE y # x
    <3>1. Traced(t)' \in SUBSET (Nat \X Nat) /\ <<D, 2>> \in Traced(t)'
      BY <1>4, <1>8, <1>9, <2>2
    <3>2. \A m \in Traced(t)' \ {<<D, 2>>} : Before(m, <<D, 2>>)
      BY <1>8, <1>9, <2>2 DEF Before
    <3> QED BY <1>4, <2>2, <3>1, <3>2, NewestIs
  <2> QED BY <2>1, <2>2
<1>11. ASSUME NEW n \in Traced(t)'
       PROVE  Linked(t, n)' = Newest({m \in Traced(t)' : Before(m, n)})
  <2>1. CASE n \in T
    <3>1. {m \in Traced(t)' : Before(m, n)} = {m \in T : Before(m, n)}
      BY <1>8, <1>9, <1>4, <2>1 DEF Before
    <3>2. n[1] \in 1 .. Depth(t)
      BY <1>3, <2>1 DEF Traced
    <3>3. Linked(t, n)' = Linked(t, n)
      BY <1>6, <3>2 DEF Linked
    <3> QED BY <1>3, <2>1, <3>1, <3>3 DEF TraceOK
  <2>2. CASE n = <<D, 1>>
    <3>1. {m \in Traced(t)' : Before(m, n)} = T
      BY <1>4, <1>8, <1>9, <2>2 DEF Before
    <3>2. Linked(t, n)' = header[t]
      BY <1>5, <1>6, <2>2 DEF Linked
    <3> QED BY <1>3, <3>1, <3>2 DEF TraceOK
  <2>3. CASE n = <<D, 2>> /\ y # x
    <3>1. {m \in Traced(t)' : Before(m, n)} = T \cup {<<D, 1>>}
      BY <1>4, <1>8, <1>9, <2>3 DEF Before
    <3>2. Linked(t, n)' = <<D, 1>>
      BY <1>5, <1>6, <2>3 DEF Linked
    <3>3. T \cup {<<D, 1>>} \in SUBSET (Nat \X Nat)
      BY <1>4, <1>8
    <3>4. \A m \in (T \cup {<<D, 1>>}) \ {<<D, 1>>} : Before(m, <<D, 1>>)
      BY <1>8 DEF Before
    <3>5. Newest(T \cup {<<D, 1>>}) = <<D, 1>>
      BY <3>3, <3>4, NewestIs
    <3> QED BY <3>1, <3>2, <3>5
  <2> QED BY <1>9, <2>1, <2>2, <2>3
<1>12. TraceOK(t)'
  BY <1>10, <1>11 DEF TraceOK
<1>13. OthersStay(t) /\ \A u \in Threads : u # t => header'[u] = header[u]
  BY <1>4 DEF Pushed, IInv, TypeOK
<1> QED BY <1>12, <1>13, OthersTrace

\* The entries of the access that is over are the newest, and there are no others.
LEMMA EndTrace ==
  ASSUME IInv, \A u \in Threads : TraceOK(u), NEW t \in Threads, End(t)
  PROVE  \A u \in Threads : TraceOK(u)'
<1>1. PICK T, D : T = Traced(t) /\ D = Depth(t)
  OBVIOUS
<1>2. /\ Popped(t) /\ D \in Nat /\ D > 0 /\ AccessOK(Top(t)) /\ t \in DOMAIN header
      /\ header' = [header EXCEPT ![t] = Cleared(Top(t), @)]
  BY <1>1, EndIInv, TopOK DEF End, TypeOK
<1>3. Depth(t)' = D - 1 /\ \A d \in 1 .. D - 1 : stack'[t][d] = stack[t][d]
  BY <1>1, <1>2 DEF Popped
<1>4. T \in SUBSET (Nat \X Nat) /\ \A m \in T : m[1] \in 1 .. D
  BY <1>1, <1>2 DEF Traced
<1>5. Traced(t)' = {m \in T : m[1] < D}
  <2>1. \A n \in (1 .. D - 1) \X {1, 2} : n \in Traced(t)' <=> n \in T
    BY <1>1, <1>2, <1>3 DEF Traced
  <2>2. Traced(t)' \subseteq (1 .. D - 1) \X {1, 2} /\ T \subseteq (1 .. D) \X {1, 2}
    BY <1>1, <1>3 DEF Traced
  <2>3. \A n \in (1 .. D) \X {1, 2} : n[1] < D <=> n \in (1 .. D - 1) \X {1, 2}
    BY <1>2
  <2> QED BY <1>2, <2>1, <2>2, <2>3
<1>6. header'[t] = Newest(Traced(t)')
  <2>1. header'[t] = Top(t).tr1.next
    BY <1>2, TablesAssumption DEF Cleared, AccessOK
  <2>2. <<D, 1>> \in T /\ Linked(t, <<D, 1>>) = Top(t).tr1.next
    BY <1>1, <1>2 DEF Traced, Linked, Top
  <2>3. {m \in T : Before(m, <<D, 1>>)} = Traced(t)'
    <3>1. \A m \in T : Before(m, <<D, 1>>) <=> m[1] < D
      <4> SUFFICES ASSUME NEW m \in T PROVE Before(m, <<D, 1>>) <=> m[1] < D
        OBVIOUS
      <4>1. m[2] \in {1, 2}
        BY <1>1 DEF Traced
      <4> QED BY <4>1 DEF Before
    <3> QED BY <1>5, <3>1
  <2> QED BY <1>1, <2>1, <2>2, <2>3 DEF TraceOK
<1>7. ASSUME NEW n \in Traced(t)'
      PROVE  Linked(t, n)' = Newest({m \in Traced(t)' : Before(m, n)})
  <2>1. n \in T /\ n[1] \in 1 .. D - 1
    BY <1>2, <1>4, <1>5
  <2>2. {m \in Traced(t)' : Before(m, n)} = {m \in T : Before(m, n)}
    BY <1>2, <1>4, <1>5, <2>1 DEF Before
  <2>3. Linked(t, n)' = Linked(t, n)
    BY <1>3, <2>1 DEF Linked
  <2> QED BY <1>1, <2>1, <2>2, <2>3 DEF TraceOK
<1>8. TraceOK(t)'
  BY <1>6, <1>7 DEF TraceOK
<1> QED BY <1>2, <1>8, OthersTrace DEF Popped

LEMMA NextTrace ==
  ASSUME IInv, \A u \in Threads : TraceOK(u), [Next]_vars
  PROVE  \A u \in Threads : TraceOK(u)'
<1>1. ASSUME stack' = stack, header' = header
      PROVE  \A u \in Threads : TraceOK(u)'
  BY <1>1, SameTrace DEF Depth
<1>2. ASSUME NEW t \in Threads, Acquire(t) \/ Finish(t) \/ Release(t)
      PROVE  \A u \in Threads : TraceOK(u)'
  <2>1. Depth(t) > 0 /\ header' = header
    BY <1>2 DEF Acquire, Finish, Release, Waiting, Entered
  <2>2. PICK f : /\ SetTop(t, f)
                 /\ \/ f = [Top(t) EXCEPT !.got = @ + 1]
                    \/ f = [Top(t) EXCEPT !.got = @ - 1] /\ Top(t).got > 0
                    \/ f = [Top(t) EXCEPT !.releasing = TRUE]
    BY <1>2 DEF Acquire, Finish, Release
  <2>3. TopBecomes(t, f) /\ f.tr1 = Top(t).tr1 /\ f.tr2 = Top(t).tr2
    BY <2>1, <2>2, TopStep
  <2> QED BY <2>1, <2>3, TopTrace
<1>3. CASE UNCHANGED vars
  BY <1>1, <1>3 DEF vars
<1>4. ASSUME NEW t \in Threads, Announce(t)
      PROVE  \A u \in Threads : TraceOK(u)'
  BY <1>1, <1>4 DEF Announce
<1>5. CASE Next
  BY <1>2, <1>4, <1>5, BeginTrace, EndTrace DEF Next, Step
<1> QED BY <1>3, <1>5

\* The entry traces of a thread are its accesses, however deeply nested and in
\* whatever order their two entries are made and cleared.
THEOREM TracesAreAccesses == Spec => []TraceIsStack
<1>1. Init => \A u \in Threads : TraceOK(u)
  <2> SUFFICES ASSUME Init, NEW u \in Threads PROVE TraceOK(u)
    OBVIOUS
  <2>1. Traced(u) = {} /\ header[u] = Null
    BY DEF Init, Traced, Depth
  <2> QED BY <2>1 DEF TraceOK, Newest
<1>2. IInv /\ (\A u \in Threads : TraceOK(u)) /\ [Next]_vars => (\A u \in Threads : TraceOK(u))'
  BY NextTrace
<1>3. (\A u \in Threads : TraceOK(u)) => TraceIsStack
  BY DEF TraceOK, TraceIsStack
<1> QED BY <1>1, <1>2, <1>3, Invariance, PTL DEF Spec

-----------------------------------------------------------------------------
(* Nobody waits for somebody who waits for them *)

\* Visitation functions operate on tables at higher addresses than the ones that
\* call them.
NestedUpwards == \A p \in Nested : p[1] < p[2]

\* While some operation is under way, some thread can go on with its own: it has all
\* the mutexes it needs, is giving them back, or can have the next one.
SomeoneProceeds ==
  (\E t \in Threads : Depth(t) > 0) =>
    \E t \in Threads :
      /\ Depth(t) > 0
      /\ Entered(t) \/ Top(t).releasing \/ (Waiting(t) /\ Grantable(Wanted(t)))

\* The mutexes of an access are locked in order.
Ordered(a) ==
  /\ \A i, j \in 1 .. Len(a.plan) : i < j => Before(a.plan[i].mutex, a.plan[j].mutex)
  /\ a.kind = "visit" => \A i \in 1 .. Len(a.plan) : a.plan[i].mutex[1] = a.tr1.px

\* Access b locks mutexes after those of the visit a.
Above(b, a) ==
  a.tr1.px < b.tr1.px /\ \A i \in 1 .. Len(b.plan) : a.tr1.px < b.plan[i].mutex[1]

Climbs(t) ==
  \A d \in 1 .. Depth(t) :
    Ordered(stack[t][d]) /\ \A c \in 1 .. d - 1 : Above(stack[t][d], stack[t][c])

\* A mutex is announced by a writer that waits for it.
Awaits(t, m) == Waiting(t) /\ Wanted(t).mutex = m /\ Wanted(t).mode = "exclusive"
PendingAwaited == \A m \in pending : \E t \in Threads : Awaits(t, m)

\* Pairs cannot go on growing in a finite set.
LEMMA NoEndlessAscent ==
  ASSUME NEW B, IsFiniteSet(B), B # {}, NEW w \in [B -> Nat \X Nat],
         \A t \in B : \E v \in B : Before(w[t], w[v])
  PROVE  FALSE
<1> DEFINE After(t) == {u \in B : Before(w[t], w[u])}
           F == {After(t) : t \in B}
<1>1. F \subseteq FiniteSubsetsOf(B) /\ F # {}
  <2>1. \A t \in B : After(t) \in SUBSET B /\ IsFiniteSet(After(t))
    BY FS_Subset
  <2>2. \A C \in F : C \in SUBSET B /\ IsFiniteSet(C)
    BY <2>1
  <2>3. F # {}
    <3>1. PICK t \in B : TRUE
      OBVIOUS
    <3>2. After(t) \in F
      OBVIOUS
    <3> QED BY <3>2
  <2> HIDE DEF F
  <2> QED BY <2>2, <2>3 DEF FiniteSubsetsOf
<1>2. PICK A \in F : \A C \in F : ~(<<C, A>> \in StrictSubsetOrdering(B))
  <2> HIDE DEF F
  <2> QED BY <1>1, FS_StrictSubsetOrderingWellFounded, WFMin
<1>3. PICK t \in B : A = After(t)
  OBVIOUS
<1>4. PICK v \in B : Before(w[t], w[v])
  OBVIOUS
<1>5. \A u \in B : w[u][1] \in Nat /\ w[u][2] \in Nat
  OBVIOUS
<1>6. v \in After(t) /\ v \notin After(v)
  BY <1>4, <1>5 DEF Before
<1>7. After(v) \subseteq After(t)
  BY <1>4, <1>5 DEF Before
<1>8. <<After(v), After(t)>> \in StrictSubsetOrdering(B)
  BY <1>6, <1>7 DEF StrictSubsetOrdering
<1> QED BY <1>2, <1>3, <1>8

LEMMA InRange == ASSUME NEW S, NEW s \in Seq(S), NEW i \in 1 .. Len(s) PROVE s[i] \in S
OBVIOUS

LEMMA WantedTyped ==
  ASSUME IInv, NEW t \in Threads, Waiting(t)
  PROVE  Wanted(t) \in Requests /\ Wanted(t).mutex \in Nat \X Nat
         /\ Wanted(t).mode \in Modes /\ Wanted(t).mutex \in Mutexes
<1>1. /\ Depth(t) > 0 /\ Top(t).got \in Nat /\ Top(t).plan \in Seq(Requests)
      /\ Top(t).got < Len(Top(t).plan)
  BY TopOK DEF Waiting
<1>2. PICK R, p, g : R = Requests /\ p = Top(t).plan /\ g = Top(t).got
  OBVIOUS
<1>3. Wanted(t) \in Requests
  BY <1>1, <1>2, ElementOfSequence DEF Wanted
<1>4. Wanted(t).mutex \in Mutexes /\ Wanted(t).mode \in Modes
  <2>1. PICK r : r = Wanted(t)
    OBVIOUS
  <2> QED BY <1>3, <2>1 DEF Requests
<1>5. Mutexes \subseteq Nat \X Nat
  <2>1. Tables \subseteq Nat /\ 0 .. M \subseteq Nat
    BY TablesAssumption, SlotAssumption
  <2> QED BY <2>1 DEF Mutexes
<1> QED BY <1>3, <1>4, <1>5

\* What a thread that waits has locked comes before what it waits for.
LEMMA LockedBefore ==
  ASSUME IInv, NEW t \in Threads, Climbs(t), Waiting(t),
         NEW m \in Mutexes, NEW mode \in Modes, HasLocked(t, m, mode)
  PROVE  Before(m, Wanted(t).mutex)
<1>1. PICK d \in 1 .. Depth(t) : \E i \in 1 .. stack[t][d].got : stack[t][d].plan[i] = Request(m[1], m[2], mode)
  BY DEF HasLocked
<1>2. PICK i \in 1 .. stack[t][d].got : stack[t][d].plan[i] = Request(m[1], m[2], mode)
  BY <1>1
<1>3. stack[t][d].plan[i].mutex = m
  BY <1>2 DEF Request, Mutexes
<1>4. /\ Depth(t) \in Nat /\ Depth(t) > 0 /\ Top(t).got \in Nat /\ Len(Top(t).plan) \in Nat
      /\ Top(t).got < Len(Top(t).plan)
  BY TopOK DEF Waiting
<1>5. CASE d = Depth(t)
  <2>1. i \in 1 .. Len(Top(t).plan) /\ Top(t).got + 1 \in 1 .. Len(Top(t).plan) /\ i < Top(t).got + 1
    <3>1. i \in 1 .. Top(t).got
      BY <1>2, <1>5 DEF Top
    <3> QED BY <1>4, <3>1
  <2>2. Ordered(Top(t)) /\ Top(t).plan[i].mutex = m
    BY <1>3, <1>5 DEF Climbs, Top
  <2> QED BY <2>1, <2>2 DEF Ordered, Wanted
<1>6. CASE d < Depth(t)
  <2>1. /\ Visiting(stack[t][d]) /\ stack[t][d].got \in Nat
        /\ Ordered(stack[t][d]) /\ Above(stack[t][Depth(t)], stack[t][d])
    <3>1. d \in 1 .. Depth(t) - 1 /\ Depth(t) \in 1 .. Depth(t)
      BY <1>4, <1>6
    <3> QED BY <1>6, <3>1, TopTyped DEF IInv, AccessesOK, Climbs
  <2>2. m[1] = stack[t][d].tr1.px
    BY <1>2, <1>3, <2>1 DEF Visiting, Ordered
  <2>3. stack[t][d].tr1.px < Wanted(t).mutex[1]
    <3>1. Top(t).got + 1 \in 1 .. Len(Top(t).plan)
      BY <1>4
    <3> QED BY <2>1, <3>1 DEF Above, Wanted, Top
  <2> QED BY <2>2, <2>3 DEF Before
<1> QED BY <1>4, <1>5, <1>6

\* A thread that cannot have the mutex it waits for waits for one that another thread,
\* inside an operation too, has locked.
LEMMA SomeoneHolds ==
  ASSUME IInv, PendingAwaited, NEW t \in Threads, Waiting(t), ~Grantable(Wanted(t)),
         \A u \in Threads : Waiting(u) => ~Grantable(Wanted(u))
  PROVE  \E v \in Threads, mode \in Modes : HasLocked(v, Wanted(t).mutex, mode)
<1>1. CASE Held(Wanted(t).mutex, "exclusive") \/ Held(Wanted(t).mutex, "shared")
  BY <1>1 DEF Held, Modes
<1>2. CASE Wanted(t).mutex \in pending
  <2>1. PICK u \in Threads : Awaits(u, Wanted(t).mutex)
    BY <1>2 DEF PendingAwaited
  <2>2. Held(Wanted(t).mutex, "exclusive") \/ Held(Wanted(t).mutex, "shared")
    BY <2>1 DEF Awaits, Grantable
  <2> QED BY <1>1, <2>2
<1> QED BY <1>1, <1>2, WantedTyped DEF Grantable, Modes

LEMMA HolderIsInside ==
  ASSUME TypeOK, NEW v \in Threads, NEW m, NEW mode, HasLocked(v, m, mode)
  PROVE  Depth(v) > 0
BY TopTyped DEF HasLocked

LEMMA WaitersProceed ==
  ASSUME IInv, \A t \in Threads : Climbs(t), PendingAwaited
  PROVE  SomeoneProceeds
<1> SUFFICES ASSUME NEW s \in Threads, Depth(s) > 0,
                    \A t \in Threads : Depth(t) > 0 =>
                      /\ ~Entered(t) /\ ~Top(t).releasing
                      /\ ~(Waiting(t) /\ Grantable(Wanted(t)))
             PROVE  FALSE
  BY DEF SomeoneProceeds
<1> DEFINE B == {t \in Threads : Depth(t) > 0}
           w == [t \in B |-> Wanted(t).mutex]
<1>1. \A t \in B : Waiting(t)
  <2> SUFFICES ASSUME NEW t \in Threads, Depth(t) > 0 PROVE Waiting(t)
    OBVIOUS
  <2>1. ~Top(t).releasing /\ Top(t).got <= Len(Top(t).plan) /\ Top(t).got # Len(Top(t).plan)
    BY TopOK DEF AccessOK, Entered
  <2> QED BY <2>1, TopOK DEF Waiting
<1>2. \A t \in Threads : Waiting(t) => ~Grantable(Wanted(t))
  BY DEF Waiting
<1>3. w \in [B -> Nat \X Nat]
  BY <1>1, WantedTyped
<1>4. ASSUME NEW t \in B
      PROVE  \E v \in B : Before(w[t], w[v])
  <2>1. PICK v \in Threads, mode \in Modes : HasLocked(v, Wanted(t).mutex, mode)
    BY <1>1, <1>2, SomeoneHolds
  <2>2. v \in B /\ Waiting(v)
    BY <1>1, <2>1, HolderIsInside DEF IInv
  <2>3. Before(Wanted(t).mutex, Wanted(v).mutex)
    BY <1>1, <2>1, <2>2, LockedBefore, WantedTyped
  <2> QED BY <2>2, <2>3
<1>5. IsFiniteSet(B) /\ B # {}
  BY ThreadsAssumption, FS_Subset
<1> HIDE DEF B, w
<1> QED BY <1>3, <1>4, <1>5, NoEndlessAscent

\* Each access locks its mutexes in order.
LEMMA CallIsOrdered ==
  ASSUME NEW t \in Threads, NEW kind, NEW x \in Tables, NEW y \in Tables, NEW plan,
         Calls(t, kind, x, y, plan)
  PROVE  Ordered(NewAccess(t, kind, x, y, plan))
<1>1. PICK f : f = NewAccess(t, kind, x, y, plan)
  OBVIOUS
<1> SUFFICES Ordered(f)
  BY <1>1
<1>2. f.plan = plan /\ f.kind = kind /\ f.tr1.px = x
  BY <1>1 DEF NewAccess, Entry
<1>3. M \in Nat \ {0} /\ Slot[t] \in 0 .. M - 1 /\ x \in Nat /\ y \in Nat
  BY SlotAssumption, TablesAssumption
<1>4. \A z \in Tables : Len(ExclusivePlan(z)) = M /\ \A i \in 1 .. M : ExclusivePlan(z)[i].mutex = <<z, i - 1>>
  BY ExclusivePlanTyped, RequestIs
<1>5. ASSUME kind = "visit", NEW mode \in Modes, plan = SharedPlan(t, x, mode)
      PROVE  Ordered(f)
  <2>1. Len(plan) = 2 /\ plan[1].mutex = <<x, Slot[t]>> /\ plan[2].mutex = <<x, M>>
    BY <1>5, SharedPlanTyped, RequestIs
  <2> QED BY <1>2, <1>3, <2>1 DEF Ordered, Before
<1>6. ASSUME kind # "visit", NEW z \in Tables, plan = ExclusivePlan(z)
      PROVE  Ordered(f)
  <2>1. Len(plan) = M /\ \A i \in 1 .. M : plan[i].mutex = <<z, i - 1>>
    BY <1>4, <1>6
  <2> QED BY <1>2, <1>3, <1>6, <2>1 DEF Ordered, Before
<1>7. ASSUME kind # "visit", NEW a \in {x, y}, NEW b \in {x, y}, a < b, LocksInOrder(plan, a, b)
      PROVE  Ordered(f)
  <2>1. /\ Len(plan) = M + M
        /\ \A i \in 1 .. M : plan[i].mutex = <<a, i - 1>> /\ plan[M + i].mutex = <<b, i - 1>>
    BY <1>7, RequestIs DEF LocksInOrder
  <2>2. \A i \in 1 .. M + M : plan[i].mutex = IF i <= M THEN <<a, i - 1>> ELSE <<b, i - M - 1>>
    <3> SUFFICES ASSUME NEW i \in 1 .. M + M
                 PROVE  plan[i].mutex = IF i <= M THEN <<a, i - 1>> ELSE <<b, i - M - 1>>
      OBVIOUS
    <3>1. CASE i <= M
      BY <1>3, <2>1, <3>1
    <3>2. CASE i > M
      <4>1. i - M \in 1 .. M /\ M + (i - M) = i /\ (i - M) - 1 = i - M - 1
        BY <1>3, <3>2
      <4>2. plan[M + (i - M)].mutex = <<b, (i - M) - 1>>
        BY <2>1, <4>1
      <4> QED BY <1>3, <3>2, <4>1, <4>2
    <3> QED BY <1>3, <3>1, <3>2
  <2>3. ASSUME NEW i \in 1 .. M + M, NEW j \in 1 .. M + M, i < j
        PROVE  Before(plan[i].mutex, plan[j].mutex)
    <3>1. /\ plan[i].mutex = IF i <= M THEN <<a, i - 1>> ELSE <<b, i - M - 1>>
          /\ plan[j].mutex = IF j <= M THEN <<a, j - 1>> ELSE <<b, j - M - 1>>
      BY <2>2
    <3>2. CASE j <= M
      BY <1>3, <2>3, <3>1, <3>2 DEF Before
    <3>3. CASE i <= M /\ j > M
      BY <1>3, <1>7, <3>1, <3>3 DEF Before
    <3>4. CASE i > M
      <4>1. plan[i].mutex = <<b, i - M - 1>> /\ plan[j].mutex = <<b, j - M - 1>>
        BY <1>3, <2>3, <3>1, <3>4
      <4> QED BY <1>3, <2>3, <4>1 DEF Before
    <3> QED BY <1>3, <3>2, <3>3, <3>4
  <2> QED BY <1>2, <1>7, <2>1, <2>3 DEF Ordered
<1>8. CASE kind = "both" /\ plan = BothPlan(x, y)
  <2>1. CASE x = y
    BY <1>6, <1>8, <2>1, BothPlanOrdered
  <2>2. CASE x < y
    BY <1>7, <1>8, <2>2, BothPlanOrdered
  <2>3. CASE y < x
    BY <1>7, <1>8, <2>3, BothPlanOrdered
  <2> QED BY <1>3, <2>1, <2>2, <2>3
<1> QED BY <1>1, <1>5, <1>6, <1>8 DEF Calls

\* The tables whose mutexes an access locks.
LEMMA CallLocksTables ==
  ASSUME NEW t \in Threads, NEW kind, NEW x \in Tables, NEW y \in Tables, NEW plan,
         Calls(t, kind, x, y, plan)
  PROVE  \A i \in 1 .. Len(plan) : plan[i].mutex[1] \in {x, y}
<1>1. M \in Nat \ {0} /\ x \in Nat /\ y \in Nat
  BY SlotAssumption, TablesAssumption
<1>2. ASSUME NEW mode \in Modes, plan = SharedPlan(t, x, mode)
      PROVE  \A i \in 1 .. Len(plan) : plan[i].mutex[1] \in {x, y}
  <2>1. Len(plan) = 2 /\ plan[1].mutex = <<x, Slot[t]>> /\ plan[2].mutex = <<x, M>>
    BY <1>2, SharedPlanTyped, RequestIs
  <2> QED BY <2>1
<1>3. ASSUME NEW z \in {x, y}, plan = ExclusivePlan(z)
      PROVE  \A i \in 1 .. Len(plan) : plan[i].mutex[1] \in {x, y}
  BY <1>3, ExclusivePlanTyped, RequestIs
<1>4. ASSUME NEW a \in {x, y}, NEW b \in {x, y}, LocksInOrder(plan, a, b)
      PROVE  \A i \in 1 .. Len(plan) : plan[i].mutex[1] \in {x, y}
  <2> SUFFICES ASSUME NEW i \in 1 .. M + M PROVE plan[i].mutex[1] \in {x, y}
    BY <1>4 DEF LocksInOrder
  <2>1. CASE i <= M
    BY <1>1, <1>4, <2>1, RequestIs DEF LocksInOrder
  <2>2. CASE i > M
    <3>1. i - M \in 1 .. M /\ M + (i - M) = i
      BY <1>1, <2>2
    <3>2. plan[M + (i - M)] = Request(b, i - M - 1, "exclusive")
      BY <1>4, <3>1 DEF LocksInOrder
    <3> QED BY <3>1, <3>2, RequestIs
  <2> QED BY <1>1, <2>1, <2>2
<1>5. CASE plan = BothPlan(x, y)
  <2>1. CASE x = y
    BY <1>3, <1>5, <2>1, BothPlanOrdered
  <2>2. CASE x < y
    BY <1>4, <1>5, <2>2, BothPlanOrdered
  <2>3. CASE y < x
    BY <1>4, <1>5, <2>3, BothPlanOrdered
  <2> QED BY <1>1, <2>1, <2>2, <2>3
<1> QED BY <1>2, <1>3, <1>5 DEF Calls

LEMMA OthersClimb ==
  ASSUME NEW t \in Threads, OthersStay(t), \A u \in Threads : Climbs(u), Climbs(t)'
  PROVE  \A u \in Threads : Climbs(u)'
<1> SUFFICES ASSUME NEW u \in Threads, u # t PROVE Climbs(u)'
  OBVIOUS
<1>1. stack'[u] = stack[u] /\ Depth(u)' = Depth(u)
  BY DEF OthersStay, Depth
<1> QED BY <1>1 DEF Climbs, Ordered, Above

\* A new access is above those from whose visitation function it is called.
LEMMA BeginClimbs ==
  ASSUME IInv, NestedUpwards, NEW t \in Threads, Begin(t), \A u \in Threads : Climbs(u)
  PROVE  \A u \in Threads : Climbs(u)'
<1>1. PICK kind \in {"visit", "exclusive", "both"}, x \in Tables, y \in Tables, plan \in Seq(Requests) :
        Calls(t, kind, x, y, plan)
  BY BeginStep
<1>2. PICK f : f = NewAccess(t, kind, x, y, plan)
  OBVIOUS
<1>3. Pushed(t, f) /\ f.plan = plan /\ f.tr1.px = x /\ Ordered(f) /\ Depth(t) \in Nat
  BY <1>1, <1>2, PushStep, CallIsOrdered, TopOK, TopTyped DEF Calls, NewAccess, Entry, IInv
<1>4. Depth(t) > 0 => Top(t).tr1.px < x /\ Top(t).tr1.px < y
  <2>1. Depth(t) > 0 => <<Top(t).tr1.px, x>> \in Nested /\ <<Top(t).tr1.px, y>> \in Nested
    BY <1>1 DEF Calls, MayAccess
  <2> QED BY <2>1 DEF NestedUpwards
<1>5. ASSUME NEW c \in 1 .. Depth(t)
      PROVE  Above(f, stack[t][c])
  <2>1. /\ Depth(t) > 0 /\ Depth(t) \in 1 .. Depth(t)
        /\ c \in 1 .. Depth(t) - 1 \/ c = Depth(t)
        /\ stack[t][Depth(t)] = Top(t)
    BY <1>3 DEF Top
  <2>2. /\ stack[t][c].tr1.px \in Nat /\ Top(t).tr1.px \in Nat /\ x \in Nat /\ y \in Nat
        /\ \A i \in 1 .. Len(plan) : plan[i].mutex[1] \in {x, y}
    <3>1. AccessOK(stack[t][c]) /\ AccessOK(stack[t][Depth(t)])
      BY <2>1 DEF IInv, AccessesOK
    <3>2. stack[t][c].tr1.px \in Tables /\ Top(t).tr1.px \in Tables
      BY <3>1 DEF AccessOK, Top
    <3> QED BY <1>1, <3>2, TablesAssumption, CallLocksTables
  <2>3. stack[t][c].tr1.px <= Top(t).tr1.px
    <3>1. c \in 1 .. Depth(t) - 1 => Above(Top(t), stack[t][c])
      BY <2>1 DEF Climbs
    <3> QED BY <2>1, <2>2, <3>1 DEF Above
  <2>4. stack[t][c].tr1.px < x /\ stack[t][c].tr1.px < y
    BY <1>3, <1>4, <2>2, <2>3
  <2> QED BY <1>3, <2>2, <2>4 DEF Above
<1>6. \A d \in 1 .. Depth(t) + 1 : Ordered(stack'[t][d]) /\ \A c \in 1 .. d - 1 : Above(stack'[t][d], stack'[t][c])
  <2> SUFFICES ASSUME NEW d \in 1 .. Depth(t) + 1
               PROVE  Ordered(stack'[t][d]) /\ \A c \in 1 .. d - 1 : Above(stack'[t][d], stack'[t][c])
    OBVIOUS
  <2>1. CASE d = Depth(t) + 1
    <3>1. stack'[t][d] = f /\ \A c \in 1 .. d - 1 : c \in 1 .. Depth(t) /\ stack'[t][c] = stack[t][c]
      BY <1>3, <2>1 DEF Pushed
    <3> QED BY <1>3, <1>5, <3>1
  <2>2. CASE d \in 1 .. Depth(t)
    <3>1. stack'[t][d] = stack[t][d] /\ \A c \in 1 .. d - 1 : c \in 1 .. Depth(t) /\ stack'[t][c] = stack[t][c]
      BY <1>3, <2>2 DEF Pushed
    <3> QED BY <2>2, <3>1 DEF Climbs
  <2> QED BY <1>3, <2>1, <2>2
<1>7. Climbs(t)'
  BY <1>3, <1>6 DEF Climbs, Pushed, Ordered, Above
<1> QED BY <1>3, <1>7, OthersClimb DEF Pushed

LEMMA EndClimbs ==
  ASSUME IInv, NEW t \in Threads, End(t), \A u \in Threads : Climbs(u)
  PROVE  \A u \in Threads : Climbs(u)'
<1>1. Popped(t) /\ Depth(t) \in Nat /\ Depth(t) > 0
  BY EndIInv, TopOK DEF End
<1>2. \A d \in 1 .. Depth(t) - 1 :
        Ordered(stack'[t][d]) /\ \A c \in 1 .. d - 1 : Above(stack'[t][d], stack'[t][c])
  <2> SUFFICES ASSUME NEW d \in 1 .. Depth(t) - 1
               PROVE  Ordered(stack'[t][d]) /\ \A c \in 1 .. d - 1 : Above(stack'[t][d], stack'[t][c])
    OBVIOUS
  <2>1. d \in 1 .. Depth(t) /\ stack'[t][d] = stack[t][d]
        /\ \A c \in 1 .. d - 1 : stack'[t][c] = stack[t][c]
    BY <1>1 DEF Popped
  <2> QED BY <2>1 DEF Climbs
<1>3. Climbs(t)'
  BY <1>1, <1>2 DEF Climbs, Popped, Ordered, Above
<1> QED BY <1>1, <1>3, OthersClimb DEF Popped

LEMMA SameOrder ==
  ASSUME NEW a, NEW b, b.plan = a.plan, b.kind = a.kind, b.tr1 = a.tr1, Ordered(a)
  PROVE  Ordered(b)
<1>1. \A i, j \in 1 .. Len(b.plan) : i < j => Before(b.plan[i].mutex, b.plan[j].mutex)
  BY DEF Ordered
<1>2. b.kind = "visit" => \A i \in 1 .. Len(b.plan) : b.plan[i].mutex[1] = b.tr1.px
  BY DEF Ordered
<1> QED BY <1>1, <1>2 DEF Ordered

\* The newest access keeps its plan.
LEMMA TopClimbs ==
  ASSUME IInv, NEW t \in Threads, NEW f, Depth(t) > 0, TopBecomes(t, f),
         f.plan = Top(t).plan, f.kind = Top(t).kind, f.tr1 = Top(t).tr1, \A u \in Threads : Climbs(u)
  PROVE  \A u \in Threads : Climbs(u)'
<1>1. Depth(t) \in Nat
  BY TopOK
<1>2. \A d \in 1 .. Depth(t) : /\ stack'[t][d].plan = stack[t][d].plan
                               /\ stack'[t][d].kind = stack[t][d].kind
                               /\ stack'[t][d].tr1 = stack[t][d].tr1
  <2> SUFFICES ASSUME NEW d \in 1 .. Depth(t)
               PROVE  /\ stack'[t][d].plan = stack[t][d].plan /\ stack'[t][d].kind = stack[t][d].kind
                      /\ stack'[t][d].tr1 = stack[t][d].tr1
    OBVIOUS
  <2>1. CASE d = Depth(t)
    BY <2>1 DEF TopBecomes, Top
  <2>2. CASE d < Depth(t)
    BY <1>1, <2>2 DEF TopBecomes
  <2> QED BY <1>1, <2>1, <2>2
<1>3. \A d \in 1 .. Depth(t) :
        Ordered(stack'[t][d]) /\ \A c \in 1 .. d - 1 : Above(stack'[t][d], stack'[t][c])
  <2> SUFFICES ASSUME NEW d \in 1 .. Depth(t)
               PROVE  Ordered(stack'[t][d]) /\ \A c \in 1 .. d - 1 : Above(stack'[t][d], stack'[t][c])
    OBVIOUS
  <2>1. Ordered(stack[t][d])
    BY DEF Climbs
  <2>2. Ordered(stack'[t][d])
    BY <1>2, <2>1, SameOrder
  <2>3. ASSUME NEW c \in 1 .. d - 1
        PROVE  Above(stack'[t][d], stack'[t][c])
    <3>1. c \in 1 .. Depth(t)
      BY <1>1
    <3>2. Above(stack[t][d], stack[t][c])
      BY DEF Climbs
    <3> QED BY <1>2, <3>1, <3>2 DEF Above
  <2> QED BY <2>2, <2>3
<1>4. Climbs(t)'
  BY <1>3 DEF Climbs, TopBecomes, Ordered, Above
<1> QED BY <1>4, OthersClimb DEF TopBecomes

\* A thread that waits for a mutex goes on waiting for it while it stays on its stack.
LEMMA StillAwaits ==
  ASSUME NEW u \in Threads, stack'[u] = stack[u], NEW m, Awaits(u, m)
  PROVE  Awaits(u, m)'
BY DEF Awaits, Waiting, Wanted, Top, Depth

LEMMA NextAwaited ==
  ASSUME IInv, PendingAwaited, [Next]_vars
  PROVE  PendingAwaited'
<1>1. ASSUME stack' = stack, pending' = pending PROVE PendingAwaited'
  BY <1>1, StillAwaits DEF PendingAwaited
<1>2. ASSUME NEW t \in Threads, OthersStay(t), \A m \in pending' : m \in pending /\ ~Awaits(t, m)
      PROVE  PendingAwaited'
  <2> SUFFICES ASSUME NEW m \in pending' PROVE \E u \in Threads : Awaits(u, m)'
    BY DEF PendingAwaited
  <2>1. PICK u \in Threads : Awaits(u, m)
    BY <1>2 DEF PendingAwaited
  <2> QED BY <1>2, <2>1, StillAwaits DEF OthersStay
<1>3. ASSUME NEW t \in Threads, Begin(t) PROVE PendingAwaited'
  <2>1. PICK kind \in {"visit", "exclusive", "both"}, x \in Tables, y \in Tables, plan \in Seq(Requests) :
          Calls(t, kind, x, y, plan)
    BY <1>3, BeginStep
  <2>2. OthersStay(t) /\ pending' = pending
    BY <2>1, PushStep DEF Calls, Pushed
  <2>3. \A m : ~Awaits(t, m)
    <3>1. Depth(t) = 0 \/ Top(t).got = Len(Top(t).plan)
      BY <2>1 DEF Calls, MayBegin, Entered
    <3> QED BY <3>1, TopOK DEF Awaits, Waiting
  <2> QED BY <1>2, <2>2, <2>3
<1>4. ASSUME NEW t \in Threads, Acquire(t) PROVE PendingAwaited'
  <2>1. OthersStay(t)
    BY <1>4, TopStep DEF Acquire, Waiting, TopBecomes
  <2>2. \A m \in pending' : m \in pending /\ ~Awaits(t, m)
    BY <1>4 DEF Acquire, Awaits
  <2> QED BY <1>2, <2>1, <2>2
<1>5. ASSUME NEW t \in Threads, Finish(t) \/ Release(t) \/ End(t) PROVE PendingAwaited'
  <2>1. Depth(t) > 0 /\ pending' = pending /\ \A m : ~Awaits(t, m)
    BY <1>5, TopOK DEF Finish, Release, End, Entered, Awaits, Waiting
  <2>2. OthersStay(t)
    BY <1>5, <2>1, TopStep, EndIInv DEF Finish, Release, TopBecomes, Popped
  <2> QED BY <1>2, <2>1, <2>2
<1>6. ASSUME NEW t \in Threads, Announce(t) PROVE PendingAwaited'
  <2>1. Awaits(t, Wanted(t).mutex)
    BY <1>6 DEF Announce, Awaits
  <2>2. stack' = stack /\ pending' = pending \cup {Wanted(t).mutex}
    BY <1>6 DEF Announce
  <2>3. PICK w : w = Wanted(t).mutex
    OBVIOUS
  <2>4. Awaits(t, w)'
    BY <2>1, <2>2, <2>3, StillAwaits
  <2> QED BY <2>2, <2>3, <2>4, StillAwaits DEF PendingAwaited
<1>7. CASE UNCHANGED vars
  BY <1>1, <1>7 DEF vars
<1>8. CASE Next
  BY <1>3, <1>4, <1>5, <1>6, <1>8 DEF Next, Step
<1> QED BY <1>7, <1>8

LEMMA NextClimbs ==
  ASSUME IInv, NestedUpwards, \A u \in Threads : Climbs(u), [Next]_vars
  PROVE  \A u \in Threads : Climbs(u)'
<1>1. ASSUME stack' = stack PROVE \A u \in Threads : Climbs(u)'
  BY <1>1 DEF Climbs, Depth, Ordered, Above
<1>2. ASSUME NEW t \in Threads, Acquire(t) \/ Finish(t) \/ Release(t)
      PROVE  \A u \in Threads : Climbs(u)'
  <2>1. Depth(t) > 0
    BY <1>2 DEF Acquire, Finish, Release, Waiting, Entered
  <2>2. PICK f : /\ SetTop(t, f)
                 /\ \/ f = [Top(t) EXCEPT !.got = @ + 1]
                    \/ f = [Top(t) EXCEPT !.got = @ - 1] /\ Top(t).got > 0
                    \/ f = [Top(t) EXCEPT !.releasing = TRUE]
    BY <1>2 DEF Acquire, Finish, Release
  <2>3. TopBecomes(t, f) /\ f.plan = Top(t).plan /\ f.kind = Top(t).kind /\ f.tr1 = Top(t).tr1
    BY <2>1, <2>2, TopStep
  <2> QED BY <2>1, <2>3, TopClimbs
<1>3. CASE UNCHANGED vars
  BY <1>1, <1>3 DEF vars
<1>4. CASE Next
  BY <1>1, <1>2, <1>4, BeginClimbs, EndClimbs DEF Next, Step, Announce
<1> QED BY <1>3, <1>4

\* As long as visitation functions operate on tables at higher addresses only, the
\* threads never wait for one another in a circle, whatever the accesses they nest
\* and whichever mutexes they share: some thread that is inside an operation can
\* always go on.
THEOREM NoDeadlock ==
  ASSUME NestedUpwards
  PROVE  Spec => []SomeoneProceeds
<1> DEFINE LInv == (\A u \in Threads : Climbs(u)) /\ PendingAwaited
<1>1. Init => LInv
  <2> SUFFICES ASSUME Init PROVE LInv
    OBVIOUS
  <2>1. (\A u \in Threads : Depth(u) = 0) /\ pending = {}
    BY DEF Init, Depth
  <2> QED BY <2>1 DEF Climbs, PendingAwaited
<1>2. IInv /\ LInv /\ [Next]_vars => LInv'
  BY NextClimbs, NextAwaited
<1>3. IInv /\ LInv => SomeoneProceeds
  BY WaitersProceed
<1> QED BY <1>1, <1>2, <1>3, Invariance, PTL DEF Spec
=============================================================================
