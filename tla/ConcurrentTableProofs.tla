-------------------------- MODULE ConcurrentTableProofs --------------------------
(***************************************************************************)
(* The invariant of ConcurrentTable is inductive.  First what its steps    *)
(* leave alone, in the terms of the invariant (the threads that do not     *)
(* move, the locks, the numbers of threads and elements).  Then the steps  *)
(* of the threads that share the table, ordered by how much they disturb:  *)
(* those that change a thread's own variables only (calls and returns,     *)
(* lookup, visitation), those that change the numbers (reservations, the   *)
(* insertion counters, the maximum load) and those that change the arrays  *)
(* (insertion, rollback, erasure).  Last the steps of a thread that has    *)
(* the table for itself (reserving, growing and clearing).  The invariant  *)
(* implies the safety properties of the table, for any threads, keys,      *)
(* hashes and arrays.                                                      *)
(***************************************************************************)
EXTENDS ConcurrentTableInvariant, TableArraysProofs

\* What the invariant says of one thread.
ThreadOK(t) ==
  /\ OpOK(t) /\ OutcomeOK(t) /\ ArgumentsOK(t) /\ LocalsOK(t)
  /\ OwnsSlot(t) /\ SweepOK(t) /\ MatchedOK(t) /\ Walked(t) /\ CounterOK(t)

ThreadsTyped ==
  /\ pc \in [Threads -> Pcs]
  /\ op \in [Threads -> Calls \cup {"none"}]
  /\ key \in [Threads -> Keys \cup {NoKey}]
  /\ res \in [Threads -> Outcomes \cup {"none"}]
  /\ loc \in [Threads -> Locals]
  /\ moved \subseteq Threads

Still(u) == pc'[u] = pc[u] /\ op'[u] = op[u] /\ key'[u] = key[u] /\ res'[u] = res[u] /\ loc'[u] = loc[u]
OthersStill(t) == \A u \in Threads : u # t => Still(u)

-----------------------------------------------------------------------------
(* Types *)

LEMMA HashTyped ==
  ASSUME NEW k \in Keys
  PROVE  /\ Hash[k] \in Hashes /\ Hash[k].tag \in Bytes
         /\ Hash[k].tag # Available /\ Hash[k].tag # Sentinel
BY HashAssumption DEF Hashes, Bytes, Available, Sentinel

\* Where a thread is when it searches or has locked a group.
LEMMA AtTyped ==
  ASSUME IsArrays(arrays, Keys), ThreadsTyped, NEW t \in Threads,
         OpOK(t), ArgumentsOK(t), SweepOK(t),
         pc[t] \in Searching \cup HoldingGroup \cup {"probe"}
  PROVE  /\ At(t) \in Groups(arrays)
         /\ op[t] \in Sweeps => pc[t] \in {"sweep_slot"} \cup Erasing
         /\ op[t] \notin Sweeps =>
              /\ key[t] \in Keys
              /\ At(t) = Probe(arrays, Position(arrays, Hash[key[t]]), loc[t].step)
<1>1. pc[t] \in Pcs /\ loc[t].step \in Nat /\ loc[t].slot \in Slots
  BY DEF ThreadsTyped, Locals
<1>2. op[t] \in Sweeps => pc[t] \in {"sweep_slot"} \cup Erasing
  BY DEF OpOK, Searching, HoldingGroup, Reserved, KeyOps, Sweeps, Erasing
<1>3. op[t] \notin Sweeps => key[t] \in Keys
  BY DEF OpOK, ArgumentsOK, Searching, HoldingGroup, Reserved, KeyOps, Sweeps, Erasing
<1>4. CASE op[t] \in Sweeps
  BY <1>2, <1>4 DEF SweepOK, At
<1>5. CASE op[t] \notin Sweeps
  <2>1. arrays.groups \in GroupCounts /\ arrays.groups \in Nat
    BY ArraysTyped
  <2>2. Position(arrays, Hash[key[t]]) \in Nat
    BY <1>3, <1>5, <2>1, HashTyped, PositionInGroups DEF Groups
  <2> QED BY <1>1, <1>3, <1>5, <2>1, <2>2, ProbeInGroups DEF At, Home
<1> QED BY <1>2, <1>4, <1>5

LEMMA HomeTyped ==
  ASSUME IsArrays(arrays, Keys), NEW k \in Keys
  PROVE  Home(arrays, k) \in Groups(arrays)
BY ArraysTyped, HashTyped, PositionInGroups DEF Home

-----------------------------------------------------------------------------
(* Threads that do not move *)

\* Steps inside the container leave the size of the arrays and the sentinel alone,
\* and clear no overflow bits.
Grown ==
  /\ arrays'.groups = arrays.groups
  /\ \A g \in Groups(arrays) : arrays.overflow[g] \subseteq arrays'.overflow[g]
  /\ \A g \in Groups(arrays), n \in Slots :
       arrays'.meta[g][n] = Sentinel <=> arrays.meta[g][n] = Sentinel

\* What u has locked stays as it is.
Undisturbed(u) ==
  pc[u] \in HoldingGroup => \A n \in Slots :
    arrays'.meta[At(u)][n] = arrays.meta[At(u)][n] /\ arrays'.elem[At(u)][n] = arrays.elem[At(u)][n]

\* Nothing appears that u would not be told of.
Told(u) ==
  Recorded(u) /\ u \notin moved' =>
    /\ u \notin moved
    /\ \A g \in Groups(arrays), n \in Slots : Has(key[u], g, n)' => Has(key[u], g, n)

LEMMA AtStill ==
  ASSUME arrays'.groups = arrays.groups, NEW u \in Threads, Still(u)
  PROVE  /\ At(u)' = At(u) /\ Groups(arrays') = Groups(arrays)
         /\ \A k : Home(arrays', k) = Home(arrays, k)
BY SameGroups DEF Still, At, Home

LEMMA AheadStill ==
  ASSUME IsArrays(arrays, Keys), Grown, ThreadsTyped, NEW u \in Threads, Still(u), key[u] \in Keys,
         NEW g \in Groups(arrays), NEW n \in Slots, Ahead(u, g, n)
  PROVE  Ahead(u, g, n)'
<1>1. PICK i \in Groups(arrays) :
        /\ Probe(arrays, Home(arrays, key[u]), i) = g /\ Passed(arrays, Hash[key[u]], i)
        /\ \/ i > loc[u].step
           \/ i = loc[u].step /\ pc[u] = "match" /\ (n \in loc[u].mask \/ n \notin loc[u].scan)
           \/ i = loc[u].step /\ pc[u] = "compare" /\ n \in loc[u].mask
  BY DEF Ahead
<1>2. arrays.groups \in GroupCounts /\ i \in Nat
  BY ArraysTyped DEF Groups
<1>3. Passed(arrays', Hash[key[u]], i)
  BY <1>1, <1>2, HashTyped, PassedMonotone DEF Grown
<1>4. /\ Groups(arrays') = Groups(arrays) /\ Home(arrays', key[u]) = Home(arrays, key[u])
      /\ Probe(arrays', Home(arrays, key[u]), i) = Probe(arrays, Home(arrays, key[u]), i)
  BY SameGroups DEF Grown, Home
<1> QED BY <1>1, <1>3, <1>4 DEF Ahead, Still

LEMMA WalkedStill ==
  ASSUME IsArrays(arrays, Keys), Grown, ThreadsTyped, NEW u \in Threads, Still(u), key[u] \in Keys,
         Walked(u)
  PROVE  Walked(u)'
<1>1. arrays.groups \in GroupCounts /\ Groups(arrays) \subseteq Nat /\ Groups(arrays') = Groups(arrays)
  BY ArraysTyped, SameGroups DEF Groups, Grown
<1>2. ASSUME AllMarked(Hash[key[u]].tag) PROVE AllMarked(Hash[key[u]].tag)'
  BY <1>1, <1>2 DEF AllMarked, NotOverflowed, Grown, Still
<1>3. ASSUME loc[u].step \in Groups(arrays), Passed(arrays, Hash[key[u]], loc[u].step)
      PROVE  Passed(arrays', Hash[key[u]], loc[u].step)
  BY <1>1, <1>3, HashTyped, PassedMonotone DEF Grown
<1> QED BY <1>1, <1>2, <1>3 DEF Walked, Still

LEMMA OthersOK ==
  ASSUME IsArrays(arrays, Keys), ThreadsTyped, NEW u \in Threads, ThreadOK(u),
         Still(u), Grown, Undisturbed(u), Told(u)
  PROVE  ThreadOK(u)'
<1>1. At(u)' = At(u) /\ Groups(arrays') = Groups(arrays) /\ \A k : Home(arrays', k) = Home(arrays, k)
  BY AtStill DEF Grown
<1>2. /\ pc[u] \in Pcs /\ loc[u].slot \in Slots /\ loc[u].mask \subseteq Slots /\ loc[u].batch \in Seq(Matches)
      /\ loc[u].step \in Nat
  BY DEF ThreadsTyped, Locals
<1>3. OpOK(u)' /\ OutcomeOK(u)' /\ ArgumentsOK(u)' /\ LocalsOK(u)'
  BY DEF ThreadOK, Still, OpOK, OutcomeOK, ArgumentsOK, LocalsOK
<1>4. OwnsSlot(u)'
  BY <1>1, <1>2 DEF ThreadOK, Still, OwnsSlot, Undisturbed, Owners, HoldingGroup, Occupied, Empty
<1>5. SweepOK(u)'
  <2> SUFFICES ASSUME pc[u] \in {"sweep_slot"} \cup Erasing, op[u] \in Sweeps PROVE SweepOK(u)'
    BY DEF SweepOK, Still
  <2>1. At(u) = loc[u].step /\ pc[u] \in HoldingGroup
    BY DEF At, HoldingGroup, Erasing
  <2> QED BY <1>1, <1>2, <2>1 DEF ThreadOK, Still, SweepOK, Undisturbed, Empty
<1>6. MatchedOK(u)'
  <2>1. ASSUME NEW g \in Groups(arrays), NEW S, S \subseteq Slots, Matched(g, S)
        PROVE  Matched(g, S)'
    BY <2>1 DEF Matched, Grown
  <2>2. pc[u] \in Searching => Matched(At(u), loc[u].mask)'
    <3> SUFFICES ASSUME pc[u] \in Searching PROVE Matched(At(u), loc[u].mask)'
      OBVIOUS
    <3>1. At(u) \in Groups(arrays)
      BY AtTyped DEF ThreadOK
    <3>2. Matched(At(u), loc[u].mask)
      BY DEF ThreadOK, MatchedOK
    <3> QED BY <1>1, <1>2, <2>1, <3>1, <3>2 DEF Still
  <2>3. pc[u] \in Inside => \A i \in 1 .. Len(loc[u].batch) :
          Matched(Home(arrays, loc[u].batch[i].key), loc[u].batch[i].mask)'
    <3> SUFFICES ASSUME pc[u] \in Inside, NEW i \in 1 .. Len(loc[u].batch)
                 PROVE  Matched(Home(arrays, loc[u].batch[i].key), loc[u].batch[i].mask)'
      OBVIOUS
    <3>1. loc[u].batch[i].key \in Keys /\ loc[u].batch[i].mask \subseteq Slots
      <4>1. loc[u].batch[i] \in Matches
        BY <1>2
      <4> QED BY <4>1 DEF Matches
    <3>2. Home(arrays, loc[u].batch[i].key) \in Groups(arrays)
      BY <3>1, HomeTyped
    <3>3. Matched(Home(arrays, loc[u].batch[i].key), loc[u].batch[i].mask)
      BY DEF ThreadOK, MatchedOK
    <3> QED BY <1>1, <2>1, <3>1, <3>2, <3>3 DEF Still
  <2> QED BY <1>1, <2>2, <2>3 DEF MatchedOK, Still
<1>7. Walked(u)'
  <2>1. CASE pc[u] \in {"probe", "bump", "construct"}
    <3>1. key[u] \in Keys
      BY <2>1 DEF ThreadOK, OpOK, ArgumentsOK, Reserved, KeyOps
    <3> QED BY <3>1, WalkedStill DEF ThreadOK
  <2>2. CASE pc[u] \notin {"probe", "bump", "construct"}
    BY <2>2 DEF Walked, Still
  <2> QED BY <2>1, <2>2
<1>8. CounterOK(u)'
  <2> SUFFICES ASSUME Recorded(u)', u \notin moved', NEW g \in Groups(arrays), NEW n \in Slots,
                      Has(key[u], g, n)'
               PROVE  pc[u] \in Searching /\ Ahead(u, g, n)'
    BY <1>1 DEF CounterOK, Still
  <2>1. Recorded(u)
    BY DEF Recorded, Still
  <2>2. u \notin moved /\ Has(key[u], g, n)
    BY <2>1 DEF Told, Still
  <2>3. pc[u] \in Searching /\ Ahead(u, g, n)
    BY <2>1, <2>2 DEF ThreadOK, CounterOK
  <2>4. key[u] \in Keys
    BY <2>1 DEF ThreadOK, Recorded, ArgumentsOK, KeyOps
  <2> QED BY <2>3, <2>4, AheadStill
<1> QED BY <1>3, <1>4, <1>5, <1>6, <1>7, <1>8 DEF ThreadOK

-----------------------------------------------------------------------------
(* Locks *)

KeepsLock(t) ==
  /\ pc[t] \in HoldingGroup /\ At(t)' = At(t)
  /\ LockMode(t) = "shared" => LockMode(t)' = "shared"
TakesLock(t) == CanLock(At(t)', LockMode(t)')

LEMMA LocksKept ==
  ASSUME LocksExclude, NEW t \in Threads, OthersStill(t), arrays'.groups = arrays.groups,
         pc[t] # "rehash_move", pc'[t] # "rehash_move",
         pc'[t] \in Inside => pc[t] \in Inside \/ CanEnter,
         pc'[t] \in HoldingGroup => KeepsLock(t) \/ TakesLock(t)
  PROVE  LocksExclude'
<1>1. \A u \in Threads : u # t => At(u)' = At(u) /\ LockMode(u)' = LockMode(u) /\ pc'[u] = pc[u]
  BY AtStill DEF OthersStill, LockMode, Still
<1>2. \A u \in Threads : LockMode(u) \in {"shared", "exclusive"} \/ LockMode(u) = loc[u].mode
  BY DEF LockMode
<1>3. ASSUME NEW u \in Threads, u # t, pc'[t] \in HoldingGroup, pc'[u] \in HoldingGroup, At(t)' = At(u)'
      PROVE  LockMode(t)' = "shared" /\ LockMode(u)' = "shared"
  <2>1. CASE KeepsLock(t)
    BY <1>1, <1>3, <2>1 DEF KeepsLock, LocksExclude
  <2>2. CASE TakesLock(t)
    BY <1>1, <1>3, <2>2 DEF TakesLock, CanLock, Holds
  <2> QED BY <1>3, <2>1, <2>2
<1>4. \A u, v \in Threads :
        u # v /\ pc'[u] \in HoldingGroup /\ pc'[v] \in HoldingGroup /\ At(u)' = At(v)' =>
          LockMode(u)' = "shared" /\ LockMode(v)' = "shared"
  <2> SUFFICES ASSUME NEW u \in Threads, NEW v \in Threads, u # v,
                      pc'[u] \in HoldingGroup, pc'[v] \in HoldingGroup, At(u)' = At(v)'
               PROVE  LockMode(u)' = "shared" /\ LockMode(v)' = "shared"
    OBVIOUS
  <2>1. CASE u = t
    BY <1>3, <2>1
  <2>2. CASE v = t
    BY <1>3, <2>2
  <2>3. CASE u # t /\ v # t
    BY <1>1, <2>3 DEF LocksExclude
  <2> QED BY <2>1, <2>2, <2>3
<1>5. \A u, v \in Threads : pc'[u] = "rehash_move" => pc'[v] \notin Inside /\ (pc'[v] = "rehash_move" => v = u)
  <2> SUFFICES ASSUME NEW u \in Threads, NEW v \in Threads, pc'[u] = "rehash_move"
               PROVE  pc'[v] \notin Inside /\ (pc'[v] = "rehash_move" => v = u)
    OBVIOUS
  <2>1. u # t /\ pc[u] = "rehash_move"
    BY <1>1
  <2>2. ~CanEnter
    BY <2>1 DEF CanEnter, Rehashing
  <2>3. CASE v = t
    BY <2>1, <2>2, <2>3 DEF LocksExclude
  <2>4. CASE v # t
    BY <1>1, <2>1, <2>4 DEF LocksExclude
  <2> QED BY <2>3, <2>4
<1> QED BY <1>4, <1>5 DEF LocksExclude

\* A thread that may lock a group exclusively is alone there, one that holds it
\* exclusively too.
Alone(t, g) == \A u \in Threads : u # t /\ pc[u] \in HoldingGroup => At(u) # g

LEMMA LockedAlone ==
  ASSUME NEW t \in Threads, NEW g, CanLock(g, "exclusive")
  PROVE  Alone(t, g)
BY DEF CanLock, Holds, Alone

LEMMA HeldAlone ==
  ASSUME LocksExclude, NEW t \in Threads, pc[t] \in HoldingGroup, LockMode(t) = "exclusive"
  PROVE  Alone(t, At(t))
BY DEF LocksExclude, Alone

\* Where a lock is to be had, exclusively or not, nobody has a slot.
LEMMA NoOwnerWhereLockable ==
  ASSUME NEW g, NEW mode, CanLock(g, mode), NEW t \in Threads, pc[t] \in Owners
  PROVE  At(t) # g
BY DEF CanLock, Holds, Owners, HoldingGroup, LockMode

-----------------------------------------------------------------------------
(* Counting *)

CountIn(f, S)       == Cardinality({t \in Threads : f[t] \in S})
GrantableIn(f, h, m) == Cardinality({t \in Threads : f[t] = "check_size" /\ h[t].ticket <= m})

\* How the numbers of threads are related.
LEMMA CountTyped ==
  ASSUME NEW f, NEW S
  PROVE  IsFiniteSet({t \in Threads : f[t] \in S}) /\ CountIn(f, S) \in Nat
<1> DEFINE X == {t \in Threads : f[t] \in S}
<1>1. X \subseteq Threads /\ CountIn(f, S) = Cardinality(X)
  BY DEF CountIn
<1> HIDE DEF X
<1>2. IsFiniteSet(X) /\ Cardinality(X) \in Nat
  BY <1>1, FiniteAssumption, FS_Subset, FS_CardinalityType
<1> QED BY <1>1, <1>2 DEF X

LEMMA CountOfUnion ==
  ASSUME NEW f, NEW P, NEW Q, P \cap Q = {}
  PROVE  CountIn(f, P \cup Q) = CountIn(f, P) + CountIn(f, Q)
<1> DEFINE X == {t \in Threads : f[t] \in P}
           Y == {t \in Threads : f[t] \in Q}
           Z == {t \in Threads : f[t] \in P \cup Q}
<1>1. Z = X \cup Y /\ X \cap Y = {}
  OBVIOUS
<1>2. IsFiniteSet(X) /\ IsFiniteSet(Y) /\ CountIn(f, P) \in Nat /\ CountIn(f, Q) \in Nat
  BY CountTyped
<1>3. Cardinality(X) = CountIn(f, P) /\ Cardinality(Y) = CountIn(f, Q) /\ Cardinality(Z) = CountIn(f, P \cup Q)
  BY DEF CountIn
<1> HIDE DEF X, Y, Z
<1>4. Cardinality(X \cup Y) = Cardinality(X) + Cardinality(Y) - Cardinality(X \cap Y)
  BY <1>2, FS_Union
<1>5. Cardinality(X \cap Y) = 0
  BY <1>1, FS_EmptySet
<1> QED BY <1>1, <1>2, <1>3, <1>4, <1>5

LEMMA CountsRelated ==
  ASSUME NEW f, NEW h
  PROVE  /\ \A S : CountIn(f, S) \in Nat
         /\ \A m : GrantableIn(f, h, m) \in Nat
         /\ CountIn(f, Reserved) =
              CountIn(f, Granted) + CountIn(f, {"check_size"}) + CountIn(f, {"undo_size"})
         /\ \A m : GrantableIn(f, h, m) <= CountIn(f, {"check_size"})
         /\ CountIn(f, {"erase_ml"}) <= CountIn(f, Erasing)
<1>1. \A S : CountIn(f, S) \in Nat
  BY CountTyped
<1>2. CountIn(f, Reserved) = CountIn(f, Granted) + CountIn(f, {"check_size"}) + CountIn(f, {"undo_size"})
  <2>1. /\ Reserved = (Granted \cup {"check_size"}) \cup {"undo_size"}
        /\ Granted \cap {"check_size"} = {} /\ (Granted \cup {"check_size"}) \cap {"undo_size"} = {}
    BY DEF Reserved, Granted
  <2>2. CountIn(f, Reserved) = CountIn(f, Granted \cup {"check_size"}) + CountIn(f, {"undo_size"})
    BY <2>1, CountOfUnion
  <2> QED BY <2>1, <2>2, CountOfUnion
<1>3. CountIn(f, {"erase_ml"}) <= CountIn(f, Erasing)
  <2>1. /\ Erasing = {"erase_ml"} \cup {"erase_meta", "erase_size"}
        /\ {"erase_ml"} \cap {"erase_meta", "erase_size"} = {}
    BY DEF Erasing
  <2>2. CountIn(f, Erasing) = CountIn(f, {"erase_ml"}) + CountIn(f, {"erase_meta", "erase_size"})
    BY <2>1, CountOfUnion
  <2> HIDE DEF Erasing
  <2>3. CountIn(f, {"erase_ml"}) \in Nat /\ CountIn(f, {"erase_meta", "erase_size"}) \in Nat
    BY <1>1
  <2> QED BY <2>2, <2>3
<1>4. \A m : GrantableIn(f, h, m) \in Nat /\ GrantableIn(f, h, m) <= CountIn(f, {"check_size"})
  <2> SUFFICES ASSUME NEW m
               PROVE  GrantableIn(f, h, m) \in Nat /\ GrantableIn(f, h, m) <= CountIn(f, {"check_size"})
    OBVIOUS
  <2> DEFINE X == {t \in Threads : f[t] = "check_size" /\ h[t].ticket <= m}
             Y == {t \in Threads : f[t] \in {"check_size"}}
  <2>1. X \subseteq Y /\ GrantableIn(f, h, m) = Cardinality(X) /\ CountIn(f, {"check_size"}) = Cardinality(Y)
    BY DEF GrantableIn, CountIn
  <2>2. IsFiniteSet(Y)
    BY CountTyped
  <2> HIDE DEF X, Y
  <2> QED BY <2>1, <2>2, FS_Subset, FS_CardinalityType
<1> QED BY <1>1, <1>2, <1>3, <1>4

\* A greater maximum load grants no fewer reservations.
LEMMA GrantableMonotone ==
  ASSUME ThreadsTyped, NEW m \in Nat, NEW n \in Nat, m <= n
  PROVE  Grantable(m) <= Grantable(n) /\ Grantable(m) \in Nat /\ Grantable(n) \in Nat
<1> DEFINE X == {t \in Threads : pc[t] = "check_size" /\ loc[t].ticket <= m}
           Y == {t \in Threads : pc[t] = "check_size" /\ loc[t].ticket <= n}
<1>1. X \subseteq Y /\ Y \subseteq Threads
  BY DEF ThreadsTyped, Locals
<1>2. Grantable(m) = Cardinality(X) /\ Grantable(n) = Cardinality(Y)
  BY DEF Grantable
<1> HIDE DEF X, Y
<1>3. IsFiniteSet(Y)
  BY <1>1, FiniteAssumption, FS_Subset
<1> QED BY <1>1, <1>2, <1>3, FS_Subset, FS_CardinalityType

\* By how much the number of threads at places S changes when t moves.
Delta(t, S) == (IF pc'[t] \in S THEN 1 ELSE 0) - (IF pc[t] \in S THEN 1 ELSE 0)

LEMMA CountDelta ==
  ASSUME NEW t \in Threads, OthersStill(t), NEW S
  PROVE  Count(S) \in Nat /\ Count(S)' \in Nat /\ Count(S)' = Count(S) + Delta(t, S)
<1> DEFINE X == {u \in Threads : pc[u] \in S}
           Y == {u \in Threads : pc'[u] \in S}
<1>1. X \subseteq Threads /\ Y \subseteq Threads /\ \A u \in Threads : u # t => (u \in X <=> u \in Y)
  BY DEF OthersStill, Still
<1>2. (t \in X <=> pc[t] \in S) /\ (t \in Y <=> pc'[t] \in S)
  OBVIOUS
<1>3. Count(S) = Cardinality(X) /\ Count(S)' = Cardinality(Y)
  BY DEF Count
<1> HIDE DEF X, Y
<1>4. /\ Cardinality(X) \in Nat /\ Cardinality(Y) \in Nat
      /\ t \in X /\ t \notin Y => Cardinality(X) = Cardinality(Y) + 1
      /\ t \notin X /\ t \in Y => Cardinality(Y) = Cardinality(X) + 1
      /\ (t \in X <=> t \in Y) => Cardinality(X) = Cardinality(Y)
  BY <1>1, FiniteAssumption, OneElement
<1> QED BY <1>2, <1>3, <1>4 DEF Delta

\* The reservations to be granted when t moves.
GrantableBefore(t, m) == pc[t] = "check_size" /\ loc[t].ticket <= m
GrantableAfter(t, m)  == pc'[t] = "check_size" /\ loc'[t].ticket <= m

LEMMA GrantableMoves ==
  ASSUME NEW t \in Threads, OthersStill(t), NEW m
  PROVE  LET X == GrantableIn(pc, loc, m)
             Y == GrantableIn(pc', loc', m)
         IN  /\ X \in Nat /\ Y \in Nat
             /\ GrantableBefore(t, m) /\ ~GrantableAfter(t, m) => X = Y + 1
             /\ ~GrantableBefore(t, m) /\ GrantableAfter(t, m) => Y = X + 1
             /\ (GrantableBefore(t, m) <=> GrantableAfter(t, m)) => X = Y
<1> DEFINE X == {u \in Threads : pc[u] = "check_size" /\ loc[u].ticket <= m}
           Y == {u \in Threads : pc'[u] = "check_size" /\ loc'[u].ticket <= m}
<1>1. X \subseteq Threads /\ Y \subseteq Threads /\ \A u \in Threads : u # t => (u \in X <=> u \in Y)
  BY DEF OthersStill, Still
<1>2. (t \in X <=> GrantableBefore(t, m)) /\ (t \in Y <=> GrantableAfter(t, m))
  BY DEF GrantableBefore, GrantableAfter
<1>3. GrantableIn(pc, loc, m) = Cardinality(X) /\ GrantableIn(pc', loc', m) = Cardinality(Y)
  BY DEF GrantableIn
<1> HIDE DEF X, Y
<1>4. /\ Cardinality(X) \in Nat /\ Cardinality(Y) \in Nat
      /\ t \in X /\ t \notin Y => Cardinality(X) = Cardinality(Y) + 1
      /\ t \notin X /\ t \in Y => Cardinality(Y) = Cardinality(X) + 1
      /\ (t \in X <=> t \in Y) => Cardinality(X) = Cardinality(Y)
  BY <1>1, FiniteAssumption, OneElement
<1> QED BY <1>2, <1>3, <1>4

-----------------------------------------------------------------------------
(* Sizes *)

LEMMA ContentsTyped ==
  ASSUME IsArrays(arrays, Keys), IsArrays(newArrays, Keys)
  PROVE  Contents \subseteq Keys /\ IsFiniteSet(Contents) /\ Cardinality(Contents) \in Nat
<1>1. Contents \subseteq Keys
  BY FiniteAssumption, HashAssumption, ElementsCounted DEF Contents
<1> QED BY <1>1, FiniteAssumption, FS_Subset, FS_CardinalityType

\* When nobody rehashes the elements are those of the arrays.
LEMMA ContentsOfArrays ==
  ASSUME newArrays = DummyArrays
  PROVE  Contents = Elements(arrays)
<1>1. Elements(DummyArrays) = {}
  BY DummyArraysTyped DEF Elements, Places
<1> QED BY <1>1 DEF Contents

\* A step inside that changes neither the maximum load nor a reservation that has
\* not been looked at.
LEMMA SizesKept ==
  ASSUME IsArrays(arrays, Keys), IsArrays(newArrays, Keys), size \in Nat, ml \in Nat,
         SizeAccounts, LoadBounded, NEW t \in Threads, OthersStill(t),
         arrays'.groups = arrays.groups, arrays'.built = arrays.built, ml' = ml,
         pc[t] # "check_size", pc'[t] # "check_size",
         NEW dc \in Int, Cardinality(Contents)' = Cardinality(Contents) + dc,
         Cardinality(Contents)' \in Nat,
         size' = size + dc + Delta(t, Reserved) + Delta(t, Erasing),
         dc + Delta(t, Granted) + Delta(t, {"erase_ml"}) <= 0,
         dc + Delta(t, Granted) + Delta(t, Erasing) <= 0
  PROVE  SizeAccounts' /\ LoadBounded' /\ size' \in Nat
<1> DEFINE C  == Cardinality(Contents)
           G  == Count(Granted)
           Er == Count(Erasing)
           Em == Count({"erase_ml"})
           R  == Count(Reserved)
           M  == InitialMaxLoad(arrays)
           w  == Grantable(ml)
           v  == Grantable(M)
<1>1. Delta(t, Reserved) \in Int /\ Delta(t, Erasing) \in Int /\ Delta(t, Granted) \in Int
      /\ Delta(t, {"erase_ml"}) \in Int
  BY DEF Delta
<1>2. /\ G \in Nat /\ Er \in Nat /\ Em \in Nat /\ R \in Nat
      /\ G' = G + Delta(t, Granted) /\ Er' = Er + Delta(t, Erasing) /\ Em' = Em + Delta(t, {"erase_ml"})
      /\ R' = R + Delta(t, Reserved) /\ R' \in Nat /\ Er' \in Nat
  <2>1. G \in Nat /\ G' = G + Delta(t, Granted)
    BY CountDelta DEF Granted
  <2>2. Er \in Nat /\ Er' = Er + Delta(t, Erasing) /\ Er' \in Nat
    BY CountDelta DEF Erasing
  <2>3. Em \in Nat /\ Em' = Em + Delta(t, {"erase_ml"})
    BY CountDelta
  <2>4. R \in Nat /\ R' = R + Delta(t, Reserved) /\ R' \in Nat
    BY CountDelta DEF Reserved
  <2> QED BY <2>1, <2>2, <2>3, <2>4
<1>3. M' = M
  BY SameCapacity
<1>4. \A m : GrantableIn(pc', loc', m) = GrantableIn(pc, loc, m) /\ GrantableIn(pc, loc, m) \in Nat
  BY GrantableMoves DEF GrantableBefore, GrantableAfter
<1>5. w' = w /\ w \in Nat /\ v' = v /\ v \in Nat
  <2>1. v' = GrantableIn(pc', loc', M') /\ w' = GrantableIn(pc', loc', ml')
    BY DEF Grantable, GrantableIn
  <2>2. w = GrantableIn(pc, loc, ml) /\ v = GrantableIn(pc, loc, M)
    BY DEF Grantable, GrantableIn
  <2> QED BY <1>3, <1>4, <2>1, <2>2
<1>6. C \in Nat /\ C' = C + dc /\ C' \in Nat
  BY ContentsTyped
<1>7. size = C + R + Er
  BY DEF SizeAccounts, Count, Erasing
<1>8. M \in Nat /\ ml <= M /\ C + G + Em + w <= ml /\ C + G + Er + v <= M
  BY CapacityTyped, ArraysTyped DEF LoadBounded
<1>9. size' = C' + R' + Er'
  BY <1>1, <1>2, <1>6, <1>7
<1>10. ml' <= M' /\ C' + G' + Em' + w' <= ml' /\ C' + G' + Er' + v' <= M'
  BY <1>1, <1>2, <1>3, <1>5, <1>6, <1>8
<1>11. SizeAccounts'
  BY <1>9 DEF SizeAccounts, Count, Erasing
<1>12. LoadBounded'
  BY <1>10 DEF LoadBounded
<1>13. size' \in Nat
  BY <1>1, <1>2, <1>6, <1>9
<1> QED BY <1>11, <1>12, <1>13

-----------------------------------------------------------------------------
(* Steps that are not of a rehash *)

\* Slots of elements under construction become no more, but by a new one.
LEMMA HasFewer ==
  ASSUME NEW t \in Threads, OthersStill(t), arrays'.groups = arrays.groups,
         pc'[t] # "construct", NEW k, NEW g, NEW n,
         arrays'.elem[g][n] = k => Has(k, g, n), Has(k, g, n)'
  PROVE  Has(k, g, n)
<1>1. CASE arrays'.elem[g][n] = k
  BY <1>1
<1>2. ASSUME NEW u \in Threads, Constructing(u, k, g, n)' PROVE Has(k, g, n)
  <2>1. u # t
    BY <1>2 DEF Constructing
  <2>2. At(u)' = At(u) /\ Still(u)
    BY <2>1, AtStill DEF OthersStill
  <2> QED BY <1>2, <2>2 DEF Constructing, Owns, Still, Has
<1> QED BY <1>1, <1>2 DEF Has

\* What a thread owns it keeps unless it moves.
LEMMA OwnedKept ==
  ASSUME NEW t \in Threads, OthersStill(t), arrays'.groups = arrays.groups, NEW g, NEW n,
         Owns(t, g, n)' \/ \E u \in Threads : u # t /\ Owns(u, g, n)
  PROVE  \E u \in Threads : Owns(u, g, n)'
<1>1. ASSUME NEW u \in Threads, u # t, Owns(u, g, n) PROVE Owns(u, g, n)'
  BY <1>1, AtStill DEF OthersStill, Owns, Still
<1> QED BY <1>1

\* The parts of the invariant from what a step by t shows of it.
LEMMA SharedStep ==
  ASSUME IInv, NEW t \in Threads, TypeOK', OthersStill(t),
         pc[t] # "rehash_move", pc'[t] # "rehash_move",
         UNCHANGED <<newArrays, cursor>>, UNCHANGED arrays \/ Rehashing = {},
         Grown, \A u \in Threads : u # t => Undisturbed(u) /\ Told(u),
         ThreadOK(t)', LocksExclude', SentinelInPlace(arrays)', ElementsReached(arrays)',
         Rehashing = {} => \A g \in Groups(arrays), n \in Slots :
           Occupied(arrays', g, n) /\ Empty(arrays', g, n) =>
             Owns(t, g, n)' \/ \E u \in Threads : u # t /\ Owns(u, g, n),
         \A k \in Keys, g, h \in Groups(arrays), m, n \in Slots :
           Has(k, g, m)' /\ Has(k, h, n)' => g = h /\ m = n,
         SizeAccounts', LoadBounded'
  PROVE  IInv'
<1>1. \A u \in Threads : ThreadOK(u)'
  <2> SUFFICES ASSUME NEW u \in Threads, u # t PROVE ThreadOK(u)'
    OBVIOUS
  <2>1. ThreadOK(u) /\ ThreadsTyped /\ IsArrays(arrays, Keys)
    BY DEF IInv, ThreadOK, ThreadsTyped, TypeOK, ControlOK, SlotsOwned, SweepMasks, MasksMatched, GroupsMarked, CounterTells
  <2>2. Still(u) /\ Undisturbed(u) /\ Told(u)
    BY DEF OthersStill
  <2> QED BY <2>1, <2>2, OthersOK
<1>2. Groups(arrays') = Groups(arrays) /\ arrays'.groups = arrays.groups
  BY SameGroups DEF Grown
<1>3. Rehashing' = Rehashing
  BY DEF Rehashing, OthersStill, Still
<1>4. ControlOK' /\ SweepMasks' /\ MasksMatched' /\ GroupsMarked' /\ CounterTells'
  BY <1>1 DEF ThreadOK, ControlOK, SweepMasks, MasksMatched, GroupsMarked, CounterTells
<1>5. ArraysOK'
  BY DEF IInv, ArraysOK, ElementsReached, Empty
<1>6. SlotsOwned'
  <2>1. \A u \in Threads : OwnsSlot(u)'
    BY <1>1 DEF ThreadOK
  <2>2. ASSUME Rehashing = {}, NEW g \in Groups(arrays), NEW n \in Slots,
               Occupied(arrays', g, n), Empty(arrays', g, n)
        PROVE  \E u \in Threads : Owns(u, g, n)'
    BY <1>2, <2>2, OwnedKept
  <2> QED BY <1>2, <1>3, <2>1, <2>2 DEF SlotsOwned
<1>7. NoKeyTwice'
  <2>1. OncePerKey(newArrays)'
    BY DEF IInv, NoKeyTwice, OncePerKey, Empty
  <2>2. \A k \in Keys, g, h \in Groups(arrays'), m, n \in Slots :
           Has(k, g, m)' /\ Has(k, h, n)' => g = h /\ m = n
    BY <1>2
  <2> QED BY <2>1, <2>2 DEF NoKeyTwice
<1>8. RehashOK'
  <2>1. CASE Rehashing = {}
    BY <1>3, <2>1 DEF IInv, RehashOK
  <2>2. CASE Rehashing # {} /\ UNCHANGED arrays
    BY <1>3, <2>2 DEF IInv, RehashOK, OldArraysOK, NewArraysOK, Occupied, Empty, Contents, Destroyed
  <2> QED BY <2>1, <2>2
<1> QED BY <1>4, <1>5, <1>6, <1>7, <1>8 DEF IInv

\* Steps of a thread that owns nothing and is not counted, and remains so.
Busy == Owners \cup Reserved \cup Erasing \cup {"rehash_move"}
Quiet(t) ==
  /\ UNCHANGED sharedVars /\ ThreadsTyped' /\ OthersStill(t)
  /\ pc[t] \notin Busy /\ pc'[t] \notin Busy
  /\ \A u \in Threads : u # t => (u \in moved <=> u \in moved')

LEMMA QuietStep ==
  ASSUME IInv, NEW t \in Threads, Quiet(t), ThreadOK(t)',
         pc'[t] \in Inside => pc[t] \in Inside \/ CanEnter,
         pc'[t] \in HoldingGroup => KeepsLock(t) \/ TakesLock(t)
  PROVE  IInv'
<1>1. /\ OthersStill(t) /\ arrays' = arrays /\ newArrays' = newArrays /\ cursor' = cursor
      /\ size' = size /\ ml' = ml
  BY DEF Quiet, sharedVars
<1>2. pc[t] # "rehash_move" /\ pc'[t] # "rehash_move" /\ pc[t] # "construct" /\ pc'[t] # "construct"
  BY DEF Quiet, Busy, Owners
<1>3. TypeOK'
  BY <1>1 DEF IInv, TypeOK, Quiet, ThreadsTyped
<1>4. Grown /\ \A u \in Threads : Undisturbed(u)
  BY <1>1 DEF Grown, Undisturbed
<1>5. \A k, g, n : Has(k, g, n)' => Has(k, g, n)
  <2>1. \A k, g, n : arrays'.elem[g][n] = k => Has(k, g, n)
    BY <1>1 DEF Has
  <2> QED BY <1>1, <1>2, <2>1, HasFewer
<1>6. \A u \in Threads : u # t => Told(u)
  BY <1>1, <1>5 DEF Quiet, Told, OthersStill, Still
<1>7. LocksExclude'
  BY <1>1, <1>2, LocksKept DEF IInv
<1>8. SentinelInPlace(arrays)' /\ ElementsReached(arrays)'
  BY <1>1 DEF IInv, ArraysOK
<1>9. ASSUME Rehashing = {}, NEW g \in Groups(arrays), NEW n \in Slots,
             Occupied(arrays', g, n), Empty(arrays', g, n)
      PROVE  \E u \in Threads : u # t /\ Owns(u, g, n)
  <2>1. PICK u \in Threads : Owns(u, g, n)
    BY <1>1, <1>9 DEF IInv, SlotsOwned
  <2>2. u # t
    BY <2>1 DEF Owns, Quiet, Busy
  <2> QED BY <2>1, <2>2
<1>10. \A k \in Keys, g, h \in Groups(arrays), m, n \in Slots :
           Has(k, g, m)' /\ Has(k, h, n)' => g = h /\ m = n
  BY <1>5 DEF IInv, NoKeyTwice
<1>11. SizeAccounts' /\ LoadBounded'
  <2>1. /\ Delta(t, Reserved) = 0 /\ Delta(t, Erasing) = 0 /\ Delta(t, Granted) = 0
        /\ Delta(t, {"erase_ml"}) = 0 /\ pc[t] # "check_size" /\ pc'[t] # "check_size"
    BY DEF Quiet, Busy, Delta, Reserved, Erasing, Granted
  <2>2. /\ Cardinality(Contents)' = Cardinality(Contents) + 0 /\ Cardinality(Contents) \in Nat
        /\ Cardinality(Contents)' \in Nat
    BY <1>1, ContentsTyped DEF IInv, TypeOK, Contents
  <2>3. IsArrays(arrays, Keys) /\ IsArrays(newArrays, Keys) /\ size \in Nat /\ ml \in Nat /\ SizeAccounts /\ LoadBounded
    BY DEF IInv, TypeOK
  <2> QED BY <1>1, <2>1, <2>2, <2>3, SizesKept
<1> QED BY <1>1, <1>2, <1>3, <1>4, <1>6, <1>7, <1>8, <1>9, <1>10, <1>11, SharedStep DEF Quiet

-----------------------------------------------------------------------------
(* Steps that leave the shared variables alone, and the numbers *)

\* What a thread that owns nothing needs to show of itself.
LEMMA QuietThread ==
  ASSUME NEW t \in Threads, pc'[t] \notin Busy,
         OpOK(t)', OutcomeOK(t)', ArgumentsOK(t)', LocalsOK(t)',
         SweepOK(t)', MatchedOK(t)', CounterOK(t)'
  PROVE  ThreadOK(t)'
<1>1. OwnsSlot(t)' /\ Walked(t)'
  BY DEF OwnsSlot, Walked, Busy, Reserved
<1> QED BY <1>1 DEF ThreadOK

\* Outside the container, or on the way out of it.
LEMMA IdleThread ==
  ASSUME NEW t \in Threads, pc'[t] \in Outside \cup {"leave", "rehash_move"},
         pc'[t] = "leave" => loc'[t].batch = <<>> \/ MatchedOK(t)',
         OpOK(t)', OutcomeOK(t)', ArgumentsOK(t)', LocalsOK(t)'
  PROVE  ThreadOK(t)'
<1>1. OwnsSlot(t)' /\ Walked(t)' /\ SweepOK(t)' /\ CounterOK(t)'
  BY DEF OwnsSlot, Walked, SweepOK, CounterOK, Recorded, Outside, Owners, Erasing, Searching
<1>2. MatchedOK(t)'
  BY DEF MatchedOK, Outside, Inside, Searching, Reserved, HoldingGroup, Visiting
<1> QED BY <1>1, <1>2 DEF ThreadOK

\* A step that changes local variables only.
LEMMA LocalStep ==
  ASSUME IInv, NEW t \in Threads, NEW p \in Pcs \ Busy, NEW l \in Locals, pc[t] \notin Busy,
         Local(t, p, l)
  PROVE  /\ Quiet(t) /\ arrays' = arrays /\ moved' = moved
         /\ pc'[t] = p /\ loc'[t] = l /\ op'[t] = op[t] /\ key'[t] = key[t] /\ res'[t] = res[t]
BY DEF IInv, TypeOK, Local, Goto, Quiet, ThreadsTyped, OthersStill, Still, sharedVars

\* One that decides the outcome.
LEMMA DecideStep ==
  ASSUME IInv, NEW t \in Threads, NEW p \in Pcs \ Busy, NEW r \in Outcomes \cup {"none"}, pc[t] \notin Busy,
         Decide(t, r, p), UNCHANGED <<sharedVars, op, key, loc, moved>>
  PROVE  /\ Quiet(t) /\ arrays' = arrays /\ moved' = moved
         /\ pc'[t] = p /\ loc'[t] = loc[t] /\ op'[t] = op[t] /\ key'[t] = key[t] /\ res'[t] = r
BY DEF IInv, TypeOK, Decide, Goto, Quiet, ThreadsTyped, OthersStill, Still, sharedVars

\* What the invariant says of the thread that moves.
LEMMA Mover ==
  ASSUME IInv, NEW t \in Threads
  PROVE  /\ ThreadOK(t) /\ ThreadsTyped /\ IsArrays(arrays, Keys)
         /\ pc[t] \in Pcs /\ op[t] \in Calls \cup {"none"} /\ key[t] \in Keys \cup {NoKey}
         /\ loc[t] \in Locals
BY DEF IInv, ThreadOK, ThreadsTyped, TypeOK, ControlOK, SlotsOwned, SweepMasks, MasksMatched,
       GroupsMarked, CounterTells

-----------------------------------------------------------------------------
(* Calls and returns *)

\* The operation, its key, its locals and where it begins.
CallFits(o, k, l, to) ==
  /\ o \in Calls /\ k \in Keys \cup {NoKey} /\ l \in Locals /\ l.mask = {} /\ l.batch = <<>>
  /\ o \in KeyOps => k \in Keys
  /\ o \in {"erase", "erase_if"} => l.mode = "exclusive"
  /\ to = CASE o = "clear" -> "clear_enter" [] o = "reserve" -> "reserve_enter" [] OTHER -> "enter"

LEMMA FreshTyped ==
  ASSUME NEW m \in {"shared", "exclusive"}
  PROVE  /\ NoLocals(m) \in Locals /\ NoLocals(m).mode = m /\ NoLocals(m).mask = {}
         /\ NoLocals(m).batch = <<>> /\ NoLocals(m).step = 0 /\ NoLocals(m).scan = {}
BY SlotsAssumption DEF NoLocals, Locals, Slots

LEMMA NoLocalsTyped ==
  ASSUME NEW m \in {"shared", "exclusive"}, NEW ks \in Seq(Keys)
  PROVE  LET l == [NoLocals(m) EXCEPT !.todo = ks] IN
         l \in Locals /\ l.mode = m /\ l.mask = {} /\ l.batch = <<>>
<1>1. NoLocals(m) \in Locals /\ NoLocals(m).mode = m /\ NoLocals(m).mask = {} /\ NoLocals(m).batch = <<>>
  BY FreshTyped
<1> QED BY <1>1 DEF Locals

LEMMA CallsFit ==
  ASSUME IInv, NEW t \in Threads, Call(t)
  PROVE  pc[t] = "idle" /\ \E o, k, l, to : CallFits(o, k, l, to) /\ CallWith(t, o, k, l, to)
<1>1. pc[t] = "idle"
  BY DEF Call
<1>2. loc[t] \in Locals /\ loc[t].mask = {} /\ loc[t].batch = <<>>
  BY <1>1, Mover DEF ThreadOK, LocalsOK
<1>3. ASSUME NEW o \in KeyOps, NEW m \in {"shared", "exclusive"}, CallKey(t, o, m), o = "erase" => m = "exclusive"
      PROVE  \E k, l, to : CallFits(o, k, l, to) /\ CallWith(t, o, k, l, to)
  <2>1. PICK k \in Keys : CallWith(t, o, k, NoLocals(m), "enter")
    BY <1>3 DEF CallKey
  <2>2. CallFits(o, k, NoLocals(m), "enter")
    BY <1>3, FreshTyped DEF CallFits, Calls, KeyOps
  <2> QED BY <2>1, <2>2
<1>4. ASSUME NEW o \in Sweeps, NEW m \in {"shared", "exclusive"}, CallSweep(t, o, m), o = "erase_if" => m = "exclusive"
      PROVE  \E k, l, to : CallFits(o, k, l, to) /\ CallWith(t, o, k, l, to)
  <2>1. CallFits(o, NoKey, NoLocals(m), "enter")
    BY <1>4, FreshTyped DEF CallFits, Calls, KeyOps, Sweeps
  <2> QED BY <1>4, <2>1 DEF CallSweep
<1>5. Modes \subseteq {"shared", "exclusive"}
  BY ClientsAssumption
<1>6. CASE CallInsert(t) \/ CallInsertOrAssign(t) \/ CallInsertOrVisit(t)
           \/ CallInsertAndVisit(t) \/ CallEmplaceOrVisit(t) \/ CallTryEmplace(t)
  BY <1>1, <1>3, <1>5, <1>6 DEF CallInsert, CallInsertOrAssign, CallInsertOrVisit, CallInsertAndVisit,
     CallEmplaceOrVisit, CallTryEmplace, KeyOps
<1>7. CASE CallVisit(t) \/ CallContains(t) \/ CallErase(t)
  BY <1>1, <1>3, <1>5, <1>7 DEF CallVisit, CallContains, CallErase, KeyOps
<1>8. CASE CallVisitAll(t) \/ CallVisitWhile(t) \/ CallEraseIf(t)
  BY <1>1, <1>4, <1>5, <1>8 DEF CallVisitAll, CallVisitWhile, CallEraseIf, Sweeps
<1>9. CASE CallBulkVisit(t)
  <2>1. PICK m \in Modes, ks \in Ranges :
          CallWith(t, "bulk", NoKey, [NoLocals(m) EXCEPT !.todo = ks], "enter")
    BY <1>9 DEF CallBulkVisit
  <2>2. ks \in Seq(Keys)
    <3> DEFINE n == Cardinality(Keys)
    <3>1. n \in Nat
      BY FiniteAssumption, FS_CardinalityType
    <3>2. ks = <<>> \/ ks \in [1 .. n -> Keys]
      BY DEF Ranges
    <3> HIDE DEF n
    <3>3. CASE ks = <<>>
      BY <3>3
    <3>4. CASE ks \in [1 .. n -> Keys]
      BY <3>1, <3>4
    <3> QED BY <3>2, <3>3, <3>4
  <2>3. CallFits("bulk", NoKey, [NoLocals(m) EXCEPT !.todo = ks], "enter")
    BY <1>5, <2>2, NoLocalsTyped DEF CallFits, Calls, KeyOps
  <2> QED BY <1>1, <2>1, <2>3
<1>10. CASE CallClear(t)
  <2>1. CallFits("clear", NoKey, loc[t], "clear_enter")
    BY <1>2 DEF CallFits, Calls, KeyOps
  <2> QED BY <1>1, <1>10, <2>1 DEF CallClear
<1>11. CASE CallReserve(t)
  <2>1. CallFits("reserve", NoKey, loc[t], "reserve_enter")
    BY <1>2 DEF CallFits, Calls, KeyOps
  <2> QED BY <1>1, <1>11, <2>1 DEF CallReserve
<1> QED BY <1>6, <1>7, <1>8, <1>9, <1>10, <1>11 DEF Call

LEMMA CallStep ==
  ASSUME IInv, NEW t \in Threads, Call(t)
  PROVE  IInv'
<1>1. PICK o, k, l, to : CallFits(o, k, l, to) /\ CallWith(t, o, k, l, to)
  BY CallsFit
<1>2. pc[t] = "idle" /\ res[t] = "none"
  BY CallsFit, Mover DEF ThreadOK, OutcomeOK, Erasing
<1>3. to \in {"enter", "clear_enter", "reserve_enter"}
  BY <1>1 DEF CallFits
<1>4. /\ ThreadsTyped' /\ OthersStill(t) /\ UNCHANGED <<sharedVars, moved>>
      /\ pc'[t] = to /\ op'[t] = o /\ key'[t] = k /\ loc'[t] = l /\ res'[t] = "none"
  BY <1>1, <1>2, <1>3 DEF CallWith, CallFits, Goto, IInv, TypeOK, ThreadsTyped, OthersStill, Still, Pcs, Outside, sharedVars
<1>5. Quiet(t)
  BY <1>2, <1>3, <1>4 DEF Quiet, Busy, Owners, Reserved, Erasing, sharedVars
<1>6. OpOK(t)' /\ OutcomeOK(t)' /\ ArgumentsOK(t)' /\ LocalsOK(t)'
  BY <1>1, <1>3, <1>4 DEF CallFits, OpOK, OutcomeOK, ArgumentsOK, LocalsOK, Searching, Reserved, Erasing, Calls, KeyOps, Sweeps
<1>7. ThreadOK(t)'
  BY <1>3, <1>4, <1>6, IdleThread DEF Outside
<1>8. pc'[t] \notin Inside
  BY <1>3, <1>4 DEF Inside, Searching, Reserved, HoldingGroup, Visiting
<1>9. pc'[t] \notin HoldingGroup
  BY <1>8 DEF Inside
<1> QED BY <1>5, <1>7, <1>8, <1>9, QuietStep

LEMMA LeaveStep ==
  ASSUME IInv, NEW t \in Threads, Leave(t)
  PROVE  IInv'
<1>1. /\ pc[t] \in {"leave", "done"} /\ pc'[t] = "idle" /\ op'[t] = "none" /\ key'[t] = NoKey
      /\ res'[t] = "none" /\ loc'[t] = NoLocals("shared")
  BY DEF Leave, Goto, IInv, TypeOK
<1>2. NoLocals("shared") \in Locals /\ NoLocals("shared").mask = {} /\ NoLocals("shared").batch = <<>>
  BY FreshTyped
<1>3. ThreadsTyped' /\ OthersStill(t)
  BY <1>2 DEF Leave, Goto, IInv, TypeOK, ThreadsTyped, OthersStill, Still, Pcs, Outside
<1>4. Quiet(t)
  BY <1>1, <1>3 DEF Leave, Quiet, Busy, Owners, Reserved, Erasing, sharedVars
<1>5. OpOK(t)' /\ OutcomeOK(t)' /\ ArgumentsOK(t)' /\ LocalsOK(t)'
  BY <1>1, <1>2 DEF OpOK, OutcomeOK, ArgumentsOK, LocalsOK, Searching, Reserved, Erasing, Calls, KeyOps, Sweeps
<1>6. ThreadOK(t)'
  BY <1>1, <1>5, IdleThread DEF Outside
<1>7. pc'[t] \notin Inside
  BY <1>1 DEF Inside, Searching, Reserved, HoldingGroup, Visiting
<1>8. pc'[t] \notin HoldingGroup
  BY <1>7 DEF Inside
<1> QED BY <1>4, <1>6, <1>7, <1>8, QuietStep

LEMMA EnterStep ==
  ASSUME IInv, NEW t \in Threads, Enter(t)
  PROVE  IInv'
<1>1. PICK to \in {"read_counter", "match", "sweep", "bulk_next"} :
        /\ pc[t] = "enter" /\ CanEnter /\ Local(t, to, loc[t])
        /\ to = "read_counter" => op[t] = "insert"
        /\ to = "match" => op[t] \in {"visit", "erase"}
        /\ to = "sweep" => op[t] \in Sweeps
        /\ to = "bulk_next" => op[t] = "bulk"
  BY DEF Enter, EnterFor, EnterInsert, EnterVisit, EnterErase, EnterSweep, EnterBulk
<1>2. to \in Pcs \ Busy /\ pc[t] \notin Busy
  BY <1>1 DEF Pcs, Inside, Searching, Visiting, Busy, Owners, Reserved, Erasing
<1>3. /\ Quiet(t) /\ arrays' = arrays /\ pc'[t] = to /\ loc'[t] = loc[t] /\ op'[t] = op[t]
      /\ key'[t] = key[t] /\ res'[t] = res[t]
  BY <1>1, <1>2, Mover, LocalStep
<1>4. loc[t].mask = {} /\ loc[t].batch = <<>>
  BY <1>1, Mover DEF ThreadOK, LocalsOK
<1>5. OpOK(t)' /\ OutcomeOK(t)' /\ ArgumentsOK(t)' /\ LocalsOK(t)'
  BY <1>1, <1>3, <1>4, Mover DEF ThreadOK, OpOK, OutcomeOK, ArgumentsOK, LocalsOK, Searching, Reserved, Erasing, Calls, KeyOps, Sweeps
<1>6. SweepOK(t)' /\ MatchedOK(t)' /\ CounterOK(t)'
  BY <1>1, <1>3, <1>4 DEF SweepOK, MatchedOK, Matched, CounterOK, Recorded, Searching, Erasing, Sweeps
<1>7. ThreadOK(t)'
  BY <1>2, <1>3, <1>5, <1>6, QuietThread
<1>8. pc'[t] \notin HoldingGroup
  BY <1>1, <1>3 DEF HoldingGroup
<1> QED BY <1>1, <1>3, <1>7, <1>8, QuietStep

-----------------------------------------------------------------------------
(* Lookup *)

\* A quiet step makes no key appear anywhere.
LEMMA QuietHas ==
  ASSUME NEW t \in Threads, Quiet(t), NEW k, NEW g, NEW n, Has(k, g, n)'
  PROVE  Has(k, g, n)
<1>1. arrays' = arrays /\ OthersStill(t) /\ pc'[t] # "construct"
  BY DEF Quiet, sharedVars, Busy, Owners
<1>2. arrays'.elem[g][n] = k => Has(k, g, n)
  BY <1>1 DEF Has
<1> QED BY <1>1, <1>2, HasFewer

\* The metadata of a slot that has, or is about to have, an element shows its hash.
LEMMA HasTag ==
  ASSUME IInv, NEW k \in Keys, NEW g \in Groups(arrays), NEW n \in Slots, Has(k, g, n)
  PROVE  arrays.meta[g][n] = Hash[k].tag
<1>1. CASE arrays.elem[g][n] = k
  BY <1>1, HashAssumption DEF IInv, ArraysOK, ElementsReached, Empty
<1>2. ASSUME NEW u \in Threads, Constructing(u, k, g, n) PROVE arrays.meta[g][n] = Hash[k].tag
  BY <1>2 DEF IInv, SlotsOwned, OwnsSlot, Constructing, Owns
<1> QED BY <1>1, <1>2 DEF Has

LEMMA MatchSlotStep ==
  ASSUME IInv, NEW t \in Threads, MatchSlot(t)
  PROVE  IInv'
<1>1. pc[t] = "match" /\ pc[t] \notin Busy /\ op[t] \in KeyOps \cup {"bulk"} /\ key[t] \in Keys
  BY Mover DEF MatchSlot, Busy, Owners, Reserved, Erasing, ThreadOK, OpOK, ArgumentsOK, Searching
<1>2. PICK n \in Slots \ loc[t].scan :
        LET hit  == arrays.meta[At(t)][n] = Hash[key[t]].tag
            mask == IF hit THEN loc[t].mask \cup {n} ELSE loc[t].mask
            scan == loc[t].scan \cup {n}
        IN  IF scan # Slots
            THEN Local(t, "match", [loc[t] EXCEPT !.scan = scan, !.mask = mask])
            ELSE Local(t, IF mask = {} THEN "check_overflow" ELSE "compare",
                          [loc[t] EXCEPT !.scan = {}, !.mask = mask])
  BY DEF MatchSlot
<1> DEFINE hit  == arrays.meta[At(t)][n] = Hash[key[t]].tag
           mask == IF hit THEN loc[t].mask \cup {n} ELSE loc[t].mask
           scan == loc[t].scan \cup {n}
           l == [loc[t] EXCEPT !.scan = IF scan # Slots THEN scan ELSE {}, !.mask = mask]
           p == IF scan # Slots THEN "match" ELSE IF mask = {} THEN "check_overflow" ELSE "compare"
<1>3. Local(t, p, l)
  BY <1>2
<1>4. /\ loc[t] \in Locals /\ loc[t].mask \subseteq Slots /\ loc[t].scan \subseteq Nat
      /\ n \in Slots /\ n \in Nat /\ n \notin loc[t].scan /\ loc[t].step \in Nat
  BY Mover, SlotsNumbered DEF Locals
<1>5. /\ l \in Locals /\ l.mask = mask /\ l.scan = (IF scan # Slots THEN scan ELSE {})
      /\ l.batch = loc[t].batch /\ l.step = loc[t].step /\ l.mode = loc[t].mode
  BY <1>4 DEF Locals
<1>6. p \in {"match", "check_overflow", "compare"} /\ p \in Pcs \ Busy
  BY DEF Pcs, Inside, Searching, Busy, Owners, Reserved, Erasing
<1>7. /\ (p = "match" => scan # Slots) /\ (p # "match" => scan = Slots)
      /\ (p = "check_overflow" => mask = {}) /\ (mask = {} => p # "compare")
  OBVIOUS
<1> HIDE DEF p, l
<1>8. /\ Quiet(t) /\ arrays' = arrays /\ moved' = moved
      /\ pc'[t] = p /\ loc'[t] = l /\ op'[t] = op[t] /\ key'[t] = key[t] /\ res'[t] = res[t]
  BY <1>1, <1>3, <1>5, <1>6, LocalStep
<1>9. At(t)' = At(t) /\ \A k : Home(arrays', k) = Home(arrays, k)
  BY <1>5, <1>8 DEF At, Home
<1>10. ThreadOK(t)
  BY Mover
<1>11. OpOK(t)' /\ OutcomeOK(t)' /\ ArgumentsOK(t)' /\ LocalsOK(t)'
  BY <1>1, <1>5, <1>6, <1>7, <1>8, <1>10 DEF ThreadOK, OpOK, OutcomeOK, ArgumentsOK, LocalsOK, Searching, Reserved, Erasing, KeyOps
<1>12. SweepOK(t)'
  BY <1>6, <1>8 DEF SweepOK, Erasing
<1>13. MatchedOK(t)'
  <2>1. Matched(At(t), mask)
    BY <1>1, <1>10, HashTyped DEF ThreadOK, MatchedOK, Matched, Searching
  <2>2. \A i \in 1 .. Len(loc[t].batch) : Matched(Home(arrays, loc[t].batch[i].key), loc[t].batch[i].mask)
    BY <1>1, <1>10 DEF ThreadOK, MatchedOK, Inside, Searching
  <2> QED BY <1>5, <1>8, <1>9, <2>1, <2>2 DEF MatchedOK, Matched
<1>14. CounterOK(t)'
  <2> SUFFICES ASSUME Recorded(t)', t \notin moved', NEW g \in Groups(arrays), NEW m \in Slots,
                      Has(key[t], g, m)'
               PROVE  pc'[t] \in Searching /\ Ahead(t, g, m)'
    BY <1>8 DEF CounterOK
  <2>1. Has(key[t], g, m)
    BY <1>8, QuietHas
  <2>2. Recorded(t) /\ t \notin moved
    BY <1>1, <1>8 DEF Recorded, Searching
  <2>3. PICK i \in Groups(arrays) :
          /\ Probe(arrays, Home(arrays, key[t]), i) = g /\ Passed(arrays, Hash[key[t]], i)
          /\ \/ i > loc[t].step
             \/ i = loc[t].step /\ pc[t] = "match" /\ (m \in loc[t].mask \/ m \notin loc[t].scan)
    BY <1>1, <1>10, <2>1, <2>2 DEF ThreadOK, CounterOK, Ahead
  <2>4. i > l.step \/ (i = l.step /\ p = "match" /\ (m \in mask \/ m \notin l.scan)) \/ (i = l.step /\ p = "compare" /\ m \in mask)
    <3>1. CASE i > loc[t].step
      BY <1>5, <3>1
    <3>2. CASE i = loc[t].step
      <4>1. g = At(t)
        BY <1>1, <2>3, <3>2 DEF At, KeyOps, Sweeps
      <4>2. m = n => hit
        BY <1>1, <2>1, <4>1, HasTag
      <4>3. m \in mask \/ m \notin scan
        BY <1>1, <2>3, <3>2, <4>2, <1>4
      <4> QED BY <1>5, <1>6, <1>7, <3>2, <4>3
    <3> QED BY <2>3, <3>1, <3>2
  <2>5. pc'[t] \in Searching
    BY <1>6, <1>8 DEF Searching
  <2> QED BY <1>5, <1>8, <1>9, <2>3, <2>4, <2>5 DEF Ahead
<1>15. ThreadOK(t)'
  BY <1>6, <1>8, <1>11, <1>12, <1>13, <1>14, QuietThread
<1>16. pc[t] \in Inside /\ pc'[t] \notin HoldingGroup
  BY <1>1, <1>6, <1>8 DEF Inside, Searching, HoldingGroup
<1> QED BY <1>8, <1>15, <1>16, QuietStep

LEMMA CompareMissesStep ==
  ASSUME IInv, NEW t \in Threads, CompareMisses(t)
  PROVE  IInv'
<1>1. /\ pc[t] = "compare" /\ pc[t] \notin Busy /\ op[t] \in KeyOps \cup {"bulk"} /\ key[t] \in Keys
      /\ ThreadOK(t)
  BY Mover DEF CompareMisses, Busy, Owners, Reserved, Erasing, ThreadOK, OpOK, ArgumentsOK, Searching
<1> DEFINE l == [loc[t] EXCEPT !.mask = {}]
<1>2. Local(t, "check_overflow", l) /\ CanLock(At(t), loc[t].mode) /\ Hits(t) = {}
  BY DEF CompareMisses
<1>3. /\ l \in Locals /\ l.mask = {} /\ l.scan = loc[t].scan /\ l.batch = loc[t].batch /\ l.step = loc[t].step
      /\ l.mode = loc[t].mode
  BY Mover DEF Locals
<1> HIDE DEF l
<1>4. /\ Quiet(t) /\ arrays' = arrays /\ moved' = moved /\ pc'[t] = "check_overflow" /\ loc'[t] = l
      /\ op'[t] = op[t] /\ key'[t] = key[t] /\ res'[t] = res[t]
  <2>1. "check_overflow" \in Pcs \ Busy
    BY DEF Pcs, Inside, Searching, Busy, Owners, Reserved, Erasing
  <2> QED BY <1>1, <1>2, <1>3, <2>1, LocalStep
<1>5. At(t)' = At(t) /\ \A k : Home(arrays', k) = Home(arrays, k)
  BY <1>3, <1>4 DEF At, Home
<1>6. OpOK(t)' /\ OutcomeOK(t)' /\ ArgumentsOK(t)' /\ LocalsOK(t)'
  BY <1>1, <1>3, <1>4 DEF ThreadOK, OpOK, OutcomeOK, ArgumentsOK, LocalsOK, Searching, Reserved, Erasing, KeyOps
<1>7. SweepOK(t)'
  BY <1>4 DEF SweepOK, Erasing
<1>8. MatchedOK(t)'
  BY <1>1, <1>3, <1>4, <1>5 DEF ThreadOK, MatchedOK, Matched, Inside, Searching
<1>9. CounterOK(t)'
  <2> SUFFICES ASSUME Recorded(t)', t \notin moved', NEW g \in Groups(arrays), NEW n \in Slots,
                      Has(key[t], g, n)'
               PROVE  pc'[t] \in Searching /\ Ahead(t, g, n)'
    BY <1>4 DEF CounterOK
  <2>1. Has(key[t], g, n) /\ Recorded(t) /\ t \notin moved
    BY <1>1, <1>4, QuietHas DEF Recorded, Searching
  <2>2. PICK i \in Groups(arrays) :
          /\ Probe(arrays, Home(arrays, key[t]), i) = g /\ Passed(arrays, Hash[key[t]], i)
          /\ i > loc[t].step \/ (i = loc[t].step /\ n \in loc[t].mask)
    BY <1>1, <2>1 DEF ThreadOK, CounterOK, Ahead
  <2>3. ASSUME i = loc[t].step, n \in loc[t].mask PROVE FALSE
    <3>1. g = At(t)
      BY <1>1, <2>2, <2>3 DEF At, KeyOps, Sweeps
    <3>2. arrays.elem[g][n] # key[t]
      <4>1. arrays.meta[g][n] # Available
        BY <1>1, <2>1, HasTag, HashTyped
      <4> QED BY <1>2, <2>3, <3>1, <4>1 DEF Hits, Compared
    <3>3. PICK u \in Threads : Constructing(u, key[t], g, n)
      BY <2>1, <3>2 DEF Has
    <3> QED BY <1>2, <3>1, <3>3, NoOwnerWhereLockable DEF Constructing, Owns
  <2> QED BY <1>3, <1>4, <1>5, <2>2, <2>3 DEF Ahead, Searching
<1>10. ThreadOK(t)'
  <2>1. pc'[t] \notin Busy
    BY <1>4 DEF Busy, Owners, Reserved, Erasing
  <2> QED BY <1>6, <1>7, <1>8, <1>9, <2>1, QuietThread
<1>11. pc[t] \in Inside /\ pc'[t] \notin HoldingGroup
  BY <1>1, <1>4 DEF Inside, Searching, HoldingGroup
<1> QED BY <1>4, <1>10, <1>11, QuietStep

LEMMA HitsTyped ==
  ASSUME IInv, NEW t \in Threads, Hits(t) # {}
  PROVE  /\ Lowest(Hits(t)) \in Hits(t) /\ Lowest(Hits(t)) \in loc[t].mask
         /\ Lowest(Hits(t)) \in Slots
<1>1. Hits(t) \subseteq loc[t].mask /\ loc[t].mask \subseteq Slots
  BY Mover DEF Hits, Compared, Locals
<1>2. Lowest(Hits(t)) \in Hits(t)
  BY <1>1, LowestOfSlots
<1> QED BY <1>1, <1>2

LEMMA CompareFindsStep ==
  ASSUME IInv, NEW t \in Threads, CompareFinds(t)
  PROVE  IInv'
<1>1. /\ pc[t] = "compare" /\ pc[t] \notin Busy /\ op[t] \in {"insert", "visit", "bulk"} /\ key[t] \in Keys
      /\ ThreadOK(t)
  BY Mover DEF CompareFinds, Busy, Owners, Reserved, Erasing, ThreadOK, OpOK, ArgumentsOK, Searching, KeyOps
<1> DEFINE s == Lowest(Hits(t))
           l == [[loc[t] EXCEPT !.mask = {}] EXCEPT !.slot = s]
<1>2. s \in Slots
  BY HitsTyped DEF CompareFinds
<1> HIDE DEF s
<1>3. /\ l \in Locals /\ l.mask = {} /\ l.scan = loc[t].scan /\ l.batch = loc[t].batch /\ l.step = loc[t].step
      /\ l.mode = loc[t].mode
  BY <1>2, Mover DEF Locals
<1>4. /\ pc' = [pc EXCEPT ![t] = "visiting"] /\ res' = [res EXCEPT ![t] = "found"]
      /\ loc' = [loc EXCEPT ![t] = l] /\ CanLock(At(t), loc[t].mode)
      /\ UNCHANGED <<sharedVars, op, key, moved>>
  BY DEF CompareFinds, Decide, Goto, s
<1> HIDE DEF l
<1>5. "visiting" \in Pcs /\ "visiting" \notin Busy
  BY DEF Pcs, Inside, HoldingGroup, Busy, Owners, Reserved, Erasing
<1>6. /\ Quiet(t) /\ arrays' = arrays /\ pc'[t] = "visiting" /\ loc'[t] = l
      /\ op'[t] = op[t] /\ key'[t] = key[t] /\ res'[t] = "found"
  BY <1>1, <1>3, <1>4, <1>5 DEF IInv, TypeOK, Outcomes, Quiet, ThreadsTyped, OthersStill, Still, sharedVars
<1>7. At(t)' = At(t) /\ LockMode(t)' = loc[t].mode /\ \A k : Home(arrays', k) = Home(arrays, k)
  BY <1>3, <1>6 DEF At, Home, LockMode
<1>8. OpOK(t)' /\ OutcomeOK(t)' /\ ArgumentsOK(t)' /\ LocalsOK(t)'
  BY <1>1, <1>3, <1>6 DEF ThreadOK, OpOK, OutcomeOK, ArgumentsOK, LocalsOK, Searching, Reserved, Erasing, KeyOps
<1>9. SweepOK(t)' /\ CounterOK(t)'
  BY <1>6 DEF SweepOK, Erasing, CounterOK, Recorded, Searching
<1>10. MatchedOK(t)'
  BY <1>1, <1>3, <1>6, <1>7 DEF ThreadOK, MatchedOK, Matched, Inside, Searching
<1>11. ThreadOK(t)'
  BY <1>5, <1>6, <1>8, <1>9, <1>10, QuietThread
<1>12. TakesLock(t)
  BY <1>4, <1>7 DEF TakesLock
<1> QED BY <1>1, <1>6, <1>11, <1>12, QuietStep DEF Inside, Searching

LEMMA FinishVisitStep ==
  ASSUME IInv, NEW t \in Threads, FinishVisit(t)
  PROVE  IInv'
<1>1. /\ pc[t] = "visiting" /\ pc[t] \notin Busy /\ op[t] \in {"insert", "visit", "bulk"}
      /\ ThreadOK(t)
  BY Mover DEF FinishVisit, Busy, Owners, Reserved, Erasing, ThreadOK, OpOK
<1> DEFINE p == IF op[t] = "bulk" THEN "bulk_next" ELSE "leave"
<1>2. Local(t, p, loc[t])
  BY DEF FinishVisit, Answered
<1>3. p \in Pcs \ Busy
  BY DEF Pcs, Inside, Visiting, Busy, Owners, Reserved, Erasing
<1>4. p \in {"bulk_next", "leave"} /\ (p = "bulk_next" => op[t] = "bulk")
  OBVIOUS
<1> HIDE DEF p
<1>5. /\ Quiet(t) /\ arrays' = arrays /\ moved' = moved /\ pc'[t] = p /\ loc'[t] = loc[t]
      /\ op'[t] = op[t] /\ key'[t] = key[t] /\ res'[t] = res[t]
  BY <1>1, <1>2, <1>3, Mover, LocalStep
<1>6. OpOK(t)' /\ OutcomeOK(t)' /\ ArgumentsOK(t)' /\ LocalsOK(t)'
  BY <1>1, <1>4, <1>5 DEF ThreadOK, OpOK, OutcomeOK, ArgumentsOK, LocalsOK, Searching, Reserved, Erasing, KeyOps, Sweeps
<1>7. SweepOK(t)' /\ CounterOK(t)'
  BY <1>4, <1>5 DEF SweepOK, Erasing, CounterOK, Recorded, Searching
<1>8. MatchedOK(t)'
  BY <1>1, <1>4, <1>5 DEF ThreadOK, MatchedOK, Matched, Inside, HoldingGroup, Searching, Home
<1>9. ThreadOK(t)'
  BY <1>3, <1>5, <1>6, <1>7, <1>8, QuietThread
<1>10. pc[t] \in Inside /\ pc'[t] \notin HoldingGroup
  BY <1>1, <1>4, <1>5 DEF Inside, HoldingGroup
<1> QED BY <1>5, <1>9, <1>10, QuietStep

LEMMA StepTyped ==
  ASSUME NEW l \in Locals, NEW i \in Nat
  PROVE  LET m == [l EXCEPT !.step = i] IN
         /\ m \in Locals /\ m.step = i /\ m.mask = l.mask /\ m.scan = l.scan /\ m.batch = l.batch
         /\ m.mode = l.mode
BY DEF Locals

LEMMA CheckOverflowStep ==
  ASSUME IInv, NEW t \in Threads, CheckOverflow(t)
  PROVE  IInv'
<1> DEFINE tag  == Hash[key[t]].tag
           more == ~NotOverflowed(arrays, At(t), tag) /\ loc[t].step + 1 < arrays.groups
<1>1. /\ pc[t] = "check_overflow" /\ pc[t] \notin Busy /\ op[t] \in KeyOps \cup {"bulk"} /\ key[t] \in Keys
      /\ ThreadOK(t) /\ loc[t].mask = {} /\ loc[t].step \in Nat
      /\ pc[t] \in Inside /\ arrays.groups \in Nat
  BY Mover, ArraysTyped DEF CheckOverflow, Busy, Owners, Reserved, Erasing, ThreadOK, OpOK, ArgumentsOK, LocalsOK, Searching,
     Locals, Inside
<1>2. PICK p \in {"match", "reserve_size", "bulk_next", "leave"}, l \in Locals, r \in Outcomes \cup {"none"} :
        /\ pc' = [pc EXCEPT ![t] = p] /\ loc' = [loc EXCEPT ![t] = l] /\ res' = [res EXCEPT ![t] = r]
        /\ UNCHANGED <<sharedVars, op, key, moved>>
        /\ l.mask = {} /\ l.scan = loc[t].scan /\ l.batch = loc[t].batch /\ l.mode = loc[t].mode
        /\ p = "match" => l.step = loc[t].step + 1 /\ r = res[t]
        /\ p = "reserve_size" => l.step = 0 /\ r = res[t] /\ op[t] = "insert" /\ ~more
        /\ p \in {"bulk_next", "leave"} => op[t] # "insert" /\ r = "missing"
        /\ p = "bulk_next" => op[t] = "bulk"
        /\ p = "leave" => op[t] # "bulk"
  <2>1. loc[t] \in Locals /\ loc = [loc EXCEPT ![t] = loc[t]] /\ res = [res EXCEPT ![t] = res[t]] /\ res[t] \in Outcomes \cup {"none"}
    BY DEF IInv, TypeOK
  <2>2. CASE Local(t, "match", [loc[t] EXCEPT !.step = @ + 1])
    <3> DEFINE i == loc[t].step + 1
               l == [loc[t] EXCEPT !.step = i]
    <3>1. i \in Nat
      <4>1. loc[t].step \in Nat
        BY <1>1
      <4> QED BY <4>1
    <3>2. i = loc[t].step + 1 /\ Local(t, "match", l)
      BY <2>2
    <3> HIDE DEF i
    <3>3. /\ l \in Locals /\ l.step = i /\ l.mask = {} /\ l.scan = loc[t].scan /\ l.batch = loc[t].batch
          /\ l.mode = loc[t].mode
      BY <1>1, <2>1, <3>1, StepTyped
    <3> HIDE DEF l
    <3> QED BY <2>1, <3>2, <3>3 DEF Local, Goto
  <2>3. CASE ~more /\ op[t] = "insert" /\ Local(t, "reserve_size", [loc[t] EXCEPT !.step = 0])
    <3> DEFINE l == [loc[t] EXCEPT !.step = 0]
    <3>1. /\ l \in Locals /\ l.step = 0 /\ l.mask = {} /\ l.scan = loc[t].scan /\ l.batch = loc[t].batch
          /\ l.mode = loc[t].mode
      BY <1>1, <2>1, StepTyped
    <3>2. Local(t, "reserve_size", l)
      BY <2>3
    <3> HIDE DEF l
    <3> QED BY <2>1, <2>3, <3>1, <3>2 DEF Local, Goto
  <2>4. CASE op[t] # "insert" /\ Decide(t, "missing", Answered(t)) /\ UNCHANGED <<sharedVars, op, key, loc, moved>>
    <3>1. "missing" \in Outcomes
      BY DEF Outcomes
    <3> QED BY <1>1, <2>1, <2>4, <3>1 DEF Decide, Goto, Answered
  <2> QED BY <2>2, <2>3, <2>4 DEF CheckOverflow
<1>3. p \in Pcs \ Busy
  BY DEF Pcs, Inside, Visiting, Searching, Busy, Owners, Reserved, Erasing
<1>4. /\ Quiet(t) /\ arrays' = arrays /\ moved' = moved /\ pc'[t] = p /\ loc'[t] = l
      /\ op'[t] = op[t] /\ key'[t] = key[t] /\ res'[t] = r
  BY <1>1, <1>2, <1>3 DEF IInv, TypeOK, Quiet, ThreadsTyped, OthersStill, Still, sharedVars
<1>5. OpOK(t)' /\ OutcomeOK(t)' /\ ArgumentsOK(t)' /\ LocalsOK(t)'
  BY <1>1, <1>2, <1>4 DEF ThreadOK, OpOK, OutcomeOK, ArgumentsOK, LocalsOK, Searching, Reserved, Erasing, KeyOps, Sweeps
<1>6. SweepOK(t)'
  BY <1>2, <1>4 DEF SweepOK, Erasing
<1>7. MatchedOK(t)'
  <2>1. pc'[t] \in Searching => Matched(At(t), loc[t].mask)'
    BY <1>1, <1>2, <1>4 DEF Matched
  <2>2. \A i \in 1 .. Len(loc[t].batch) : Matched(Home(arrays, loc[t].batch[i].key), loc[t].batch[i].mask)
    BY <1>1 DEF ThreadOK, MatchedOK
  <2>3. \A i \in 1 .. Len(l.batch) : Matched(Home(arrays, l.batch[i].key), l.batch[i].mask)'
    BY <1>2, <1>4, <2>2 DEF Matched, Home
  <2> QED BY <1>4, <2>1, <2>3 DEF MatchedOK
<1>8. CounterOK(t)'
  <2> SUFFICES ASSUME Recorded(t)', t \notin moved', NEW g \in Groups(arrays), NEW n \in Slots,
                      Has(key[t], g, n)'
               PROVE  pc'[t] \in Searching /\ Ahead(t, g, n)'
    BY <1>4 DEF CounterOK
  <2>1. Has(key[t], g, n) /\ Recorded(t) /\ t \notin moved /\ op[t] = "insert" /\ loc[t].scan = {}
    BY <1>1, <1>4, QuietHas DEF Recorded, Searching, ThreadOK, LocalsOK
  <2>2. PICK i \in Groups(arrays) :
          /\ Probe(arrays, Home(arrays, key[t]), i) = g /\ Passed(arrays, Hash[key[t]], i)
          /\ i > loc[t].step
    BY <1>1, <2>1 DEF ThreadOK, CounterOK, Ahead
  <2>3. i \in Nat /\ i < arrays.groups
    BY <1>1 DEF Groups
  <2>4. more
    <3>1. At(t) = Probe(arrays, Position(arrays, Hash[key[t]]), loc[t].step)
      BY <2>1 DEF At, Home, Sweeps
    <3>2. ~NotOverflowed(arrays, At(t), tag)
      BY <1>1, <2>2, <2>3, <3>1, PassedFewer
    <3> QED BY <1>1, <2>2, <2>3, <3>2
  <2>5. p = "match"
    BY <1>2, <2>1, <2>4
  <2>6. i > l.step \/ (i = l.step /\ n \notin l.scan)
    BY <1>1, <1>2, <2>1, <2>2, <2>3, <2>5
  <2> QED BY <1>4, <2>2, <2>5, <2>6 DEF Ahead, Searching, Home
<1>9. ThreadOK(t)'
  BY <1>3, <1>4, <1>5, <1>6, <1>7, <1>8, QuietThread
<1>10. pc'[t] \notin HoldingGroup
  BY <1>2, <1>4 DEF HoldingGroup
<1> QED BY <1>1, <1>4, <1>9, <1>10, QuietStep

LEMMA KeepElementStep ==
  ASSUME IInv, NEW t \in Threads, KeepElement(t)
  PROVE  IInv'
<1>1. pc[t] = "compare" /\ pc[t] \notin Busy /\ op[t] = "erase" /\ ThreadOK(t)
  BY Mover DEF KeepElement, Busy, Owners, Reserved, Erasing
<1>2. Decide(t, "kept", "leave") /\ UNCHANGED <<sharedVars, op, key, loc, moved>>
  BY DEF KeepElement
<1>3. "leave" \in Pcs \ Busy /\ "kept" \in Outcomes \cup {"none"}
  BY DEF Pcs, Inside, Busy, Owners, Reserved, Erasing, Outcomes
<1>4. /\ Quiet(t) /\ arrays' = arrays /\ moved' = moved /\ pc'[t] = "leave" /\ loc'[t] = loc[t]
      /\ op'[t] = op[t] /\ key'[t] = key[t] /\ res'[t] = "kept"
  BY <1>1, <1>2, <1>3, DecideStep
<1>5. OpOK(t)' /\ OutcomeOK(t)' /\ ArgumentsOK(t)' /\ LocalsOK(t)'
  BY <1>1, <1>4 DEF ThreadOK, OpOK, OutcomeOK, ArgumentsOK, LocalsOK, Searching, Reserved, Erasing, KeyOps, Sweeps
<1>6. SweepOK(t)' /\ CounterOK(t)'
  BY <1>4 DEF SweepOK, Erasing, CounterOK, Recorded, Searching
<1>7. MatchedOK(t)'
  BY <1>1, <1>4 DEF ThreadOK, MatchedOK, Matched, Inside, Searching, Home
<1>8. ThreadOK(t)'
  BY <1>3, <1>4, <1>5, <1>6, <1>7, QuietThread
<1>9. pc[t] \in Inside /\ pc'[t] \notin HoldingGroup
  BY <1>1, <1>4 DEF Inside, Searching, HoldingGroup
<1> QED BY <1>4, <1>8, <1>9, QuietStep

-----------------------------------------------------------------------------
(* Visitation of the whole table *)

\* While a thread is inside nobody rehashes.
LEMMA InsideAlone ==
  ASSUME IInv, NEW t \in Threads, pc[t] \in Inside
  PROVE  Rehashing = {}
BY DEF IInv, LocksExclude, Rehashing

LEMMA SweepGroupStep ==
  ASSUME IInv, NEW t \in Threads, SweepGroup(t)
  PROVE  IInv'
<1>1. pc[t] = "sweep" /\ pc[t] \notin Busy /\ op[t] \in Sweeps /\ ThreadOK(t) /\ loc[t] \in Locals /\ pc[t] \in Inside
  BY Mover DEF SweepGroup, Busy, Owners, Reserved, Erasing, ThreadOK, OpOK, Inside, Visiting
<1>2. PICK g \in Groups(arrays) :
        LET mask == {n \in Slots : <<g, n>> \in MatchReallyOccupied(arrays)} IN
        /\ CanLock(g, loc[t].mode)
        /\ Local(t, AfterSlot(mask), [loc[t] EXCEPT !.scan = @ \cup {g}, !.step = g, !.mask = mask])
  BY DEF SweepGroup
<1> DEFINE mask == {n \in Slots : <<g, n>> \in MatchReallyOccupied(arrays)}
           l == [loc[t] EXCEPT !.scan = @ \cup {g}, !.step = g, !.mask = mask]
           p == IF mask = {} THEN "sweep" ELSE "sweep_slot"
<1>3. Local(t, p, l) /\ CanLock(g, loc[t].mode)
  BY <1>2 DEF AfterSlot
<1>4. g \in Nat /\ mask \subseteq Slots /\ \A n \in mask : Occupied(arrays, g, n)
  BY DEF Groups, MatchReallyOccupied, Occupied
<1>5. /\ p \in {"sweep", "sweep_slot"} /\ (p = "sweep_slot" => mask # {})
  OBVIOUS
<1> HIDE DEF mask, p
<1>6. /\ l \in Locals /\ l.step = g /\ l.mask = mask /\ l.batch = loc[t].batch /\ l.mode = loc[t].mode
  BY <1>1, <1>4 DEF Locals
<1>7. p \in Pcs \ Busy
  BY <1>5 DEF Pcs, Inside, Visiting, HoldingGroup, Busy, Owners, Reserved, Erasing
<1> HIDE DEF l
<1>8. /\ Quiet(t) /\ arrays' = arrays /\ moved' = moved /\ pc'[t] = p /\ loc'[t] = l
      /\ op'[t] = op[t] /\ key'[t] = key[t] /\ res'[t] = res[t]
  BY <1>1, <1>3, <1>6, <1>7, LocalStep
<1>9. OpOK(t)' /\ OutcomeOK(t)' /\ ArgumentsOK(t)' /\ LocalsOK(t)'
  BY <1>1, <1>5, <1>6, <1>8 DEF ThreadOK, OpOK, OutcomeOK, ArgumentsOK, LocalsOK, Searching, Reserved, Erasing, KeyOps, Sweeps
<1>10. SweepOK(t)'
  <2>1. ASSUME NEW n \in mask PROVE ~Empty(arrays, g, n)
    <3>1. \A u \in Threads : ~Owns(u, g, n)
      BY <1>3, NoOwnerWhereLockable DEF Owns
    <3>2. Rehashing = {}
      BY <1>1, InsideAlone
    <3> QED BY <1>4, <3>1, <3>2 DEF IInv, SlotsOwned
  <2> QED BY <1>5, <1>6, <1>8, <2>1 DEF SweepOK, Empty
<1>11. CounterOK(t)'
  BY <1>5, <1>8 DEF CounterOK, Recorded, Searching
<1>12. MatchedOK(t)'
  BY <1>1, <1>5, <1>6, <1>8 DEF ThreadOK, MatchedOK, Matched, Searching, Home
<1>13. ThreadOK(t)'
  BY <1>7, <1>8, <1>9, <1>10, <1>11, <1>12, QuietThread
<1>14. pc'[t] \in HoldingGroup => TakesLock(t)
  <2>1. CASE p = "sweep_slot"
    <3>1. At(t)' = g /\ LockMode(t)' = loc[t].mode
      BY <1>1, <1>6, <1>8, <2>1 DEF At, LockMode
    <3> QED BY <1>3, <3>1 DEF TakesLock
  <2>2. CASE p = "sweep"
    BY <1>8, <2>2 DEF HoldingGroup
  <2> QED BY <1>5, <2>1, <2>2
<1> QED BY <1>1, <1>8, <1>13, <1>14, QuietStep

LEMMA SweepSlotStep ==
  ASSUME IInv, NEW t \in Threads, SweepSlot(t)
  PROVE  IInv'
<1>1. /\ pc[t] = "sweep_slot" /\ pc[t] \notin Busy /\ op[t] \in Sweeps /\ ThreadOK(t) /\ loc[t] \in Locals
      /\ pc[t] \in Inside /\ pc[t] \in HoldingGroup
  BY Mover DEF SweepSlot, Busy, Owners, Reserved, Erasing, ThreadOK, OpOK, Inside, HoldingGroup
<1> DEFINE rest == loc[t].mask \ {Lowest(loc[t].mask)}
           l == [loc[t] EXCEPT !.mask = rest]
           p == IF rest = {} THEN "sweep" ELSE "sweep_slot"
<1>2. Local(t, p, l)
  BY DEF SweepSlot, AfterSlot
<1>3. /\ p \in {"sweep", "sweep_slot"} /\ (p = "sweep_slot" => rest # {}) /\ rest \subseteq loc[t].mask
  OBVIOUS
<1> HIDE DEF rest, p
<1>4. /\ l \in Locals /\ l.step = loc[t].step /\ l.mask = rest /\ l.batch = loc[t].batch /\ l.mode = loc[t].mode
  BY <1>1, <1>3 DEF Locals
<1>5. p \in Pcs \ Busy
  BY <1>3 DEF Pcs, Inside, Visiting, HoldingGroup, Busy, Owners, Reserved, Erasing
<1> HIDE DEF l
<1>6. /\ Quiet(t) /\ arrays' = arrays /\ moved' = moved /\ pc'[t] = p /\ loc'[t] = l
      /\ op'[t] = op[t] /\ key'[t] = key[t] /\ res'[t] = res[t]
  BY <1>1, <1>2, <1>4, <1>5, LocalStep
<1>7. OpOK(t)' /\ OutcomeOK(t)' /\ ArgumentsOK(t)' /\ LocalsOK(t)'
  BY <1>1, <1>3, <1>4, <1>6 DEF ThreadOK, OpOK, OutcomeOK, ArgumentsOK, LocalsOK, Searching, Reserved, Erasing, KeyOps, Sweeps
<1>8. SweepOK(t)'
  BY <1>1, <1>3, <1>4, <1>6 DEF ThreadOK, SweepOK, Empty
<1>9. CounterOK(t)'
  BY <1>3, <1>6 DEF CounterOK, Recorded, Searching
<1>10. MatchedOK(t)'
  BY <1>1, <1>3, <1>4, <1>6 DEF ThreadOK, MatchedOK, Matched, Searching, Home
<1>11. ThreadOK(t)'
  BY <1>5, <1>6, <1>7, <1>8, <1>9, <1>10, QuietThread
<1>12. pc'[t] \in HoldingGroup => KeepsLock(t)
  <2>1. CASE p = "sweep_slot"
    BY <1>1, <1>4, <1>6, <2>1 DEF At, LockMode, KeepsLock
  <2>2. CASE p = "sweep"
    BY <1>6, <2>2 DEF HoldingGroup
  <2> QED BY <1>3, <2>1, <2>2
<1> QED BY <1>1, <1>6, <1>11, <1>12, QuietStep

LEMMA SweepLeaves ==
  ASSUME IInv, NEW t \in Threads, SweepStops(t) \/ SweepEnds(t)
  PROVE  IInv'
<1>1. /\ pc[t] \in {"sweep", "sweep_slot"} /\ pc[t] \notin Busy /\ op[t] \in Sweeps /\ ThreadOK(t)
      /\ pc[t] \in Inside
  BY Mover DEF SweepStops, SweepEnds, Busy, Owners, Reserved, Erasing, ThreadOK, OpOK, Inside, HoldingGroup, Visiting
<1>2. PICK r \in Outcomes : Decide(t, r, "leave") /\ UNCHANGED <<sharedVars, op, key, loc, moved>>
  BY DEF SweepStops, SweepEnds, Outcomes
<1>3. "leave" \in Pcs \ Busy
  BY DEF Pcs, Inside, Busy, Owners, Reserved, Erasing, Outcomes
<1>4. /\ Quiet(t) /\ arrays' = arrays /\ moved' = moved /\ pc'[t] = "leave" /\ loc'[t] = loc[t]
      /\ op'[t] = op[t] /\ key'[t] = key[t] /\ res'[t] = r
  BY <1>1, <1>2, <1>3, DecideStep
<1>5. OpOK(t)' /\ OutcomeOK(t)' /\ ArgumentsOK(t)' /\ LocalsOK(t)'
  BY <1>1, <1>4 DEF ThreadOK, OpOK, OutcomeOK, ArgumentsOK, LocalsOK, Searching, Reserved, Erasing, KeyOps, Sweeps
<1>6. SweepOK(t)' /\ CounterOK(t)'
  BY <1>4 DEF SweepOK, Erasing, CounterOK, Recorded, Searching
<1>7. MatchedOK(t)'
  BY <1>1, <1>4 DEF ThreadOK, MatchedOK, Matched, Searching, Home
<1>8. ThreadOK(t)'
  BY <1>3, <1>4, <1>5, <1>6, <1>7, QuietThread
<1>9. pc'[t] \notin HoldingGroup
  BY <1>1, <1>4 DEF Searching, HoldingGroup
<1> QED BY <1>1, <1>4, <1>8, <1>9, QuietStep

-----------------------------------------------------------------------------
(* Bulk visitation *)

LEMMA BulkEndsStep ==
  ASSUME IInv, NEW t \in Threads, BulkEnds(t)
  PROVE  IInv'
<1>1. /\ pc[t] = "bulk_next" /\ pc[t] \notin Busy /\ op[t] = "bulk" /\ ThreadOK(t) /\ loc[t] \in Locals
      /\ pc[t] \in Inside
  BY Mover DEF BulkEnds, Busy, Owners, Reserved, Erasing, ThreadOK, OpOK, Inside, Visiting
<1>2. Local(t, "leave", loc[t])
  BY DEF BulkEnds
<1>3. "leave" \in Pcs \ Busy
  BY DEF Pcs, Inside, Busy, Owners, Reserved, Erasing, Outcomes
<1>4. /\ Quiet(t) /\ arrays' = arrays /\ moved' = moved /\ pc'[t] = "leave" /\ loc'[t] = loc[t]
      /\ op'[t] = op[t] /\ key'[t] = key[t] /\ res'[t] = res[t]
  BY <1>1, <1>2, <1>3, LocalStep
<1>5. OpOK(t)' /\ OutcomeOK(t)' /\ ArgumentsOK(t)' /\ LocalsOK(t)'
  BY <1>1, <1>4 DEF ThreadOK, OpOK, OutcomeOK, ArgumentsOK, LocalsOK, Searching, Reserved, Erasing, KeyOps, Sweeps
<1>6. SweepOK(t)' /\ CounterOK(t)'
  BY <1>4 DEF SweepOK, Erasing, CounterOK, Recorded, Searching
<1>7. MatchedOK(t)'
  BY <1>1, <1>4 DEF ThreadOK, MatchedOK, Matched, Searching, Home
<1>8. ThreadOK(t)'
  BY <1>3, <1>4, <1>5, <1>6, <1>7, QuietThread
<1>9. pc'[t] \notin HoldingGroup
  BY <1>1, <1>4 DEF Searching, HoldingGroup
<1> QED BY <1>1, <1>4, <1>8, <1>9, QuietStep

LEMMA BatchSizeTyped ==
  ASSUME NEW n \in Nat, n > 0
  PROVE  BatchSize(n) \in 1 .. n
BY ClientsAssumption DEF BatchSize

LEMMA NextBatchStep ==
  ASSUME IInv, NEW t \in Threads, NextBatch(t)
  PROVE  IInv'
<1> DEFINE todo == loc[t].todo
           n == BatchSize(Len(todo))
           batch == [i \in 1 .. n |-> [key |-> todo[i], mask |-> {}]]
           l == [loc[t] EXCEPT !.batch = batch, !.todo = SubSeq(todo, n + 1, Len(todo)), !.step = 1, !.scan = {}]
<1>1. /\ pc[t] = "bulk_next" /\ pc[t] \notin Busy /\ op[t] = "bulk" /\ ThreadOK(t) /\ loc[t] \in Locals
      /\ pc[t] \in Inside
  BY Mover DEF NextBatch, Busy, Owners, Reserved, Erasing, ThreadOK, OpOK, Inside, Visiting
<1>2. todo \in Seq(Keys) /\ todo # <<>>
  BY <1>1 DEF NextBatch, Locals
<1>3. Local(t, "bulk_match", l)
  BY DEF NextBatch
<1> HIDE DEF todo
<1>4. Len(todo) \in Nat /\ Len(todo) > 0
  BY <1>2
<1>5. n \in 1 .. Len(todo)
  BY <1>4, BatchSizeTyped
<1> HIDE DEF n
<1>6. batch \in Seq(Matches) /\ Len(batch) = n /\ \A i \in 1 .. n : batch[i].mask = {}
  <2>1. \A i \in 1 .. n : [key |-> todo[i], mask |-> {}] \in Matches
    BY <1>2, <1>5 DEF Matches
  <2>2. batch \in [1 .. n -> Matches]
    BY <2>1
  <2>3. batch \in Seq(Matches) /\ Len(batch) = n
    BY <1>5, <2>2
  <2> QED BY <2>3
<1>7. SubSeq(todo, n + 1, Len(todo)) \in Seq(Keys)
  BY <1>2, <1>4, <1>5
<1> HIDE DEF batch
<1>8. l \in Locals /\ l.batch = batch /\ l.step = 1 /\ l.scan = {} /\ l.mask = loc[t].mask /\ l.mode = loc[t].mode
  BY <1>1, <1>6, <1>7 DEF Locals
<1> HIDE DEF l
<1>9. "bulk_match" \in Pcs \ Busy
  BY DEF Pcs, Inside, Visiting, Busy, Owners, Reserved, Erasing
<1>10. /\ Quiet(t) /\ arrays' = arrays /\ moved' = moved /\ pc'[t] = "bulk_match" /\ loc'[t] = l
       /\ op'[t] = op[t] /\ key'[t] = key[t] /\ res'[t] = res[t]
  BY <1>1, <1>3, <1>8, <1>9, LocalStep
<1>11. ThreadOK(t)'
  <2>1. OpOK(t)' /\ OutcomeOK(t)' /\ ArgumentsOK(t)' /\ LocalsOK(t)'
    <3>1. OutcomeOK(t)'
      BY <1>1, <1>10 DEF ThreadOK, OutcomeOK, Erasing
    <3>2. LocalsOK(t)'
      BY <1>5, <1>6, <1>8, <1>10 DEF LocalsOK
    <3> QED BY <1>1, <1>8, <1>10, <3>1, <3>2 DEF ThreadOK, OpOK, ArgumentsOK, Searching, Reserved, Erasing, KeyOps, Sweeps
  <2>2. SweepOK(t)' /\ CounterOK(t)'
    BY <1>10 DEF SweepOK, Erasing, CounterOK, Recorded, Searching
  <2>3. MatchedOK(t)'
    BY <1>6, <1>8, <1>10 DEF MatchedOK, Matched, Searching
  <2> QED BY <1>9, <1>10, <2>1, <2>2, <2>3, QuietThread
<1>12. pc'[t] \notin HoldingGroup
  BY <1>10 DEF HoldingGroup
<1> QED BY <1>1, <1>10, <1>11, <1>12, QuietStep

LEMMA BulkMatchSlotStep ==
  ASSUME IInv, NEW t \in Threads, BulkMatchSlot(t)
  PROVE  IInv'
<1> DEFINE batch == loc[t].batch
           i == loc[t].step
           k == batch[i].key
<1>1. /\ pc[t] = "bulk_match" /\ pc[t] \notin Busy /\ op[t] = "bulk" /\ ThreadOK(t) /\ loc[t] \in Locals
      /\ pc[t] \in Inside
  BY Mover DEF BulkMatchSlot, Busy, Owners, Reserved, Erasing, ThreadOK, OpOK, Inside, Visiting
<1>2. i \in 1 .. Len(batch) /\ batch \in Seq(Matches)
  BY <1>1 DEF ThreadOK, LocalsOK, Locals
<1>3. PICK n \in Slots \ loc[t].scan :
        LET hit == arrays.meta[Home(arrays, k)][n] = Hash[k].tag
            l == [loc[t] EXCEPT !.batch[i].mask = IF hit THEN @ \cup {n} ELSE @]
        IN  IF loc[t].scan \cup {n} # Slots
            THEN Local(t, "bulk_match", [l EXCEPT !.scan = @ \cup {n}])
            ELSE Local(t, IF i = Len(l.batch) THEN "bulk_next" ELSE "bulk_match",
                          [l EXCEPT !.scan = {}, !.step = i + 1])
  BY DEF BulkMatchSlot
<1> DEFINE hit == arrays.meta[Home(arrays, k)][n] = Hash[k].tag
           mask == IF hit THEN batch[i].mask \cup {n} ELSE batch[i].mask
           b == [batch EXCEPT ![i] = [batch[i] EXCEPT !.mask = mask]]
           e == [loc[t] EXCEPT !.batch = b]
           scan == loc[t].scan \cup {n}
           l == IF scan # Slots THEN [e EXCEPT !.scan = scan] ELSE [e EXCEPT !.scan = {}, !.step = i + 1]
           p == IF scan # Slots \/ i # Len(b) THEN "bulk_match" ELSE "bulk_next"
<1>4. k \in Keys /\ batch[i] \in Matches /\ batch[i].mask \subseteq Slots
  <2>1. batch[i] \in Matches
    BY <1>2
  <2> HIDE DEF batch, i
  <2> QED BY <2>1 DEF Matches
<1>5. mask \subseteq Slots /\ \A m \in mask : m \in batch[i].mask \/ (m = n /\ hit)
  BY <1>4
<1>6. Local(t, p, l)
  <2>1. e.batch = b /\ e.scan = loc[t].scan
    BY <1>1 DEF Locals
  <2>2. IF scan # Slots THEN Local(t, "bulk_match", [e EXCEPT !.scan = @ \cup {n}])
        ELSE Local(t, IF i = Len(e.batch) THEN "bulk_next" ELSE "bulk_match", [e EXCEPT !.scan = {}, !.step = i + 1])
    BY <1>3
  <2> HIDE DEF e, b
  <2>3. CASE scan # Slots
    BY <2>1, <2>2, <2>3
  <2>4. CASE scan = Slots
    <3>1. Local(t, IF i = Len(b) THEN "bulk_next" ELSE "bulk_match", [e EXCEPT !.scan = {}, !.step = i + 1])
      BY <2>1, <2>2, <2>4
    <3>2. p = IF i = Len(b) THEN "bulk_next" ELSE "bulk_match"
      BY <2>4
    <3>3. l = [e EXCEPT !.scan = {}, !.step = i + 1]
      BY <2>4
    <3> HIDE DEF p, l
    <3> QED BY <3>1, <3>2, <3>3
  <2> QED BY <2>3, <2>4
<1> HIDE DEF mask
<1>7. /\ b \in Seq(Matches) /\ Len(b) = Len(batch)
      /\ b[i].key = k /\ b[i].mask = mask
      /\ \A j \in 1 .. Len(batch) : j # i => b[j] = batch[j]
  <2> HIDE DEF batch, i
  <2>1. [batch[i] EXCEPT !.mask = mask] \in Matches
    BY <1>4, <1>5 DEF Matches
  <2>2. [batch[i] EXCEPT !.mask = mask].key = batch[i].key /\ [batch[i] EXCEPT !.mask = mask].mask = mask
    BY <1>4 DEF Matches
  <2> DEFINE x == [batch[i] EXCEPT !.mask = mask]
  <2>3. x \in Matches /\ x.key = batch[i].key /\ x.mask = mask
    BY <2>1, <2>2
  <2> HIDE DEF x
  <2>4. /\ [batch EXCEPT ![i] = x] \in Seq(Matches) /\ Len([batch EXCEPT ![i] = x]) = Len(batch)
        /\ [batch EXCEPT ![i] = x][i] = x
        /\ \A j \in 1 .. Len(batch) : j # i => [batch EXCEPT ![i] = x][j] = batch[j]
    BY <1>2, <2>3
  <2> QED BY <2>3, <2>4 DEF x
<1> HIDE DEF b
<1>8. /\ l \in Locals /\ l.batch = b /\ l.mask = loc[t].mask /\ l.mode = loc[t].mode
      /\ l.step = IF scan # Slots THEN i ELSE i + 1
  <2>1. e \in Locals /\ e.batch = b /\ e.mask = loc[t].mask /\ e.mode = loc[t].mode /\ e.step = i /\ e.scan = loc[t].scan
    BY <1>1, <1>7 DEF Locals
  <2>2. i \in Nat /\ i + 1 \in Nat /\ scan \subseteq Nat
    <3>1. i \in Nat /\ loc[t].scan \subseteq Nat
      BY <1>1 DEF Locals
    <3>2. i + 1 \in Nat
      BY <3>1
    <3> QED BY <3>1, <3>2, SlotsNumbered
  <2> HIDE DEF e, scan, i
  <2> QED BY <2>1, <2>2 DEF Locals
<1>9. p \in {"bulk_match", "bulk_next"} /\ (p = "bulk_match" => scan # Slots \/ i # Len(b))
  OBVIOUS
<1> HIDE DEF l, p
<1>10. p \in Pcs \ Busy
  BY <1>9 DEF Pcs, Inside, Visiting, Busy, Owners, Reserved, Erasing
<1>11. /\ Quiet(t) /\ arrays' = arrays /\ moved' = moved /\ pc'[t] = p /\ loc'[t] = l
       /\ op'[t] = op[t] /\ key'[t] = key[t] /\ res'[t] = res[t]
  BY <1>1, <1>6, <1>8, <1>10, LocalStep
<1>12. OpOK(t)' /\ OutcomeOK(t)' /\ ArgumentsOK(t)' /\ LocalsOK(t)'
  <2>1. OutcomeOK(t)'
    BY <1>1, <1>9, <1>11 DEF ThreadOK, OutcomeOK, Erasing
  <2>2. LocalsOK(t)'
    BY <1>2, <1>7, <1>8, <1>9, <1>11 DEF LocalsOK
  <2> QED BY <1>1, <1>8, <1>9, <1>11, <2>1, <2>2 DEF ThreadOK, OpOK, ArgumentsOK, Searching, Reserved, Erasing, KeyOps, Sweeps
<1>13. SweepOK(t)' /\ CounterOK(t)'
  BY <1>9, <1>11 DEF SweepOK, Erasing, CounterOK, Recorded, Searching
<1>14. MatchedOK(t)'
  <2>1. \A j \in 1 .. Len(batch) : Matched(Home(arrays, batch[j].key), batch[j].mask)
    BY <1>1 DEF ThreadOK, MatchedOK
  <2>2. hit => arrays.meta[Home(arrays, k)][n] # Sentinel
    BY <1>4, HashTyped
  <2>3. Matched(Home(arrays, k), mask)
    BY <1>2, <1>5, <2>1, <2>2 DEF Matched
  <2>4. ASSUME NEW j \in 1 .. Len(b) PROVE Matched(Home(arrays, b[j].key), b[j].mask)
    BY <1>7, <2>1, <2>3
  <2>5. pc'[t] \notin Searching
    BY <1>9, <1>11 DEF Searching
  <2> QED BY <1>8, <1>11, <2>4, <2>5 DEF MatchedOK, Matched, Home
<1>15. ThreadOK(t)'
  BY <1>10, <1>11, <1>12, <1>13, <1>14, QuietThread
<1>16. pc'[t] \notin HoldingGroup
  BY <1>9, <1>11 DEF HoldingGroup
<1> QED BY <1>1, <1>11, <1>15, <1>16, QuietStep

\* A search begins at the first group of its key.
LEMMA ProbeBegins ==
  ASSUME NEW a, a.groups \in GroupCounts, NEW g \in Groups(a)
  PROVE  Probe(a, g, 0) = g
<1>1. (0 * (0 + 1)) \div 2 = 0 /\ a.groups \in Nat /\ a.groups > 0
  BY GroupsPositive
<1> QED BY <1>1 DEF Probe, Groups

LEMMA NextKeyStep ==
  ASSUME IInv, NEW t \in Threads, NextKey(t)
  PROVE  IInv'
<1> DEFINE batch == loc[t].batch
           k == batch[1].key
           mask == batch[1].mask
           l == [loc[t] EXCEPT !.batch = Tail(batch), !.step = 0, !.mask = mask]
           p == IF mask = {} THEN "check_overflow" ELSE "compare"
<1>1. /\ pc[t] = "bulk_next" /\ pc[t] \notin Busy /\ op[t] = "bulk" /\ ThreadOK(t) /\ loc[t] \in Locals
      /\ pc[t] \in Inside
  BY Mover DEF NextKey, Busy, Owners, Reserved, Erasing, ThreadOK, OpOK, Inside, Visiting
<1>2. batch \in Seq(Matches) /\ batch # <<>>
  BY <1>1 DEF NextKey, Locals
<1>3. /\ pc' = [pc EXCEPT ![t] = p] /\ key' = [key EXCEPT ![t] = k] /\ loc' = [loc EXCEPT ![t] = l]
      /\ res' = [res EXCEPT ![t] = "none"] /\ UNCHANGED <<sharedVars, op, moved>>
  <2>1. Head(batch) = batch[1]
    BY <1>2
  <2> QED BY <2>1 DEF NextKey, Goto
<1>4. /\ Tail(batch) \in Seq(Matches) /\ Len(Tail(batch)) = Len(batch) - 1 /\ Len(batch) \in Nat /\ Len(batch) > 0
      /\ \A j \in 1 .. Len(batch) - 1 : Tail(batch)[j] = batch[j + 1]
  <2> HIDE DEF batch
  <2> QED BY <1>2
<1>5. k \in Keys /\ mask \subseteq Slots
  <2>1. batch[1] \in Matches
    BY <1>2, <1>4
  <2> HIDE DEF batch
  <2> QED BY <2>1 DEF Matches
<1>6. \A j \in 1 .. Len(batch) : Matched(Home(arrays, batch[j].key), batch[j].mask)
  BY <1>1 DEF ThreadOK, MatchedOK
<1>7. Matched(Home(arrays, k), mask)
  BY <1>4, <1>6
<1>8. \A j \in 1 .. Len(Tail(batch)) : Matched(Home(arrays, Tail(batch)[j].key), Tail(batch)[j].mask)
  <2> SUFFICES ASSUME NEW j \in 1 .. Len(batch) - 1
               PROVE  Matched(Home(arrays, Tail(batch)[j].key), Tail(batch)[j].mask)
    BY <1>4
  <2>1. j + 1 \in 1 .. Len(batch)
    BY <1>4
  <2> QED BY <1>4, <1>6, <2>1
<1>9. p \in {"check_overflow", "compare"} /\ (p = "check_overflow" => mask = {})
  OBVIOUS
<1> HIDE DEF mask, k, p
<1>10. l \in Locals /\ l.batch = Tail(batch) /\ l.step = 0 /\ l.mask = mask /\ l.mode = loc[t].mode
  <2> HIDE DEF batch
  <2> QED BY <1>1, <1>4, <1>5 DEF Locals
<1> HIDE DEF l, batch
<1>11. p \in Pcs \ Busy
  BY <1>9 DEF Pcs, Inside, Searching, Busy, Owners, Reserved, Erasing
<1>12. /\ Quiet(t) /\ arrays' = arrays /\ moved' = moved /\ pc'[t] = p /\ loc'[t] = l
       /\ op'[t] = op[t] /\ key'[t] = k /\ res'[t] = "none"
  BY <1>1, <1>3, <1>5, <1>10, <1>11 DEF IInv, TypeOK, Quiet, ThreadsTyped, OthersStill, Still, sharedVars
<1>13. OpOK(t)' /\ OutcomeOK(t)' /\ ArgumentsOK(t)' /\ LocalsOK(t)'
  BY <1>1, <1>5, <1>9, <1>10, <1>12 DEF ThreadOK, OpOK, OutcomeOK, ArgumentsOK, LocalsOK, Searching, Reserved, Erasing, KeyOps, Sweeps
<1>14. SweepOK(t)' /\ CounterOK(t)'
  BY <1>1, <1>9, <1>12 DEF SweepOK, Erasing, CounterOK, Recorded, Searching
<1>15. MatchedOK(t)'
  <2>1. At(t)' = Home(arrays, k)
    <3>1. Home(arrays, k) \in Groups(arrays) /\ arrays.groups \in GroupCounts
      BY <1>5, Mover, HomeTyped, ArraysTyped
    <3>2. Probe(arrays, Home(arrays, k), 0) = Home(arrays, k)
      BY <3>1, ProbeBegins
    <3> QED BY <1>1, <1>10, <1>12, <3>2 DEF At, Home, Sweeps
  <2> QED BY <1>7, <1>8, <1>10, <1>12, <2>1 DEF MatchedOK, Matched, Home
<1>16. ThreadOK(t)'
  BY <1>11, <1>12, <1>13, <1>14, <1>15, QuietThread
<1>17. pc'[t] \notin HoldingGroup
  BY <1>9, <1>12 DEF HoldingGroup
<1> QED BY <1>1, <1>12, <1>16, <1>17, QuietStep

-----------------------------------------------------------------------------
(* Insertion and growth begin *)

\* A search comes to the group of every element, and of those under construction.
LEMMA HasReached ==
  ASSUME IInv, NEW k \in Keys, NEW g \in Groups(arrays), NEW n \in Slots, Has(k, g, n)
  PROVE  Reached(arrays, Hash[k], g)
<1>1. CASE arrays.elem[g][n] = k
  BY <1>1, HashAssumption DEF IInv, ArraysOK, ElementsReached, Empty
<1>2. ASSUME NEW u \in Threads, Constructing(u, k, g, n) PROVE Reached(arrays, Hash[k], g)
  <2>1. /\ ThreadOK(u) /\ IsArrays(arrays, Keys) /\ key[u] = k /\ pc[u] = "construct" /\ At(u) = g
        /\ arrays.groups \in GroupCounts /\ Hash[k] \in Hashes
    BY <1>2, Mover, ArraysTyped, HashTyped DEF Constructing, Owns
  <2>2. At(u) = Probe(arrays, Position(arrays, Hash[k]), loc[u].step)
    BY <2>1 DEF ThreadOK, OpOK, Reserved, At, Home, Sweeps
  <2>3. CASE AllMarked(Hash[k].tag)
    BY <2>1, <2>3, AllMarkedAllReached DEF AllMarked
  <2>4. CASE loc[u].step \in Groups(arrays) /\ Passed(arrays, Hash[k], loc[u].step)
    BY <2>1, <2>2, <2>4 DEF Reached
  <2> QED BY <2>1, <2>3, <2>4 DEF ThreadOK, Walked
<1> QED BY <1>1, <1>2 DEF Has

LEMMA ReadCounterStep ==
  ASSUME IInv, NEW t \in Threads, ReadCounter(t)
  PROVE  IInv'
<1> DEFINE l == NoLocals(loc[t].mode)
<1>1. /\ pc[t] = "read_counter" /\ pc[t] \notin Busy /\ op[t] = "insert" /\ ThreadOK(t) /\ loc[t] \in Locals
      /\ pc[t] \in Inside /\ key[t] \in Keys
  BY Mover DEF ReadCounter, Busy, Owners, Reserved, Erasing, ThreadOK, OpOK, ArgumentsOK, Inside, KeyOps
<1>2. l \in Locals /\ l.mode = loc[t].mode /\ l.mask = {} /\ l.batch = <<>> /\ l.step = 0 /\ l.scan = {}
  BY <1>1, FreshTyped DEF Locals
<1> HIDE DEF l
<1>3. /\ pc' = [pc EXCEPT ![t] = "match"] /\ loc' = [loc EXCEPT ![t] = l] /\ moved' = moved \ {t}
      /\ UNCHANGED <<sharedVars, op, key, res>>
  BY DEF ReadCounter, Goto, l
<1>4. "match" \in Pcs \ Busy
  BY DEF Pcs, Inside, Searching, Busy, Owners, Reserved, Erasing
<1>5. /\ Quiet(t) /\ arrays' = arrays /\ pc'[t] = "match" /\ loc'[t] = l
      /\ op'[t] = op[t] /\ key'[t] = key[t] /\ res'[t] = res[t]
  BY <1>1, <1>2, <1>3, <1>4 DEF IInv, TypeOK, Quiet, ThreadsTyped, OthersStill, Still, sharedVars
<1>6. OpOK(t)' /\ OutcomeOK(t)' /\ ArgumentsOK(t)' /\ LocalsOK(t)'
  BY <1>1, <1>2, <1>5 DEF ThreadOK, OpOK, OutcomeOK, ArgumentsOK, LocalsOK, Searching, Reserved, Erasing, KeyOps, Sweeps
<1>7. SweepOK(t)'
  BY <1>5 DEF SweepOK, Erasing
<1>8. MatchedOK(t)'
  BY <1>2, <1>5 DEF MatchedOK, Matched
<1>9. CounterOK(t)'
  <2> SUFFICES ASSUME NEW g \in Groups(arrays), NEW n \in Slots, Has(key[t], g, n)'
               PROVE  pc'[t] \in Searching /\ Ahead(t, g, n)'
    BY <1>5 DEF CounterOK
  <2>1. Has(key[t], g, n)
    BY <1>5, QuietHas
  <2>2. PICK i \in Groups(arrays) : Probe(arrays, Position(arrays, Hash[key[t]]), i) = g /\ Passed(arrays, Hash[key[t]], i)
    BY <1>1, <2>1, HasReached DEF Reached
  <2>3. i = 0 \/ i > 0
    BY Mover, ArraysTyped DEF Groups
  <2> QED BY <1>2, <1>5, <2>2, <2>3 DEF Ahead, Home, Searching
<1>10. ThreadOK(t)'
  BY <1>4, <1>5, <1>6, <1>7, <1>8, <1>9, QuietThread
<1>11. pc'[t] \notin HoldingGroup
  BY <1>5 DEF HoldingGroup
<1> QED BY <1>1, <1>5, <1>10, <1>11, QuietStep

LEMMA SkipRehashStep ==
  ASSUME IInv, NEW t \in Threads, SkipRehash(t)
  PROVE  IInv'
<1>1. pc[t] = "rehash_enter" /\ pc[t] \notin Busy /\ op[t] = "insert" /\ ThreadOK(t) /\ loc[t] \in Locals
  BY Mover DEF SkipRehash, Busy, Owners, Reserved, Erasing, ThreadOK, OpOK
<1>2. Local(t, "enter", loc[t])
  BY DEF SkipRehash
<1>3. "enter" \in Pcs \ Busy
  BY DEF Pcs, Outside, Busy, Owners, Reserved, Erasing
<1>4. /\ Quiet(t) /\ arrays' = arrays /\ moved' = moved /\ pc'[t] = "enter" /\ loc'[t] = loc[t]
      /\ op'[t] = op[t] /\ key'[t] = key[t] /\ res'[t] = res[t]
  BY <1>1, <1>2, <1>3, LocalStep
<1>5. OpOK(t)' /\ OutcomeOK(t)' /\ ArgumentsOK(t)' /\ LocalsOK(t)'
  BY <1>1, <1>4 DEF ThreadOK, OpOK, OutcomeOK, ArgumentsOK, LocalsOK, Searching, Reserved, Erasing, KeyOps, Sweeps
<1>6. ThreadOK(t)'
  BY <1>4, <1>5, IdleThread DEF Outside
<1>7. pc'[t] \notin Inside
  BY <1>4 DEF Inside, Searching, Reserved, HoldingGroup, Visiting
<1>8. pc'[t] \notin HoldingGroup
  BY <1>7 DEF Inside
<1> QED BY <1>4, <1>6, <1>7, <1>8, QuietStep

\* A thread that finds its reservation unnecessary.
LEMMA ReserveNothingStep ==
  ASSUME IInv, NEW t \in Threads, pc[t] = "reserve_enter",
         Decide(t, "reserved", "done"), UNCHANGED <<sharedVars, op, key, loc, moved>>
  PROVE  IInv'
<1>1. pc[t] \notin Busy /\ op[t] = "reserve" /\ ThreadOK(t)
  BY Mover DEF Busy, Owners, Reserved, Erasing, ThreadOK, OpOK
<1>2. "done" \in Pcs \ Busy /\ "reserved" \in Outcomes \cup {"none"}
  BY DEF Pcs, Outside, Busy, Owners, Reserved, Erasing, Outcomes
<1>3. /\ Quiet(t) /\ arrays' = arrays /\ moved' = moved /\ pc'[t] = "done" /\ loc'[t] = loc[t]
      /\ op'[t] = op[t] /\ key'[t] = key[t] /\ res'[t] = "reserved"
  BY <1>1, <1>2, DecideStep
<1>4. OpOK(t)' /\ OutcomeOK(t)' /\ ArgumentsOK(t)' /\ LocalsOK(t)'
  BY <1>1, <1>3 DEF ThreadOK, OpOK, OutcomeOK, ArgumentsOK, LocalsOK, Searching, Reserved, Erasing, KeyOps, Sweeps
<1>5. ThreadOK(t)'
  BY <1>3, <1>4, IdleThread DEF Outside
<1>6. pc'[t] \notin Inside
  BY <1>3 DEF Inside, Searching, Reserved, HoldingGroup, Visiting
<1>7. pc'[t] \notin HoldingGroup
  BY <1>6 DEF Inside
<1> QED BY <1>3, <1>5, <1>6, <1>7, QuietStep

-----------------------------------------------------------------------------
(* Steps that leave the arrays alone, but not the numbers *)

LEMMA CountedStep ==
  ASSUME IInv, NEW t \in Threads, ThreadsTyped', size' \in Nat, ml' \in Nat, OthersStill(t),
         pc[t] \in Inside, pc'[t] # "rehash_move", pc'[t] # "construct",
         UNCHANGED <<arrays, newArrays, cursor>>,
         \A u \in Threads : u # t => (u \in moved <=> u \in moved'),
         \A g, n : Owns(t, g, n) => Owns(t, g, n)',
         pc'[t] \in HoldingGroup => KeepsLock(t) \/ TakesLock(t),
         ThreadOK(t)', SizeAccounts', LoadBounded'
  PROVE  IInv'
<1>1. arrays' = arrays /\ newArrays' = newArrays /\ cursor' = cursor
  OBVIOUS
<1>2. pc[t] # "rehash_move"
  BY DEF Inside, Searching, Reserved, HoldingGroup, Visiting
<1>3. TypeOK'
  BY <1>1 DEF IInv, TypeOK, ThreadsTyped
<1>4. Grown /\ \A u \in Threads : Undisturbed(u)
  BY <1>1 DEF Grown, Undisturbed
<1>5. \A k, g, n : Has(k, g, n)' => Has(k, g, n)
  <2>1. \A k, g, n : arrays'.elem[g][n] = k => Has(k, g, n)
    BY <1>1 DEF Has
  <2> QED BY <1>1, <2>1, HasFewer
<1>6. \A u \in Threads : u # t => Told(u)
  BY <1>1, <1>5 DEF Told, OthersStill, Still
<1>7. LocksExclude'
  BY <1>1, <1>2, LocksKept DEF IInv
<1>8. SentinelInPlace(arrays)' /\ ElementsReached(arrays)'
  BY <1>1 DEF IInv, ArraysOK
<1>9. ASSUME Rehashing = {}, NEW g \in Groups(arrays), NEW n \in Slots,
             Occupied(arrays', g, n), Empty(arrays', g, n)
      PROVE  Owns(t, g, n)' \/ \E u \in Threads : u # t /\ Owns(u, g, n)
  <2>1. PICK u \in Threads : Owns(u, g, n)
    BY <1>1, <1>9 DEF IInv, SlotsOwned
  <2> QED BY <2>1
<1>10. \A k \in Keys, g, h \in Groups(arrays), m, n \in Slots :
           Has(k, g, m)' /\ Has(k, h, n)' => g = h /\ m = n
  BY <1>5 DEF IInv, NoKeyTwice
<1> QED BY <1>1, <1>2, <1>3, <1>4, <1>6, <1>7, <1>8, <1>9, <1>10, SharedStep

\* What SizesKept needs of a step that leaves the arrays alone.
LEMMA SameContents ==
  ASSUME IInv, UNCHANGED <<arrays, newArrays>>
  PROVE  /\ arrays'.groups = arrays.groups /\ arrays'.built = arrays.built
         /\ Cardinality(Contents) \in Nat /\ Contents' = Contents
         /\ Cardinality(Contents)' = Cardinality(Contents) + 0 /\ Cardinality(Contents)' \in Nat
         /\ IsArrays(arrays, Keys) /\ IsArrays(newArrays, Keys) /\ size \in Nat /\ ml \in Nat
         /\ SizeAccounts /\ LoadBounded
BY ContentsTyped DEF IInv, TypeOK, Contents

LEMMA UndoSizeStep ==
  ASSUME IInv, NEW t \in Threads, UndoSize(t)
  PROVE  IInv'
<1> DEFINE l == NoLocals(loc[t].mode)
<1>1. /\ pc[t] = "undo_size" /\ op[t] = "insert" /\ ThreadOK(t) /\ loc[t] \in Locals
      /\ pc[t] \in Inside /\ key[t] \in Keys
  BY Mover DEF UndoSize, ThreadOK, OpOK, ArgumentsOK, Inside, KeyOps, Reserved
<1>2. l \in Locals /\ l.mode = loc[t].mode /\ l.mask = {} /\ l.batch = <<>> /\ l.step = 0 /\ l.scan = {}
  BY <1>1, FreshTyped DEF Locals
<1> HIDE DEF l
<1>3. /\ pc' = [pc EXCEPT ![t] = "rehash_enter"] /\ loc' = [loc EXCEPT ![t] = l] /\ moved' = moved \ {t}
      /\ size' = size - 1 /\ UNCHANGED <<arrays, newArrays, cursor, ml, op, key, res>>
  BY DEF UndoSize, Goto, l
<1>4. /\ OthersStill(t) /\ pc'[t] = "rehash_enter" /\ loc'[t] = l /\ ThreadsTyped'
      /\ op'[t] = op[t] /\ key'[t] = key[t] /\ res'[t] = res[t]
  <2>1. "rehash_enter" \in Pcs
    BY DEF Pcs, Outside
  <2> QED BY <1>2, <1>3, <2>1 DEF IInv, TypeOK, ThreadsTyped, OthersStill, Still
<1>5. ThreadOK(t)'
  <2>1. OpOK(t)' /\ OutcomeOK(t)' /\ ArgumentsOK(t)' /\ LocalsOK(t)'
    BY <1>1, <1>2, <1>4 DEF ThreadOK, OpOK, OutcomeOK, ArgumentsOK, LocalsOK, Searching, Reserved, Erasing, KeyOps, Sweeps
  <2> QED BY <1>4, <2>1, IdleThread DEF Outside
<1>6. SizeAccounts' /\ LoadBounded' /\ size' \in Nat
  <2>1. /\ Delta(t, Reserved) = 0 - 1 /\ Delta(t, Erasing) = 0 /\ Delta(t, Granted) = 0
        /\ Delta(t, {"erase_ml"}) = 0
    BY <1>1, <1>4 DEF Delta, Reserved, Erasing, Granted
  <2>2. size \in Nat /\ size' = size + 0 + (0 - 1) + 0
    BY <1>3 DEF IInv, TypeOK
  <2> QED BY <1>1, <1>3, <1>4, <2>1, <2>2, SameContents, SizesKept
<1>7. ml' \in Nat /\ \A g, n : ~Owns(t, g, n)
  BY <1>1, <1>3 DEF IInv, TypeOK, Owns, Owners
<1>8. pc'[t] \notin HoldingGroup
  BY <1>4 DEF HoldingGroup
<1> QED BY <1>1, <1>3, <1>4, <1>5, <1>6, <1>7, <1>8, CountedStep

LEMMA RollbackSizeStep ==
  ASSUME IInv, NEW t \in Threads, RollbackSize(t)
  PROVE  IInv'
<1> DEFINE l == NoLocals(loc[t].mode)
           p == IF res[t] = "threw" THEN "leave" ELSE "read_counter"
<1>1. /\ pc[t] = "rollback_size" /\ op[t] = "insert" /\ ThreadOK(t) /\ loc[t] \in Locals
      /\ pc[t] \in Inside /\ key[t] \in Keys
  BY Mover DEF RollbackSize, ThreadOK, OpOK, ArgumentsOK, Inside, KeyOps, Reserved
<1>2. l \in Locals /\ l.mode = loc[t].mode /\ l.mask = {} /\ l.batch = <<>> /\ l.step = 0 /\ l.scan = {}
  BY <1>1, FreshTyped DEF Locals
<1> HIDE DEF l
<1>3. /\ pc' = [pc EXCEPT ![t] = p] /\ loc' = [loc EXCEPT ![t] = l]
      /\ size' = size - 1 /\ UNCHANGED <<arrays, newArrays, cursor, ml, op, key, res, moved>>
  BY DEF RollbackSize, Goto, l
<1>4. p \in {"leave", "read_counter"} /\ p \in Pcs /\ (p = "read_counter" => res[t] # "threw")
  BY DEF Pcs, Inside
<1> HIDE DEF p
<1>5. /\ OthersStill(t) /\ pc'[t] = p /\ loc'[t] = l /\ ThreadsTyped'
      /\ op'[t] = op[t] /\ key'[t] = key[t] /\ res'[t] = res[t]
  BY <1>2, <1>3, <1>4 DEF IInv, TypeOK, ThreadsTyped, OthersStill, Still
<1>6. ThreadOK(t)'
  <2>1. OpOK(t)' /\ OutcomeOK(t)' /\ ArgumentsOK(t)' /\ LocalsOK(t)'
    BY <1>1, <1>2, <1>4, <1>5 DEF ThreadOK, OpOK, OutcomeOK, ArgumentsOK, LocalsOK, Searching, Reserved, Erasing, KeyOps, Sweeps
  <2>2. SweepOK(t)' /\ CounterOK(t)' /\ MatchedOK(t)'
    BY <1>2, <1>4, <1>5 DEF SweepOK, CounterOK, MatchedOK, Recorded, Searching, Erasing
  <2> QED BY <1>4, <1>5, <2>1, <2>2, QuietThread DEF Busy, Owners, Reserved, Erasing
<1>7. SizeAccounts' /\ LoadBounded' /\ size' \in Nat
  <2>1. /\ Delta(t, Reserved) = 0 - 1 /\ Delta(t, Erasing) = 0 /\ Delta(t, Granted) = 0 - 1
        /\ Delta(t, {"erase_ml"}) = 0 /\ pc'[t] # "check_size"
    BY <1>1, <1>4, <1>5 DEF Delta, Reserved, Erasing, Granted
  <2>2. size \in Nat /\ size' = size + 0 + (0 - 1) + 0
    BY <1>3 DEF IInv, TypeOK
  <2> QED BY <1>1, <1>3, <1>5, <2>1, <2>2, SameContents, SizesKept
<1>8. ml' \in Nat /\ \A g, n : ~Owns(t, g, n)
  BY <1>1, <1>3 DEF IInv, TypeOK, Owns, Owners
<1>9. pc'[t] \notin HoldingGroup /\ pc'[t] # "rehash_move" /\ pc'[t] # "construct"
  BY <1>4, <1>5 DEF HoldingGroup
<1> QED BY <1>1, <1>3, <1>5, <1>6, <1>7, <1>8, <1>9, CountedStep

LEMMA DecreaseSizeStep ==
  ASSUME IInv, NEW t \in Threads, DecreaseSize(t)
  PROVE  IInv'
<1> DEFINE p == IF op[t] = "erase_if" THEN IF loc[t].mask = {} THEN "sweep" ELSE "sweep_slot" ELSE "leave"
<1>1. /\ pc[t] = "erase_size" /\ op[t] \in {"erase", "erase_if"} /\ ThreadOK(t) /\ loc[t] \in Locals
      /\ pc[t] \in Inside
  BY Mover DEF DecreaseSize, ThreadOK, OpOK, Inside, HoldingGroup, Erasing
<1>2. /\ pc' = [pc EXCEPT ![t] = p]
      /\ size' = size - 1 /\ UNCHANGED <<arrays, newArrays, cursor, ml, op, key, res, loc, moved>>
  BY DEF DecreaseSize, Goto, AfterSlot
<1>3. /\ p \in {"leave", "sweep", "sweep_slot"} /\ p \in Pcs /\ (p = "leave" => op[t] = "erase")
      /\ (p # "leave" => op[t] = "erase_if") /\ (p = "sweep_slot" => loc[t].mask # {})
  BY <1>1 DEF Pcs, Inside, Visiting, HoldingGroup
<1> HIDE DEF p
<1>4. /\ OthersStill(t) /\ pc'[t] = p /\ loc'[t] = loc[t] /\ ThreadsTyped'
      /\ op'[t] = op[t] /\ key'[t] = key[t] /\ res'[t] = res[t]
  BY <1>2, <1>3 DEF IInv, TypeOK, ThreadsTyped, OthersStill, Still
<1>5. ThreadOK(t)'
  <2>1. OpOK(t)' /\ OutcomeOK(t)' /\ ArgumentsOK(t)' /\ LocalsOK(t)'
    BY <1>1, <1>3, <1>4 DEF ThreadOK, OpOK, OutcomeOK, ArgumentsOK, LocalsOK, Searching, Reserved, Erasing, KeyOps, Sweeps
  <2>2. SweepOK(t)'
    BY <1>1, <1>2, <1>3, <1>4 DEF ThreadOK, SweepOK, Erasing, Sweeps, Empty
  <2>3. CounterOK(t)'
    BY <1>3, <1>4 DEF CounterOK, Recorded, Searching
  <2>4. MatchedOK(t)'
    BY <1>1, <1>2, <1>3, <1>4 DEF ThreadOK, MatchedOK, Matched, Searching, Home
  <2> QED BY <1>3, <1>4, <2>1, <2>2, <2>3, <2>4, QuietThread DEF Busy, Owners, Reserved, Erasing
<1>6. SizeAccounts' /\ LoadBounded' /\ size' \in Nat
  <2>1. /\ Delta(t, Reserved) = 0 /\ Delta(t, Erasing) = 0 - 1 /\ Delta(t, Granted) = 0
        /\ Delta(t, {"erase_ml"}) = 0 /\ pc'[t] # "check_size"
    BY <1>1, <1>3, <1>4 DEF Delta, Reserved, Erasing, Granted
  <2>2. size \in Nat /\ size' = size + 0 + 0 + (0 - 1)
    BY <1>2 DEF IInv, TypeOK
  <2> QED BY <1>1, <1>2, <1>4, <2>1, <2>2, SameContents, SizesKept
<1>7. ml' \in Nat /\ \A g, n : ~Owns(t, g, n)
  BY <1>1, <1>2 DEF IInv, TypeOK, Owns, Owners
<1>8. pc'[t] # "rehash_move" /\ pc'[t] # "construct"
  BY <1>3, <1>4
<1>9. pc'[t] \in HoldingGroup => KeepsLock(t)
  <2>1. CASE p = "sweep_slot"
    BY <1>1, <1>2, <1>4, <2>1 DEF KeepsLock, HoldingGroup, At, Home, LockMode
  <2>2. CASE p # "sweep_slot"
    BY <1>3, <1>4, <2>2 DEF HoldingGroup
  <2> QED BY <2>1, <2>2
<1> QED BY <1>1, <1>2, <1>4, <1>5, <1>6, <1>7, <1>8, <1>9, CountedStep

LEMMA ConstructThrowsStep ==
  ASSUME IInv, NEW t \in Threads, ConstructThrows(t)
  PROVE  IInv'
<1>1. /\ pc[t] = "construct" /\ op[t] = "insert" /\ ThreadOK(t) /\ loc[t] \in Locals
      /\ pc[t] \in Inside /\ key[t] \in Keys
  BY Mover DEF ConstructThrows, ThreadOK, OpOK, ArgumentsOK, Inside, KeyOps, Reserved
<1>2. /\ pc' = [pc EXCEPT ![t] = "rollback_slot"] /\ res' = [res EXCEPT ![t] = "threw"]
      /\ UNCHANGED <<arrays, newArrays, cursor, size, ml, op, key, loc, moved>>
  BY DEF ConstructThrows, Goto, Decide, sharedVars
<1>3. /\ OthersStill(t) /\ pc'[t] = "rollback_slot" /\ loc'[t] = loc[t] /\ ThreadsTyped'
      /\ op'[t] = op[t] /\ key'[t] = key[t] /\ res'[t] = "threw"
  <2>1. "rollback_slot" \in Pcs /\ "threw" \in Outcomes
    BY DEF Pcs, Inside, Reserved, Outcomes
  <2> QED BY <1>2, <2>1 DEF IInv, TypeOK, ThreadsTyped, OthersStill, Still
<1>4. At(t)' = At(t)
  BY <1>2, <1>3 DEF At, Home
<1>5. ThreadOK(t)'
  <2>1. OpOK(t)' /\ OutcomeOK(t)' /\ ArgumentsOK(t)' /\ LocalsOK(t)'
    BY <1>1, <1>3 DEF ThreadOK, OpOK, OutcomeOK, ArgumentsOK, LocalsOK, Searching, Reserved, Erasing, KeyOps, Sweeps
  <2>2. SweepOK(t)' /\ CounterOK(t)' /\ Walked(t)'
    BY <1>3 DEF SweepOK, CounterOK, Recorded, Searching, Erasing, Walked
  <2>3. OwnsSlot(t)'
    BY <1>1, <1>2, <1>3, <1>4 DEF ThreadOK, OwnsSlot, Owners, Occupied, Empty
  <2>4. MatchedOK(t)'
    BY <1>1, <1>2, <1>3 DEF ThreadOK, MatchedOK, Matched, Searching, Home
  <2> QED BY <2>1, <2>2, <2>3, <2>4 DEF ThreadOK
<1>6. SizeAccounts' /\ LoadBounded' /\ size' \in Nat
  <2>1. /\ Delta(t, Reserved) = 0 /\ Delta(t, Erasing) = 0 /\ Delta(t, Granted) = 0
        /\ Delta(t, {"erase_ml"}) = 0
    BY <1>1, <1>3 DEF Delta, Reserved, Erasing, Granted
  <2>2. size \in Nat /\ size' = size + 0 + 0 + 0
    BY <1>2 DEF IInv, TypeOK
  <2> QED BY <1>1, <1>2, <1>3, <2>1, <2>2, SameContents, SizesKept
<1>7. ml' \in Nat /\ \A g, n : Owns(t, g, n) => Owns(t, g, n)'
  BY <1>1, <1>2, <1>3, <1>4 DEF IInv, TypeOK, Owns, Owners
<1>8. KeepsLock(t)
  BY <1>1, <1>3, <1>4 DEF KeepsLock, HoldingGroup, LockMode
<1> QED BY <1>1, <1>2, <1>3, <1>5, <1>6, <1>7, <1>8, CountedStep

-----------------------------------------------------------------------------
(* Reservations and the maximum load *)

\* The numbers in LoadBounded, and how t changes those of threads.
LEMMA LoadNumbers ==
  ASSUME IInv, NEW t \in Threads, OthersStill(t)
  PROVE  LET C  == Cardinality(Contents)
             G  == Count(Granted)
             Er == Count(Erasing)
             Em == Count({"erase_ml"})
             R  == Count(Reserved)
             M  == InitialMaxLoad(arrays)
             w  == Grantable(ml)
             v  == Grantable(M)
         IN  /\ C \in Nat /\ G \in Nat /\ Er \in Nat /\ Em \in Nat /\ R \in Nat /\ M \in Nat
             /\ w \in Nat /\ v \in Nat /\ size \in Nat /\ ml \in Nat
             /\ G' = G + Delta(t, Granted) /\ Er' = Er + Delta(t, Erasing)
             /\ Em' = Em + Delta(t, {"erase_ml"}) /\ R' = R + Delta(t, Reserved)
             /\ Em <= Er /\ G + w <= R /\ G + v <= R
             /\ size = C + R + Er /\ ml <= M
             /\ C + G + Em + w <= ml /\ C + G + Er + v <= M
<1>1. /\ IsArrays(arrays, Keys) /\ IsArrays(newArrays, Keys) /\ size \in Nat /\ ml \in Nat
      /\ SizeAccounts /\ LoadBounded
  BY DEF IInv, TypeOK
<1>2. Cardinality(Contents) \in Nat /\ InitialMaxLoad(arrays) \in Nat
  BY <1>1, ContentsTyped, CapacityTyped, ArraysTyped
<1>3. /\ Count(Granted) \in Nat /\ Count(Granted)' = Count(Granted) + Delta(t, Granted)
      /\ Count(Erasing) \in Nat /\ Count(Erasing)' = Count(Erasing) + Delta(t, Erasing)
      /\ Count({"erase_ml"}) \in Nat /\ Count({"erase_ml"})' = Count({"erase_ml"}) + Delta(t, {"erase_ml"})
      /\ Count(Reserved) \in Nat /\ Count(Reserved)' = Count(Reserved) + Delta(t, Reserved)
  <2>1. Count(Granted) \in Nat /\ Count(Granted)' = Count(Granted) + Delta(t, Granted)
    BY CountDelta DEF Granted
  <2>2. Count(Erasing) \in Nat /\ Count(Erasing)' = Count(Erasing) + Delta(t, Erasing)
    BY CountDelta DEF Erasing
  <2>3. Count({"erase_ml"}) \in Nat /\ Count({"erase_ml"})' = Count({"erase_ml"}) + Delta(t, {"erase_ml"})
    BY CountDelta
  <2>4. Count(Reserved) \in Nat /\ Count(Reserved)' = Count(Reserved) + Delta(t, Reserved)
    BY CountDelta DEF Reserved
  <2> QED BY <2>1, <2>2, <2>3, <2>4
<1>4. /\ \A S : CountIn(pc, S) = Count(S)
      /\ \A m : GrantableIn(pc, loc, m) = Grantable(m)
  BY DEF CountIn, Count, GrantableIn, Grantable
<1>5. /\ Count({"check_size"}) \in Nat /\ Count({"undo_size"}) \in Nat
      /\ Count(Reserved) = Count(Granted) + Count({"check_size"}) + Count({"undo_size"})
      /\ \A m : Grantable(m) \in Nat /\ Grantable(m) <= Count({"check_size"})
      /\ Count({"erase_ml"}) <= Count(Erasing)
  BY <1>4, CountsRelated
<1>6. size = Cardinality(Contents) + Count(Reserved) + Count(Erasing)
  BY <1>1 DEF SizeAccounts, Count, Erasing
<1>7. /\ ml <= InitialMaxLoad(arrays)
      /\ Cardinality(Contents) + Count(Granted) + Count({"erase_ml"}) + Grantable(ml) <= ml
      /\ Cardinality(Contents) + Count(Granted) + Count(Erasing) + Grantable(InitialMaxLoad(arrays))
            <= InitialMaxLoad(arrays)
  BY <1>1 DEF LoadBounded
<1>8. /\ Grantable(ml) \in Nat /\ Grantable(ml) <= Count({"check_size"})
      /\ Grantable(InitialMaxLoad(arrays)) \in Nat /\ Grantable(InitialMaxLoad(arrays)) <= Count({"check_size"})
  BY <1>5
<1>9. /\ Count(Granted) + Grantable(ml) <= Count(Reserved)
      /\ Count(Granted) + Grantable(InitialMaxLoad(arrays)) <= Count(Reserved)
  BY <1>3, <1>5, <1>8
<1> QED BY <1>1, <1>2, <1>3, <1>5, <1>6, <1>7, <1>8, <1>9

\* How the reservations that can be granted change, with the maximum load as it is
\* and with that of new arrays.
LEMMA GrantableKept ==
  ASSUME NEW t \in Threads, OthersStill(t), UNCHANGED <<arrays, ml>>
  PROVE  LET M == InitialMaxLoad(arrays)
             w == Grantable(ml)
             v == Grantable(M)
         IN  /\ M' = M /\ w \in Nat /\ w' \in Nat /\ v \in Nat /\ v' \in Nat
             /\ GrantableBefore(t, ml) /\ ~GrantableAfter(t, ml) => w' = w - 1
             /\ ~GrantableBefore(t, ml) /\ GrantableAfter(t, ml) => w' = w + 1
             /\ (GrantableBefore(t, ml) <=> GrantableAfter(t, ml)) => w = w'
             /\ GrantableBefore(t, M) /\ ~GrantableAfter(t, M) => v' = v - 1
             /\ ~GrantableBefore(t, M) /\ GrantableAfter(t, M) => v' = v + 1
             /\ (GrantableBefore(t, M) <=> GrantableAfter(t, M)) => v = v'
<1> DEFINE M == InitialMaxLoad(arrays)
<1>1. M' = M /\ ml' = ml
  OBVIOUS
<1>2. Grantable(ml) = GrantableIn(pc, loc, ml) /\ Grantable(ml)' = GrantableIn(pc', loc', ml)
  BY <1>1 DEF Grantable, GrantableIn
<1>3. Grantable(M) = GrantableIn(pc, loc, M) /\ Grantable(M)' = GrantableIn(pc', loc', M)
  BY <1>1 DEF Grantable, GrantableIn
<1> HIDE DEF M
<1> QED BY <1>1, <1>2, <1>3, GrantableMoves DEF M

\* What was recorded for a bulk visit stays right.
LEMMA MatchedKept ==
  ASSUME IInv, NEW t \in Threads, pc[t] \in Inside, pc'[t] \notin Searching,
         loc'[t].batch = loc[t].batch, Grown
  PROVE  MatchedOK(t)'
<1>1. loc[t].batch \in Seq(Matches) /\ IsArrays(arrays, Keys) /\ ThreadOK(t)
  BY Mover DEF Locals
<1>2. \A k : Home(arrays', k) = Home(arrays, k)
  BY SameGroups DEF Grown, Home
<1>3. ASSUME NEW i \in 1 .. Len(loc[t].batch)
      PROVE  Matched(Home(arrays, loc[t].batch[i].key), loc[t].batch[i].mask)'
  <2> DEFINE x == loc[t].batch[i]
  <2>1. x \in Matches
    BY <1>1, <1>3
  <2>2. Matched(Home(arrays, x.key), x.mask)
    BY <1>1, <1>3 DEF ThreadOK, MatchedOK
  <2>3. loc'[t].batch[i] = x
    OBVIOUS
  <2> HIDE DEF x
  <2>4. x.key \in Keys /\ x.mask \subseteq Slots
    BY <2>1 DEF Matches
  <2>5. Home(arrays, x.key) \in Groups(arrays)
    BY <1>1, <2>4, HomeTyped
  <2> QED BY <1>2, <2>2, <2>3, <2>4, <2>5 DEF Matched, Grown
<1> QED BY <1>3 DEF MatchedOK

LEMMA ReserveSizeStep ==
  ASSUME IInv, NEW t \in Threads, ReserveSize(t)
  PROVE  IInv'
<1> DEFINE l == [loc[t] EXCEPT !.ticket = size + 1]
<1>1. /\ pc[t] = "reserve_size" /\ op[t] = "insert" /\ ThreadOK(t) /\ loc[t] \in Locals
      /\ pc[t] \in Inside /\ key[t] \in Keys /\ size \in Nat
  BY Mover DEF ReserveSize, ThreadOK, OpOK, ArgumentsOK, Inside, KeyOps, IInv, TypeOK
<1>2. /\ l \in Locals /\ l.mode = loc[t].mode /\ l.mask = loc[t].mask /\ l.batch = loc[t].batch /\ l.step = loc[t].step
      /\ l.scan = loc[t].scan /\ l.ticket = size + 1
  <2>1. size + 1 \in Nat
    BY <1>1
  <2> QED BY <1>1, <2>1 DEF Locals
<1> HIDE DEF l
<1>3. /\ pc' = [pc EXCEPT ![t] = "check_size"] /\ loc' = [loc EXCEPT ![t] = l]
      /\ size' = size + 1 /\ UNCHANGED <<arrays, newArrays, cursor, ml, op, key, res, moved>>
  BY DEF ReserveSize, Goto, l
<1>4. /\ OthersStill(t) /\ pc'[t] = "check_size" /\ loc'[t] = l /\ ThreadsTyped'
      /\ op'[t] = op[t] /\ key'[t] = key[t] /\ res'[t] = res[t]
  <2>1. "check_size" \in Pcs
    BY DEF Pcs, Inside, Reserved
  <2> QED BY <1>2, <1>3, <2>1 DEF IInv, TypeOK, ThreadsTyped, OthersStill, Still
<1>5. ThreadOK(t)'
  <2>1. OpOK(t)' /\ OutcomeOK(t)' /\ ArgumentsOK(t)' /\ LocalsOK(t)'
    BY <1>1, <1>2, <1>4 DEF ThreadOK, OpOK, OutcomeOK, ArgumentsOK, LocalsOK, Searching, Reserved, Erasing, KeyOps, Sweeps
  <2>2. SweepOK(t)' /\ OwnsSlot(t)' /\ Walked(t)'
    BY <1>4 DEF SweepOK, OwnsSlot, Walked, Erasing, Owners
  <2>3. CounterOK(t)'
    <3> SUFFICES ASSUME Recorded(t)', t \notin moved', NEW g \in Groups(arrays), NEW n \in Slots,
                        Has(key[t], g, n)'
                 PROVE  FALSE
      BY <1>3 DEF CounterOK
    <3>1. Has(key[t], g, n)
      <4>1. arrays'.elem[g][n] = key[t] => Has(key[t], g, n)
        BY <1>3 DEF Has
      <4> QED BY <1>3, <1>4, <4>1, HasFewer
    <3> QED BY <1>1, <1>3, <3>1 DEF ThreadOK, CounterOK, Recorded, Searching
  <2>4. MatchedOK(t)'
    BY <1>1, <1>2, <1>3, <1>4, MatchedKept DEF Grown, Searching
  <2> QED BY <2>1, <2>2, <2>3, <2>4 DEF ThreadOK
<1>6. SizeAccounts' /\ LoadBounded' /\ size' \in Nat
  <2> DEFINE C  == Cardinality(Contents)
             G  == Count(Granted)
             Er == Count(Erasing)
             Em == Count({"erase_ml"})
             R  == Count(Reserved)
             M  == InitialMaxLoad(arrays)
             w  == Grantable(ml)
             v  == Grantable(M)
  <2>1. /\ C \in Nat /\ G \in Nat /\ Er \in Nat /\ Em \in Nat /\ R \in Nat /\ M \in Nat
        /\ w \in Nat /\ v \in Nat /\ size \in Nat /\ ml \in Nat
        /\ G' = G + Delta(t, Granted) /\ Er' = Er + Delta(t, Erasing)
        /\ Em' = Em + Delta(t, {"erase_ml"}) /\ R' = R + Delta(t, Reserved)
        /\ Em <= Er /\ G + w <= R /\ G + v <= R
        /\ size = C + R + Er /\ ml <= M
        /\ C + G + Em + w <= ml /\ C + G + Er + v <= M
    BY <1>4, LoadNumbers
  <2>2. /\ Delta(t, Reserved) = 1 /\ Delta(t, Erasing) = 0 /\ Delta(t, Granted) = 0
        /\ Delta(t, {"erase_ml"}) = 0
    BY <1>1, <1>4 DEF Delta, Reserved, Erasing, Granted
  <2>3. /\ GrantableBefore(t, ml) = FALSE /\ GrantableBefore(t, M) = FALSE
        /\ GrantableAfter(t, ml) <=> size + 1 <= ml
        /\ GrantableAfter(t, M) <=> size + 1 <= M
    BY <1>1, <1>2, <1>4 DEF GrantableBefore, GrantableAfter
  <2>4. /\ M' = M /\ (size + 1 <= ml => w' = w + 1) /\ (~(size + 1 <= ml) => w' = w)
        /\ (size + 1 <= M => v' = v + 1) /\ (~(size + 1 <= M) => v' = v)
    BY <1>3, <1>4, <2>3, GrantableKept
  <2>5. C' = C /\ ml' = ml /\ size' = size + 1
    BY <1>3 DEF Contents
  <2>6. size' = C' + R' + Er' /\ size' \in Nat
    BY <2>1, <2>2, <2>5
  <2>7. C' + G' + Em' + w' <= ml'
    BY <2>1, <2>2, <2>4, <2>5
  <2>8. C' + G' + Er' + v' <= M' /\ ml' <= M'
    BY <2>1, <2>2, <2>4, <2>5
  <2>9. SizeAccounts'
    BY <2>6 DEF SizeAccounts, Count, Erasing
  <2>10. LoadBounded'
    BY <2>7, <2>8 DEF LoadBounded
  <2> QED BY <2>6, <2>9, <2>10
<1>7. ml' \in Nat /\ \A g, n : ~Owns(t, g, n)
  BY <1>1, <1>3 DEF IInv, TypeOK, Owns, Owners
<1>8. pc'[t] \notin HoldingGroup
  BY <1>4 DEF HoldingGroup
<1> QED BY <1>1, <1>3, <1>4, <1>5, <1>6, <1>7, <1>8, CountedStep

LEMMA CheckSizeStep ==
  ASSUME IInv, NEW t \in Threads, CheckSize(t)
  PROVE  IInv'
<1> DEFINE l == [loc[t] EXCEPT !.ticket = 0]
           p == IF loc[t].ticket <= ml THEN "probe" ELSE "undo_size"
<1>1. /\ pc[t] = "check_size" /\ op[t] = "insert" /\ ThreadOK(t) /\ loc[t] \in Locals
      /\ pc[t] \in Inside /\ key[t] \in Keys /\ loc[t].step = 0 /\ loc[t].ticket \in Nat
  BY Mover DEF CheckSize, ThreadOK, OpOK, ArgumentsOK, LocalsOK, Inside, KeyOps, Reserved, Locals
<1>2. /\ l \in Locals /\ l.mode = loc[t].mode /\ l.mask = loc[t].mask /\ l.batch = loc[t].batch /\ l.step = loc[t].step
      /\ l.scan = loc[t].scan
  BY <1>1 DEF Locals
<1>3. /\ pc' = [pc EXCEPT ![t] = p] /\ loc' = [loc EXCEPT ![t] = l]
      /\ UNCHANGED <<arrays, newArrays, cursor, size, ml, op, key, res, moved>>
  BY DEF CheckSize, Local, Goto, sharedVars
<1>4. /\ p \in {"probe", "undo_size"} /\ p \in Pcs
      /\ (p = "probe" => loc[t].ticket <= ml) /\ (p = "undo_size" => ~(loc[t].ticket <= ml))
  BY DEF Pcs, Inside, Reserved
<1> HIDE DEF l, p
<1>5. /\ OthersStill(t) /\ pc'[t] = p /\ loc'[t] = l /\ ThreadsTyped'
      /\ op'[t] = op[t] /\ key'[t] = key[t] /\ res'[t] = res[t]
  BY <1>2, <1>3, <1>4 DEF IInv, TypeOK, ThreadsTyped, OthersStill, Still
<1>6. ThreadOK(t)'
  <2>1. OpOK(t)' /\ OutcomeOK(t)' /\ ArgumentsOK(t)' /\ LocalsOK(t)'
    BY <1>1, <1>2, <1>4, <1>5 DEF ThreadOK, OpOK, OutcomeOK, ArgumentsOK, LocalsOK, Searching, Reserved, Erasing, KeyOps, Sweeps
  <2>2. SweepOK(t)' /\ OwnsSlot(t)'
    BY <1>4, <1>5 DEF SweepOK, OwnsSlot, Erasing, Owners
  <2>3. CounterOK(t)'
    <3> SUFFICES ASSUME Recorded(t)', t \notin moved', NEW g \in Groups(arrays), NEW n \in Slots,
                        Has(key[t], g, n)'
                 PROVE  FALSE
      BY <1>3 DEF CounterOK
    <3>1. Has(key[t], g, n)
      <4>1. arrays'.elem[g][n] = key[t] => Has(key[t], g, n)
        BY <1>3 DEF Has
      <4> QED BY <1>3, <1>4, <1>5, <4>1, HasFewer
    <3> QED BY <1>1, <1>3, <3>1 DEF ThreadOK, CounterOK, Recorded, Searching
  <2>4. MatchedOK(t)'
    BY <1>1, <1>2, <1>3, <1>4, <1>5, MatchedKept DEF Grown, Searching
  <2>5. Walked(t)'
    <3>1. Passed(arrays, Hash[key[t]], 0) /\ 0 \in Groups(arrays)
      BY Mover, ArraysTyped, PassedNone DEF Groups
    <3> QED BY <1>1, <1>2, <1>3, <1>5, <3>1 DEF Walked
  <2> QED BY <2>1, <2>2, <2>3, <2>4, <2>5 DEF ThreadOK
<1>7. SizeAccounts' /\ LoadBounded' /\ size' \in Nat
  <2> DEFINE C  == Cardinality(Contents)
             G  == Count(Granted)
             Er == Count(Erasing)
             Em == Count({"erase_ml"})
             R  == Count(Reserved)
             M  == InitialMaxLoad(arrays)
             w  == Grantable(ml)
             v  == Grantable(M)
  <2>1. /\ C \in Nat /\ G \in Nat /\ Er \in Nat /\ Em \in Nat /\ R \in Nat /\ M \in Nat
        /\ w \in Nat /\ v \in Nat /\ size \in Nat /\ ml \in Nat
        /\ G' = G + Delta(t, Granted) /\ Er' = Er + Delta(t, Erasing)
        /\ Em' = Em + Delta(t, {"erase_ml"}) /\ R' = R + Delta(t, Reserved)
        /\ size = C + R + Er /\ ml <= M
        /\ C + G + Em + w <= ml /\ C + G + Er + v <= M
    BY <1>5, LoadNumbers
  <2>2. /\ Delta(t, Reserved) = 0 /\ Delta(t, Erasing) = 0
        /\ Delta(t, Granted) = (IF p = "probe" THEN 1 ELSE 0)
        /\ Delta(t, {"erase_ml"}) = 0
    BY <1>1, <1>4, <1>5 DEF Delta, Reserved, Erasing, Granted
  <2>3. /\ GrantableAfter(t, ml) = FALSE /\ GrantableAfter(t, M) = FALSE
        /\ GrantableBefore(t, ml) <=> p = "probe"
        /\ p = "probe" => GrantableBefore(t, M)
    <3> HIDE DEF M
    <3> QED BY <1>1, <1>4, <1>5, <2>1 DEF GrantableBefore, GrantableAfter
  <2>4. /\ M' = M /\ w' \in Nat /\ v' \in Nat
        /\ (p = "probe" => w' = w - 1 /\ v' = v - 1) /\ (p # "probe" => w' = w /\ v' <= v)
    <3>1. /\ M' = M /\ w \in Nat /\ w' \in Nat /\ v \in Nat /\ v' \in Nat
          /\ GrantableBefore(t, ml) => w' = w - 1
          /\ ~GrantableBefore(t, ml) => w = w'
          /\ GrantableBefore(t, M) => v' = v - 1
          /\ ~GrantableBefore(t, M) => v = v'
      BY <1>3, <1>5, <2>3, GrantableKept
    <3>2. GrantableBefore(t, ml) \in BOOLEAN /\ GrantableBefore(t, M) \in BOOLEAN
      BY DEF GrantableBefore
    <3> HIDE DEF M, w, v
    <3>3. CASE p = "probe"
      BY <2>3, <3>1, <3>3
    <3>4. CASE p # "probe"
      <4>1. w = w'
        BY <2>3, <3>1, <3>4
      <4>2. v' = v - 1 \/ v = v'
        BY <3>1, <3>2
      <4>3. v' <= v
        BY <3>1, <4>2
      <4> QED BY <3>1, <3>4, <4>1, <4>3
    <3> QED BY <3>3, <3>4
  <2>5. C' = C /\ ml' = ml /\ size' = size
    BY <1>3 DEF Contents
  <2> HIDE DEF C, G, Er, Em, R, M, w, v
  <2>6. size' = C' + R' + Er' /\ size' \in Nat
    BY <2>1, <2>2, <2>5
  <2>7. Em' = Em /\ Er' = Er /\ ml' = ml /\ M' = M /\ C' = C
    BY <2>1, <2>2, <2>4, <2>5
  <2>8. C' + G' + Em' + w' <= ml' /\ C' + G' + Er' + v' <= M' /\ ml' <= M'
    <3>1. CASE p = "probe"
      <4>1. G' = G + 1 /\ w' = w - 1 /\ v' = v - 1
        BY <2>1, <2>2, <2>4, <3>1
      <4> QED BY <2>1, <2>7, <4>1
    <3>2. CASE p # "probe"
      <4>1. G' = G /\ w' = w /\ v' <= v
        BY <2>1, <2>2, <2>4, <3>2
      <4> QED BY <2>1, <2>4, <2>7, <4>1
    <3> QED BY <3>1, <3>2
  <2>9. SizeAccounts'
    BY <2>6 DEF SizeAccounts, Count, Erasing, C, R, Er
  <2>10. LoadBounded'
    BY <2>8 DEF LoadBounded, C, G, Em, Er, w, v, M
  <2> QED BY <2>6, <2>9, <2>10
<1>8. ml' \in Nat /\ \A g, n : ~Owns(t, g, n)
  BY <1>1, <1>3 DEF IInv, TypeOK, Owns, Owners
<1>9. pc'[t] \notin HoldingGroup /\ pc'[t] # "rehash_move" /\ pc'[t] # "construct"
  BY <1>4, <1>5 DEF HoldingGroup
<1> QED BY <1>1, <1>3, <1>5, <1>6, <1>7, <1>8, <1>9, CountedStep

LEMMA LowerMaxLoadStep ==
  ASSUME IInv, NEW t \in Threads, LowerMaxLoad(t)
  PROVE  IInv'
<1>1. /\ pc[t] = "erase_ml" /\ op[t] \in {"erase", "erase_if"} /\ ThreadOK(t) /\ loc[t] \in Locals
      /\ pc[t] \in Inside
  BY Mover DEF LowerMaxLoad, ThreadOK, OpOK, Inside, HoldingGroup, Erasing
<1>2. /\ pc' = [pc EXCEPT ![t] = "erase_meta"]
      /\ UNCHANGED <<arrays, newArrays, cursor, size, op, key, res, loc, moved>>
      /\ ml' = ml - 1 \/ ml' = ml
  BY DEF LowerMaxLoad, Goto
<1>3. /\ OthersStill(t) /\ pc'[t] = "erase_meta" /\ loc'[t] = loc[t] /\ ThreadsTyped'
      /\ op'[t] = op[t] /\ key'[t] = key[t] /\ res'[t] = res[t]
  <2>1. "erase_meta" \in Pcs
    BY DEF Pcs, Inside, HoldingGroup
  <2> QED BY <1>2, <2>1 DEF IInv, TypeOK, ThreadsTyped, OthersStill, Still
<1>4. At(t)' = At(t)
  BY <1>2, <1>3 DEF At, Home
<1>5. ThreadOK(t)'
  <2>1. OpOK(t)' /\ OutcomeOK(t)' /\ ArgumentsOK(t)' /\ LocalsOK(t)'
    BY <1>1, <1>3 DEF ThreadOK, OpOK, OutcomeOK, ArgumentsOK, LocalsOK, Searching, Reserved, Erasing, KeyOps, Sweeps
  <2>2. CounterOK(t)' /\ Walked(t)'
    BY <1>3 DEF CounterOK, Recorded, Searching, Walked
  <2>3. OwnsSlot(t)' /\ SweepOK(t)'
    BY <1>1, <1>2, <1>3, <1>4 DEF ThreadOK, OwnsSlot, SweepOK, Erasing, Owners, Occupied, Empty
  <2>4. MatchedOK(t)'
    BY <1>1, <1>2, <1>3, MatchedKept DEF Grown, Searching
  <2> QED BY <2>1, <2>2, <2>3, <2>4 DEF ThreadOK
<1>6. SizeAccounts' /\ LoadBounded' /\ size' \in Nat /\ ml' \in Nat
  <2> DEFINE C  == Cardinality(Contents)
             G  == Count(Granted)
             Er == Count(Erasing)
             Em == Count({"erase_ml"})
             R  == Count(Reserved)
             M  == InitialMaxLoad(arrays)
             w  == Grantable(ml)
             v  == Grantable(M)
  <2>1. /\ C \in Nat /\ G \in Nat /\ Er \in Nat /\ Em \in Nat /\ R \in Nat /\ M \in Nat
        /\ w \in Nat /\ v \in Nat /\ size \in Nat /\ ml \in Nat
        /\ G' = G + Delta(t, Granted) /\ Er' = Er + Delta(t, Erasing)
        /\ Em' = Em + Delta(t, {"erase_ml"}) /\ R' = R + Delta(t, Reserved)
        /\ size = C + R + Er /\ ml <= M
        /\ C + G + Em + w <= ml /\ C + G + Er + v <= M
    BY <1>3, LoadNumbers
  <2>2. /\ Delta(t, Reserved) = 0 /\ Delta(t, Erasing) = 0 /\ Delta(t, Granted) = 0
        /\ Delta(t, {"erase_ml"}) = 0 - 1
    BY <1>1, <1>3 DEF Delta, Reserved, Erasing, Granted
  <2>3. Em' \in Nat
    BY <1>3, CountDelta
  <2>4. C' = C /\ M' = M /\ size' = size
    BY <1>2 DEF Contents
  <2>5. ml' \in Nat /\ ml' <= ml
    <3> HIDE DEF C, G, Er, Em, R, M, w, v
    <3> QED BY <1>2, <2>1, <2>2, <2>3
  <2>6. w' \in Nat /\ w' <= w /\ v' = v
    <3>1. \A m : GrantableIn(pc', loc', m) = GrantableIn(pc, loc, m)
      BY <1>1, <1>3, GrantableMoves DEF GrantableBefore, GrantableAfter
    <3>2. Grantable(ml') <= Grantable(ml) /\ Grantable(ml') \in Nat
      BY <2>1, <2>5, GrantableMonotone, Mover
    <3>3. w' = GrantableIn(pc', loc', ml') /\ Grantable(ml') = GrantableIn(pc, loc, ml')
      BY DEF Grantable, GrantableIn
    <3>4. v' = GrantableIn(pc', loc', M') /\ v = GrantableIn(pc, loc, M)
      BY DEF Grantable, GrantableIn
    <3> QED BY <2>4, <3>1, <3>2, <3>3, <3>4
  <2> HIDE DEF C, G, Er, Em, R, M, w, v
  <2>7. size' = C' + R' + Er' /\ size' \in Nat
    BY <2>1, <2>2, <2>4
  <2>8. C' + G' + Em' + w' <= ml'
    BY <1>2, <2>1, <2>2, <2>4, <2>6
  <2>9. C' + G' + Er' + v' <= M' /\ ml' <= M'
    BY <2>1, <2>2, <2>4, <2>5, <2>6
  <2>10. SizeAccounts'
    BY <2>7 DEF SizeAccounts, Count, Erasing, C, R, Er
  <2>11. LoadBounded'
    BY <2>8, <2>9 DEF LoadBounded, C, G, Em, Er, w, v, M
  <2> QED BY <2>5, <2>7, <2>10, <2>11
<1>7. \A g, n : Owns(t, g, n) => Owns(t, g, n)'
  BY <1>1, <1>2, <1>3, <1>4 DEF Owns, Owners
<1>8. KeepsLock(t)
  BY <1>1, <1>2, <1>3, <1>4 DEF KeepsLock, HoldingGroup, LockMode
<1> QED BY <1>1, <1>2, <1>3, <1>5, <1>6, <1>7, <1>8, CountedStep

-----------------------------------------------------------------------------
(* The insertion counter *)

\* The only key that comes by the increment is that of t, to the slot it has.
LEMMA BumpHas ==
  ASSUME NEW t \in Threads, OthersStill(t), UNCHANGED arrays, key'[t] = key[t], loc'[t] = loc[t],
         op'[t] = op[t], pc[t] = "bump",
         NEW k, NEW g, NEW n, Has(k, g, n)'
  PROVE  \/ Has(k, g, n)
         \/ pc'[t] = "construct" /\ k = key[t] /\ g = At(t) /\ n = loc[t].slot
<1>1. CASE arrays'.elem[g][n] = k
  BY <1>1 DEF Has
<1>2. ASSUME NEW u \in Threads, Constructing(u, k, g, n)'
      PROVE  \/ Has(k, g, n)
             \/ pc'[t] = "construct" /\ k = key[t] /\ g = At(t) /\ n = loc[t].slot
  <2>1. CASE u = t
    BY <1>2, <2>1 DEF Constructing, Owns, At, Home
  <2>2. CASE u # t
    <3>1. Constructing(u, k, g, n)
      BY <1>2, <2>2 DEF Constructing, Owns, At, Home, OthersStill, Still
    <3> QED BY <3>1 DEF Has
  <2> QED BY <2>1, <2>2
<1> QED BY <1>1, <1>2 DEF Has

LEMMA BumpCounterStep ==
  ASSUME IInv, NEW t \in Threads, BumpCounter(t)
  PROVE  IInv'
<1> DEFINE p == IF t \in moved THEN "rollback_slot" ELSE "construct"
<1>1. /\ pc[t] = "bump" /\ op[t] = "insert" /\ ThreadOK(t) /\ loc[t] \in Locals
      /\ pc[t] \in Inside /\ key[t] \in Keys
  BY Mover DEF BumpCounter, ThreadOK, OpOK, ArgumentsOK, Inside, KeyOps, Reserved
<1>2. /\ pc' = [pc EXCEPT ![t] = p]
      /\ moved' = (moved \cup {u \in Threads : Recorded(u) /\ SameCounter(t, u)}) \ {t}
      /\ UNCHANGED <<arrays, newArrays, cursor, size, ml, op, key, res, loc>>
  BY DEF BumpCounter, Goto, sharedVars
<1>3. p \in {"construct", "rollback_slot"} /\ p \in Pcs /\ (p = "construct" => t \notin moved)
  BY DEF Pcs, Inside, Reserved
<1> HIDE DEF p
<1>4. /\ OthersStill(t) /\ pc'[t] = p /\ loc'[t] = loc[t] /\ ThreadsTyped'
      /\ op'[t] = op[t] /\ key'[t] = key[t] /\ res'[t] = res[t]
  BY <1>2, <1>3 DEF IInv, TypeOK, ThreadsTyped, OthersStill, Still
<1>5. At(t)' = At(t) /\ At(t) \in Groups(arrays) /\ loc[t].slot \in Slots
  <2>1. At(t) \in Groups(arrays) /\ loc[t].slot \in Slots
    BY <1>1, Mover, AtTyped DEF ThreadOK, HoldingGroup, Locals
  <2> QED BY <1>2, <1>4, <2>1 DEF At, Home
<1>6. ThreadOK(t)'
  <2>1. OpOK(t)' /\ OutcomeOK(t)' /\ ArgumentsOK(t)' /\ LocalsOK(t)'
    BY <1>1, <1>3, <1>4 DEF ThreadOK, OpOK, OutcomeOK, ArgumentsOK, LocalsOK, Searching, Reserved, Erasing, KeyOps, Sweeps
  <2>2. SweepOK(t)' /\ CounterOK(t)'
    BY <1>3, <1>4 DEF SweepOK, CounterOK, Recorded, Searching, Erasing
  <2>3. OwnsSlot(t)' /\ Walked(t)'
    <3>1. OwnsSlot(t)'
      BY <1>1, <1>2, <1>3, <1>4, <1>5 DEF ThreadOK, OwnsSlot, Owners, Occupied, Empty
    <3>2. AllMarked(Hash[key[t]].tag)' <=> AllMarked(Hash[key[t]].tag)
      BY <1>2 DEF AllMarked
    <3>3. Walked(t)'
      BY <1>1, <1>2, <1>3, <1>4, <3>2 DEF ThreadOK, Walked
    <3> QED BY <3>1, <3>3
  <2>4. MatchedOK(t)'
    BY <1>1, <1>2, <1>3, <1>4, MatchedKept DEF Grown, Searching
  <2> QED BY <2>1, <2>2, <2>3, <2>4 DEF ThreadOK
<1>7. SizeAccounts' /\ LoadBounded' /\ size' \in Nat
  <2>1. /\ Delta(t, Reserved) = 0 /\ Delta(t, Erasing) = 0 /\ Delta(t, Granted) = 0
        /\ Delta(t, {"erase_ml"}) = 0 /\ pc'[t] # "check_size"
    BY <1>1, <1>3, <1>4 DEF Delta, Reserved, Erasing, Granted
  <2>2. size \in Nat /\ size' = size + 0 + 0 + 0
    BY <1>2 DEF IInv, TypeOK
  <2> QED BY <1>1, <1>2, <1>4, <2>1, <2>2, SameContents, SizesKept
<1>8. /\ TypeOK' /\ LocksExclude' /\ SentinelInPlace(arrays)' /\ ElementsReached(arrays)'
      /\ Grown /\ pc[t] # "rehash_move" /\ pc'[t] # "rehash_move"
  <2>1. TypeOK'
    BY <1>2, <1>4, <1>7 DEF IInv, TypeOK, ThreadsTyped
  <2>2. KeepsLock(t)
    BY <1>1, <1>3, <1>4, <1>5 DEF KeepsLock, HoldingGroup, LockMode
  <2>3. LocksExclude'
    BY <1>1, <1>2, <1>3, <1>4, <2>2, LocksKept DEF IInv
  <2>4. SentinelInPlace(arrays)' /\ ElementsReached(arrays)' /\ Grown
    BY <1>2 DEF IInv, ArraysOK, Grown
  <2> QED BY <1>1, <1>3, <1>4, <2>1, <2>3, <2>4
<1>9. ASSUME NEW u \in Threads, u # t
      PROVE  Undisturbed(u) /\ Told(u)
  <2>1. Undisturbed(u)
    BY <1>2 DEF Undisturbed
  <2>2. ASSUME Recorded(u), u \notin moved'
        PROVE  /\ u \notin moved
               /\ \A g \in Groups(arrays), n \in Slots : Has(key[u], g, n)' => Has(key[u], g, n)
    <3>1. u \notin moved /\ ~SameCounter(t, u)
      BY <1>2, <1>9, <2>2
    <3>2. key[u] # key[t]
      BY <3>1 DEF SameCounter
    <3>3. key'[u] = key[u]
      BY <1>4, <1>9 DEF OthersStill, Still
    <3>4. ASSUME NEW g \in Groups(arrays), NEW n \in Slots, Has(key[u], g, n)'
          PROVE  Has(key[u], g, n)
      BY <1>1, <1>2, <1>4, <3>2, <3>3, <3>4, BumpHas
    <3> QED BY <3>1, <3>4
  <2>3. key'[u] = key[u]
    BY <1>4, <1>9 DEF OthersStill, Still
  <2> QED BY <2>1, <2>2, <2>3 DEF Told
<1>10. ASSUME Rehashing = {}, NEW g \in Groups(arrays), NEW n \in Slots,
              Occupied(arrays', g, n), Empty(arrays', g, n)
       PROVE  Owns(t, g, n)' \/ \E u \in Threads : u # t /\ Owns(u, g, n)
  <2>1. PICK u \in Threads : Owns(u, g, n)
    BY <1>2, <1>10 DEF IInv, SlotsOwned
  <2>2. Owns(t, g, n) => Owns(t, g, n)'
    BY <1>3, <1>4, <1>5 DEF Owns, Owners
  <2> QED BY <2>1, <2>2
<1>11. ASSUME NEW k \in Keys, NEW g \in Groups(arrays), NEW h \in Groups(arrays), NEW m \in Slots, NEW n \in Slots,
              Has(k, g, m)', Has(k, h, n)'
       PROVE  g = h /\ m = n
  <2>1. Has(k, g, m) \/ (pc'[t] = "construct" /\ k = key[t] /\ g = At(t) /\ m = loc[t].slot)
    BY <1>1, <1>2, <1>4, <1>11, BumpHas
  <2>2. Has(k, h, n) \/ (pc'[t] = "construct" /\ k = key[t] /\ h = At(t) /\ n = loc[t].slot)
    BY <1>1, <1>2, <1>4, <1>11, BumpHas
  <2>3. pc'[t] = "construct" /\ k = key[t] => ~Has(k, g, m) /\ ~Has(k, h, n)
    BY <1>1, <1>3, <1>4 DEF ThreadOK, CounterOK, Recorded, Searching
  <2> QED BY <2>1, <2>2, <2>3 DEF IInv, NoKeyTwice
<1> QED BY <1>2, <1>4, <1>6, <1>7, <1>8, <1>9, <1>10, <1>11, SharedStep

-----------------------------------------------------------------------------
(* Steps that change a slot, or the overflow bits, of a group that no other *)
(* thread has locked                                                        *)

Edit(t, g, n) ==
  /\ Alone(t, g) /\ arrays.built
  /\ arrays'.groups = arrays.groups /\ arrays'.built = arrays.built
  /\ \A h \in Groups(arrays) : arrays.overflow[h] \subseteq arrays'.overflow[h]
  /\ \A h \in Groups(arrays), m \in Slots : h # g \/ m # n =>
       arrays'.meta[h][m] = arrays.meta[h][m] /\ arrays'.elem[h][m] = arrays.elem[h][m]
  /\ arrays'.meta[g][n] = Sentinel <=> arrays.meta[g][n] = Sentinel
  /\ ~Empty(arrays', g, n) =>
       arrays'.meta[g][n] = arrays.meta[g][n] /\ Has(arrays'.elem[g][n], g, n)
  /\ Occupied(arrays', g, n) /\ Empty(arrays', g, n) =>
       Owns(t, g, n)' \/ \E u \in Threads : u # t /\ Owns(u, g, n)

LEMMA EditGrows ==
  ASSUME NEW t, NEW g \in Groups(arrays), NEW n \in Slots, Edit(t, g, n)
  PROVE  Grown
<1> SUFFICES ASSUME NEW h \in Groups(arrays), NEW m \in Slots
             PROVE  arrays'.meta[h][m] = Sentinel <=> arrays.meta[h][m] = Sentinel
  BY DEF Edit, Grown
<1> QED BY DEF Edit

LEMMA EditHas ==
  ASSUME IInv, IsArrays(arrays', Keys), NEW t \in Threads, OthersStill(t), pc'[t] # "construct",
         NEW g \in Groups(arrays), NEW n \in Slots, Edit(t, g, n),
         NEW k \in Keys, NEW h \in Groups(arrays), NEW m \in Slots, Has(k, h, m)'
  PROVE  Has(k, h, m)
<1>1. ASSUME arrays'.elem[h][m] = k PROVE Has(k, h, m)
  <2>1. CASE h = g /\ m = n
    <3>1. ~Empty(arrays', g, n)
      BY <1>1, <2>1, HashAssumption DEF Empty
    <3> QED BY <1>1, <2>1, <3>1 DEF Edit
  <2>2. CASE h # g \/ m # n
    BY <1>1, <2>2 DEF Edit, Has
  <2> QED BY <2>1, <2>2
<1> QED BY <1>1, HasFewer DEF Edit

LEMMA EditReaches ==
  ASSUME IInv, IsArrays(arrays', Keys), NEW t \in Threads,
         NEW g \in Groups(arrays), NEW n \in Slots, Edit(t, g, n)
  PROVE  SentinelInPlace(arrays') /\ ElementsReached(arrays')
<1>1. /\ IsArrays(arrays, Keys) /\ Groups(arrays') = Groups(arrays)
      /\ SentinelInPlace(arrays) /\ ElementsReached(arrays)
  BY SameGroups DEF IInv, TypeOK, ArraysOK, Edit
<1>2. SentinelInPlace(arrays')
  <2>1. \A h \in Groups(arrays), m \in Slots : arrays'.meta[h][m] = Sentinel <=> arrays.meta[h][m] = Sentinel
    BY EditGrows DEF Grown
  <2> QED BY <1>1, <2>1 DEF Edit, SentinelInPlace
<1>3. ASSUME NEW h \in Groups(arrays), NEW m \in Slots, ~Empty(arrays', h, m)
      PROVE  arrays'.meta[h][m] = Hash[arrays'.elem[h][m]].tag /\ Reached(arrays', Hash[arrays'.elem[h][m]], h)
  <2> DEFINE k == arrays'.elem[h][m]
  <2>1. k \in Keys
    BY <1>1, <1>3, ArraysTyped DEF Empty
  <2>2. Has(k, h, m) /\ arrays'.meta[h][m] = arrays.meta[h][m]
    <3>1. CASE h = g /\ m = n
      BY <1>3, <3>1 DEF Edit
    <3>2. CASE h # g \/ m # n
      BY <3>2 DEF Edit, Has
    <3> QED BY <3>1, <3>2
  <2> HIDE DEF k
  <2>3. arrays'.meta[h][m] = Hash[k].tag
    BY <2>1, <2>2, HasTag
  <2>4. Reached(arrays, Hash[k], h) /\ Hash[k] \in Hashes
    BY <2>1, <2>2, HasReached, HashTyped
  <2>5. Reached(arrays', Hash[k], h)
    BY <1>1, <2>4, ReachedMonotone, ArraysTyped DEF Edit
  <2> QED BY <2>3, <2>5 DEF k
<1> QED BY <1>1, <1>2, <1>3 DEF ElementsReached

LEMMA EditStep ==
  ASSUME IInv, NEW t \in Threads, ThreadsTyped', IsArrays(arrays', Keys), size' \in Nat, ml' \in Nat,
         OthersStill(t), pc[t] \in Inside, pc'[t] # "rehash_move", pc'[t] # "construct",
         UNCHANGED <<newArrays, cursor, moved>>,
         NEW g \in Groups(arrays), NEW n \in Slots, Edit(t, g, n),
         \A h, m : Owns(t, h, m) => h = g /\ m = n,
         pc'[t] \in HoldingGroup => KeepsLock(t) \/ TakesLock(t),
         ThreadOK(t)', SizeAccounts', LoadBounded'
  PROVE  IInv'
<1>1. Rehashing = {} /\ pc[t] # "rehash_move"
  BY InsideAlone DEF Inside, Searching, Reserved, HoldingGroup, Visiting
<1>2. TypeOK'
  BY DEF IInv, TypeOK, ThreadsTyped
<1>3. Grown
  BY EditGrows
<1>4. ASSUME NEW u \in Threads, u # t PROVE Undisturbed(u)
  <2> SUFFICES ASSUME pc[u] \in HoldingGroup, NEW m \in Slots
               PROVE  /\ arrays'.meta[At(u)][m] = arrays.meta[At(u)][m]
                      /\ arrays'.elem[At(u)][m] = arrays.elem[At(u)][m]
    BY DEF Undisturbed
  <2>1. At(u) \in Groups(arrays)
    BY Mover, AtTyped DEF ThreadOK
  <2>2. At(u) # g
    BY <1>4 DEF Edit, Alone
  <2> QED BY <2>1, <2>2 DEF Edit
<1>5. ASSUME NEW u \in Threads, u # t PROVE Told(u)
  <2> SUFFICES ASSUME Recorded(u), NEW h \in Groups(arrays), NEW m \in Slots, Has(key[u], h, m)'
               PROVE  Has(key[u], h, m)
    BY DEF Told
  <2>1. key[u] \in Keys
    BY Mover DEF ThreadOK, ArgumentsOK, Recorded, KeyOps
  <2>2. key'[u] = key[u]
    BY <1>5 DEF OthersStill, Still
  <2> QED BY <2>1, <2>2, EditHas
<1>6. LocksExclude'
  BY <1>1, LocksKept DEF IInv, Edit
<1>7. SentinelInPlace(arrays)' /\ ElementsReached(arrays)'
  BY EditReaches
<1>8. ASSUME NEW h \in Groups(arrays), NEW m \in Slots, Occupied(arrays', h, m), Empty(arrays', h, m)
      PROVE  Owns(t, h, m)' \/ \E u \in Threads : u # t /\ Owns(u, h, m)
  <2>1. CASE h = g /\ m = n
    BY <1>8, <2>1 DEF Edit
  <2>2. CASE h # g \/ m # n
    <3>1. Occupied(arrays, h, m) /\ Empty(arrays, h, m)
      BY <1>8, <2>2 DEF Edit, Occupied, Empty
    <3>2. PICK u \in Threads : Owns(u, h, m)
      BY <1>1, <3>1 DEF IInv, SlotsOwned
    <3> QED BY <2>2, <3>2
  <2> QED BY <2>1, <2>2
<1>9. \A k \in Keys, h, i \in Groups(arrays), l, m \in Slots :
        Has(k, h, l)' /\ Has(k, i, m)' => h = i /\ l = m
  BY EditHas DEF IInv, NoKeyTwice
<1> QED BY <1>1, <1>2, <1>3, <1>4, <1>5, <1>6, <1>7, <1>8, <1>9, SharedStep

\* A thread with a slot is alone in its group.
LEMMA Owner ==
  ASSUME IInv, NEW t \in Threads, pc[t] \in Owners
  PROVE  /\ pc[t] \in Inside /\ pc[t] \in HoldingGroup
         /\ At(t) \in Groups(arrays) /\ loc[t].slot \in Slots
         /\ Occupied(arrays, At(t), loc[t].slot) /\ Empty(arrays, At(t), loc[t].slot)
         /\ arrays.built /\ LockMode(t) = "exclusive" /\ Alone(t, At(t))
         /\ \A h, m : Owns(t, h, m) => h = At(t) /\ m = loc[t].slot
<1>1. pc[t] \in Inside /\ pc[t] \in HoldingGroup /\ LockMode(t) = "exclusive"
  BY DEF Owners, Inside, HoldingGroup, LockMode
<1>2. At(t) \in Groups(arrays) /\ loc[t].slot \in Slots
  BY <1>1, Mover, AtTyped DEF ThreadOK, Locals
<1>3. Occupied(arrays, At(t), loc[t].slot) /\ Empty(arrays, At(t), loc[t].slot)
  BY Mover DEF ThreadOK, OwnsSlot
<1>4. arrays.built
  BY <1>2, <1>3, DummyArraysTyped DEF IInv, ArraysOK, SentinelInPlace, Occupied
<1>5. Alone(t, At(t))
  BY <1>1, HeldAlone DEF IInv
<1> QED BY <1>1, <1>2, <1>3, <1>4, <1>5 DEF Owns

\* Arrays with the same elements.
LEMMA SameElements ==
  ASSUME NEW a, NEW b, b.groups = a.groups, b.elem = a.elem
  PROVE  Elements(b) = Elements(a)
BY SameGroups DEF Elements

LEMMA SlotFreed ==
  ASSUME IInv, NEW t \in Threads, OthersStill(t), pc[t] \in Owners, UNCHANGED newArrays,
         NEW g, NEW n, g = At(t), n = loc[t].slot,
         arrays' = SetMeta(arrays, At(t), loc[t].slot, Available)
  PROVE  /\ IsArrays(arrays', Keys) /\ Edit(t, g, n) /\ Grown
         /\ arrays'.groups = arrays.groups /\ arrays'.built = arrays.built /\ arrays'.elem = arrays.elem
         /\ Cardinality(Contents)' = Cardinality(Contents) + 0 /\ Cardinality(Contents)' \in Nat
<1>1. /\ g \in Groups(arrays) /\ n \in Slots /\ Occupied(arrays, g, n) /\ Empty(arrays, g, n)
      /\ arrays.built /\ Alone(t, g)
  BY Owner
<1>2. /\ IsArrays(arrays, Keys) /\ IsArrays(newArrays, Keys)
      /\ \A h \in Groups(arrays), m \in Slots : arrays.elem[h][m] \in Keys \cup {NoKey}
  BY ArraysTyped DEF IInv, TypeOK
<1>3. Available \in Bytes
  BY DEF Available, Bytes
<1>4. arrays' = SetMeta(arrays, g, n, Available)
  OBVIOUS
<1>5. /\ IsArrays(arrays', Keys) /\ arrays'.groups = arrays.groups /\ arrays'.built = arrays.built
      /\ arrays'.elem = arrays.elem /\ arrays'.overflow = arrays.overflow
      /\ arrays'.meta[g][n] = Available
      /\ \A h \in Groups(arrays), m \in Slots : h # g \/ m # n => arrays'.meta[h][m] = arrays.meta[h][m]
  <2>1. g \in Groups(arrays) /\ n \in Slots /\ IsArrays(arrays, Keys)
    BY <1>1, <1>2
  <2> QED BY <1>3, <1>4, <2>1, MetaWritten
<1>6. Edit(t, g, n)
  <2>1. ~(arrays'.meta[g][n] = Sentinel) /\ ~(arrays.meta[g][n] = Sentinel)
    BY <1>1, <1>5 DEF Occupied, Available, Sentinel
  <2>2. Empty(arrays', g, n) /\ ~Occupied(arrays', g, n)
    BY <1>1, <1>5 DEF Empty, Occupied
  <2> QED BY <1>1, <1>5, <2>1, <2>2 DEF Edit
<1>7. Contents' = Contents
  BY <1>5, SameElements DEF Contents
<1>8. Cardinality(Contents) \in Nat
  BY <1>2, ContentsTyped
<1>9. Grown
  BY <1>1, <1>6, EditGrows
<1> QED BY <1>5, <1>6, <1>7, <1>8, <1>9

LEMMA ResetSlotStep ==
  ASSUME IInv, NEW t \in Threads, ResetSlot(t)
  PROVE  IInv'
<1>0. PICK g, n : g = At(t) /\ n = loc[t].slot
  OBVIOUS
<1>1. /\ pc[t] = "erase_meta" /\ op[t] \in {"erase", "erase_if"} /\ ThreadOK(t) /\ loc[t] \in Locals
      /\ pc[t] \in Owners
  BY Mover DEF ResetSlot, ThreadOK, OpOK, Owners, Erasing
<1>2. /\ pc' = [pc EXCEPT ![t] = "erase_size"]
      /\ UNCHANGED <<newArrays, cursor, size, ml, op, key, res, loc, moved>>
      /\ arrays' = SetMeta(arrays, At(t), loc[t].slot, Available)
  BY DEF ResetSlot, Goto
<1>3. /\ OthersStill(t) /\ pc'[t] = "erase_size" /\ loc'[t] = loc[t] /\ ThreadsTyped'
      /\ op'[t] = op[t] /\ key'[t] = key[t] /\ res'[t] = res[t]
  <2>1. "erase_size" \in Pcs
    BY DEF Pcs, Inside, HoldingGroup
  <2> QED BY <1>2, <2>1 DEF IInv, TypeOK, ThreadsTyped, OthersStill, Still
<1>4. /\ IsArrays(arrays', Keys) /\ Edit(t, g, n) /\ Grown
      /\ arrays'.groups = arrays.groups /\ arrays'.built = arrays.built /\ arrays'.elem = arrays.elem
      /\ Cardinality(Contents)' = Cardinality(Contents) + 0 /\ Cardinality(Contents)' \in Nat
  BY <1>0, <1>1, <1>2, <1>3, SlotFreed
<1>5. /\ At(t)' = At(t) /\ Groups(arrays') = Groups(arrays) /\ pc[t] \in Inside
      /\ g \in Groups(arrays) /\ n \in Slots
      /\ \A h, m : Owns(t, h, m) => h = g /\ m = n
  <2>1. At(t)' = At(t) /\ Groups(arrays') = Groups(arrays)
    BY <1>2, <1>3, <1>4, SameGroups DEF At, Home
  <2> QED BY <1>0, <1>1, <2>1, Owner
<1>6. ThreadOK(t)'
  <2>1. OpOK(t)' /\ OutcomeOK(t)' /\ ArgumentsOK(t)' /\ LocalsOK(t)'
    BY <1>1, <1>3 DEF ThreadOK, OpOK, OutcomeOK, ArgumentsOK, LocalsOK, Searching, Reserved, Erasing, KeyOps, Sweeps
  <2>2. CounterOK(t)' /\ Walked(t)' /\ OwnsSlot(t)'
    BY <1>3 DEF CounterOK, Recorded, Searching, Walked, OwnsSlot, Owners
  <2>3. SweepOK(t)'
    BY <1>1, <1>3, <1>4, <1>5 DEF ThreadOK, SweepOK, Erasing, Empty
  <2>4. MatchedOK(t)'
    BY <1>3, <1>4, <1>5, MatchedKept DEF Searching
  <2> QED BY <2>1, <2>2, <2>3, <2>4 DEF ThreadOK
<1>7. SizeAccounts' /\ LoadBounded' /\ size' \in Nat
  <2>1. /\ Delta(t, Reserved) = 0 /\ Delta(t, Erasing) = 0 /\ Delta(t, Granted) = 0
        /\ Delta(t, {"erase_ml"}) = 0
    BY <1>1, <1>3 DEF Delta, Reserved, Erasing, Granted
  <2>2. size \in Nat /\ size' = size + 0 + 0 + 0 /\ IsArrays(arrays, Keys) /\ IsArrays(newArrays, Keys)
        /\ ml \in Nat /\ SizeAccounts /\ LoadBounded
    BY <1>2 DEF IInv, TypeOK
  <2> QED BY <1>1, <1>2, <1>3, <1>4, <2>1, <2>2, SizesKept
<1>8. KeepsLock(t) /\ ml' \in Nat
  <2>1. KeepsLock(t)
    BY <1>1, <1>3, <1>5 DEF KeepsLock, HoldingGroup, LockMode
  <2> QED BY <1>2, <2>1 DEF IInv, TypeOK
<1> QED BY <1>2, <1>3, <1>4, <1>5, <1>6, <1>7, <1>8, EditStep

LEMMA RollbackSlotStep ==
  ASSUME IInv, NEW t \in Threads, RollbackSlot(t)
  PROVE  IInv'
<1>0. PICK g, n : g = At(t) /\ n = loc[t].slot
  OBVIOUS
<1>1. /\ pc[t] = "rollback_slot" /\ op[t] = "insert" /\ ThreadOK(t) /\ loc[t] \in Locals
      /\ pc[t] \in Owners
  BY Mover DEF RollbackSlot, ThreadOK, OpOK, Owners, Reserved
<1>2. /\ pc' = [pc EXCEPT ![t] = "rollback_size"]
      /\ UNCHANGED <<newArrays, cursor, size, ml, op, key, res, loc, moved>>
      /\ arrays' = SetMeta(arrays, At(t), loc[t].slot, Available)
  BY DEF RollbackSlot, Goto
<1>3. /\ OthersStill(t) /\ pc'[t] = "rollback_size" /\ loc'[t] = loc[t] /\ ThreadsTyped'
      /\ op'[t] = op[t] /\ key'[t] = key[t] /\ res'[t] = res[t]
  <2>1. "rollback_size" \in Pcs
    BY DEF Pcs, Inside, Reserved
  <2> QED BY <1>2, <2>1 DEF IInv, TypeOK, ThreadsTyped, OthersStill, Still
<1>4. /\ IsArrays(arrays', Keys) /\ Edit(t, g, n) /\ Grown
      /\ arrays'.groups = arrays.groups /\ arrays'.built = arrays.built
      /\ Cardinality(Contents)' = Cardinality(Contents) + 0 /\ Cardinality(Contents)' \in Nat
  BY <1>0, <1>1, <1>2, <1>3, SlotFreed
<1>5. /\ pc[t] \in Inside /\ g \in Groups(arrays) /\ n \in Slots
      /\ \A h, m : Owns(t, h, m) => h = g /\ m = n
  BY <1>0, <1>1, Owner
<1>6. ThreadOK(t)'
  <2>1. OpOK(t)' /\ OutcomeOK(t)' /\ ArgumentsOK(t)' /\ LocalsOK(t)'
    BY <1>1, <1>3 DEF ThreadOK, OpOK, OutcomeOK, ArgumentsOK, LocalsOK, Searching, Reserved, Erasing, KeyOps, Sweeps
  <2>2. CounterOK(t)' /\ Walked(t)' /\ OwnsSlot(t)' /\ SweepOK(t)'
    BY <1>3 DEF CounterOK, Recorded, Searching, Walked, OwnsSlot, Owners, SweepOK, Erasing
  <2>3. MatchedOK(t)'
    BY <1>3, <1>4, <1>5, MatchedKept DEF Searching
  <2> QED BY <2>1, <2>2, <2>3 DEF ThreadOK
<1>7. SizeAccounts' /\ LoadBounded' /\ size' \in Nat
  <2>1. /\ Delta(t, Reserved) = 0 /\ Delta(t, Erasing) = 0 /\ Delta(t, Granted) = 0
        /\ Delta(t, {"erase_ml"}) = 0
    BY <1>1, <1>3 DEF Delta, Reserved, Erasing, Granted
  <2>2. size \in Nat /\ size' = size + 0 + 0 + 0 /\ IsArrays(arrays, Keys) /\ IsArrays(newArrays, Keys)
        /\ ml \in Nat /\ SizeAccounts /\ LoadBounded
    BY <1>2 DEF IInv, TypeOK
  <2> QED BY <1>1, <1>2, <1>3, <1>4, <2>1, <2>2, SizesKept
<1>8. pc'[t] \notin HoldingGroup /\ ml' \in Nat
  BY <1>2, <1>3 DEF HoldingGroup, IInv, TypeOK
<1> QED BY <1>2, <1>3, <1>4, <1>5, <1>6, <1>7, <1>8, EditStep

\* A reservation is granted by the maximum load of built arrays.
LEMMA GrantedBuilt ==
  ASSUME IInv, NEW t \in Threads, pc[t] \in Granted
  PROVE  arrays.built
<1> DEFINE S == {u \in Threads : pc[u] \in Granted}
<1>1. IsFiniteSet(S) /\ Cardinality(S) \in Nat /\ Cardinality(S) # 0
  <2>1. t \in S
    OBVIOUS
  <2>2. IsFiniteSet(S)
    BY FiniteAssumption, FS_Subset
  <2> QED BY <2>1, <2>2, FS_EmptySet, FS_CardinalityType
<1>2. Count(Granted) \in Nat /\ Count(Granted) # 0
  BY <1>1 DEF Count
<1>3. InitialMaxLoad(arrays) # 0
  <2>1. /\ Cardinality(Contents) \in Nat /\ Count(Erasing) \in Nat
        /\ Grantable(InitialMaxLoad(arrays)) \in Nat /\ InitialMaxLoad(arrays) \in Nat
    <3>1. Cardinality(Contents) \in Nat /\ InitialMaxLoad(arrays) \in Nat
      BY ContentsTyped, CapacityTyped, ArraysTyped DEF IInv, TypeOK
    <3>2. /\ \A P : CountIn(pc, P) = Count(P)
          /\ \A m : GrantableIn(pc, loc, m) = Grantable(m)
      BY DEF CountIn, Count, GrantableIn, Grantable
    <3> QED BY <3>1, <3>2, CountsRelated
  <2>2. Cardinality(Contents) + Count(Granted) + Count(Erasing) + Grantable(InitialMaxLoad(arrays))
          <= InitialMaxLoad(arrays)
    BY DEF IInv, LoadBounded
  <2> QED BY <1>2, <2>1, <2>2
<1> QED BY <1>3, Mover, ArraysTyped, CapacityTyped

LEMMA Prober ==
  ASSUME IInv, NEW t \in Threads, ProbeGroup(t)
  PROVE  /\ pc[t] = "probe" /\ op[t] = "insert" /\ ThreadOK(t) /\ loc[t] \in Locals
         /\ key[t] \in Keys /\ Hash[key[t]] \in Hashes /\ pc[t] \in Inside /\ loc[t].step \in Nat
         /\ At(t) \in Groups(arrays) /\ arrays.built /\ Alone(t, At(t)) /\ IsArrays(arrays, Keys)
         /\ At(t) = Probe(arrays, Position(arrays, Hash[key[t]]), loc[t].step)
         /\ \A h, m : ~Owns(t, h, m)
<1>1. /\ pc[t] = "probe" /\ op[t] = "insert" /\ ThreadOK(t) /\ loc[t] \in Locals
      /\ CanLock(At(t), "exclusive") /\ IsArrays(arrays, Keys)
  BY Mover DEF ProbeGroup, ThreadOK, OpOK, Reserved
<1>2. key[t] \in Keys /\ pc[t] \in Inside /\ loc[t].step \in Nat
  BY <1>1 DEF ThreadOK, ArgumentsOK, KeyOps, Inside, Reserved, Locals
<1>3. /\ At(t) \in Groups(arrays)
      /\ At(t) = Probe(arrays, Position(arrays, Hash[key[t]]), loc[t].step)
  BY <1>1, Mover, AtTyped DEF ThreadOK, Sweeps
<1>4. arrays.built
  BY <1>1, GrantedBuilt DEF Granted
<1>5. Alone(t, At(t))
  BY <1>1, LockedAlone
<1>6. \A h, m : ~Owns(t, h, m)
  BY <1>1 DEF Owns, Owners
<1> QED BY <1>1, <1>2, <1>3, <1>4, <1>5, <1>6, HashTyped

\* The group is full: it is marked.
LEMMA MarkGroupStep ==
  ASSUME IInv, NEW t \in Threads, ProbeGroup(t), MatchAvailable(arrays, At(t)) = {}
  PROVE  IInv'
<1>0. PICK g : g = At(t)
  OBVIOUS
<1> DEFINE i == loc[t].step
           j == (i + 1) % (2 * arrays.groups)
           l == [loc[t] EXCEPT !.step = j]
           hash == Hash[key[t]]
<1>1. /\ pc[t] = "probe" /\ op[t] = "insert" /\ ThreadOK(t) /\ loc[t] \in Locals
      /\ key[t] \in Keys /\ hash \in Hashes /\ pc[t] \in Inside /\ i \in Nat
      /\ g \in Groups(arrays) /\ arrays.built /\ Alone(t, g) /\ IsArrays(arrays, Keys)
      /\ g = Probe(arrays, Position(arrays, hash), i)
      /\ \A h, m : ~Owns(t, h, m)
  BY <1>0, Prober
<1>2. arrays.groups \in GroupCounts /\ arrays.groups \in Nat /\ arrays.groups > 0
  BY <1>1, ArraysTyped
<1>3. /\ j \in Nat /\ (i + 1 < 2 * arrays.groups => j = i + 1)
      /\ l \in Locals /\ l.step = j /\ l.batch = loc[t].batch /\ l.mode = loc[t].mode
  <2>1. j \in Nat /\ (i + 1 < 2 * arrays.groups => j = i + 1)
    <3>1. i + 1 \in Nat /\ 2 * arrays.groups \in Nat /\ 2 * arrays.groups > 0
      BY <1>1, <1>2
    <3> HIDE DEF i
    <3>2. j \in 0 .. 2 * arrays.groups - 1
      BY <3>1, Division
    <3>3. i + 1 < 2 * arrays.groups => j = i + 1
      BY <3>1
    <3> QED BY <3>1, <3>2, <3>3
  <2> HIDE DEF j
  <2> QED BY <1>1, <2>1, StepTyped
<1>4. /\ arrays' = MarkOverflow(arrays, g, hash.tag) /\ pc' = pc /\ loc' = [loc EXCEPT ![t] = l]
      /\ UNCHANGED <<newArrays, cursor, size, ml, op, key, res, moved>>
  BY <1>0 DEF ProbeGroup
<1> HIDE DEF i, j, l, hash
<1>5. /\ IsArrays(arrays', Keys) /\ arrays'.groups = arrays.groups /\ arrays'.built = arrays.built
      /\ arrays'.meta = arrays.meta /\ arrays'.elem = arrays.elem
      /\ \A h \in Groups(arrays) : arrays.overflow[h] \subseteq arrays'.overflow[h]
      /\ ~NotOverflowed(arrays', g, hash.tag)
  <2>1. IsArrays(arrays, Keys) /\ g \in Groups(arrays) /\ hash \in Hashes
    BY <1>1
  <2> QED BY <1>4, <2>1, Marking
<1>6. /\ OthersStill(t) /\ pc'[t] = pc[t] /\ loc'[t] = l /\ ThreadsTyped'
      /\ op'[t] = op[t] /\ key'[t] = key[t] /\ res'[t] = res[t]
  BY <1>3, <1>4 DEF IInv, TypeOK, ThreadsTyped, OthersStill, Still
<1>7. 0 \in Slots /\ Edit(t, g, 0)
  <2>1. 0 \in Slots
    BY SlotsAssumption DEF Slots
  <2>2. Has(arrays'.elem[g][0], g, 0)
    BY <1>5 DEF Has
  <2>3. ASSUME Occupied(arrays', g, 0), Empty(arrays', g, 0)
        PROVE  \E u \in Threads : u # t /\ Owns(u, g, 0)
    <3>1. Occupied(arrays, g, 0) /\ Empty(arrays, g, 0)
      BY <1>5, <2>3 DEF Occupied, Empty
    <3>2. Rehashing = {}
      BY <1>1, InsideAlone
    <3>3. PICK u \in Threads : Owns(u, g, 0)
      BY <1>1, <2>1, <3>1, <3>2 DEF IInv, SlotsOwned
    <3> QED BY <1>1, <3>3
  <2>4. /\ Alone(t, g) /\ arrays.built
        /\ arrays'.meta[g][0] = Sentinel <=> arrays.meta[g][0] = Sentinel
    BY <1>1, <1>5
  <2> QED BY <1>5, <2>1, <2>2, <2>3, <2>4 DEF Edit
<1>8. ThreadOK(t)'
  <2>1. OpOK(t)' /\ OutcomeOK(t)' /\ ArgumentsOK(t)' /\ LocalsOK(t)'
    BY <1>1, <1>3, <1>6 DEF ThreadOK, OpOK, OutcomeOK, ArgumentsOK, LocalsOK, Searching, Reserved, Erasing, KeyOps, Sweeps
  <2>2. SweepOK(t)' /\ OwnsSlot(t)'
    BY <1>1, <1>6 DEF SweepOK, OwnsSlot, Erasing, Owners
  <2>3. CounterOK(t)'
    <3> SUFFICES ASSUME t \notin moved', NEW h \in Groups(arrays'), NEW m \in Slots, Has(key[t], h, m)'
                 PROVE  FALSE
      BY <1>6 DEF CounterOK
    <3>1. h \in Groups(arrays)
      BY <1>5, SameGroups
    <3>2. pc'[t] # "construct"
      BY <1>1, <1>6
    <3>3. Has(key[t], h, m)
      BY <1>1, <1>5, <1>6, <1>7, <3>1, <3>2, EditHas
    <3>4. Recorded(t) /\ t \notin moved /\ pc[t] \notin Searching
      BY <1>1, <1>4 DEF Recorded, Searching
    <3> QED BY <1>1, <3>1, <3>3, <3>4 DEF ThreadOK, CounterOK
  <2>4. MatchedOK(t)'
    <3>1. Grown
      BY <1>1, <1>7, EditGrows
    <3>2. pc'[t] \notin Searching
      BY <1>1, <1>6 DEF Searching
    <3> QED BY <1>1, <1>3, <1>6, <3>1, <3>2, MatchedKept
  <2>5. Walked(t)'
    <3>1. Groups(arrays') = Groups(arrays) /\ i + 1 \in Nat
      BY <1>1, <1>5, SameGroups
    <3>2. \/ AllMarked(hash.tag)
          \/ i \in Groups(arrays) /\ Passed(arrays, hash, i)
      BY <1>1 DEF ThreadOK, Walked, i, hash
    <3>3. CASE AllMarked(hash.tag)
      <4>1. \A h \in Groups(arrays) : ~NotOverflowed(arrays', h, hash.tag)
        BY <1>5, <3>3 DEF AllMarked, NotOverflowed
      <4> QED BY <1>6, <3>1, <4>1 DEF Walked, AllMarked, hash
    <3>4. CASE i \in Groups(arrays) /\ Passed(arrays, hash, i)
      <4>1. Passed(arrays', hash, i)
        BY <1>1, <1>2, <1>5, <3>4, PassedMonotone
      <4>2. Probe(arrays', Position(arrays', hash), i) = g
        BY <1>1, <1>5, SameGroups
      <4>3. Passed(arrays', hash, i + 1)
        BY <1>1, <1>5, <4>1, <4>2, PassedNext
      <4>4. CASE i + 1 = arrays.groups
        <5>1. \A h \in Groups(arrays') : ~NotOverflowed(arrays', h, hash.tag)
          BY <1>1, <1>2, <1>5, <4>3, <4>4, PassedAll
        <5> QED BY <1>6, <5>1 DEF Walked, AllMarked, hash
      <4>5. CASE i + 1 # arrays.groups
        <5>1. i + 1 < arrays.groups /\ i + 1 \in Groups(arrays)
          BY <1>1, <1>2, <3>4, <4>5 DEF Groups
        <5>2. j = i + 1
          BY <1>2, <1>3, <3>1, <5>1
        <5> QED BY <1>3, <1>6, <3>1, <4>3, <5>1, <5>2 DEF Walked, hash
      <4> QED BY <4>4, <4>5
    <3> QED BY <3>2, <3>3, <3>4
  <2> QED BY <2>1, <2>2, <2>3, <2>4, <2>5 DEF ThreadOK
<1>9. SizeAccounts' /\ LoadBounded' /\ size' \in Nat /\ ml' \in Nat
  <2>1. /\ Delta(t, Reserved) = 0 /\ Delta(t, Erasing) = 0 /\ Delta(t, Granted) = 0
        /\ Delta(t, {"erase_ml"}) = 0
    BY <1>6 DEF Delta
  <2>2. /\ size \in Nat /\ size' = size + 0 + 0 + 0 /\ IsArrays(arrays, Keys) /\ IsArrays(newArrays, Keys)
        /\ ml \in Nat /\ ml' = ml /\ SizeAccounts /\ LoadBounded /\ UNCHANGED newArrays
    BY <1>4 DEF IInv, TypeOK
  <2>3. Contents' = Contents
    BY <1>5, <2>2, SameElements DEF Contents
  <2>4. Cardinality(Contents)' = Cardinality(Contents) + 0 /\ Cardinality(Contents)' \in Nat
    BY <2>2, <2>3, ContentsTyped
  <2> QED BY <1>1, <1>5, <1>6, <2>1, <2>2, <2>4, SizesKept
<1>10. pc'[t] \notin HoldingGroup /\ pc'[t] # "rehash_move" /\ pc'[t] # "construct"
  BY <1>1, <1>6 DEF HoldingGroup
<1> QED BY <1>1, <1>4, <1>5, <1>6, <1>7, <1>8, <1>9, <1>10, EditStep

\* The first available slot is occupied.
LEMMA TakeSlotStep ==
  ASSUME IInv, NEW t \in Threads, ProbeGroup(t), MatchAvailable(arrays, At(t)) # {}
  PROVE  IInv'
<1>0. PICK g, n : g = At(t) /\ n = Lowest(MatchAvailable(arrays, At(t)))
  OBVIOUS
<1> DEFINE tag == Hash[key[t]].tag
           l == [loc[t] EXCEPT !.slot = n]
<1>1. /\ pc[t] = "probe" /\ op[t] = "insert" /\ ThreadOK(t) /\ loc[t] \in Locals
      /\ key[t] \in Keys /\ pc[t] \in Inside
      /\ g \in Groups(arrays) /\ arrays.built /\ Alone(t, g) /\ IsArrays(arrays, Keys)
      /\ \A h, m : ~Owns(t, h, m)
  BY <1>0, Prober
<1>2. /\ n \in Slots /\ arrays.meta[g][n] = Available
      /\ tag \in Bytes /\ tag # Available /\ tag # Sentinel
  <2>1. MatchAvailable(arrays, g) \subseteq Slots
    BY DEF MatchAvailable
  <2>2. n \in MatchAvailable(arrays, g)
    BY <1>0, <2>1, LowestOfSlots
  <2>3. n \in Slots /\ arrays.meta[g][n] = Available
    BY <2>2 DEF MatchAvailable
  <2> QED BY <1>1, <2>3, HashTyped
<1>3. arrays.elem[g][n] = NoKey
  <2>1. ElementsReached(arrays) /\ arrays.elem[g][n] \in Keys \cup {NoKey}
    BY <1>1, <1>2, ArraysTyped DEF IInv, ArraysOK
  <2>2. ~Empty(arrays, g, n) => arrays.meta[g][n] = Hash[arrays.elem[g][n]].tag
    BY <1>1, <1>2, <2>1 DEF ElementsReached
  <2> QED BY <1>2, <2>1, <2>2, HashTyped DEF Empty
<1>4. /\ arrays' = SetMeta(arrays, g, n, tag) /\ pc' = [pc EXCEPT ![t] = "bump"]
      /\ loc' = [loc EXCEPT ![t].slot = n]
      /\ UNCHANGED <<newArrays, cursor, size, ml, op, key, res, moved>>
  BY <1>0 DEF ProbeGroup, Goto
<1> HIDE DEF tag
<1>5. /\ l \in Locals /\ l.slot = n /\ l.step = loc[t].step /\ l.batch = loc[t].batch /\ l.mode = loc[t].mode
      /\ loc' = [loc EXCEPT ![t] = l]
  BY <1>1, <1>2, <1>4 DEF Locals, IInv, TypeOK
<1> HIDE DEF l
<1>6. /\ IsArrays(arrays', Keys) /\ arrays'.groups = arrays.groups /\ arrays'.built = arrays.built
      /\ arrays'.elem = arrays.elem /\ arrays'.overflow = arrays.overflow
      /\ arrays'.meta[g][n] = tag
      /\ \A h \in Groups(arrays), m \in Slots : h # g \/ m # n => arrays'.meta[h][m] = arrays.meta[h][m]
  <2>1. g \in Groups(arrays) /\ n \in Slots /\ IsArrays(arrays, Keys) /\ tag \in Bytes
    BY <1>1, <1>2
  <2> QED BY <1>4, <2>1, MetaWritten
<1>7. /\ OthersStill(t) /\ pc'[t] = "bump" /\ loc'[t] = l /\ ThreadsTyped'
      /\ op'[t] = op[t] /\ key'[t] = key[t] /\ res'[t] = res[t]
  <2>1. "bump" \in Pcs
    BY DEF Pcs, Inside, Reserved
  <2> QED BY <1>4, <1>5, <2>1 DEF IInv, TypeOK, ThreadsTyped, OthersStill, Still
<1>8. At(t)' = g /\ Owns(t, g, n)' /\ Groups(arrays') = Groups(arrays)
  <2>1. At(t)' = At(t) /\ Groups(arrays') = Groups(arrays)
    BY <1>4, <1>5, <1>6, <1>7, SameGroups DEF At, Home
  <2> QED BY <1>0, <1>5, <1>7, <2>1 DEF Owns, Owners
<1>9. Edit(t, g, n) /\ Grown
  <2>1. Edit(t, g, n)
    <3>1. /\ ~(arrays'.meta[g][n] = Sentinel) /\ ~(arrays.meta[g][n] = Sentinel)
          /\ Empty(arrays', g, n)
      BY <1>2, <1>3, <1>6 DEF Empty, Available, Sentinel
    <3> QED BY <1>1, <1>6, <1>8, <3>1 DEF Edit
  <2> QED BY <1>1, <1>2, <2>1, EditGrows
<1>10. ThreadOK(t)'
  <2>1. OpOK(t)' /\ OutcomeOK(t)' /\ ArgumentsOK(t)' /\ LocalsOK(t)'
    BY <1>1, <1>5, <1>7 DEF ThreadOK, OpOK, OutcomeOK, ArgumentsOK, LocalsOK, Searching, Reserved, Erasing, KeyOps, Sweeps
  <2>2. SweepOK(t)'
    BY <1>7 DEF SweepOK, Erasing
  <2>3. OwnsSlot(t)'
    <3>1. /\ Occupied(arrays', g, n) /\ Empty(arrays', g, n)
          /\ arrays'.meta[g][n] = Hash[key'[t]].tag
      BY <1>2, <1>3, <1>6, <1>7 DEF Occupied, Empty, tag
    <3> QED BY <1>5, <1>7, <1>8, <3>1 DEF OwnsSlot
  <2>4. CounterOK(t)'
    <3> SUFFICES ASSUME t \notin moved', NEW h \in Groups(arrays'), NEW m \in Slots, Has(key[t], h, m)'
                 PROVE  FALSE
      BY <1>7 DEF CounterOK
    <3>1. h \in Groups(arrays) /\ pc'[t] # "construct"
      BY <1>7, <1>8
    <3>2. Has(key[t], h, m)
      BY <1>1, <1>2, <1>6, <1>7, <1>9, <3>1, EditHas
    <3>3. Recorded(t) /\ t \notin moved /\ pc[t] \notin Searching
      BY <1>1, <1>4 DEF Recorded, Searching
    <3> QED BY <1>1, <3>1, <3>2, <3>3 DEF ThreadOK, CounterOK
  <2>5. MatchedOK(t)'
    <3>1. pc'[t] \notin Searching
      BY <1>7 DEF Searching
    <3> QED BY <1>1, <1>5, <1>7, <1>9, <3>1, MatchedKept
  <2>6. Walked(t)'
    <3>1. \/ AllMarked(tag)
          \/ loc[t].step \in Groups(arrays) /\ Passed(arrays, Hash[key[t]], loc[t].step)
      BY <1>1 DEF ThreadOK, Walked, tag
    <3>2. CASE AllMarked(tag)
      <4>1. \A h \in Groups(arrays) : ~NotOverflowed(arrays', h, tag)
        BY <1>6, <3>2 DEF AllMarked, NotOverflowed
      <4> QED BY <1>7, <1>8, <4>1 DEF Walked, AllMarked, tag
    <3>3. CASE loc[t].step \in Groups(arrays) /\ Passed(arrays, Hash[key[t]], loc[t].step)
      <4>1. Hash[key[t]] \in Hashes /\ loc[t].step \in Nat /\ arrays.groups \in GroupCounts
        BY <1>1, HashTyped, ArraysTyped DEF Locals
      <4>2. Passed(arrays', Hash[key[t]], loc[t].step)
        BY <1>6, <3>3, <4>1, PassedMonotone
      <4> QED BY <1>5, <1>7, <1>8, <3>3, <4>2 DEF Walked
    <3> QED BY <3>1, <3>2, <3>3
  <2> QED BY <2>1, <2>2, <2>3, <2>4, <2>5, <2>6 DEF ThreadOK
<1>11. SizeAccounts' /\ LoadBounded' /\ size' \in Nat /\ ml' \in Nat
  <2>1. /\ Delta(t, Reserved) = 0 /\ Delta(t, Erasing) = 0 /\ Delta(t, Granted) = 0
        /\ Delta(t, {"erase_ml"}) = 0
    BY <1>1, <1>7 DEF Delta, Reserved, Erasing, Granted
  <2>2. /\ size \in Nat /\ size' = size + 0 + 0 + 0 /\ IsArrays(arrays, Keys) /\ IsArrays(newArrays, Keys)
        /\ ml \in Nat /\ ml' = ml /\ SizeAccounts /\ LoadBounded /\ UNCHANGED newArrays
    BY <1>4 DEF IInv, TypeOK
  <2>3. Contents' = Contents
    BY <1>6, <2>2, SameElements DEF Contents
  <2>4. Cardinality(Contents)' = Cardinality(Contents) + 0 /\ Cardinality(Contents)' \in Nat
    BY <2>2, <2>3, ContentsTyped
  <2> QED BY <1>1, <1>6, <1>7, <2>1, <2>2, <2>4, SizesKept
<1>12. TakesLock(t)
  <2>1. LockMode(t)' = "exclusive"
    BY <1>7 DEF LockMode
  <2>2. CanLock(At(t), "exclusive")
    BY DEF ProbeGroup
  <2> QED BY <1>0, <1>8, <2>1, <2>2 DEF TakesLock
<1> QED BY <1>1, <1>2, <1>4, <1>6, <1>7, <1>9, <1>10, <1>11, <1>12, EditStep

LEMMA ProbeGroupStep ==
  ASSUME IInv, NEW t \in Threads, ProbeGroup(t)
  PROVE  IInv'
BY MarkGroupStep, TakeSlotStep

\* The element in place of the key that t has announced.
LEMMA ConstructStep ==
  ASSUME IInv, NEW t \in Threads, Construct(t)
  PROVE  IInv'
<1>0. PICK g, n : g = At(t) /\ n = loc[t].slot
  OBVIOUS
<1> DEFINE k == key[t]
<1>1. /\ pc[t] = "construct" /\ op[t] = "insert" /\ ThreadOK(t) /\ loc[t] \in Locals
      /\ pc[t] \in Owners /\ k \in Keys /\ IsArrays(arrays, Keys)
  BY Mover DEF Construct, ThreadOK, OpOK, ArgumentsOK, KeyOps, Owners, Reserved
<1>2. /\ pc[t] \in Inside /\ g \in Groups(arrays) /\ n \in Slots /\ Occupied(arrays, g, n) /\ Empty(arrays, g, n)
      /\ arrays.built /\ LockMode(t) = "exclusive" /\ Alone(t, g)
      /\ \A h, m : Owns(t, h, m) => h = g /\ m = n
      /\ Owns(t, g, n)
  BY <1>0, <1>1, Owner DEF Owns
<1>3. /\ arrays' = SetElem(arrays, g, n, k) /\ pc' = [pc EXCEPT ![t] = "visiting"]
      /\ res' = [res EXCEPT ![t] = "inserted"]
      /\ UNCHANGED <<newArrays, cursor, size, ml, op, key, loc, moved>>
  BY <1>0 DEF Construct, Goto, Decide
<1>4. Has(k, g, n)
  BY <1>1, <1>2 DEF Has, Constructing
<1> HIDE DEF k
<1>5. /\ IsArrays(arrays', Keys) /\ arrays'.groups = arrays.groups /\ arrays'.built = arrays.built
      /\ arrays'.meta = arrays.meta /\ arrays'.overflow = arrays.overflow
      /\ arrays'.elem[g][n] = k
      /\ \A h \in Groups(arrays), m \in Slots : h # g \/ m # n => arrays'.elem[h][m] = arrays.elem[h][m]
  <2>1. g \in Groups(arrays) /\ n \in Slots /\ IsArrays(arrays, Keys) /\ k \in Keys \cup {NoKey}
    BY <1>1, <1>2
  <2> QED BY <1>3, <2>1, ElementWritten
<1>6. /\ OthersStill(t) /\ pc'[t] = "visiting" /\ loc'[t] = loc[t] /\ ThreadsTyped'
      /\ op'[t] = op[t] /\ key'[t] = key[t] /\ res'[t] = "inserted"
  <2>1. "visiting" \in Pcs /\ "inserted" \in Outcomes
    BY DEF Pcs, Inside, HoldingGroup, Outcomes
  <2> QED BY <1>3, <2>1 DEF IInv, TypeOK, ThreadsTyped, OthersStill, Still
<1>7. Edit(t, g, n) /\ Grown /\ At(t)' = At(t)
  <2>1. ~Empty(arrays', g, n)
    BY <1>1, <1>5, HashAssumption DEF Empty
  <2>2. Edit(t, g, n)
    BY <1>2, <1>4, <1>5, <2>1 DEF Edit
  <2>3. At(t)' = At(t)
    BY <1>3, <1>5, <1>6, SameGroups DEF At, Home
  <2> QED BY <1>2, <2>2, <2>3, EditGrows
<1>8. ThreadOK(t)'
  <2>1. OpOK(t)' /\ OutcomeOK(t)' /\ ArgumentsOK(t)' /\ LocalsOK(t)'
    BY <1>1, <1>6 DEF ThreadOK, OpOK, OutcomeOK, ArgumentsOK, LocalsOK, Searching, Reserved, Erasing, KeyOps, Sweeps
  <2>2. CounterOK(t)' /\ Walked(t)' /\ OwnsSlot(t)' /\ SweepOK(t)'
    BY <1>6 DEF CounterOK, Recorded, Searching, Walked, OwnsSlot, Owners, SweepOK, Erasing
  <2>3. MatchedOK(t)'
    BY <1>2, <1>6, <1>7, MatchedKept DEF Searching
  <2> QED BY <2>1, <2>2, <2>3 DEF ThreadOK
<1>9. Cardinality(Contents)' = Cardinality(Contents) + 1 /\ Cardinality(Contents)' \in Nat
  <2>1. newArrays = DummyArrays /\ newArrays' = DummyArrays
    BY <1>2, <1>3, InsideAlone DEF IInv, RehashOK
  <2>2. Contents = Elements(arrays) /\ Contents' = Elements(arrays')
    BY <2>1, ContentsOfArrays, DummyArraysTyped, ElementsCounted, FiniteAssumption, HashAssumption DEF Contents
  <2>3. ASSUME NEW h \in Groups(arrays), NEW m \in Slots, h # g \/ m # n
        PROVE  arrays.elem[h][m] = arrays'.elem[h][m] /\ arrays'.elem[h][m] # k
    <3>1. arrays.elem[h][m] = k => Has(k, h, m)
      BY DEF Has
    <3>2. ~Has(k, h, m)
      BY <1>1, <1>2, <1>4, <2>3 DEF IInv, NoKeyTwice
    <3> QED BY <1>5, <2>3, <3>1, <3>2
  <2>4. Groups(arrays') = Groups(arrays) /\ k # NoKey /\ arrays.elem[g][n] = NoKey
    BY <1>1, <1>2, <1>5, SameGroups, HashAssumption DEF Empty
  <2>5. Cardinality(Elements(arrays')) = Cardinality(Elements(arrays)) + 1
    BY <1>1, <1>2, <1>5, <2>3, <2>4, ElementGone, FiniteAssumption, HashAssumption
  <2>6. Cardinality(Elements(arrays)) \in Nat
    BY <1>1, ElementsCounted, FiniteAssumption, HashAssumption
  <2> QED BY <2>2, <2>5, <2>6
<1>10. SizeAccounts' /\ LoadBounded' /\ size' \in Nat
  <2>1. /\ Delta(t, Reserved) = 0 - 1 /\ Delta(t, Erasing) = 0 /\ Delta(t, Granted) = 0 - 1
        /\ Delta(t, {"erase_ml"}) = 0
    BY <1>1, <1>6 DEF Delta, Reserved, Erasing, Granted
  <2>2. size \in Nat /\ size' = size + 1 + (0 - 1) + 0 /\ IsArrays(arrays, Keys) /\ IsArrays(newArrays, Keys)
        /\ ml \in Nat /\ SizeAccounts /\ LoadBounded
    BY <1>3 DEF IInv, TypeOK
  <2> QED BY <1>1, <1>3, <1>5, <1>6, <1>9, <2>1, <2>2, SizesKept
<1>11. KeepsLock(t) /\ ml' \in Nat
  <2>1. KeepsLock(t)
    BY <1>2, <1>7, <1>1 DEF KeepsLock, HoldingGroup
  <2> QED BY <1>3, <2>1 DEF IInv, TypeOK
<1> QED BY <1>2, <1>3, <1>5, <1>6, <1>7, <1>8, <1>10, <1>11, EditStep

\* An element is destroyed, its slot is left to t.
LEMMA ElementRemoved ==
  ASSUME IInv, NEW t \in Threads, pc[t] \in Inside, NEW g \in Groups(arrays), NEW n \in Slots,
         ~Empty(arrays, g, n), arrays' = SetElem(arrays, g, n, NoKey), UNCHANGED newArrays,
         Alone(t, g)
  PROVE  /\ IsArrays(arrays', Keys)
         /\ arrays'.groups = arrays.groups /\ arrays'.built = arrays.built
         /\ arrays'.meta = arrays.meta /\ Groups(arrays') = Groups(arrays) /\ Grown
         /\ Occupied(arrays', g, n) /\ Empty(arrays', g, n) /\ (Owns(t, g, n)' => Edit(t, g, n))
         /\ \A h \in Groups(arrays), m \in Slots : h # g \/ m # n => arrays'.elem[h][m] = arrays.elem[h][m]
         /\ Cardinality(Contents)' = Cardinality(Contents) + (0 - 1) /\ Cardinality(Contents)' \in Nat
<1>1. IsArrays(arrays, Keys) /\ arrays.elem[g][n] \in Keys
  BY Mover, ArraysTyped DEF Empty
<1>2. /\ IsArrays(arrays', Keys) /\ arrays'.groups = arrays.groups /\ arrays'.built = arrays.built
      /\ arrays'.meta = arrays.meta /\ arrays'.overflow = arrays.overflow
      /\ arrays'.elem[g][n] = NoKey
      /\ \A h \in Groups(arrays), m \in Slots : h # g \/ m # n => arrays'.elem[h][m] = arrays.elem[h][m]
  BY <1>1, ElementWritten
<1>3. Groups(arrays') = Groups(arrays) /\ Grown
  BY <1>2, SameGroups DEF Grown
<1>4. Occupied(arrays', g, n) /\ Empty(arrays', g, n) /\ arrays.built
  <2>1. arrays.meta[g][n] = Hash[arrays.elem[g][n]].tag
    BY DEF IInv, ArraysOK, ElementsReached
  <2>2. Occupied(arrays, g, n)
    BY <1>1, <2>1, HashTyped DEF Occupied
  <2>3. arrays.built
    BY <2>2, DummyArraysTyped DEF IInv, ArraysOK, SentinelInPlace, Occupied
  <2> QED BY <1>2, <2>2, <2>3 DEF Occupied, Empty
<1>5. Owns(t, g, n)' => Edit(t, g, n)
  BY <1>2, <1>4 DEF Edit
<1>6. Cardinality(Contents)' = Cardinality(Contents) + (0 - 1) /\ Cardinality(Contents)' \in Nat
  <2>1. newArrays = DummyArrays /\ newArrays' = DummyArrays
    BY InsideAlone DEF IInv, RehashOK
  <2>2. Contents = Elements(arrays) /\ Contents' = Elements(arrays')
    BY <2>1, ContentsOfArrays, DummyArraysTyped, ElementsCounted, FiniteAssumption, HashAssumption DEF Contents
  <2>3. ASSUME NEW h \in Groups(arrays), NEW m \in Slots, h # g \/ m # n
        PROVE  arrays'.elem[h][m] = arrays.elem[h][m] /\ arrays.elem[h][m] # arrays.elem[g][n]
    <3>1. Has(arrays.elem[g][n], g, n)
      BY DEF Has
    <3>2. arrays.elem[h][m] = arrays.elem[g][n] => Has(arrays.elem[g][n], h, m)
      BY DEF Has
    <3>3. ~Has(arrays.elem[g][n], h, m)
      BY <1>1, <2>3, <3>1 DEF IInv, NoKeyTwice
    <3> QED BY <1>2, <2>3, <3>2, <3>3
  <2>4. arrays.elem[g][n] # NoKey
    BY DEF Empty
  <2>5. Cardinality(Elements(arrays)) = Cardinality(Elements(arrays')) + 1
    BY <1>1, <1>2, <2>3, <2>4, ElementGone, FiniteAssumption, HashAssumption
  <2>6. Cardinality(Elements(arrays')) \in Nat
    BY <1>2, ElementsCounted, FiniteAssumption, HashAssumption
  <2> QED BY <2>2, <2>5, <2>6
<1> QED BY <1>2, <1>3, <1>4, <1>5, <1>6

LEMMA DestroyElementStep ==
  ASSUME IInv, NEW t \in Threads, DestroyElement(t)
  PROVE  IInv'
<1>0. PICK g, n : g = At(t) /\ n = Lowest(Hits(t))
  OBVIOUS
<1> DEFINE l == [loc[t] EXCEPT !.mask = {}, !.slot = n]
<1>1. /\ pc[t] = "compare" /\ op[t] = "erase" /\ ThreadOK(t) /\ loc[t] \in Locals
      /\ key[t] \in Keys /\ IsArrays(arrays, Keys) /\ loc[t].mode = "exclusive"
      /\ pc[t] \in Inside
  BY Mover DEF DestroyElement, ThreadOK, ArgumentsOK, KeyOps, Inside, Searching
<1>2. g \in Groups(arrays) /\ n \in Slots /\ arrays.elem[g][n] = key[t]
  <2>1. At(t) \in Groups(arrays)
    BY <1>1, Mover, AtTyped DEF ThreadOK, Searching
  <2>2. n \in Slots /\ n \in Hits(t)
    BY <1>0, HitsTyped DEF DestroyElement
  <2> QED BY <1>0, <2>1, <2>2 DEF Hits
<1>3. Alone(t, g) /\ CanLock(g, "exclusive")
  BY <1>0, <1>1, LockedAlone DEF DestroyElement
<1>4. /\ arrays' = SetElem(arrays, g, n, NoKey) /\ pc' = [pc EXCEPT ![t] = "erase_ml"]
      /\ res' = [res EXCEPT ![t] = "erased"] /\ loc' = [loc EXCEPT ![t].mask = {}, ![t].slot = n]
      /\ UNCHANGED <<newArrays, cursor, size, ml, op, key, moved>>
  BY <1>0 DEF DestroyElement, Goto, Decide
<1>5. /\ l \in Locals /\ l.slot = n /\ l.step = loc[t].step /\ l.batch = loc[t].batch /\ l.mode = loc[t].mode
      /\ loc' = [loc EXCEPT ![t] = l]
  BY <1>1, <1>2, <1>4 DEF Locals, IInv, TypeOK
<1> HIDE DEF l
<1>6. ~Empty(arrays, g, n)
  BY <1>1, <1>2, HashAssumption DEF Empty
<1>7. /\ IsArrays(arrays', Keys)
      /\ arrays'.groups = arrays.groups /\ arrays'.built = arrays.built
      /\ arrays'.meta = arrays.meta /\ Groups(arrays') = Groups(arrays) /\ Grown
      /\ Occupied(arrays', g, n) /\ Empty(arrays', g, n) /\ (Owns(t, g, n)' => Edit(t, g, n))
      /\ Cardinality(Contents)' = Cardinality(Contents) + (0 - 1) /\ Cardinality(Contents)' \in Nat
  BY <1>1, <1>2, <1>3, <1>4, <1>6, ElementRemoved
<1>8. /\ OthersStill(t) /\ pc'[t] = "erase_ml" /\ loc'[t] = l /\ ThreadsTyped'
      /\ op'[t] = op[t] /\ key'[t] = key[t] /\ res'[t] = "erased"
  <2>1. "erase_ml" \in Pcs /\ "erased" \in Outcomes
    BY DEF Pcs, Inside, HoldingGroup, Outcomes
  <2> QED BY <1>4, <1>5, <2>1 DEF IInv, TypeOK, ThreadsTyped, OthersStill, Still
<1>9. At(t)' = g /\ Owns(t, g, n)' /\ Edit(t, g, n) /\ \A h, m : ~Owns(t, h, m)
  <2>1. At(t)' = At(t)
    BY <1>4, <1>5, <1>7, <1>8, SameGroups DEF At, Home
  <2>2. Owns(t, g, n)'
    BY <1>0, <1>5, <1>8, <2>1 DEF Owns, Owners
  <2> QED BY <1>0, <1>1, <1>7, <2>1, <2>2 DEF Owns, Owners
<1>10. ThreadOK(t)'
  <2>1. OpOK(t)' /\ OutcomeOK(t)' /\ ArgumentsOK(t)' /\ LocalsOK(t)'
    BY <1>1, <1>5, <1>8 DEF ThreadOK, OpOK, OutcomeOK, ArgumentsOK, LocalsOK, Searching, Reserved, Erasing, KeyOps, Sweeps
  <2>2. CounterOK(t)' /\ Walked(t)' /\ SweepOK(t)'
    BY <1>1, <1>8 DEF CounterOK, Recorded, Searching, Walked, SweepOK, Sweeps
  <2>3. OwnsSlot(t)'
    BY <1>5, <1>7, <1>8, <1>9 DEF OwnsSlot
  <2>4. MatchedOK(t)'
    BY <1>1, <1>5, <1>7, <1>8, MatchedKept DEF Searching
  <2> QED BY <2>1, <2>2, <2>3, <2>4 DEF ThreadOK
<1>11. SizeAccounts' /\ LoadBounded' /\ size' \in Nat
  <2>1. /\ Delta(t, Reserved) = 0 /\ Delta(t, Erasing) = 1 /\ Delta(t, Granted) = 0
        /\ Delta(t, {"erase_ml"}) = 1
    BY <1>1, <1>8 DEF Delta, Reserved, Erasing, Granted
  <2>2. size \in Nat /\ size' = size + (0 - 1) + 0 + 1 /\ IsArrays(arrays, Keys) /\ IsArrays(newArrays, Keys)
        /\ ml \in Nat /\ SizeAccounts /\ LoadBounded
    BY <1>4 DEF IInv, TypeOK
  <2> QED BY <1>1, <1>4, <1>7, <1>8, <2>1, <2>2, SizesKept
<1>12. TakesLock(t) /\ ml' \in Nat
  <2>1. LockMode(t)' = "exclusive"
    BY <1>8 DEF LockMode
  <2> QED BY <1>3, <1>4, <1>9, <2>1 DEF TakesLock, IInv, TypeOK
<1> QED BY <1>1, <1>2, <1>4, <1>7, <1>8, <1>9, <1>10, <1>11, <1>12, EditStep

LEMMA SweepErasesStep ==
  ASSUME IInv, NEW t \in Threads, SweepErases(t)
  PROVE  IInv'
<1>0. PICK g, n : g = At(t) /\ n = Lowest(loc[t].mask)
  OBVIOUS
<1> DEFINE rest == loc[t].mask \ {n}
           l == [loc[t] EXCEPT !.mask = rest, !.slot = n]
<1>1. /\ pc[t] = "sweep_slot" /\ op[t] = "erase_if" /\ ThreadOK(t) /\ loc[t] \in Locals
      /\ IsArrays(arrays, Keys) /\ loc[t].mode = "exclusive"
      /\ pc[t] \in Inside
  BY Mover DEF SweepErases, ThreadOK, ArgumentsOK, Inside, HoldingGroup
<1>2. /\ g \in Groups(arrays) /\ n \in Slots /\ n \in loc[t].mask /\ g = loc[t].step
      /\ \A m \in loc[t].mask : ~Empty(arrays, g, m)
  <2>1. /\ loc[t].step \in Groups(arrays) /\ loc[t].mask # {} /\ loc[t].mask \subseteq Slots
        /\ \A m \in loc[t].mask : ~Empty(arrays, loc[t].step, m)
    BY <1>1 DEF ThreadOK, SweepOK, Sweeps, Locals
  <2>2. n \in loc[t].mask
    BY <1>0, <2>1, LowestOfSlots
  <2>3. At(t) = loc[t].step
    BY <1>1 DEF At, Sweeps
  <2> QED BY <1>0, <2>1, <2>2, <2>3
<1>3. Alone(t, g)
  <2>1. LockMode(t) = "exclusive" /\ pc[t] \in HoldingGroup
    BY <1>1 DEF LockMode, HoldingGroup
  <2> QED BY <1>0, <2>1, HeldAlone DEF IInv
<1>4. /\ arrays' = SetElem(arrays, g, n, NoKey) /\ pc' = [pc EXCEPT ![t] = "erase_ml"]
      /\ loc' = [loc EXCEPT ![t].mask = rest, ![t].slot = n]
      /\ UNCHANGED <<newArrays, cursor, size, ml, op, key, res, moved>>
  <2>1. loc' = [loc EXCEPT ![t].mask = @ \ {n}, ![t].slot = n]
    BY <1>0 DEF SweepErases
  <2> QED BY <1>0, <2>1 DEF SweepErases, Goto
<1>5. /\ l \in Locals /\ l.slot = n /\ l.step = loc[t].step /\ l.batch = loc[t].batch /\ l.mode = loc[t].mode
      /\ l.mask = rest /\ loc' = [loc EXCEPT ![t] = l]
  <2>1. rest \subseteq Slots
    BY <1>1 DEF Locals
  <2> HIDE DEF rest
  <2> QED BY <1>1, <1>2, <1>4, <2>1 DEF Locals, IInv, TypeOK
<1> HIDE DEF l, rest
<1>6. ~Empty(arrays, g, n)
  BY <1>2
<1>7. /\ IsArrays(arrays', Keys)
      /\ arrays'.groups = arrays.groups /\ arrays'.built = arrays.built
      /\ arrays'.meta = arrays.meta /\ Groups(arrays') = Groups(arrays) /\ Grown
      /\ Occupied(arrays', g, n) /\ Empty(arrays', g, n) /\ (Owns(t, g, n)' => Edit(t, g, n))
      /\ \A h \in Groups(arrays), m \in Slots : h # g \/ m # n => arrays'.elem[h][m] = arrays.elem[h][m]
      /\ Cardinality(Contents)' = Cardinality(Contents) + (0 - 1) /\ Cardinality(Contents)' \in Nat
  BY <1>1, <1>2, <1>3, <1>4, <1>6, ElementRemoved
<1>8. /\ OthersStill(t) /\ pc'[t] = "erase_ml" /\ loc'[t] = l /\ ThreadsTyped'
      /\ op'[t] = op[t] /\ key'[t] = key[t] /\ res'[t] = res[t]
  <2>1. "erase_ml" \in Pcs
    BY DEF Pcs, Inside, HoldingGroup
  <2>2. /\ pc' = [pc EXCEPT ![t] = "erase_ml"] /\ loc' = [loc EXCEPT ![t] = l] /\ l \in Locals
        /\ UNCHANGED <<op, key, res, moved>>
    BY <1>4, <1>5
  <2> QED BY <2>1, <2>2 DEF IInv, TypeOK, ThreadsTyped, OthersStill, Still
<1>9. At(t)' = g /\ At(t)' = At(t) /\ Owns(t, g, n)' /\ Edit(t, g, n) /\ \A h, m : ~Owns(t, h, m)
  <2>1. At(t)' = At(t)
    BY <1>4, <1>5, <1>7, <1>8, SameGroups DEF At, Home
  <2>2. Owns(t, g, n)'
    BY <1>0, <1>5, <1>8, <2>1 DEF Owns, Owners
  <2> QED BY <1>0, <1>1, <1>7, <2>1, <2>2 DEF Owns, Owners
<1>10. ThreadOK(t)'
  <2>1. OpOK(t)' /\ OutcomeOK(t)' /\ ArgumentsOK(t)' /\ LocalsOK(t)'
    BY <1>1, <1>5, <1>8 DEF ThreadOK, OpOK, OutcomeOK, ArgumentsOK, LocalsOK, Searching, Reserved, Erasing, KeyOps, Sweeps
  <2>2. CounterOK(t)' /\ Walked(t)'
    BY <1>1, <1>8 DEF CounterOK, Recorded, Searching, Walked
  <2>3. OwnsSlot(t)'
    BY <1>5, <1>7, <1>8, <1>9 DEF OwnsSlot
  <2>4. SweepOK(t)'
    <3>1. ASSUME NEW m \in rest PROVE ~Empty(arrays', g, m)
      <4>1. m \in Slots /\ m # n /\ ~Empty(arrays, g, m)
        BY <1>1, <1>2, <3>1 DEF Locals, rest
      <4> QED BY <1>2, <1>7, <4>1 DEF Empty
    <3> QED BY <1>2, <1>5, <1>7, <1>8, <3>1 DEF SweepOK
  <2>5. MatchedOK(t)'
    BY <1>1, <1>5, <1>7, <1>8, MatchedKept DEF Searching
  <2> QED BY <2>1, <2>2, <2>3, <2>4, <2>5 DEF ThreadOK
<1>11. SizeAccounts' /\ LoadBounded' /\ size' \in Nat
  <2>1. /\ Delta(t, Reserved) = 0 /\ Delta(t, Erasing) = 1 /\ Delta(t, Granted) = 0
        /\ Delta(t, {"erase_ml"}) = 1
    BY <1>1, <1>8 DEF Delta, Reserved, Erasing, Granted
  <2>2. size \in Nat /\ size' = size + (0 - 1) + 0 + 1 /\ IsArrays(arrays, Keys) /\ IsArrays(newArrays, Keys)
        /\ ml \in Nat /\ SizeAccounts /\ LoadBounded
    BY <1>4 DEF IInv, TypeOK
  <2> QED BY <1>1, <1>4, <1>7, <1>8, <2>1, <2>2, SizesKept
<1>12. KeepsLock(t) /\ ml' \in Nat
  <2>1. LockMode(t) = "exclusive" /\ pc[t] \in HoldingGroup
    BY <1>1 DEF LockMode, HoldingGroup
  <2> QED BY <1>4, <1>9, <2>1 DEF KeepsLock, IInv, TypeOK
<1> QED BY <1>1, <1>2, <1>4, <1>7, <1>8, <1>9, <1>10, <1>11, <1>12, EditStep

-----------------------------------------------------------------------------
(* Exclusive access *)

\* No other thread is inside, nor has t a slot, a group or a reservation.
AloneInTable(t) ==
  /\ pc[t] \in Outside \cup {"rehash_move"}
  /\ \A u \in Threads : u # t => pc[u] \in Outside

LEMMA EntersAlone ==
  ASSUME IInv, NEW t \in Threads, CanEnterExclusive
  PROVE  AloneInTable(t) /\ pc[t] # "rehash_move" /\ Rehashing = {}
<1>1. \A u \in Threads : pc[u] \in Pcs /\ pc[u] \notin Inside /\ pc[u] # "rehash_move"
  BY DEF IInv, TypeOK, CanEnterExclusive, InsideThreads, Rehashing
<1> QED BY <1>1 DEF AloneInTable, Pcs, CanEnterExclusive

LEMMA RehashesAlone ==
  ASSUME IInv, NEW t \in Threads, pc[t] = "rehash_move"
  PROVE  AloneInTable(t) /\ Rehashing # {}
<1>1. \A u \in Threads : pc[u] \in Pcs
  BY DEF IInv, TypeOK
<1>2. \A u \in Threads : pc[u] \notin Inside /\ (pc[u] = "rehash_move" => u = t)
  BY DEF IInv, LocksExclude
<1> QED BY <1>1, <1>2 DEF AloneInTable, Pcs, Rehashing

LEMMA NoneInside ==
  ASSUME NEW f, \A u \in Threads : f[u] \notin Inside
  PROVE  /\ \A S : S \subseteq Inside => CountIn(f, S) = 0
         /\ \A h, m : GrantableIn(f, h, m) = 0
<1>1. ASSUME NEW S, S \subseteq Inside PROVE CountIn(f, S) = 0
  <2>1. {t \in Threads : f[t] \in S} = {}
    BY <1>1
  <2> QED BY <2>1, FS_EmptySet DEF CountIn
<1>2. ASSUME NEW h, NEW m PROVE GrantableIn(f, h, m) = 0
  <2>1. {t \in Threads : f[t] = "check_size" /\ h[t].ticket <= m} = {}
    BY DEF Inside, Reserved
  <2> QED BY <2>1, FS_EmptySet DEF GrantableIn
<1> QED BY <1>1, <1>2

LEMMA ApartFromInside ==
  /\ Outside \cap Inside = {} /\ "rehash_move" \notin Inside
  /\ Reserved \subseteq Inside /\ Granted \subseteq Inside /\ Erasing \subseteq Inside
  /\ {"erase_ml"} \subseteq Inside /\ Owners \subseteq Inside /\ HoldingGroup \subseteq Inside
BY DEF Outside, Inside, Searching, Reserved, HoldingGroup, Visiting, Granted, Erasing, Owners

\* What the invariant says of the table to a thread that is alone in it.
LEMMA FoundAlone ==
  ASSUME IInv, NEW t \in Threads, AloneInTable(t)
  PROVE  /\ size = Cardinality(Contents) /\ Cardinality(Contents) \in Nat /\ ml \in Nat
         /\ Cardinality(Contents) <= ml /\ ml <= InitialMaxLoad(arrays)
         /\ InitialMaxLoad(arrays) \in Nat
         /\ OncePerKey(arrays) /\ OncePerKey(newArrays)
         /\ Rehashing = {} =>
              /\ newArrays = DummyArrays /\ cursor = 0 /\ Contents = Elements(arrays)
              /\ \A g \in Groups(arrays), n \in Slots : Occupied(arrays, g, n) => ~Empty(arrays, g, n)
         /\ Rehashing # {} => OldArraysOK /\ NewArraysOK
<1>1. \A u \in Threads : pc[u] \notin Inside
  BY ApartFromInside DEF AloneInTable
<1>2. /\ Count(Reserved) = 0 /\ Count(Granted) = 0 /\ Count(Erasing) = 0 /\ Count({"erase_ml"}) = 0
      /\ \A m : Grantable(m) = 0
  <2>1. /\ \A S : CountIn(pc, S) = Count(S)
        /\ \A m : GrantableIn(pc, loc, m) = Grantable(m)
    BY DEF CountIn, Count, GrantableIn, Grantable
  <2> QED BY <1>1, <2>1, NoneInside, ApartFromInside
<1>3. /\ IsArrays(arrays, Keys) /\ IsArrays(newArrays, Keys) /\ size \in Nat /\ ml \in Nat
      /\ Cardinality(Contents) \in Nat /\ InitialMaxLoad(arrays) \in Nat
  BY ContentsTyped, ArraysTyped, CapacityTyped DEF IInv, TypeOK
<1>4. size = Cardinality(Contents)
  BY <1>2, <1>3 DEF IInv, SizeAccounts, Count, Erasing
<1>5. Cardinality(Contents) <= ml /\ ml <= InitialMaxLoad(arrays)
  BY <1>2, <1>3 DEF IInv, LoadBounded
<1>6. OncePerKey(arrays) /\ OncePerKey(newArrays)
  <2>1. ASSUME NEW g \in Groups(arrays), NEW h \in Groups(arrays), NEW m \in Slots, NEW n \in Slots,
               ~Empty(arrays, g, m), arrays.elem[g][m] = arrays.elem[h][n]
        PROVE  g = h /\ m = n
    <3>1. arrays.elem[g][m] \in Keys
      BY <1>3, <2>1, ArraysTyped DEF Empty
    <3>2. Has(arrays.elem[g][m], g, m) /\ Has(arrays.elem[g][m], h, n)
      BY <2>1 DEF Has
    <3> QED BY <3>1, <3>2 DEF IInv, NoKeyTwice
  <2> QED BY <2>1 DEF IInv, NoKeyTwice, OncePerKey
<1>7. ASSUME Rehashing = {}
      PROVE  /\ newArrays = DummyArrays /\ cursor = 0 /\ Contents = Elements(arrays)
             /\ \A g \in Groups(arrays), n \in Slots : Occupied(arrays, g, n) => ~Empty(arrays, g, n)
  <2>1. newArrays = DummyArrays /\ cursor = 0
    BY <1>7 DEF IInv, RehashOK
  <2>2. Contents = Elements(arrays)
    BY <2>1, ContentsOfArrays
  <2>3. \A u \in Threads : pc[u] \notin Owners
    BY <1>1, ApartFromInside
  <2>4. \A g \in Groups(arrays), n \in Slots : Occupied(arrays, g, n) => ~Empty(arrays, g, n)
    BY <1>7, <2>3 DEF IInv, SlotsOwned, Owns
  <2> QED BY <2>1, <2>2, <2>4
<1>8. Rehashing # {} => OldArraysOK /\ NewArraysOK
  BY DEF IInv, RehashOK
<1> QED BY <1>3, <1>4, <1>5, <1>6, <1>7, <1>8

\* What of the table such a thread must see to.
LEMMA AloneStep ==
  ASSUME IInv, NEW t \in Threads, AloneInTable(t), OthersStill(t), TypeOK',
         pc'[t] \in Outside \cup {"rehash_move"},
         OpOK(t)', OutcomeOK(t)', ArgumentsOK(t)', LocalsOK(t)',
         ArraysOK', OncePerKey(arrays)', OncePerKey(newArrays)',
         pc'[t] # "rehash_move" =>
           \A g \in Groups(arrays'), n \in Slots : Occupied(arrays', g, n) => ~Empty(arrays', g, n),
         size' = Cardinality(Contents)', Cardinality(Contents)' <= ml', ml' <= InitialMaxLoad(arrays)',
         IF pc'[t] = "rehash_move" THEN OldArraysOK' /\ NewArraysOK'
         ELSE newArrays' = DummyArrays /\ cursor' = 0
  PROVE  IInv'
<1>1. ASSUME NEW u \in Threads PROVE ThreadOK(u)'
  <2>1. CASE u = t
    BY <2>1, IdleThread, ApartFromInside DEF Outside
  <2>2. CASE u # t
    <3>1. /\ pc'[u] = pc[u] /\ op'[u] = op[u] /\ key'[u] = key[u] /\ res'[u] = res[u]
          /\ loc'[u] = loc[u] /\ pc[u] \in Outside
      BY <2>2 DEF OthersStill, Still, AloneInTable
    <3>2. OpOK(u) /\ OutcomeOK(u) /\ ArgumentsOK(u) /\ LocalsOK(u)
      BY Mover DEF ThreadOK
    <3>3. OpOK(u)' /\ OutcomeOK(u)' /\ ArgumentsOK(u)' /\ LocalsOK(u)'
      BY <3>1, <3>2 DEF OpOK, OutcomeOK, ArgumentsOK, LocalsOK
    <3> QED BY <3>1, <3>3, IdleThread DEF Outside
  <2> QED BY <2>1, <2>2
<1>2. \A u \in Threads : pc'[u] \notin Inside /\ (pc'[u] = "rehash_move" => u = t)
  <2>1. \A u \in Threads : u # t => pc'[u] \in Outside
    BY DEF OthersStill, Still, AloneInTable
  <2>2. "rehash_move" \notin Outside
    BY DEF Outside
  <2> QED BY <2>1, <2>2, ApartFromInside
<1>3. ControlOK' /\ SweepMasks' /\ MasksMatched' /\ GroupsMarked' /\ CounterTells'
  BY <1>1 DEF ThreadOK, ControlOK, SweepMasks, MasksMatched, GroupsMarked, CounterTells
<1>4. LocksExclude'
  BY <1>2, ApartFromInside DEF LocksExclude
<1>5. Rehashing' = {} <=> pc'[t] # "rehash_move"
  BY <1>2 DEF Rehashing
<1>6. SlotsOwned' /\ RehashOK'
  BY <1>1, <1>5 DEF ThreadOK, SlotsOwned, RehashOK
<1>7. NoKeyTwice'
  <2> SUFFICES ASSUME NEW k \in Keys, NEW g \in Groups(arrays'), NEW h \in Groups(arrays'),
                      NEW m \in Slots, NEW n \in Slots, Has(k, g, m)', Has(k, h, n)'
               PROVE  g = h /\ m = n
    BY DEF NoKeyTwice
  <2>1. \A u \in Threads : pc'[u] # "construct"
    BY <1>2 DEF Inside, Reserved
  <2>2. arrays'.elem[g][m] = k /\ arrays'.elem[h][n] = k
    BY <2>1 DEF Has, Constructing
  <2>3. ~Empty(arrays', g, m)
    BY <2>2, HashAssumption DEF Empty
  <2> QED BY <2>2, <2>3 DEF OncePerKey
<1>8. /\ Count(Reserved)' = 0 /\ Count(Granted)' = 0 /\ Count(Erasing)' = 0 /\ Count({"erase_ml"})' = 0
      /\ Grantable(ml)' = 0 /\ Grantable(InitialMaxLoad(arrays))' = 0
  <2>1. /\ \A S : CountIn(pc', S) = Count(S)'
        /\ \A m : GrantableIn(pc', loc', m) = Cardinality({u \in Threads : pc'[u] = "check_size" /\ loc'[u].ticket <= m})
    BY DEF CountIn, Count, GrantableIn
  <2>2. /\ \A S : S \subseteq Inside => CountIn(pc', S) = 0
        /\ \A h, m : GrantableIn(pc', h, m) = 0
    BY <1>2, NoneInside
  <2>3. Count(Reserved)' = 0 /\ Count(Granted)' = 0 /\ Count(Erasing)' = 0 /\ Count({"erase_ml"})' = 0
    BY <2>2, ApartFromInside DEF CountIn, Count
  <2>4. Grantable(ml)' = GrantableIn(pc', loc', ml')
    BY DEF Grantable, GrantableIn
  <2>5. Grantable(InitialMaxLoad(arrays))' = GrantableIn(pc', loc', InitialMaxLoad(arrays)')
    BY DEF Grantable, GrantableIn
  <2> QED BY <2>2, <2>3, <2>4, <2>5
<1>9. Cardinality(Contents)' \in Nat /\ InitialMaxLoad(arrays)' \in Nat /\ ml' \in Nat
  <2>1. IsArrays(arrays', Keys) /\ IsArrays(newArrays', Keys)
    BY DEF TypeOK
  <2>2. /\ Elements(arrays') \subseteq Keys /\ IsFiniteSet(Elements(arrays'))
        /\ Elements(newArrays') \subseteq Keys /\ IsFiniteSet(Elements(newArrays'))
    BY <2>1, ElementsCounted, FiniteAssumption, HashAssumption
  <2>3. Cardinality(Contents)' \in Nat
    BY <2>2, FS_Union, FS_CardinalityType DEF Contents
  <2> QED BY <2>1, <2>3, ArraysTyped, CapacityTyped DEF TypeOK
<1>10. SizeAccounts'
  BY <1>8, <1>9 DEF SizeAccounts, Count, Erasing
<1>11. LoadBounded'
  BY <1>8, <1>9 DEF LoadBounded
<1> QED BY <1>3, <1>4, <1>6, <1>7, <1>10, <1>11 DEF IInv

-----------------------------------------------------------------------------
(* Arrays without elements *)

Blank(a) == \A g \in Groups(a), n \in Slots :
  a.elem[g][n] = NoKey /\ a.meta[g][n] \in {Available, Sentinel}

LEMMA BlankArrays ==
  ASSUME NEW a, Blank(a)
  PROVE  /\ Elements(a) = {} /\ OncePerKey(a) /\ ElementsReached(a)
         /\ \A g \in Groups(a), n \in Slots : Empty(a, g, n) /\ ~Occupied(a, g, n)
<1>1. \A g \in Groups(a), n \in Slots : Empty(a, g, n) /\ ~Occupied(a, g, n)
  BY DEF Blank, Empty, Occupied
<1>2. Elements(a) = {}
  BY DEF Blank, Elements, Places
<1> QED BY <1>1, <1>2 DEF OncePerKey, ElementsReached

LEMMA OccupiedPlaces ==
  ASSUME NEW a, a.groups \in Nat
  PROVE  /\ \A p : p \in MatchReallyOccupied(a) <=> p \in Places(a) /\ Occupied(a, p[1], p[2])
         /\ \A p \in Places(a) : /\ p = <<p[1], p[2]>> /\ p[1] \in Groups(a) /\ p[2] \in Slots
                                 /\ Index(p[1], p[2]) = p[1] * N + p[2] /\ Index(p[1], p[2]) \in Nat
         /\ \A g \in Groups(a), n \in Slots : <<g, n>> \in Places(a) /\ Index(g, n) \in Nat
<1>1. \A p \in Places(a) : p = <<p[1], p[2]>> /\ p[1] \in Groups(a) /\ p[2] \in Slots
  BY DEF Places
<1>2. \A g \in Groups(a), n \in Slots : Index(g, n) \in Nat
  BY SlotsNumbered DEF Index, Groups
<1> QED BY <1>1, <1>2 DEF MatchReallyOccupied, Occupied, Places, Index

\* A transfer to new arrays with room for the elements begins.
LEMMA TransferBegins ==
  ASSUME IInv, NEW t \in Threads, CanEnterExclusive, pc[t] \in {"rehash_enter", "reserve_enter"},
         IsArrays(newArrays', Keys), SentinelInPlace(newArrays'), Blank(newArrays'),
         Cardinality(Contents) <= InitialMaxLoad(newArrays'),
         Goto(t, "rehash_move"), UNCHANGED <<arrays, cursor, size, ml, op, key, res, loc, moved>>
  PROVE  IInv'
<1>1. AloneInTable(t) /\ Rehashing = {} /\ ThreadOK(t)
  BY EntersAlone, Mover
<1>2. /\ size = Cardinality(Contents) /\ Cardinality(Contents) <= ml /\ ml <= InitialMaxLoad(arrays)
      /\ OncePerKey(arrays) /\ newArrays = DummyArrays /\ cursor = 0 /\ Contents = Elements(arrays)
      /\ \A g \in Groups(arrays), n \in Slots : Occupied(arrays, g, n) => ~Empty(arrays, g, n)
  BY <1>1, FoundAlone
<1>3. /\ pc' = [pc EXCEPT ![t] = "rehash_move"] /\ OthersStill(t) /\ TypeOK'
      /\ pc'[t] = "rehash_move" /\ op'[t] = op[t] /\ key'[t] = key[t] /\ res'[t] = res[t] /\ loc'[t] = loc[t]
  <2>1. "rehash_move" \in Pcs
    BY DEF Pcs
  <2> QED BY <2>1 DEF IInv, TypeOK, Goto, OthersStill, Still
<1>4. OpOK(t)' /\ OutcomeOK(t)' /\ ArgumentsOK(t)' /\ LocalsOK(t)'
  BY <1>1, <1>3 DEF ThreadOK, OpOK, OutcomeOK, ArgumentsOK, LocalsOK, Searching, Reserved, Erasing, KeyOps, Sweeps
<1>5. Elements(newArrays') = {} /\ OncePerKey(newArrays)' /\ ElementsReached(newArrays)'
      /\ \A g \in Groups(newArrays'), n \in Slots : ~Occupied(newArrays', g, n)
  BY BlankArrays
<1>6. ArraysOK' /\ OncePerKey(arrays)'
  BY <1>2, <1>5 DEF IInv, ArraysOK
<1>7. Contents' = Contents
  BY <1>2, <1>5 DEF Contents
<1>8. OldArraysOK'
  <2> SUFFICES ASSUME NEW g \in Groups(arrays), NEW n \in Slots
               PROVE  /\ ~(Occupied(arrays, g, n) /\ Empty(arrays, g, n))
                      /\ ~(Index(g, n) < 0) /\ arrays.elem[g][n] \notin Elements(newArrays')
    BY <1>2 DEF OldArraysOK
  <2>1. Index(g, n) \in Nat
    BY Mover, ArraysTyped, SlotsNumbered DEF Index, Groups
  <2> QED BY <1>2, <1>5, <2>1
<1>9. NewArraysOK'
  <2>1. MoveOnRehash => Cardinality(Destroyed(cursor))' = 0
    <3>1. \A p \in MatchReallyOccupied(arrays) : ~(p[1] * N + p[2] < 0)
      <4>1. arrays.groups \in Nat
        BY Mover, ArraysTyped
      <4>2. \A x \in Nat : ~(x < 0)
        OBVIOUS
      <4> QED BY <4>1, <4>2, OccupiedPlaces
    <3>2. Destroyed(cursor)' = {}
      BY <1>2, <3>1 DEF Destroyed
    <3> QED BY <3>2, FS_EmptySet
  <2>2. Cardinality(Elements(newArrays')) = 0
    BY <1>5, FS_EmptySet
  <2> QED BY <1>5, <1>7, <2>1, <2>2 DEF NewArraysOK
<1> QED BY <1>1, <1>2, <1>3, <1>4, <1>5, <1>6, <1>7, <1>8, <1>9, AloneStep

-----------------------------------------------------------------------------
(* New arrays are large enough *)

LEMMA SlotsForMore ==
  ASSUME NEW x \in Nat, NEW y \in Nat, x <= y
  PROVE  SlotsFor(x) \in Nat /\ SlotsFor(x) <= SlotsFor(y) /\ x <= SlotsFor(x)
BY DEF SlotsFor

LEMMA ContentsFewer ==
  ASSUME IInv
  PROVE  Cardinality(Keys) \in Nat /\ Cardinality(Contents) \in Nat /\ Cardinality(Contents) <= Cardinality(Keys)
<1>1. Contents \subseteq Keys /\ Cardinality(Contents) \in Nat
  BY ContentsTyped DEF IInv, TypeOK
<1> QED BY <1>1, FiniteAssumption, FS_Subset, FS_CardinalityType

LEMMA StartRehashStep ==
  ASSUME IInv, NEW t \in Threads, StartRehash(t)
  PROVE  IInv'
<1> DEFINE s == Cardinality(Contents)
           c == Cardinality(Keys)
           x == s + s \div 61 + 1
           y == c + c \div 61 + 1
<1>1. s \in Nat /\ c \in Nat /\ s <= c /\ size = s
  BY ContentsFewer, EntersAlone, FoundAlone DEF StartRehash
<1>2. x \in Nat /\ y \in Nat /\ x <= y /\ s <= x
  <2> HIDE DEF s, c
  <2> QED BY <1>1 DEF x, y
<1>3. newArrays' = ArraysFor(SlotsFor(x))
  BY <1>1 DEF StartRehash, GrowthArrays
<1>4. PICK G \in GroupCounts : N * G > SlotsFor(y)
  BY EnoughGroupsAssumption
<1> HIDE DEF s, c, x, y
<1>5. SlotsFor(x) \in Nat /\ N * G > SlotsFor(x)
  <2>1. SlotsFor(x) \in Nat /\ SlotsFor(y) \in Nat /\ SlotsFor(x) <= SlotsFor(y)
    BY <1>2, SlotsForMore
  <2>2. N * G \in Nat
    BY GroupsPositive, SlotsNumbered
  <2> QED BY <1>4, <2>1, <2>2
<1>6. /\ IsArrays(newArrays', Keys) /\ SentinelInPlace(newArrays') /\ SlotsFor(x) <= Capacity(newArrays')
      /\ Blank(newArrays')
  BY <1>3, <1>5, ArraysForEnough DEF Blank
<1>7. Cardinality(Contents) <= InitialMaxLoad(newArrays')
  <2>1. x <= InitialMaxLoad(newArrays') /\ InitialMaxLoad(newArrays') \in Nat
    BY <1>2, <1>6, MaxLoadEnough, ArraysTyped, CapacityTyped
  <2> QED BY <1>1, <1>2, <2>1 DEF s
<1> QED BY <1>6, <1>7, TransferBegins DEF StartRehash

LEMMA LargerOfTwo ==
  ASSUME NEW x \in Nat, NEW y \in Nat
  PROVE  Max({x, y}) \in {x, y} /\ x <= Max({x, y}) /\ y <= Max({x, y})
<1> DEFINE P(z) == \A w \in {x, y} : z >= w
<1>1. \E z \in {x, y} : P(z)
  <2>1. CASE x >= y
    BY <2>1
  <2>2. CASE y >= x
    BY <2>2
  <2> QED BY <2>1, <2>2
<1>2. Max({x, y}) = CHOOSE z \in {x, y} : P(z)
  BY DEF Max
<1> HIDE DEF P
<1>3. Max({x, y}) \in {x, y} /\ P(Max({x, y}))
  BY <1>1, <1>2
<1> QED BY <1>3 DEF P

LEMMA ReserveTableStep ==
  ASSUME IInv, NEW t \in Threads, ReserveTable(t)
  PROVE  IInv'
<1>1. /\ pc[t] = "reserve_enter" /\ CanEnterExclusive
      /\ UNCHANGED <<arrays, cursor, size, ml, op, key, loc, moved>>
  BY DEF ReserveTable
<1>2. PICK n \in RehashArguments :
        IF RehashCapacity(n) = Capacity(arrays)
        THEN Decide(t, "reserved", "done") /\ UNCHANGED newArrays
        ELSE /\ newArrays' = ArraysFor(RehashCapacity(n))
             /\ Goto(t, "rehash_move") /\ UNCHANGED res
  BY DEF ReserveTable
<1>3. CASE RehashCapacity(n) = Capacity(arrays)
  BY <1>1, <1>2, <1>3, ReserveNothingStep DEF sharedVars
<1>4. CASE RehashCapacity(n) # Capacity(arrays)
  <2> DEFINE s == Cardinality(Contents)
             c == Cardinality(Keys)
             q == SlotsFor(s)
             m == Max({n, q})
             y == c + c \div 61 + 1
             r == RehashCapacity(n)
  <2>1. s \in Nat /\ c \in Nat /\ s <= c /\ size = s
    BY <1>1, ContentsFewer, EntersAlone, FoundAlone
  <2>2. y \in Nat /\ s <= y
    <3> HIDE DEF s, c
    <3> QED BY <2>1 DEF y
  <2>3. /\ newArrays' = ArraysFor(r) /\ Goto(t, "rehash_move")
        /\ UNCHANGED <<arrays, cursor, size, ml, op, key, res, loc, moved>>
    BY <1>1, <1>2, <1>4
  <2>4. r = IF m = 0 THEN 0 ELSE CapacityFor(m)
    BY <2>1 DEF RehashCapacity
  <2>5. PICK G \in GroupCounts : N * G > 2 * N /\ N * G > SlotsFor(y)
    BY EnoughGroupsAssumption
  <2> HIDE DEF s, c, y, r
  <2>6. q \in Nat /\ s <= q /\ q <= SlotsFor(y) /\ SlotsFor(y) \in Nat
    BY <2>1, <2>2, SlotsForMore
  <2>7. n \in Nat /\ (n = 0 \/ n = 2 * N) /\ N \in Nat /\ G \in Nat /\ N * G \in Nat
    BY SlotsNumbered, GroupsPositive DEF RehashArguments
  <2> HIDE DEF q
  <2>8. m \in Nat /\ n <= m /\ q <= m /\ (m = n \/ m = q)
    BY <2>6, <2>7, LargerOfTwo
  <2> HIDE DEF m
  <2>9. N * G > m
    <3>1. CASE m = n
      BY <2>5, <2>6, <2>7, <2>8, <3>1
    <3>2. CASE m = q
      BY <2>5, <2>6, <2>7, <2>8, <3>2
    <3> QED BY <2>8, <3>1, <3>2
  <2>10. r \in Nat /\ q <= r /\ \E H \in GroupCounts : N * H > r
    <3>1. CASE m = 0
      BY <2>4, <2>6, <2>8, <2>9, <3>1
    <3>2. CASE m # 0
      <4> DEFINE H == GroupsFor(m)
      <4>1. H \in GroupCounts /\ N * H > m
        BY <2>8, <2>9, GroupsForEnough
      <4>2. H \in Nat
        BY <4>1, GroupsPositive
      <4>3. r = H * N - 1
        BY <2>4, <3>2 DEF CapacityFor
      <4> HIDE DEF H
      <4>4. N * H \in Nat /\ H * N = N * H
        BY <2>7, <4>2
      <4>5. r \in Nat /\ q <= r /\ N * H > r
        BY <2>6, <2>8, <4>1, <4>3, <4>4
      <4> QED BY <4>1, <4>5
    <3> QED BY <3>1, <3>2
  <2>11. /\ IsArrays(newArrays', Keys) /\ SentinelInPlace(newArrays') /\ r <= Capacity(newArrays')
         /\ Blank(newArrays')
    BY <2>3, <2>10, ArraysForEnough DEF Blank
  <2>12. s <= InitialMaxLoad(newArrays')
    <3>1. newArrays'.groups \in GroupCounts /\ newArrays'.built \in BOOLEAN /\ Capacity(newArrays') \in Nat
      BY <2>11, ArraysTyped, CapacityTyped
    <3>2. SlotsFor(s) <= Capacity(newArrays')
      BY <2>6, <2>10, <2>11, <3>1 DEF q
    <3> QED BY <2>1, <3>1, <3>2, MaxLoadEnough
  <2> QED BY <1>1, <2>3, <2>11, <2>12, TransferBegins DEF s
<1> QED BY <1>3, <1>4

-----------------------------------------------------------------------------
(* Clearing *)

LEMMA ClearTableStep ==
  ASSUME IInv, NEW t \in Threads, ClearTable(t)
  PROVE  IInv'
<1>1. /\ pc[t] = "clear_enter" /\ CanEnterExclusive /\ AloneInTable(t) /\ ThreadOK(t) /\ Rehashing = {}
  BY EntersAlone, Mover DEF ClearTable
<1>2. /\ arrays' = ClearedArrays(arrays) /\ ml' = InitialMaxLoad(arrays) /\ size' = 0
      /\ pc' = [pc EXCEPT ![t] = "done"] /\ res' = [res EXCEPT ![t] = "cleared"]
      /\ UNCHANGED <<newArrays, cursor, op, key, loc, moved>>
  BY DEF ClearTable, Decide, Goto
<1>3. /\ newArrays = DummyArrays /\ cursor = 0 /\ OncePerKey(newArrays) /\ InitialMaxLoad(arrays) \in Nat
  BY <1>1, FoundAlone
<1>4. /\ IsArrays(arrays', Keys) /\ arrays'.groups = arrays.groups /\ arrays'.built = arrays.built
      /\ SentinelInPlace(arrays') /\ Blank(arrays')
  BY <1>2, Mover, ClearedArraysTyped DEF Blank, IInv, ArraysOK
<1>5. /\ OthersStill(t) /\ TypeOK'
      /\ pc'[t] = "done" /\ op'[t] = op[t] /\ key'[t] = key[t] /\ res'[t] = "cleared" /\ loc'[t] = loc[t]
  <2>1. "done" \in Pcs /\ "cleared" \in Outcomes
    BY DEF Pcs, Outside, Outcomes
  <2> QED BY <1>2, <1>3, <1>4, <2>1 DEF IInv, TypeOK, OthersStill, Still
<1>6. OpOK(t)' /\ OutcomeOK(t)' /\ ArgumentsOK(t)' /\ LocalsOK(t)'
  BY <1>1, <1>5 DEF ThreadOK, OpOK, OutcomeOK, ArgumentsOK, LocalsOK, Searching, Reserved, Erasing, KeyOps, Sweeps
<1>7. /\ Elements(arrays') = {} /\ OncePerKey(arrays)' /\ ElementsReached(arrays)'
      /\ \A g \in Groups(arrays'), n \in Slots : ~Occupied(arrays', g, n)
  BY <1>4, BlankArrays
<1>8. Contents' = {} /\ Cardinality(Contents)' = 0
  <2>1. Contents' = {}
    BY <1>2, <1>3, <1>7, DummyArraysTyped, BlankArrays DEF Contents, Blank
  <2> QED BY <2>1, FS_EmptySet
<1>9. ArraysOK'
  BY <1>2, <1>4, <1>7 DEF IInv, ArraysOK
<1>10. ml' <= InitialMaxLoad(arrays)' /\ Cardinality(Contents)' <= ml'
  BY <1>2, <1>3, <1>4, <1>8, SameCapacity
<1> QED BY <1>1, <1>2, <1>3, <1>5, <1>6, <1>7, <1>8, <1>9, <1>10, AloneStep DEF Outside

-----------------------------------------------------------------------------
(* The cursor *)

LEMMA IndexUnique ==
  ASSUME NEW g \in Nat, NEW n \in Slots
  PROVE  Index(g, n) \div N = g /\ Index(g, n) % N = n
<1>1. N \in Nat /\ N > 0 /\ n \in 0 .. N - 1
  BY SlotsNumbered DEF Slots
<1>2. Index(g, n) = N * g + n
  BY <1>1 DEF Index
<1> QED BY <1>1, <1>2, DivisionUnique

LEMMA CursorPlace ==
  ASSUME IInv, InOldArrays
  PROVE  /\ CursorGroup \in Groups(arrays) /\ CursorSlot \in Slots /\ cursor \in Nat
         /\ Index(CursorGroup, CursorSlot) = cursor
         /\ \A g \in Groups(arrays), n \in Slots : Index(g, n) \in Nat
         /\ \A g \in Groups(arrays), n \in Slots :
              g # CursorGroup \/ n # CursorSlot => Index(g, n) # cursor
<1>1. cursor \in Nat /\ arrays.groups \in Nat /\ N \in Nat /\ N > 0 /\ Slots = 0 .. N - 1
  BY ArraysTyped, SlotsNumbered DEF IInv, TypeOK, Slots
<1>2. CursorGroup \in Nat /\ CursorSlot \in Slots /\ cursor = N * CursorGroup + CursorSlot
  BY <1>1, Division DEF CursorGroup, CursorSlot
<1>3. CursorGroup \in Groups(arrays)
  BY <1>1, <1>2 DEF InOldArrays, Groups
<1>4. Index(CursorGroup, CursorSlot) = cursor
  BY <1>1, <1>2 DEF Index
<1>5. ASSUME NEW g \in Groups(arrays), NEW n \in Slots, Index(g, n) = cursor
      PROVE  g = CursorGroup /\ n = CursorSlot
  <2>1. g \in Nat
    BY <1>1 DEF Groups
  <2> QED BY <1>5, <2>1, IndexUnique DEF CursorGroup, CursorSlot
<1> QED BY <1>1, <1>2, <1>3, <1>4, <1>5, OccupiedPlaces

LEMMA CursorPast ==
  ASSUME IInv, ~InOldArrays, NEW g \in Groups(arrays), NEW n \in Slots
  PROVE  Index(g, n) < cursor
<1> DEFINE q == CursorGroup
           r == CursorSlot
<1>1. /\ cursor \in Nat /\ arrays.groups \in Nat /\ N \in Nat /\ N > 0 /\ n \in 0 .. N - 1
      /\ g \in 0 .. arrays.groups - 1
  BY ArraysTyped, SlotsNumbered DEF IInv, TypeOK, Slots, Groups
<1>2. q \in Nat /\ r \in 0 .. N - 1 /\ cursor = N * q + r
  BY <1>1, Division DEF CursorGroup, CursorSlot
<1>3. q >= g + 1
  BY <1>1, <1>2 DEF InOldArrays
<1> HIDE DEF q, r
<1>4. N * q >= N * (g + 1)
  BY <1>1, <1>2, <1>3
<1>5. N * (g + 1) = N * g + N /\ g * N = N * g /\ N * g \in Nat /\ N * q \in Nat
  BY <1>1, <1>2
<1> QED BY <1>1, <1>2, <1>4, <1>5 DEF Index

-----------------------------------------------------------------------------
(* The end of a rehash *)

LEMMA FinishRehashStep ==
  ASSUME IInv, NEW t \in Threads, FinishRehash(t)
  PROVE  IInv'
<1> DEFINE p == IF op[t] = "insert" THEN "enter" ELSE "done"
           r == IF op[t] = "insert" THEN res[t] ELSE "reserved"
<1>1. pc[t] = "rehash_move" /\ AloneInTable(t) /\ ThreadOK(t) /\ ~InOldArrays /\ op[t] \in {"insert", "reserve"}
  BY RehashesAlone, Mover DEF FinishRehash, ThreadOK, OpOK
<1>2. /\ arrays' = newArrays /\ newArrays' = DummyArrays /\ cursor' = 0 /\ ml' = InitialMaxLoad(newArrays)
      /\ pc' = [pc EXCEPT ![t] = p] /\ res' = [res EXCEPT ![t] = r]
      /\ UNCHANGED <<size, op, key, loc, moved>>
  <2>1. (op[t] = "insert" /\ Goto(t, "enter") /\ UNCHANGED res) \/ (op[t] # "insert" /\ Decide(t, "reserved", "done"))
    BY DEF FinishRehash, AfterRehash
  <2>2. res \in [Threads -> Outcomes \cup {"none"}]
    BY DEF IInv, TypeOK
  <2> QED BY <2>1, <2>2 DEF FinishRehash, Goto, Decide
<1>3. /\ size = Cardinality(Contents) /\ OncePerKey(newArrays) /\ OldArraysOK /\ NewArraysOK
      /\ IsArrays(arrays, Keys) /\ IsArrays(newArrays, Keys) /\ SentinelInPlace(newArrays)
      /\ ElementsReached(newArrays)
  BY <1>1, FoundAlone, RehashesAlone DEF IInv, TypeOK, ArraysOK
<1>4. IsArrays(DummyArrays, Keys) /\ SentinelInPlace(DummyArrays) /\ Blank(DummyArrays)
  BY DummyArraysTyped DEF Blank
<1>5. Contents' = Contents
  <2>1. ASSUME NEW k \in Elements(arrays) PROVE k \in Elements(newArrays)
    <3>1. k \in Keys /\ \E g \in Groups(arrays), n \in Slots : arrays.elem[g][n] = k
      BY <1>3, ElementsCounted, FiniteAssumption, HashAssumption
    <3>2. PICK g \in Groups(arrays), n \in Slots : arrays.elem[g][n] = k
      BY <3>1
    <3>3. ~Empty(arrays, g, n) /\ Index(g, n) < cursor
      BY <1>1, <3>1, <3>2, CursorPast, HashAssumption DEF Empty
    <3> QED BY <1>3, <3>2, <3>3 DEF OldArraysOK
  <2>2. Elements(DummyArrays) = {}
    BY <1>4, BlankArrays
  <2> QED BY <1>2, <2>1, <2>2 DEF Contents
<1>6. /\ p \in {"enter", "done"} /\ p \in Pcs /\ r \in Outcomes \cup {"none"}
      /\ (p = "enter" => op[t] = "insert" /\ r = res[t]) /\ (p = "done" => op[t] = "reserve")
  <2>1. res[t] \in Outcomes \cup {"none"}
    BY DEF IInv, TypeOK
  <2> QED BY <1>1, <2>1 DEF Pcs, Outside, Outcomes
<1> HIDE DEF p, r
<1>7. /\ OthersStill(t) /\ TypeOK'
      /\ pc'[t] = p /\ op'[t] = op[t] /\ key'[t] = key[t] /\ res'[t] = r /\ loc'[t] = loc[t]
  <2>1. ml' \in Nat
    BY <1>2, <1>3, ArraysTyped, CapacityTyped
  <2> QED BY <1>2, <1>3, <1>4, <1>6, <2>1 DEF IInv, TypeOK, OthersStill, Still
<1>8. OpOK(t)' /\ OutcomeOK(t)' /\ ArgumentsOK(t)' /\ LocalsOK(t)'
  BY <1>1, <1>6, <1>7 DEF ThreadOK, OpOK, OutcomeOK, ArgumentsOK, LocalsOK, Searching, Reserved, Erasing, KeyOps, Sweeps
<1>9. ArraysOK' /\ OncePerKey(arrays)' /\ OncePerKey(newArrays)'
  BY <1>2, <1>3, <1>4, BlankArrays DEF ArraysOK
<1>10. Cardinality(Contents)' <= ml' /\ ml' <= InitialMaxLoad(arrays)'
  <2>1. InitialMaxLoad(newArrays) \in Nat
    BY <1>3, ArraysTyped, CapacityTyped
  <2> QED BY <1>2, <1>3, <1>5, <2>1 DEF NewArraysOK
<1>11. /\ pc'[t] # "rehash_move" /\ pc'[t] \in Outside \cup {"rehash_move"}
       /\ \A g \in Groups(arrays'), n \in Slots : Occupied(arrays', g, n) => ~Empty(arrays', g, n)
  BY <1>2, <1>3, <1>6, <1>7 DEF NewArraysOK, Outside
<1> QED BY <1>1, <1>2, <1>3, <1>5, <1>7, <1>8, <1>9, <1>10, <1>11, AloneStep

-----------------------------------------------------------------------------
(* Transfers *)

\* The next element, and the room for it in the new arrays.
LEMMA NextTransferred ==
  ASSUME IInv, NEW t \in Threads, pc[t] = "rehash_move", InOldArrays, NextElement # NoKey,
         NEW k, k = NextElement
  PROVE  /\ k \in Keys /\ k # NoKey /\ k \in Elements(arrays) /\ k \notin Elements(newArrays)
         /\ ~Empty(arrays, CursorGroup, CursorSlot) /\ Occupied(arrays, CursorGroup, CursorSlot)
         /\ arrays.built /\ newArrays.built
         /\ \E g \in Groups(newArrays), n \in Slots : newArrays.meta[g][n] = Available
<1>1. /\ IsArrays(arrays, Keys) /\ IsArrays(newArrays, Keys) /\ OldArraysOK /\ NewArraysOK
      /\ OncePerKey(newArrays) /\ SentinelInPlace(arrays) /\ SentinelInPlace(newArrays)
      /\ ElementsReached(arrays) /\ ElementsReached(newArrays)
  BY FoundAlone, RehashesAlone DEF IInv, TypeOK, ArraysOK
<1>2. /\ CursorGroup \in Groups(arrays) /\ CursorSlot \in Slots /\ cursor \in Nat
      /\ Index(CursorGroup, CursorSlot) = cursor
  BY CursorPlace
<1>3. ~Empty(arrays, CursorGroup, CursorSlot) /\ arrays.elem[CursorGroup][CursorSlot] = k
  BY DEF NextElement, Empty
<1>4. k \in Keys /\ k # NoKey /\ k \in Elements(arrays)
  <2>1. k \in Keys
    BY <1>1, <1>2, <1>3, ArraysTyped DEF Empty
  <2> QED BY <1>1, <1>2, <1>3, <2>1, ElementsCounted, FiniteAssumption, HashAssumption
<1>5. k \notin Elements(newArrays)
  <2>1. ~(Index(CursorGroup, CursorSlot) < cursor)
    BY <1>2
  <2> QED BY <1>1, <1>2, <1>3, <2>1 DEF OldArraysOK
<1>6. Occupied(arrays, CursorGroup, CursorSlot) /\ arrays.built
  <2>1. arrays.meta[CursorGroup][CursorSlot] = Hash[k].tag
    BY <1>1, <1>2, <1>3 DEF ElementsReached
  <2>2. Occupied(arrays, CursorGroup, CursorSlot)
    BY <1>4, <2>1, HashTyped DEF Occupied
  <2> QED BY <1>1, <1>2, <2>2, DummyArraysTyped DEF SentinelInPlace, Occupied
<1> DEFINE E == Elements(newArrays)
           O == MatchReallyOccupied(newArrays)
           P == {p \in Places(newArrays) : newArrays.elem[p[1]][p[2]] # NoKey}
           A == {p \in Places(newArrays) : newArrays.meta[p[1]][p[2]] = Available}
<1>7. Cardinality(E) \in Nat /\ Cardinality(E) + 1 <= Cardinality(Contents) /\ Cardinality(Contents) \in Nat
  <2>1. IsFiniteSet(E) /\ Cardinality(E) \in Nat
    BY <1>1, ElementsCounted, FiniteAssumption, HashAssumption
  <2>2. IsFiniteSet(Contents) /\ Cardinality(Contents) \in Nat
    BY <1>1, ContentsTyped
  <2>3. E \cup {k} \subseteq Contents
    BY <1>4 DEF Contents
  <2>4. Cardinality(E \cup {k}) = Cardinality(E) + 1
    BY <1>5, <2>1, FS_AddElement
  <2> HIDE DEF E
  <2>5. Cardinality(E \cup {k}) <= Cardinality(Contents)
    BY <2>2, <2>3, FS_Subset
  <2> QED BY <2>1, <2>2, <2>4, <2>5
<1>8. O = P /\ Cardinality(P) = Cardinality(E)
  <2>1. newArrays.groups \in Nat
    BY <1>1, ArraysTyped
  <2>2. ASSUME NEW p \in Places(newArrays)
        PROVE  Occupied(newArrays, p[1], p[2]) <=> newArrays.elem[p[1]][p[2]] # NoKey
    <3>1. p[1] \in Groups(newArrays) /\ p[2] \in Slots
      BY <2>1, <2>2, OccupiedPlaces
    <3>2. newArrays.elem[p[1]][p[2]] # NoKey => newArrays.elem[p[1]][p[2]] \in Keys
      BY <1>1, <3>1, ArraysTyped
    <3>3. newArrays.elem[p[1]][p[2]] # NoKey => Occupied(newArrays, p[1], p[2])
      BY <1>1, <3>1, <3>2, HashTyped DEF ElementsReached, Empty, Occupied
    <3> QED BY <1>1, <3>1, <3>3 DEF NewArraysOK, Empty
  <2>3. O = P
    BY <2>1, <2>2, OccupiedPlaces
  <2>4. Cardinality(P) = Cardinality(E)
    BY <1>1, PlacesOfElements, FiniteAssumption, HashAssumption DEF OncePerKey, Empty
  <2> QED BY <2>3, <2>4
<1>9. InitialMaxLoad(newArrays) \in Nat /\ Capacity(newArrays) \in Nat
      /\ InitialMaxLoad(newArrays) <= Capacity(newArrays) /\ (Capacity(newArrays) # 0 => newArrays.built)
  BY <1>1, ArraysTyped, CapacityTyped
<1>10. Cardinality(O) + 1 <= Capacity(newArrays)
  <2>1. Cardinality(Contents) <= InitialMaxLoad(newArrays)
    BY <1>1 DEF NewArraysOK
  <2> HIDE DEF E, O, P
  <2> QED BY <1>7, <1>8, <1>9, <2>1
<1>11. newArrays.built
  <2>1. Cardinality(O) \in Nat
    BY <1>7, <1>8
  <2> HIDE DEF O
  <2> QED BY <1>9, <1>10, <2>1
<1>12. A # {}
  <2>1. 1 <= Cardinality(A)
    BY <1>1, <1>10, RoomLeft
  <2> HIDE DEF A
  <2> QED BY <2>1, FS_EmptySet
<1>13. \E g \in Groups(newArrays), n \in Slots : newArrays.meta[g][n] = Available
  <2>1. PICK p \in Places(newArrays) : newArrays.meta[p[1]][p[2]] = Available
    BY <1>12
  <2> QED BY <1>1, <2>1, ArraysTyped, OccupiedPlaces
<1> QED BY <1>3, <1>4, <1>5, <1>6, <1>11, <1>13

\* The new arrays with it.
LEMMA NextEmplaced ==
  ASSUME IInv, NEW t \in Threads, pc[t] = "rehash_move", InOldArrays, NextElement # NoKey,
         NEW k, k = NextElement, NEW b, b = Emplaced(newArrays, Hash[k], k)
  PROVE  /\ IsArrays(b, Keys) /\ SentinelInPlace(b) /\ ElementsReached(b) /\ OncePerKey(b)
         /\ b.groups = newArrays.groups /\ b.built = newArrays.built
         /\ \A g \in Groups(b), n \in Slots : Occupied(b, g, n) => ~Empty(b, g, n)
         /\ Elements(b) = Elements(newArrays) \cup {k}
         /\ Cardinality(Elements(b)) = Cardinality(Elements(newArrays)) + 1
<1> DEFINE a == newArrays
           hash == Hash[k]
<1>1. /\ k \in Keys /\ k # NoKey /\ k \notin Elements(a) /\ a.built
      /\ \E g \in Groups(a), n \in Slots : a.meta[g][n] = Available
  BY NextTransferred
<1>2. /\ IsArrays(a, Keys) /\ NewArraysOK /\ OncePerKey(a) /\ SentinelInPlace(a) /\ ElementsReached(a)
      /\ hash \in Hashes /\ hash.tag # Available /\ hash.tag # Sentinel
  BY <1>1, FoundAlone, RehashesAlone, HashTyped DEF IInv, TypeOK, ArraysOK
<1>3. \A g \in Groups(a), n \in Slots : Occupied(a, g, n) => ~Empty(a, g, n)
  BY <1>2 DEF NewArraysOK
<1>4. b = Emplaced(a, hash, k)
  OBVIOUS
<1>5. \A h \in Groups(a), m \in Slots : a.elem[h][m] # k
  BY <1>1, <1>2, ElementsCounted, FiniteAssumption, HashAssumption
<1> HIDE DEF a, hash
<1>6. /\ IsArrays(b, Keys) /\ b.groups = a.groups /\ b.built = a.built
      /\ \A h \in Groups(a) : a.overflow[h] \subseteq b.overflow[h]
      /\ \E g \in Groups(a), n \in Slots :
           /\ a.meta[g][n] = Available /\ Reached(b, hash, g)
           /\ b.meta[g][n] = hash.tag /\ b.elem[g][n] = k
           /\ \A h \in Groups(a), m \in Slots :
                h # g \/ m # n => b.meta[h][m] = a.meta[h][m] /\ b.elem[h][m] = a.elem[h][m]
  <2>1. IsArrays(a, Keys) /\ hash \in Hashes /\ k \in Keys
    BY <1>1, <1>2
  <2>2. \E g \in Groups(a), n \in Slots : a.meta[g][n] = Available
    BY <1>1 DEF a
  <2> QED BY <1>4, <2>1, <2>2, EmplacedWritten
<1>7. PICK g \in Groups(a), n \in Slots :
        /\ a.meta[g][n] = Available /\ Reached(b, hash, g)
        /\ b.meta[g][n] = hash.tag /\ b.elem[g][n] = k
        /\ \A h \in Groups(a), m \in Slots :
             h # g \/ m # n => b.meta[h][m] = a.meta[h][m] /\ b.elem[h][m] = a.elem[h][m]
  BY <1>6
<1>8. Groups(b) = Groups(a)
  BY <1>6, SameGroups
<1>9. a.elem[g][n] = NoKey
  <2>1. a.elem[g][n] \in Keys \cup {NoKey}
    BY <1>2, ArraysTyped
  <2>2. ~Empty(a, g, n) => a.meta[g][n] = Hash[a.elem[g][n]].tag
    BY <1>2 DEF ElementsReached
  <2> QED BY <1>7, <2>1, <2>2, HashTyped DEF Empty
<1>10. SentinelInPlace(b)
  <2>1. \A h \in Groups(a), m \in Slots : b.meta[h][m] = Sentinel <=> a.meta[h][m] = Sentinel
    <3>1. ~(b.meta[g][n] = Sentinel) /\ ~(a.meta[g][n] = Sentinel)
      BY <1>2, <1>7 DEF Available, Sentinel
    <3> QED BY <1>7, <3>1
  <2>2. a.built
    BY <1>1 DEF a
  <2> QED BY <1>2, <1>6, <1>8, <2>1, <2>2 DEF SentinelInPlace
<1>11. ElementsReached(b)
  <2> SUFFICES ASSUME NEW h \in Groups(a), NEW m \in Slots, ~Empty(b, h, m)
               PROVE  b.meta[h][m] = Hash[b.elem[h][m]].tag /\ Reached(b, Hash[b.elem[h][m]], h)
    BY <1>8 DEF ElementsReached
  <2>1. CASE h = g /\ m = n
    BY <1>7, <2>1 DEF hash
  <2>2. CASE h # g \/ m # n
    <3>1. b.meta[h][m] = a.meta[h][m] /\ b.elem[h][m] = a.elem[h][m] /\ ~Empty(a, h, m)
      BY <1>7, <2>2 DEF Empty
    <3>2. a.elem[h][m] \in Keys
      BY <1>2, <3>1, ArraysTyped DEF Empty
    <3>3. a.meta[h][m] = Hash[a.elem[h][m]].tag /\ Reached(a, Hash[a.elem[h][m]], h)
      BY <1>2, <3>1 DEF ElementsReached
    <3>4. Reached(b, Hash[a.elem[h][m]], h)
      <4>1. Hash[a.elem[h][m]] \in Hashes /\ a.groups \in GroupCounts
        BY <1>2, <3>2, HashTyped, ArraysTyped
      <4> QED BY <1>6, <3>3, <4>1, ReachedMonotone
    <3> QED BY <3>1, <3>3, <3>4
  <2> QED BY <2>1, <2>2
<1>12. OncePerKey(b)
  <2> SUFFICES ASSUME NEW h \in Groups(a), NEW i \in Groups(a), NEW l \in Slots, NEW m \in Slots,
                      ~Empty(b, h, l), b.elem[h][l] = b.elem[i][m]
               PROVE  h = i /\ l = m
    BY <1>8 DEF OncePerKey
  <2>1. CASE h = g /\ l = n
    BY <1>5, <1>7, <2>1
  <2>2. CASE i = g /\ m = n
    BY <1>5, <1>7, <2>2
  <2>3. CASE (h # g \/ l # n) /\ (i # g \/ m # n)
    BY <1>2, <1>7, <2>3 DEF OncePerKey, Empty
  <2> QED BY <2>1, <2>2, <2>3
<1>13. \A h \in Groups(b), m \in Slots : Occupied(b, h, m) => ~Empty(b, h, m)
  <2>1. k # NoKey
    BY <1>1
  <2> QED BY <1>3, <1>7, <1>8, <2>1 DEF Occupied, Empty, a
<1>14. /\ Elements(b) = Elements(a) \cup {k}
       /\ Cardinality(Elements(b)) = Cardinality(Elements(a)) + 1
  <2>1. \A h \in Groups(b), m \in Slots : h # g \/ m # n => a.elem[h][m] = b.elem[h][m] /\ b.elem[h][m] # b.elem[g][n]
    BY <1>5, <1>7, <1>8 DEF a
  <2>2. b.elem[g][n] = k /\ k # NoKey /\ g \in Groups(b) /\ a.groups = b.groups
    BY <1>1, <1>6, <1>7, <1>8
  <2> QED BY <1>2, <1>6, <1>9, <2>1, <2>2, ElementGone, FiniteAssumption, HashAssumption
<1> QED BY <1>6, <1>10, <1>11, <1>12, <1>13, <1>14 DEF a

\* A transfer goes on: the elements are as many as before.
LEMMA TransferGoesOn ==
  ASSUME IInv, NEW t \in Threads, pc[t] = "rehash_move",
         UNCHANGED <<size, ml, pc, op, key, res, loc, moved>>,
         IsArrays(arrays', Keys), IsArrays(newArrays', Keys), cursor' \in Nat,
         arrays'.groups = arrays.groups, arrays'.built = arrays.built,
         ArraysOK', OncePerKey(arrays'), OncePerKey(newArrays'),
         Contents' = Contents, OldArraysOK', NewArraysOK'
  PROVE  IInv'
<1>1. AloneInTable(t) /\ ThreadOK(t) /\ pc'[t] = "rehash_move"
  BY RehashesAlone, Mover
<1>2. OthersStill(t) /\ TypeOK' /\ OpOK(t)' /\ OutcomeOK(t)' /\ ArgumentsOK(t)' /\ LocalsOK(t)'
  BY <1>1 DEF IInv, TypeOK, OthersStill, Still, ThreadOK, OpOK, OutcomeOK, ArgumentsOK, LocalsOK
<1>3. size' = Cardinality(Contents)' /\ Cardinality(Contents)' <= ml'
  BY <1>1, FoundAlone
<1>4. ml' <= InitialMaxLoad(arrays)'
  BY <1>1, FoundAlone, SameCapacity
<1>5. OncePerKey(arrays)' /\ OncePerKey(newArrays)'
  BY DEF OncePerKey, Empty, Groups
<1> QED BY <1>1, <1>2, <1>3, <1>4, <1>5, AloneStep

\* A slot without an element is passed.
LEMMA TransferSkipsStep ==
  ASSUME IInv, NEW t \in Threads, TransferElement(t), NextElement = NoKey
  PROVE  IInv'
<1>1. /\ pc[t] = "rehash_move" /\ InOldArrays /\ cursor' = cursor + 1
      /\ arrays' = arrays /\ newArrays' = newArrays
      /\ UNCHANGED <<size, ml, pc, op, key, res, loc, moved>>
  BY DEF TransferElement
<1>2. /\ OldArraysOK /\ NewArraysOK /\ OncePerKey(arrays) /\ OncePerKey(newArrays)
      /\ IsArrays(arrays, Keys) /\ IsArrays(newArrays, Keys) /\ arrays.groups \in Nat /\ ArraysOK
  BY <1>1, FoundAlone, RehashesAlone, ArraysTyped DEF IInv, TypeOK
<1>3. /\ CursorGroup \in Groups(arrays) /\ CursorSlot \in Slots /\ cursor \in Nat
      /\ Index(CursorGroup, CursorSlot) = cursor
  BY <1>1, CursorPlace
<1>4. ASSUME NEW g \in Groups(arrays), NEW n \in Slots, g # CursorGroup \/ n # CursorSlot
      PROVE  Index(g, n) < cursor' <=> Index(g, n) < cursor
  <2>1. Index(g, n) \in Nat /\ Index(g, n) # cursor
    BY <1>1, <1>4, CursorPlace
  <2> QED BY <1>1, <1>3, <2>1
<1>5. Empty(arrays, CursorGroup, CursorSlot) /\ ~Occupied(arrays, CursorGroup, CursorSlot)
  <2>1. Empty(arrays, CursorGroup, CursorSlot) /\ ~(Index(CursorGroup, CursorSlot) < cursor)
    BY <1>3 DEF NextElement, Empty
  <2> QED BY <1>2, <1>3, <2>1 DEF OldArraysOK
<1>6. OldArraysOK'
  <2> SUFFICES ASSUME NEW g \in Groups(arrays), NEW n \in Slots
               PROVE  /\ Occupied(arrays, g, n) /\ Empty(arrays, g, n) => MoveOnRehash /\ Index(g, n) < cursor'
                      /\ ~Empty(arrays, g, n) =>
                           IF Index(g, n) < cursor'
                           THEN ~MoveOnRehash /\ arrays.elem[g][n] \in Elements(newArrays)
                           ELSE arrays.elem[g][n] \notin Elements(newArrays)
    BY <1>1 DEF OldArraysOK
  <2>1. CASE g = CursorGroup /\ n = CursorSlot
    BY <1>5, <2>1
  <2>2. CASE g # CursorGroup \/ n # CursorSlot
    BY <1>2, <1>4, <2>2 DEF OldArraysOK
  <2> QED BY <2>1, <2>2
<1>7. Destroyed(cursor)' = Destroyed(cursor)
  <2>1. ASSUME NEW p \in MatchReallyOccupied(arrays)
        PROVE  p[1] * N + p[2] < cursor' <=> p[1] * N + p[2] < cursor
    <3>1. /\ p[1] \in Groups(arrays) /\ p[2] \in Slots /\ Occupied(arrays, p[1], p[2])
          /\ Index(p[1], p[2]) = p[1] * N + p[2]
      BY <1>2, OccupiedPlaces
    <3> QED BY <1>4, <1>5, <3>1
  <2> QED BY <1>1, <2>1 DEF Destroyed
<1>8. NewArraysOK'
  BY <1>1, <1>2, <1>7 DEF NewArraysOK, Contents
<1> QED BY <1>1, <1>2, <1>3, <1>6, <1>8, TransferGoesOn DEF ArraysOK, Contents

\* An element is moved or copied.
LEMMA TransferMovesStep ==
  ASSUME IInv, NEW t \in Threads, TransferElement(t), NextElement # NoKey
  PROVE  IInv'
<1>0. PICK g, n, k : g = CursorGroup /\ n = CursorSlot /\ k = NextElement
  OBVIOUS
<1>1. /\ pc[t] = "rehash_move" /\ InOldArrays /\ cursor' = cursor + 1
      /\ newArrays' = Emplaced(newArrays, Hash[k], k)
      /\ arrays' = IF MoveOnRehash THEN SetElem(arrays, g, n, NoKey) ELSE arrays
      /\ UNCHANGED <<size, ml, pc, op, key, res, loc, moved>>
  BY <1>0 DEF TransferElement
<1>2. /\ OldArraysOK /\ NewArraysOK /\ OncePerKey(arrays) /\ OncePerKey(newArrays)
      /\ IsArrays(arrays, Keys) /\ IsArrays(newArrays, Keys) /\ arrays.groups \in Nat
      /\ SentinelInPlace(arrays) /\ ElementsReached(arrays)
  BY <1>1, FoundAlone, RehashesAlone, ArraysTyped DEF IInv, TypeOK, ArraysOK
<1>3. g \in Groups(arrays) /\ n \in Slots /\ cursor \in Nat /\ Index(g, n) = cursor
  BY <1>0, <1>1, CursorPlace
<1>4. ASSUME NEW h \in Groups(arrays), NEW m \in Slots, h # g \/ m # n
      PROVE  Index(h, m) < cursor' <=> Index(h, m) < cursor
  <2>1. Index(h, m) \in Nat /\ Index(h, m) # cursor
    BY <1>0, <1>1, <1>4, CursorPlace
  <2> QED BY <1>1, <1>3, <2>1
<1>5. /\ k \in Keys /\ k # NoKey /\ k \in Elements(arrays) /\ k \notin Elements(newArrays)
      /\ ~Empty(arrays, g, n) /\ Occupied(arrays, g, n) /\ arrays.built
  BY <1>0, <1>1, NextTransferred
<1>6. /\ IsArrays(newArrays', Keys) /\ SentinelInPlace(newArrays') /\ ElementsReached(newArrays')
      /\ OncePerKey(newArrays')
      /\ newArrays'.groups = newArrays.groups /\ newArrays'.built = newArrays.built
      /\ \A h \in Groups(newArrays'), m \in Slots : Occupied(newArrays', h, m) => ~Empty(newArrays', h, m)
      /\ Elements(newArrays') = Elements(newArrays) \cup {k}
      /\ Cardinality(Elements(newArrays')) = Cardinality(Elements(newArrays)) + 1
  BY <1>0, <1>1, NextEmplaced
<1>7. /\ IsArrays(arrays', Keys) /\ arrays'.groups = arrays.groups /\ arrays'.built = arrays.built
      /\ arrays'.meta = arrays.meta /\ arrays'.overflow = arrays.overflow
      /\ arrays.elem[g][n] = k /\ arrays'.elem[g][n] = (IF MoveOnRehash THEN NoKey ELSE k)
      /\ \A h \in Groups(arrays), m \in Slots : h # g \/ m # n => arrays'.elem[h][m] = arrays.elem[h][m]
  <2>1. arrays.elem[g][n] = k
    BY <1>0 DEF NextElement
  <2>2. CASE MoveOnRehash
    <3>1. IsArrays(arrays, Keys) /\ g \in Groups(arrays) /\ n \in Slots /\ NoKey \in Keys \cup {NoKey}
      BY <1>2, <1>3
    <3>2. arrays' = SetElem(arrays, g, n, NoKey)
      BY <1>1, <2>2
    <3> QED BY <2>1, <2>2, <3>1, <3>2, ElementWritten
  <2>3. CASE ~MoveOnRehash
    BY <1>1, <1>2, <2>1, <2>3
  <2> QED BY <2>2, <2>3
<1>8. Groups(arrays') = Groups(arrays)
  BY <1>7, SameGroups
<1>9. \A h \in Groups(arrays), m \in Slots : h # g \/ m # n => arrays.elem[h][m] # k
  BY <1>2, <1>3, <1>5, <1>7 DEF OncePerKey, Empty
<1>10. Elements(arrays) = Elements(arrays') \cup {k} /\ (~MoveOnRehash => arrays' = arrays)
  <2>1. CASE MoveOnRehash
    <3>1. \A h \in Groups(arrays), m \in Slots : h # g \/ m # n =>
            arrays'.elem[h][m] = arrays.elem[h][m] /\ arrays.elem[h][m] # arrays.elem[g][n]
      BY <1>7, <1>9
    <3>2. arrays.elem[g][n] # NoKey /\ arrays'.elem[g][n] = NoKey /\ arrays.elem[g][n] = k
      BY <1>5, <1>7, <2>1
    <3> QED BY <1>2, <1>3, <1>7, <2>1, <3>1, <3>2, ElementGone, FiniteAssumption, HashAssumption
  <2>2. CASE ~MoveOnRehash
    BY <1>1, <1>5, <2>2
  <2> QED BY <2>1, <2>2
<1>11. Contents' = Contents
  BY <1>6, <1>10 DEF Contents
<1>12. OncePerKey(arrays')
  <2> SUFFICES ASSUME NEW h \in Groups(arrays), NEW i \in Groups(arrays), NEW l \in Slots, NEW m \in Slots,
                      ~Empty(arrays', h, l), arrays'.elem[h][l] = arrays'.elem[i][m]
               PROVE  h = i /\ l = m
    BY <1>8 DEF OncePerKey
  <2>1. ASSUME NEW f \in Groups(arrays), NEW j \in Slots, arrays'.elem[f][j] # NoKey
        PROVE  arrays'.elem[f][j] = arrays.elem[f][j]
    BY <1>7, <2>1
  <2>2. arrays.elem[h][l] # NoKey /\ arrays.elem[h][l] = arrays.elem[i][m]
    BY <2>1 DEF Empty
  <2> QED BY <1>2, <2>2 DEF OncePerKey, Empty
<1>13. SentinelInPlace(arrays')
  BY <1>2, <1>5, <1>7, <1>8 DEF SentinelInPlace
<1>14. ElementsReached(arrays')
  <2> SUFFICES ASSUME NEW h \in Groups(arrays), NEW m \in Slots, ~Empty(arrays', h, m)
               PROVE  /\ arrays'.meta[h][m] = Hash[arrays'.elem[h][m]].tag
                      /\ Reached(arrays', Hash[arrays'.elem[h][m]], h)
    BY <1>8 DEF ElementsReached
  <2>1. arrays'.elem[h][m] = arrays.elem[h][m] /\ ~Empty(arrays, h, m)
    BY <1>7 DEF Empty
  <2>2. arrays.meta[h][m] = Hash[arrays.elem[h][m]].tag /\ Reached(arrays, Hash[arrays.elem[h][m]], h)
    BY <1>2, <2>1 DEF ElementsReached
  <2>3. Hash[arrays.elem[h][m]] \in Hashes /\ arrays.groups \in GroupCounts
    BY <1>2, <2>1, ArraysTyped, HashTyped DEF Empty
  <2>4. Reached(arrays', Hash[arrays.elem[h][m]], h)
    BY <1>7, <2>2, <2>3, ReachedMonotone
  <2> QED BY <1>7, <2>1, <2>2, <2>4
<1>15. OldArraysOK'
  <2> SUFFICES ASSUME NEW h \in Groups(arrays), NEW m \in Slots
               PROVE  /\ Occupied(arrays', h, m) /\ Empty(arrays', h, m) => MoveOnRehash /\ Index(h, m) < cursor'
                      /\ ~Empty(arrays', h, m) =>
                           IF Index(h, m) < cursor'
                           THEN ~MoveOnRehash /\ arrays'.elem[h][m] \in Elements(newArrays')
                           ELSE arrays'.elem[h][m] \notin Elements(newArrays')
    BY <1>8 DEF OldArraysOK
  <2>1. CASE h = g /\ m = n
    <3>1. Index(g, n) < cursor'
      BY <1>1, <1>3
    <3> QED BY <1>5, <1>6, <1>7, <2>1, <3>1 DEF Empty
  <2>2. CASE h # g \/ m # n
    <3>1. /\ arrays'.elem[h][m] = arrays.elem[h][m] /\ arrays'.meta[h][m] = arrays.meta[h][m]
          /\ arrays.elem[h][m] # k
      BY <1>7, <1>9, <2>2
    <3>2. Index(h, m) < cursor' <=> Index(h, m) < cursor
      BY <1>4, <2>2
    <3>3. arrays.elem[h][m] \in Elements(newArrays') <=> arrays.elem[h][m] \in Elements(newArrays)
      BY <1>6, <3>1
    <3> QED BY <1>2, <3>1, <3>2, <3>3 DEF OldArraysOK, Occupied, Empty
  <2> QED BY <2>1, <2>2
<1>16. MoveOnRehash => Cardinality(Destroyed(cursor)') = Cardinality(Elements(newArrays'))
  <2> SUFFICES ASSUME MoveOnRehash
               PROVE  Cardinality(Destroyed(cursor)') = Cardinality(Elements(newArrays'))
    OBVIOUS
  <2> DEFINE T == Places(arrays)
             Y == Destroyed(cursor)
             X == Destroyed(cursor)'
             x == <<g, n>>
  <2>1. IsFiniteSet(T)
    BY <1>2, PlacesCounted, ArraysTyped
  <2>2. MatchReallyOccupied(arrays') = MatchReallyOccupied(arrays) /\ MatchReallyOccupied(arrays) \subseteq T
    BY <1>7, SameGroups DEF MatchReallyOccupied
  <2>3. X \subseteq T /\ Y \subseteq T
    BY <2>2 DEF Destroyed
  <2>4. \A p : p \in MatchReallyOccupied(arrays) =>
          /\ p \in X <=> p[1] * N + p[2] < cursor'
          /\ p \in Y <=> p[1] * N + p[2] < cursor
    BY <2>2 DEF Destroyed
  <2>5. x \in X /\ x \notin Y
    <3>1. x \in MatchReallyOccupied(arrays) /\ x[1] * N + x[2] = Index(g, n)
      BY <1>2, <1>3, <1>5, OccupiedPlaces DEF Index
    <3>2. Index(g, n) < cursor' /\ ~(Index(g, n) < cursor)
      BY <1>1, <1>3
    <3> QED BY <2>4, <3>1, <3>2
  <2>6. ASSUME NEW p \in T, p # x PROVE p \in X <=> p \in Y
    <3>1. /\ p = <<p[1], p[2]>> /\ p[1] \in Groups(arrays) /\ p[2] \in Slots
          /\ Index(p[1], p[2]) = p[1] * N + p[2]
      BY <1>2, OccupiedPlaces
    <3>2. p[1] * N + p[2] < cursor' <=> p[1] * N + p[2] < cursor
      BY <1>4, <2>6, <3>1
    <3>3. p \notin MatchReallyOccupied(arrays) => p \notin X /\ p \notin Y
      BY <2>2 DEF Destroyed
    <3> QED BY <2>4, <3>2, <3>3
  <2> HIDE DEF T, X, Y, x
  <2>7. Cardinality(X) = Cardinality(Y) + 1
    BY <2>1, <2>3, <2>5, <2>6, OneElement
  <2>8. Cardinality(Y) = Cardinality(Elements(newArrays))
    BY <1>2 DEF NewArraysOK, Y
  <2> QED BY <1>6, <2>7, <2>8 DEF X
<1>17. NewArraysOK'
  <2>1. Cardinality(Contents)' <= InitialMaxLoad(newArrays)'
    BY <1>2, <1>6, <1>11, SameCapacity DEF NewArraysOK
  <2>2. ~MoveOnRehash => Elements(newArrays)' \subseteq Elements(arrays)'
    BY <1>2, <1>5, <1>6, <1>10 DEF NewArraysOK
  <2> QED BY <1>6, <1>16, <2>1, <2>2 DEF NewArraysOK
<1>18. cursor' \in Nat /\ ArraysOK'
  BY <1>1, <1>3, <1>6, <1>13, <1>14 DEF ArraysOK
<1> QED BY <1>1, <1>6, <1>7, <1>11, <1>12, <1>15, <1>17, <1>18, TransferGoesOn

\* Elements that are moved are in one of the arrays.
LEMMA MovedApart ==
  ASSUME IsArrays(arrays, Keys), IsArrays(newArrays, Keys), OldArraysOK, NewArraysOK, MoveOnRehash
  PROVE  Cardinality(Contents) = Cardinality(Elements(arrays)) + Cardinality(Destroyed(cursor))
<1>1. /\ IsFiniteSet(Elements(arrays)) /\ IsFiniteSet(Elements(newArrays))
      /\ Cardinality(Elements(arrays)) \in Nat /\ Cardinality(Elements(newArrays)) \in Nat
  BY ElementsCounted, FiniteAssumption, HashAssumption
<1>2. Elements(arrays) \cap Elements(newArrays) = {}
  <2> SUFFICES ASSUME NEW k \in Elements(arrays) PROVE k \notin Elements(newArrays)
    OBVIOUS
  <2>1. k \in Keys /\ \E g \in Groups(arrays), n \in Slots : arrays.elem[g][n] = k
    BY ElementsCounted, FiniteAssumption, HashAssumption
  <2>2. PICK g \in Groups(arrays), n \in Slots : arrays.elem[g][n] = k
    BY <2>1
  <2> QED BY <2>1, <2>2, HashAssumption DEF OldArraysOK, Empty
<1>3. Cardinality(Contents) = Cardinality(Elements(arrays)) + Cardinality(Elements(newArrays))
  <2>1. Cardinality({}) = 0
    BY FS_EmptySet
  <2>2. Cardinality(Contents) = Cardinality(Elements(arrays)) + Cardinality(Elements(newArrays))
                                - Cardinality(Elements(arrays) \cap Elements(newArrays))
    BY <1>1, FS_Union DEF Contents
  <2>3. Cardinality(Elements(arrays) \cap Elements(newArrays)) = 0
    BY <1>2, <2>1
  <2> QED BY <1>1, <2>2, <2>3
<1> QED BY <1>3 DEF NewArraysOK

\* The slots emptied by a transfer up to slot s, which may have destroyed the
\* element it has come to: as many as the elements that are lost.
LEMMA TransferLoses ==
  ASSUME IInv, NEW t \in Threads, pc[t] = "rehash_move", InOldArrays, NextElement # NoKey,
         NEW s \in {cursor, cursor + 1}, NEW D, D = Destroyed(s),
         NEW b, IsArrays(b, Keys), b.groups = arrays.groups,
         \A g \in Groups(arrays), n \in Slots :
           /\ <<g, n>> \in D => b.elem[g][n] = NoKey
           /\ <<g, n>> \notin D => b.elem[g][n] = arrays.elem[g][n]
  PROVE  /\ D \subseteq MatchReallyOccupied(arrays) /\ IsFiniteSet(D) /\ Cardinality(D) \in Nat
         /\ \A g \in Groups(arrays), n \in Slots :
              Occupied(arrays, g, n) /\ Empty(arrays, g, n) => <<g, n>> \in D
         /\ Cardinality(Elements(b)) \in Nat
         /\ Cardinality(Contents) = Cardinality(Elements(b)) + Cardinality(D)
<1> DEFINE g == CursorGroup
           n == CursorSlot
           x == <<CursorGroup, CursorSlot>>
           k == NextElement
           T == Places(arrays)
           C == Destroyed(cursor)
<1>1. /\ OldArraysOK /\ NewArraysOK /\ OncePerKey(arrays)
      /\ IsArrays(arrays, Keys) /\ IsArrays(newArrays, Keys) /\ arrays.groups \in Nat
  BY FoundAlone, RehashesAlone, ArraysTyped DEF IInv, TypeOK
<1>2. /\ g \in Groups(arrays) /\ n \in Slots /\ cursor \in Nat /\ Index(g, n) = cursor
      /\ x \in Places(arrays) /\ x[1] = g /\ x[2] = n /\ arrays.elem[g][n] = k
  BY <1>1, CursorPlace, OccupiedPlaces DEF NextElement
<1>3. k \in Keys /\ k # NoKey /\ ~Empty(arrays, g, n) /\ Occupied(arrays, g, n)
  BY NextTransferred
<1>4. IsFiniteSet(T) /\ D \subseteq MatchReallyOccupied(arrays) /\ MatchReallyOccupied(arrays) \subseteq T
      /\ C \subseteq T /\ D \subseteq T
  BY <1>1, PlacesCounted, ArraysTyped DEF Destroyed, MatchReallyOccupied
<1>5. IsFiniteSet(D) /\ Cardinality(D) \in Nat /\ Cardinality(C) \in Nat
  BY <1>4, FS_Subset, FS_CardinalityType
<1>6. \A p \in T : /\ p = <<p[1], p[2]>> /\ p[1] \in Groups(arrays) /\ p[2] \in Slots
                   /\ p \in MatchReallyOccupied(arrays) <=> Occupied(arrays, p[1], p[2])
                   /\ Index(p[1], p[2]) = p[1] * N + p[2] /\ Index(p[1], p[2]) \in Nat
                   /\ p # x => Index(p[1], p[2]) # cursor
  BY <1>1, CursorPlace, OccupiedPlaces
<1>7. \A p \in T : p \in C <=> Occupied(arrays, p[1], p[2]) /\ MoveOnRehash /\ Index(p[1], p[2]) < cursor
  BY <1>6 DEF Destroyed
<1>8. \A p \in T : p \in D <=> Occupied(arrays, p[1], p[2]) /\ MoveOnRehash /\ Index(p[1], p[2]) < s
  BY <1>6 DEF Destroyed
<1> HIDE DEF T, C, x, g, n, k
<1>9. \A p \in T : p # x => (p \in D <=> p \in C)
  <2> SUFFICES ASSUME NEW p \in T, p # x
               PROVE  Index(p[1], p[2]) < s <=> Index(p[1], p[2]) < cursor
    BY <1>7, <1>8
  <2>1. Index(p[1], p[2]) \in Nat /\ Index(p[1], p[2]) # cursor
    BY <1>6
  <2> QED BY <1>2, <2>1
<1>10. x \in T /\ x \notin C /\ (x \in D => s = cursor + 1 /\ MoveOnRehash)
       /\ (MoveOnRehash /\ s = cursor + 1 => x \in D)
  <2>1. x \in T /\ Index(x[1], x[2]) = cursor /\ Occupied(arrays, x[1], x[2])
    BY <1>2, <1>3 DEF T
  <2>2. ~(cursor < cursor) /\ cursor < cursor + 1
    BY <1>2
  <2> QED BY <1>7, <1>8, <2>1, <2>2
<1>11. ASSUME NEW h \in Groups(arrays), NEW m \in Slots, Occupied(arrays, h, m), Empty(arrays, h, m)
       PROVE  <<h, m>> \in C /\ <<h, m>> \in D
  <2>1. <<h, m>> \in T /\ MoveOnRehash /\ Index(h, m) < cursor
    BY <1>1, <1>11, OccupiedPlaces DEF OldArraysOK, T
  <2>2. <<h, m>> \in C
    BY <1>7, <1>11, <2>1
  <2> QED BY <1>9, <1>10, <2>1, <2>2
<1>12. \A p \in C : Empty(arrays, p[1], p[2])
  BY <1>1, <1>4, <1>6, <1>7 DEF OldArraysOK, T
<1>13. \A h \in Groups(arrays), m \in Slots : <<h, m>> # x => b.elem[h][m] = arrays.elem[h][m]
  <2> SUFFICES ASSUME NEW h \in Groups(arrays), NEW m \in Slots, <<h, m>> # x, <<h, m>> \in D
               PROVE  b.elem[h][m] = arrays.elem[h][m]
    OBVIOUS
  <2>1. <<h, m>> \in C
    BY <1>1, <1>9, OccupiedPlaces DEF T
  <2> QED BY <1>12, <2>1 DEF Empty
<1>14. /\ IsFiniteSet(Elements(arrays)) /\ IsFiniteSet(Elements(newArrays))
       /\ Cardinality(Elements(arrays)) \in Nat /\ Cardinality(Elements(newArrays)) \in Nat
       /\ Cardinality(Elements(b)) \in Nat
  BY <1>1, ElementsCounted, FiniteAssumption, HashAssumption
<1>15. CASE x \in D
  <2>1. MoveOnRehash
    BY <1>10, <1>15
  <2>2. Cardinality(D) = Cardinality(C) + 1
    BY <1>4, <1>9, <1>10, <1>15, OneElement
  <2>3. b.elem[g][n] = NoKey /\ arrays.elem[g][n] = k /\ k # NoKey /\ <<g, n>> = x
    BY <1>2, <1>3, <1>15 DEF x, g, n
  <2>4. \A h \in Groups(arrays), m \in Slots : h # g \/ m # n =>
          b.elem[h][m] = arrays.elem[h][m] /\ arrays.elem[h][m] # arrays.elem[g][n]
    <3> SUFFICES ASSUME NEW h \in Groups(arrays), NEW m \in Slots, h # g \/ m # n
                 PROVE  b.elem[h][m] = arrays.elem[h][m] /\ arrays.elem[h][m] # arrays.elem[g][n]
      OBVIOUS
    <3>1. <<h, m>> # x
      BY <2>3
    <3>2. arrays.elem[h][m] # arrays.elem[g][n]
      BY <1>1, <1>2, <1>3 DEF OncePerKey
    <3> QED BY <1>13, <3>1, <3>2
  <2>5. Cardinality(Elements(arrays)) = Cardinality(Elements(b)) + 1
    BY <1>1, <1>2, <2>3, <2>4, ElementGone, FiniteAssumption, HashAssumption
  <2>6. Cardinality(Contents) = Cardinality(Elements(arrays)) + Cardinality(C)
    BY <1>1, <1>14, <2>1, MovedApart DEF C
  <2> QED BY <1>4, <1>5, <1>11, <1>14, <2>2, <2>5, <2>6
<1>16. CASE x \notin D
  <2>1. D = C
    BY <1>4, <1>9, <1>10, <1>16
  <2>2. Elements(b) = Elements(arrays)
    <3>1. \A h \in Groups(arrays), m \in Slots : b.elem[h][m] = arrays.elem[h][m]
      BY <1>13, <1>16
    <3>2. Groups(b) = Groups(arrays)
      BY SameGroups
    <3>3. \A e : e \in Elements(b) <=> e \in Keys /\ \E h \in Groups(b), m \in Slots : b.elem[h][m] = e
      BY ElementsCounted, FiniteAssumption, HashAssumption
    <3>4. \A e : e \in Elements(arrays) <=>
                 e \in Keys /\ \E h \in Groups(arrays), m \in Slots : arrays.elem[h][m] = e
      BY <1>1, ElementsCounted, FiniteAssumption, HashAssumption
    <3>5. \A e : e \in Elements(b) <=> e \in Elements(arrays)
      BY <3>1, <3>2, <3>3, <3>4
    <3> QED BY <3>5
  <2>3. CASE MoveOnRehash
    <3>1. Cardinality(Contents) = Cardinality(Elements(arrays)) + Cardinality(C)
      BY <1>1, <1>14, <2>3, MovedApart DEF C
    <3> QED BY <1>4, <1>5, <1>11, <1>14, <2>1, <2>2, <3>1
  <2>4. CASE ~MoveOnRehash
    <3>1. D = {} /\ Cardinality(D) = 0
      BY <2>4, FS_EmptySet DEF Destroyed
    <3>2. Contents = Elements(arrays)
      BY <1>1, <2>4 DEF NewArraysOK, Contents
    <3> QED BY <1>4, <1>5, <1>11, <1>14, <2>2, <3>1, <3>2
  <2> QED BY <2>3, <2>4
<1> QED BY <1>15, <1>16

\* The drift of slots is at most their number.
LEMMA DriftBounded ==
  ASSUME NEW a, NEW D, IsFiniteSet(D)
  PROVE  Drift(a, D) \in Nat /\ Drift(a, D) <= Cardinality(D)
<1> DEFINE E == {p \in D : MaybeCausedOverflow(a, p[1], p[2])}
<1>1. E \subseteq D
  OBVIOUS
<1> HIDE DEF E
<1>2. IsFiniteSet(E) /\ Cardinality(E) \in Nat /\ Cardinality(E) <= Cardinality(D)
  BY <1>1, FS_Subset, FS_CardinalityType
<1> QED BY <1>2 DEF Drift, E

LEMMA TransferThrowsStep ==
  ASSUME IInv, NEW t \in Threads, TransferThrows(t)
  PROVE  IInv'
<1>0. PICK s \in {cursor, cursor + 1} :
        /\ arrays' = WithoutSlots(arrays, Destroyed(s))
        /\ ml' = ml - Drift(arrays, Destroyed(s))
        /\ size' = size - Cardinality(Destroyed(s))
  BY DEF TransferThrows
<1>1. PICK D : D = Destroyed(s)
  OBVIOUS
<1>2. /\ pc[t] = "rehash_move" /\ InOldArrays /\ NextElement # NoKey
      /\ arrays' = WithoutSlots(arrays, D) /\ ml' = ml - Drift(arrays, D)
      /\ size' = size - Cardinality(D) /\ newArrays' = DummyArrays /\ cursor' = 0
      /\ res' = [res EXCEPT ![t] = "threw"] /\ pc' = [pc EXCEPT ![t] = "done"]
      /\ UNCHANGED <<op, key, loc, moved>>
  BY <1>0, <1>1 DEF TransferThrows, Decide, Goto
<1>3. /\ AloneInTable(t) /\ ThreadOK(t) /\ OldArraysOK /\ OncePerKey(arrays)
      /\ IsArrays(arrays, Keys) /\ arrays.groups \in Nat /\ arrays.groups \in GroupCounts
      /\ SentinelInPlace(arrays) /\ ElementsReached(arrays)
      /\ size = Cardinality(Contents) /\ Cardinality(Contents) \in Nat /\ ml \in Nat
      /\ Cardinality(Contents) <= ml /\ ml <= InitialMaxLoad(arrays) /\ InitialMaxLoad(arrays) \in Nat
  BY <1>2, Mover, FoundAlone, RehashesAlone, ArraysTyped DEF IInv, TypeOK, ArraysOK
<1>4. /\ IsArrays(arrays', Keys) /\ arrays'.groups = arrays.groups /\ arrays'.built = arrays.built
      /\ arrays'.overflow = arrays.overflow
      /\ \A g \in Groups(arrays), n \in Slots :
           /\ <<g, n>> \in D => arrays'.meta[g][n] = Available /\ arrays'.elem[g][n] = NoKey
           /\ <<g, n>> \notin D => /\ arrays'.meta[g][n] = arrays.meta[g][n]
                                   /\ arrays'.elem[g][n] = arrays.elem[g][n]
  <2>1. LET b == WithoutSlots(arrays, D) IN
          /\ IsArrays(b, Keys) /\ b.groups = arrays.groups /\ b.built = arrays.built
          /\ b.overflow = arrays.overflow
          /\ \A g \in Groups(arrays), n \in Slots :
               /\ <<g, n>> \in D => b.meta[g][n] = Available /\ b.elem[g][n] = NoKey
               /\ <<g, n>> \notin D => b.meta[g][n] = arrays.meta[g][n] /\ b.elem[g][n] = arrays.elem[g][n]
    BY <1>3, SlotsRemoved
  <2> QED BY <1>2, <2>1
<1>5. Groups(arrays') = Groups(arrays)
  BY <1>4, SameGroups
<1>6. /\ D \subseteq MatchReallyOccupied(arrays) /\ IsFiniteSet(D) /\ Cardinality(D) \in Nat
      /\ \A g \in Groups(arrays), n \in Slots :
           Occupied(arrays, g, n) /\ Empty(arrays, g, n) => <<g, n>> \in D
      /\ Cardinality(Elements(arrays')) \in Nat
      /\ Cardinality(Contents) = Cardinality(Elements(arrays')) + Cardinality(D)
  BY <1>1, <1>2, <1>4, TransferLoses
<1>7. /\ IsArrays(DummyArrays, Keys) /\ SentinelInPlace(DummyArrays) /\ Elements(DummyArrays) = {}
      /\ OncePerKey(DummyArrays) /\ ElementsReached(DummyArrays)
  BY DummyArraysTyped, BlankArrays DEF Blank
<1>8. Contents' = Elements(arrays')
  BY <1>2, <1>7 DEF Contents
<1>9. Drift(arrays, D) \in Nat /\ Drift(arrays, D) <= Cardinality(D)
  BY <1>6, DriftBounded
<1>10. /\ size' = Cardinality(Contents)' /\ size' \in Nat /\ ml' \in Nat
       /\ Cardinality(Contents)' <= ml' /\ ml' <= InitialMaxLoad(arrays)'
  <2>1. InitialMaxLoad(arrays') = InitialMaxLoad(arrays)
    BY <1>4, SameCapacity
  <2> DEFINE c == Cardinality(Contents)
             e == Cardinality(Elements(arrays'))
             d == Cardinality(D)
             f == Drift(arrays, D)
             m == InitialMaxLoad(arrays)
  <2>2. /\ c \in Nat /\ e \in Nat /\ d \in Nat /\ f \in Nat /\ m \in Nat /\ ml \in Nat
        /\ size = c /\ c = e + d /\ f <= d /\ c <= ml /\ ml <= m
        /\ ml' = ml - f /\ size' = size - d
    BY <1>2, <1>3, <1>6, <1>9
  <2> HIDE DEF c, e, d, f, m
  <2>3. size' = e /\ ml' \in Nat /\ e <= ml' /\ ml' <= m
    BY <2>2
  <2> QED BY <1>8, <2>1, <2>2, <2>3 DEF e, m
<1>11. /\ OthersStill(t) /\ TypeOK'
       /\ pc'[t] = "done" /\ op'[t] = op[t] /\ key'[t] = key[t] /\ res'[t] = "threw" /\ loc'[t] = loc[t]
  <2>1. "done" \in Pcs /\ "threw" \in Outcomes
    BY DEF Pcs, Outside, Outcomes
  <2> QED BY <1>2, <1>4, <1>7, <1>10, <2>1 DEF IInv, TypeOK, OthersStill, Still
<1>12. OpOK(t)' /\ OutcomeOK(t)' /\ ArgumentsOK(t)' /\ LocalsOK(t)'
  BY <1>2, <1>3, <1>11 DEF ThreadOK, OpOK, OutcomeOK, ArgumentsOK, LocalsOK, Searching, Reserved, Erasing, KeyOps, Sweeps
<1>13. \A g \in Groups(arrays), n \in Slots : <<g, n>> \in D => Occupied(arrays, g, n)
  BY <1>3, <1>6, OccupiedPlaces
<1>14. SentinelInPlace(arrays')
  <2>1. arrays.built
    BY <1>2, NextTransferred
  <2>2. ASSUME NEW g \in Groups(arrays), NEW n \in Slots
        PROVE  arrays'.meta[g][n] = Sentinel <=> arrays.meta[g][n] = Sentinel
    <3>1. CASE <<g, n>> \in D
      <4>1. arrays'.meta[g][n] = 0 /\ arrays.meta[g][n] # 1
        BY <1>4, <1>13, <3>1 DEF Occupied, Available, Sentinel
      <4> QED BY <4>1 DEF Sentinel
    <3>2. CASE <<g, n>> \notin D
      BY <1>4, <3>2
    <3> QED BY <3>1, <3>2
  <2> QED BY <1>3, <1>4, <1>5, <2>1, <2>2 DEF SentinelInPlace
<1>15. ElementsReached(arrays')
  <2> SUFFICES ASSUME NEW h \in Groups(arrays), NEW m \in Slots, ~Empty(arrays', h, m)
               PROVE  /\ arrays'.meta[h][m] = Hash[arrays'.elem[h][m]].tag
                      /\ Reached(arrays', Hash[arrays'.elem[h][m]], h)
    BY <1>5 DEF ElementsReached
  <2>1. /\ arrays'.elem[h][m] = arrays.elem[h][m] /\ arrays'.meta[h][m] = arrays.meta[h][m]
        /\ ~Empty(arrays, h, m)
    BY <1>4 DEF Empty
  <2>2. arrays.meta[h][m] = Hash[arrays.elem[h][m]].tag /\ Reached(arrays, Hash[arrays.elem[h][m]], h)
    BY <1>3, <2>1 DEF ElementsReached
  <2>3. Hash[arrays.elem[h][m]] \in Hashes
    BY <1>3, <2>1, ArraysTyped, HashTyped DEF Empty
  <2>4. Reached(arrays', Hash[arrays.elem[h][m]], h)
    BY <1>3, <1>4, <2>2, <2>3, ReachedMonotone
  <2> QED BY <2>1, <2>2, <2>4
<1>16. ArraysOK' /\ OncePerKey(newArrays)'
  BY <1>2, <1>7, <1>14, <1>15 DEF ArraysOK
<1>17. OncePerKey(arrays)'
  <2>1. \A h \in Groups(arrays), m \in Slots :
          arrays'.elem[h][m] # NoKey => arrays'.elem[h][m] = arrays.elem[h][m]
    BY <1>4
  <2> QED BY <1>3, <1>5, <2>1 DEF OncePerKey, Empty
<1>18. \A g \in Groups(arrays'), n \in Slots : Occupied(arrays', g, n) => ~Empty(arrays', g, n)
  <2> SUFFICES ASSUME NEW g \in Groups(arrays), NEW n \in Slots, Occupied(arrays', g, n)
               PROVE  ~Empty(arrays', g, n)
    BY <1>5
  <2>1. <<g, n>> \notin D
    BY <1>4 DEF Occupied
  <2> QED BY <1>4, <1>6, <2>1 DEF Occupied, Empty
<1> QED BY <1>2, <1>3, <1>10, <1>11, <1>12, <1>16, <1>17, <1>18, AloneStep DEF Outside

-----------------------------------------------------------------------------
(* The invariant holds of the empty table, and every step preserves it *)

LEMMA InitIInv == ASSUME Init PROVE IInv
<1>1. /\ IsArrays(DummyArrays, Keys) /\ SentinelInPlace(DummyArrays)
      /\ Elements(DummyArrays) = {} /\ OncePerKey(DummyArrays) /\ ElementsReached(DummyArrays)
      /\ InitialMaxLoad(DummyArrays) = 0
      /\ \A g \in Groups(DummyArrays), n \in Slots : Empty(DummyArrays, g, n) /\ ~Occupied(DummyArrays, g, n)
  <2>1. Blank(DummyArrays)
    BY DummyArraysTyped DEF Blank
  <2>2. DummyArrays.groups \in GroupCounts /\ DummyArrays.built \in BOOLEAN /\ ~DummyArrays.built
    BY DummyArraysTyped, ArraysTyped
  <2> QED BY <2>1, <2>2, DummyArraysTyped, BlankArrays, CapacityTyped
<1>2. /\ arrays = DummyArrays /\ newArrays = DummyArrays /\ cursor = 0 /\ size = 0 /\ ml = 0 /\ moved = {}
      /\ \A t \in Threads : /\ pc[t] = "idle" /\ op[t] = "none" /\ key[t] = NoKey /\ res[t] = "none"
                            /\ loc[t] = NoLocals("shared")
      /\ pc = [t \in Threads |-> "idle"] /\ op = [t \in Threads |-> "none"]
      /\ key = [t \in Threads |-> NoKey] /\ res = [t \in Threads |-> "none"]
      /\ loc = [t \in Threads |-> NoLocals("shared")]
  BY DEF Init
<1>3. NoLocals("shared") \in Locals /\ NoLocals("shared").mask = {} /\ NoLocals("shared").batch = <<>>
  BY FreshTyped
<1>4. TypeOK
  <2>1. "idle" \in Pcs
    BY DEF Pcs, Outside
  <2> QED BY <1>1, <1>2, <1>3, <2>1 DEF TypeOK
<1>5. "idle" \notin Inside /\ "idle" # "rehash_move"
  BY DEF Inside, Searching, Reserved, HoldingGroup, Visiting
<1>6. ControlOK
  <2> SUFFICES ASSUME NEW t \in Threads PROVE OpOK(t) /\ OutcomeOK(t) /\ ArgumentsOK(t) /\ LocalsOK(t)
    BY DEF ControlOK
  <2> QED BY <1>2, <1>3 DEF OpOK, OutcomeOK, ArgumentsOK, LocalsOK, Searching, Reserved, Erasing, KeyOps, Sweeps
<1>7. SlotsOwned /\ SweepMasks /\ MasksMatched /\ GroupsMarked /\ CounterTells
  BY <1>1, <1>2 DEF SlotsOwned, OwnsSlot, SweepMasks, SweepOK, MasksMatched, MatchedOK, GroupsMarked, Walked,
     CounterTells, CounterOK, Recorded, Owners, Erasing, Inside, Searching, Reserved, HoldingGroup, Visiting
<1>8. LocksExclude
  BY <1>2, <1>5, ApartFromInside DEF LocksExclude
<1>9. ArraysOK
  BY <1>1, <1>2 DEF ArraysOK
<1>10. NoKeyTwice
  <2>1. \A k \in Keys, g \in Groups(arrays), n \in Slots : ~Has(k, g, n)
    BY <1>1, <1>2, HashAssumption DEF Has, Constructing, Empty
  <2> QED BY <1>1, <1>2, <2>1 DEF NoKeyTwice
<1>11. RehashOK
  <2>1. Rehashing = {}
    BY <1>2 DEF Rehashing
  <2> QED BY <1>2, <2>1 DEF RehashOK
<1>12. Contents = {} /\ Cardinality(Contents) = 0
  <2>1. Contents = {}
    BY <1>1, <1>2 DEF Contents
  <2> QED BY <2>1, FS_EmptySet
<1>13. /\ Count(Reserved) = 0 /\ Count(Granted) = 0 /\ Count(Erasing) = 0 /\ Count({"erase_ml"}) = 0
       /\ \A m : Grantable(m) = 0
  <2>1. \A t \in Threads : pc[t] \notin Inside
    BY <1>2, <1>5
  <2>2. /\ \A S : CountIn(pc, S) = Count(S)
        /\ \A m : GrantableIn(pc, loc, m) = Grantable(m)
    BY DEF CountIn, Count, GrantableIn, Grantable
  <2> QED BY <2>1, <2>2, NoneInside, ApartFromInside
<1>14. SizeAccounts /\ LoadBounded
  BY <1>1, <1>2, <1>12, <1>13 DEF SizeAccounts, LoadBounded, Count, Erasing
<1> QED BY <1>4, <1>6, <1>7, <1>8, <1>9, <1>10, <1>11, <1>14 DEF IInv

LEMMA StutterIInv == ASSUME IInv, UNCHANGED vars PROVE IInv'
<1>1. /\ arrays' = arrays /\ newArrays' = newArrays /\ cursor' = cursor /\ size' = size /\ ml' = ml
      /\ pc' = pc /\ op' = op /\ key' = key /\ res' = res /\ loc' = loc /\ moved' = moved
  BY DEF vars
<1>2. TypeOK'
  BY <1>1 DEF IInv, TypeOK
<1>3. ControlOK'
  BY <1>1 DEF IInv, ControlOK, OpOK, OutcomeOK, ArgumentsOK, LocalsOK
<1>4. LocksExclude'
  BY <1>1 DEF IInv, LocksExclude, LockMode, At, Home
<1>5. ArraysOK'
  BY <1>1 DEF IInv, ArraysOK
<1>6. SlotsOwned' /\ SweepMasks' /\ MasksMatched' /\ GroupsMarked'
  <2>1. SlotsOwned'
    BY <1>1 DEF IInv, SlotsOwned, OwnsSlot, Owns, Rehashing, At, Home
  <2>2. SweepMasks'
    BY <1>1 DEF IInv, SweepMasks, SweepOK
  <2>3. MasksMatched'
    BY <1>1 DEF IInv, MasksMatched, MatchedOK, Matched, At, Home
  <2>4. GroupsMarked'
    BY <1>1 DEF IInv, GroupsMarked, Walked, AllMarked, At, Home
  <2> QED BY <2>1, <2>2, <2>3, <2>4
<1>7. NoKeyTwice'
  BY <1>1 DEF IInv, NoKeyTwice, Has, Constructing, Owns, At, Home
<1>8. CounterTells'
  BY <1>1 DEF IInv, CounterTells, CounterOK, Recorded, Ahead, Has, Constructing, Owns, At, Home
<1>9. SizeAccounts' /\ LoadBounded'
  BY <1>1 DEF IInv, SizeAccounts, LoadBounded, Contents, Count, Grantable
<1>10. RehashOK'
  BY <1>1 DEF IInv, RehashOK, Rehashing, OldArraysOK, NewArraysOK, Contents, Destroyed
<1> QED BY <1>2, <1>3, <1>4, <1>5, <1>6, <1>7, <1>8, <1>9, <1>10 DEF IInv

LEMMA NextIInv == ASSUME IInv, [Next]_vars PROVE IInv'
<1>1. ASSUME NEW t \in Threads, Search(t) PROVE IInv'
  BY <1>1, MatchSlotStep, CompareMissesStep, CompareFindsStep, FinishVisitStep, CheckOverflowStep DEF Search
<1>2. ASSUME NEW t \in Threads, EraseStep(t) PROVE IInv'
  BY <1>2, KeepElementStep, DestroyElementStep, LowerMaxLoadStep, ResetSlotStep, DecreaseSizeStep DEF EraseStep
<1>3. ASSUME NEW t \in Threads, InsertStep(t) PROVE IInv'
  BY <1>3, ReadCounterStep, ReserveSizeStep, CheckSizeStep, UndoSizeStep, ProbeGroupStep, BumpCounterStep,
     ConstructStep, ConstructThrowsStep, RollbackSlotStep, RollbackSizeStep DEF InsertStep
<1>4. ASSUME NEW t \in Threads, Sweep(t) PROVE IInv'
  BY <1>4, SweepGroupStep, SweepSlotStep, SweepErasesStep, SweepLeaves DEF Sweep
<1>5. ASSUME NEW t \in Threads, BulkVisit(t) PROVE IInv'
  BY <1>5, NextBatchStep, BulkMatchSlotStep, NextKeyStep, BulkEndsStep DEF BulkVisit
<1>6. ASSUME NEW t \in Threads, ExclusiveStep(t) PROVE IInv'
  BY <1>6, SkipRehashStep, StartRehashStep, TransferSkipsStep, TransferMovesStep, FinishRehashStep,
     TransferThrowsStep, ReserveTableStep, ClearTableStep DEF ExclusiveStep
<1>7. ASSUME NEW t \in Threads, Call(t) \/ Progress(t) PROVE IInv'
  BY <1>1, <1>2, <1>3, <1>4, <1>5, <1>6, <1>7, CallStep, EnterStep, LeaveStep DEF Progress
<1> QED BY <1>7, StutterIInv DEF Next

\* What the threads rely on holds of every reachable state, for any number of
\* threads, keys and slots to the group, and any hashes.
THEOREM Invariance == Spec => []IInv
<1>1. Init => IInv
  BY InitIInv
<1>2. IInv /\ [Next]_vars => IInv'
  BY NextIInv
<1> QED BY <1>1, <1>2, PTL DEF Spec

-----------------------------------------------------------------------------
(* What follows from it *)

LEMMA EachOnce ==
  ASSUME IInv
  PROVE  OncePerKey(arrays) /\ OncePerKey(newArrays)
<1>1. IsArrays(arrays, Keys)
  BY DEF IInv, TypeOK
<1>2. ASSUME NEW g \in Groups(arrays), NEW h \in Groups(arrays), NEW m \in Slots, NEW n \in Slots,
             ~Empty(arrays, g, m), arrays.elem[g][m] = arrays.elem[h][n]
      PROVE  g = h /\ m = n
  <2>1. arrays.elem[g][m] \in Keys
    BY <1>1, <1>2, ArraysTyped DEF Empty
  <2>2. Has(arrays.elem[g][m], g, m) /\ Has(arrays.elem[g][m], h, n)
    BY <1>2 DEF Has
  <2> QED BY <2>1, <2>2 DEF IInv, NoKeyTwice
<1> QED BY <1>2 DEF IInv, NoKeyTwice, OncePerKey

LEMMA OnceMeansNoDuplicates == ASSUME IInv PROVE NoDuplicates
<1>1. ASSUME NEW a, OncePerKey(a)
      PROVE  \A g, h \in Groups(a), m, n \in Slots :
               a.elem[g][m] = a.elem[h][n] /\ a.elem[g][m] # NoKey => g = h /\ m = n
  BY <1>1 DEF OncePerKey, Empty
<1> QED BY <1>1, EachOnce DEF NoDuplicates

LEMMA ReachedMeansFindable == ASSUME IInv PROVE Findable
<1>1. ASSUME NEW a, ElementsReached(a), NEW g \in Groups(a), NEW n \in Slots, a.elem[g][n] # NoKey
      PROVE  <<g, n>> \in Found(a, Hash[a.elem[g][n]], a.elem[g][n])
  <2>1. a.meta[g][n] = Hash[a.elem[g][n]].tag /\ Reached(a, Hash[a.elem[g][n]], g)
    BY <1>1 DEF ElementsReached, Empty
  <2>2. <<g, n>> \in Places(a)
    BY DEF Places
  <2> QED BY <2>1, <2>2 DEF Found
<1>2. ElementsReached(arrays) /\ ElementsReached(newArrays)
  BY DEF IInv, ArraysOK
<1> QED BY <1>1, <1>2 DEF Findable

LEMMA ComparedAreAlive == ASSUME IInv PROVE ComparesLiveElements
<1> SUFFICES ASSUME NEW t \in Threads, pc[t] = "compare", CanLock(At(t), loc[t].mode), NEW n \in Compared(t)
             PROVE  arrays.elem[At(t)][n] # NoKey
  BY DEF ComparesLiveElements
<1>1. pc[t] \in Searching /\ pc[t] \in Inside
  BY DEF Searching, Inside
<1>2. /\ ThreadOK(t) /\ At(t) \in Groups(arrays) /\ n \in Slots /\ n \in loc[t].mask
      /\ arrays.meta[At(t)][n] # Available
  <2>1. loc[t].mask \subseteq Slots
    BY Mover DEF Locals
  <2> QED BY <1>1, <2>1, Mover, AtTyped DEF ThreadOK, Compared
<1>3. Occupied(arrays, At(t), n)
  BY <1>1, <1>2 DEF ThreadOK, MatchedOK, Matched, Occupied
<1>4. Rehashing = {}
  BY <1>1 DEF IInv, LocksExclude, Rehashing
<1>5. \A u \in Threads : ~Owns(u, At(t), n)
  BY NoOwnerWhereLockable DEF Owns
<1> QED BY <1>2, <1>3, <1>4, <1>5 DEF IInv, SlotsOwned, Empty

LEMMA LoadMeansSizeWithin == ASSUME IInv PROVE SizeWithinMaxLoad
<1> SUFFICES ASSUME InsideThreads = {} PROVE size <= ml /\ ml <= Capacity(arrays)
  BY DEF SizeWithinMaxLoad
<1>1. \A t \in Threads : pc[t] \notin Inside
  BY DEF InsideThreads
<1>2. /\ Count(Reserved) = 0 /\ Count(Granted) = 0 /\ Count(Erasing) = 0 /\ Count({"erase_ml"}) = 0
      /\ Grantable(ml) = 0
  <2>1. /\ \A S : CountIn(pc, S) = Count(S)
        /\ \A m : GrantableIn(pc, loc, m) = Grantable(m)
    BY DEF CountIn, Count, GrantableIn, Grantable
  <2> QED BY <1>1, <2>1, NoneInside, ApartFromInside
<1>3. /\ size \in Nat /\ ml \in Nat /\ Cardinality(Contents) \in Nat
      /\ InitialMaxLoad(arrays) \in Nat /\ Capacity(arrays) \in Nat /\ InitialMaxLoad(arrays) <= Capacity(arrays)
  BY ContentsTyped, ArraysTyped, CapacityTyped DEF IInv, TypeOK
<1>4. size = Cardinality(Contents)
  BY <1>2, <1>3 DEF IInv, SizeAccounts, Count, Erasing
<1>5. Cardinality(Contents) <= ml /\ ml <= InitialMaxLoad(arrays)
  BY <1>2, <1>3 DEF IInv, LoadBounded
<1> QED BY <1>3, <1>4, <1>5

\* The slots that are occupied and have no element are as few as the threads that
\* have a slot.
LEMMA OwnedSlotsCounted ==
  ASSUME IInv, Rehashing = {},
         NEW O, O = {p \in Places(arrays) : Occupied(arrays, p[1], p[2]) /\ Empty(arrays, p[1], p[2])}
  PROVE  IsFiniteSet(O) /\ Cardinality(O) <= Count(Owners)
<1> DEFINE W == {t \in Threads : pc[t] \in Owners}
           f == [t \in W |-> <<At(t), loc[t].slot>>]
<1>1. IsFiniteSet(W) /\ Cardinality(W) = Count(Owners)
  BY FiniteAssumption, FS_Subset DEF Count
<1>2. arrays.groups \in Nat
  BY ArraysTyped DEF IInv, TypeOK
<1>3. ASSUME NEW t \in W PROVE f[t] \in O
  <2>1. ThreadOK(t) /\ loc[t].slot \in Slots /\ At(t) \in Groups(arrays)
    <3>1. t \in Threads /\ pc[t] \in Searching \cup HoldingGroup \cup {"probe"} /\ loc[t].slot \in Slots
      BY Mover DEF Owners, HoldingGroup, Locals
    <3> QED BY <3>1, Mover, AtTyped DEF ThreadOK
  <2>2. Occupied(arrays, At(t), loc[t].slot) /\ Empty(arrays, At(t), loc[t].slot)
    BY <2>1 DEF ThreadOK, OwnsSlot
  <2> QED BY <1>2, <2>1, <2>2, OccupiedPlaces
<1>4. ASSUME NEW p \in O PROVE \E t \in W : f[t] = p
  <2>1. p = <<p[1], p[2]>> /\ p[1] \in Groups(arrays) /\ p[2] \in Slots
    BY <1>2, OccupiedPlaces
  <2>2. PICK t \in Threads : Owns(t, p[1], p[2])
    BY <2>1 DEF IInv, SlotsOwned
  <2> QED BY <2>1, <2>2 DEF Owns
<1>5. f \in Surjection(W, O)
  BY <1>3, <1>4 DEF Surjection
<1> HIDE DEF W, f
<1> QED BY <1>1, <1>5, FS_Surjection

LEMMA RoomEnough == ASSUME IInv PROVE RoomForReserved
<1> DEFINE A == {p \in Places(arrays) : arrays.meta[p[1]][p[2]] = Available}
           c == Count({"probe"})
<1>1. /\ IsArrays(arrays, Keys) /\ IsArrays(newArrays, Keys) /\ arrays.groups \in GroupCounts /\ arrays.groups \in Nat
      /\ SentinelInPlace(arrays)
  BY ArraysTyped DEF IInv, TypeOK, ArraysOK
<1>2. IsFiniteSet(A) /\ Cardinality(A) \in Nat /\ c \in Nat
  <2>1. IsFiniteSet(A)
    BY <1>1, PlacesCounted, FS_Subset
  <2>2. c = CountIn(pc, {"probe"})
    BY DEF Count, CountIn
  <2> QED BY <2>1, <2>2, CountTyped, FS_CardinalityType
<1>3. c = Cardinality({t \in Threads : pc[t] = "probe"})
  <2>1. {t \in Threads : pc[t] \in {"probe"}} = {t \in Threads : pc[t] = "probe"}
    OBVIOUS
  <2> QED BY <2>1 DEF Count
<1>4. CASE Rehashing # {}
  <2>1. \A t \in Threads : pc[t] # "probe"
    BY <1>4 DEF IInv, LocksExclude, Rehashing, Inside, Reserved
  <2>2. {t \in Threads : pc[t] = "probe"} = {}
    BY <2>1
  <2>3. c = 0
    BY <1>3, <2>2, FS_EmptySet
  <2> HIDE DEF A, c
  <2> QED BY <1>2, <1>3, <2>3 DEF RoomForReserved, A
<1>5. CASE Rehashing = {}
  <2> DEFINE P == {p \in Places(arrays) : arrays.elem[p[1]][p[2]] # NoKey}
             O == {p \in Places(arrays) : Occupied(arrays, p[1], p[2]) /\ Empty(arrays, p[1], p[2])}
             M == MatchReallyOccupied(arrays)
             R == {"bump", "construct", "rollback_slot"}
             Q == {"erase_ml", "erase_meta"}
  <2>1. IsFiniteSet(P) /\ Cardinality(P) = Cardinality(Elements(arrays)) /\ Contents = Elements(arrays)
    <3>1. \A g, h \in Groups(arrays), m, n \in Slots :
            arrays.elem[g][m] # NoKey /\ arrays.elem[g][m] = arrays.elem[h][n] => g = h /\ m = n
      BY EachOnce DEF OncePerKey, Empty
    <3>2. Contents = Elements(arrays)
      BY <1>5, ContentsOfArrays DEF IInv, RehashOK
    <3> QED BY <1>1, <3>1, <3>2, PlacesOfElements, FiniteAssumption, HashAssumption
  <2>2. IsFiniteSet(O) /\ Cardinality(O) <= Count(Owners) /\ Cardinality(O) \in Nat
    BY <1>5, OwnedSlotsCounted, FS_CardinalityType
  <2>3. M \subseteq P \cup O
    BY <1>1, OccupiedPlaces DEF Empty
  <2> HIDE DEF P, O, M
  <2>4. Cardinality(M) \in Nat /\ Cardinality(M) <= Cardinality(P) + Cardinality(O) /\ Cardinality(P) \in Nat
    <3>1. IsFiniteSet(P \cup O) /\ Cardinality(P \cup O) <= Cardinality(P) + Cardinality(O)
      <4>1. IsFiniteSet(P \cap O) /\ Cardinality(P \cap O) \in Nat /\ Cardinality(P) \in Nat
        BY <2>1, FS_Intersection, FS_CardinalityType
      <4>2. /\ IsFiniteSet(P \cup O)
            /\ Cardinality(P \cup O) = Cardinality(P) + Cardinality(O) - Cardinality(P \cap O)
        BY <2>1, <2>2, FS_Union
      <4> QED BY <2>2, <4>1, <4>2
    <3>2. IsFiniteSet(M) /\ Cardinality(M) <= Cardinality(P \cup O)
      BY <2>3, <3>1, FS_Subset
    <3> QED BY <2>1, <2>2, <3>1, <3>2, FS_CardinalityType
  <2>5. Count(Owners) + c <= Count(Granted) + Count(Erasing) /\ Count(Owners) \in Nat
        /\ Count(Granted) \in Nat /\ Count(Erasing) \in Nat
    <3>1. /\ Owners = R \cup Q /\ Granted = {"probe"} \cup (R \cup {"rollback_size"})
          /\ Erasing = Q \cup {"erase_size"}
          /\ R \cap Q = {} /\ {"probe"} \cap (R \cup {"rollback_size"}) = {} /\ R \cap {"rollback_size"} = {}
          /\ Q \cap {"erase_size"} = {}
      BY DEF Owners, Granted, Erasing
    <3> HIDE DEF R, Q
    <3>2. \A S : CountIn(pc, S) = Count(S) /\ Count(S) \in Nat
      BY CountTyped DEF CountIn, Count
    <3>3. Count(Owners) = Count(R) + Count(Q)
      BY <3>1, <3>2, CountOfUnion
    <3>4. Count(Granted) = c + Count(R \cup {"rollback_size"})
      BY <3>1, <3>2, CountOfUnion
    <3>5. Count(R \cup {"rollback_size"}) = Count(R) + Count({"rollback_size"})
      BY <3>1, <3>2, CountOfUnion
    <3>6. Count(Erasing) = Count(Q) + Count({"erase_size"})
      BY <3>1, <3>2, CountOfUnion
    <3> HIDE DEF c
    <3> QED BY <1>2, <3>2, <3>3, <3>4, <3>5, <3>6
  <2>6. Cardinality(M) + c <= Capacity(arrays)
    <3>1. /\ InitialMaxLoad(arrays) \in Nat /\ Capacity(arrays) \in Nat
          /\ InitialMaxLoad(arrays) <= Capacity(arrays) /\ Cardinality(Contents) \in Nat
      BY <1>1, ArraysTyped, CapacityTyped, ContentsTyped
    <3>2. Cardinality(Contents) + Count(Granted) + Count(Erasing) <= InitialMaxLoad(arrays)
      <4>1. Grantable(InitialMaxLoad(arrays)) \in Nat
        BY <3>1, Mover, GrantableMonotone DEF IInv, TypeOK, ThreadsTyped
      <4> QED BY <2>5, <3>1, <4>1 DEF IInv, LoadBounded
    <3> HIDE DEF c
    <3> QED BY <1>2, <2>1, <2>2, <2>4, <2>5, <3>1, <3>2
  <2>7. c <= Cardinality(A)
    BY <1>1, <1>2, <2>6, RoomLeft DEF M
  <2> QED BY <1>3, <2>7 DEF RoomForReserved
<1> QED BY <1>4, <1>5

-----------------------------------------------------------------------------
(* The theorems *)

\* Of threads inserting the same key at the same time one succeeds: no key is
\* ever in two slots, which nothing but the insertion counter prevents.
THEOREM NeverDuplicated == Spec => []NoDuplicates
<1>1. IInv => NoDuplicates
  BY OnceMeansNoDuplicates
<1> QED BY <1>1, Invariance, PTL

\* Every element can be found: the groups before its own are marked as
\* overflowed, whatever threads insert, erase and rehash.
THEOREM AlwaysFindable == Spec => []Findable
<1>1. IInv => Findable
  BY ReachedMeansFindable
<1> QED BY <1>1, Invariance, PTL

\* A lookup that has got the lock of a group compares only elements that are
\* alive, though it read the group's metadata without the lock.
THEOREM OnlyLiveCompared == Spec => []ComparesLiveElements
<1>1. IInv => ComparesLiveElements
  BY ComparedAreAlive
<1> QED BY <1>1, Invariance, PTL

\* The atomic size counts the elements, the reservations and the erasures that
\* have yet to decrease it.
THEOREM SizeIsAccounted == Spec => []SizeAccounts
<1>1. IInv => SizeAccounts
  BY DEF IInv
<1> QED BY <1>1, Invariance, PTL

\* With nobody inside the size is at most the maximum load, so that a full table
\* is noticed and rehashed.
THEOREM NeverOverloaded == Spec => []SizeWithinMaxLoad
<1>1. IInv => SizeWithinMaxLoad
  BY LoadMeansSizeWithin
<1> QED BY <1>1, Invariance, PTL

\* Whoever has been granted a reservation finds a slot.
THEOREM AlwaysRoom == Spec => []RoomForReserved
<1>1. IInv => RoomForReserved
  BY RoomEnough
<1> QED BY <1>1, Invariance, PTL
=============================================================================
