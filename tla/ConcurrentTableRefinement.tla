----------------------- MODULE ConcurrentTableRefinement -----------------------
(***************************************************************************)
(* ConcurrentTable implements ConcurrentSet: AnswersOK is an invariant, by  *)
(* which each step of the table is a step of the set or changes nothing of  *)
(* it.                                                                      *)
(***************************************************************************)
EXTENDS ConcurrentTableProofs

\* What AnswersOK says of one thread, but for what its history variables have.
Answers(t) == CallOK(t) /\ LookupOK(t) /\ BatchOK(t) /\ SweepMeets(t)

\* A step of t.
Moves(t) == IInv /\ IInv' /\ AnswersOK /\ Watch /\ OthersStill(t)

-----------------------------------------------------------------------------
(* The history variables *)

LEMMA KeysLeftTyped ==
  ASSUME NEW l \in Locals
  PROVE  KeysLeft(l) \subseteq Keys
<1>1. l.todo \in Seq(Keys) /\ l.batch \in Seq(Matches)
  BY DEF Locals
<1>2. \A i \in DOMAIN l.todo : l.todo[i] \in Keys
  BY <1>1
<1>3. \A i \in DOMAIN l.batch : l.batch[i].key \in Keys
  <2>1. \A i \in DOMAIN l.batch : l.batch[i] \in Matches
    BY <1>1
  <2> QED BY <2>1 DEF Matches
<1> QED BY <1>2, <1>3 DEF KeysLeft

LEMMA AskedTyped ==
  ASSUME NEW o, NEW k, NEW l \in Locals, NEW r
  PROVE  Asked(o, k, l, r) \subseteq Keys
BY KeysLeftTyped DEF Asked

LEMMA WatchMissed ==
  ASSUME Watch, NEW u \in Threads
  PROVE  missed'[u] = {k \in Asked(op'[u], key'[u], loc'[u], res'[u]) : k \in missed[u] \/ k \notin Contents'}
BY DEF Watch

LEMMA WatchUnmet ==
  ASSUME Watch, NEW u \in Threads
  PROVE  unmet'[u] = IF op'[u] \notin Sweeps \/ res'[u] # "none" THEN {}
                     ELSE IF op[u] = "none" THEN Keys
                     ELSE (unmet[u] \ Met(u)) \cup (Contents' \ Contents)
BY DEF Watch

LEMMA HistoryKept ==
  ASSUME IInv, IInv', AnswersOK, Watch
  PROVE  HistoryTyped' /\ \A u \in Threads : MissedOK(u)'
<1>1. missed' \in [Threads -> SUBSET Keys]
  <2>1. \A u \in Threads : Asked(op'[u], key'[u], loc'[u], res'[u]) \subseteq Keys
    BY AskedTyped DEF IInv, TypeOK
  <2> QED BY <2>1 DEF Watch
<1>2. unmet' \in [Threads -> SUBSET Keys]
  <2>1. Contents' \subseteq Keys
    <3>1. (IsArrays(arrays, Keys) /\ IsArrays(newArrays, Keys))'
      BY DEF IInv, TypeOK
    <3>2. \A a : IsArrays(a, Keys) => Elements(a) \subseteq Keys
      BY FiniteAssumption, HashAssumption, ElementsCounted
    <3> QED BY <3>1, <3>2 DEF Contents
  <2>2. unmet \in [Threads -> SUBSET Keys]
    BY DEF AnswersOK, HistoryTyped
  <2> QED BY <2>1, <2>2 DEF Watch
<1>3. \A u \in Threads : MissedOK(u)'
  BY WatchMissed DEF MissedOK
<1> QED BY <1>1, <1>2, <1>3 DEF HistoryTyped

\* A key asked for that is not known to have been missing is there, and was.
LEMMA Unmissed ==
  ASSUME AnswersOK, Watch, NEW u \in Threads,
         NEW k \in Asked(op'[u], key'[u], loc'[u], res'[u]), k \notin missed'[u]
  PROVE  /\ k \in Contents' /\ k \notin missed[u]
         /\ k \in Asked(op[u], key[u], loc[u], res[u]) => k \in Contents
<1>1. k \in Contents' /\ k \notin missed[u]
  BY WatchMissed
<1>2. MissedOK(u)
  BY DEF AnswersOK
<1> QED BY <1>1, <1>2 DEF MissedOK

LEMMA ElementThere ==
  ASSUME NEW a, NEW g \in Groups(a), NEW n \in Slots, ~Empty(a, g, n)
  PROVE  a.elem[g][n] \in Elements(a)
<1>1. <<g, n>> \in Places(a)
  BY DEF Places
<1> QED BY <1>1 DEF Elements, Empty

LEMMA ElementSomewhere ==
  ASSUME NEW a, NEW k \in Elements(a)
  PROVE  \E g \in Groups(a), n \in Slots : a.elem[g][n] = k /\ ~Empty(a, g, n)
BY DEF Elements, Places, Empty

-----------------------------------------------------------------------------
(* Threads that do not move *)

\* Elements that stay keep their slots.
Settled ==
  /\ arrays'.groups = arrays.groups
  /\ \A g \in Groups(arrays) : arrays.overflow[g] \subseteq arrays'.overflow[g]
  /\ \A g \in Groups(arrays), n \in Slots :
       /\ arrays.elem[g][n] \in Contents' => arrays'.elem[g][n] = arrays.elem[g][n]
       /\ arrays'.elem[g][n] \in Contents => arrays'.elem[g][n] = arrays.elem[g][n]

LEMMA AheadSettled ==
  ASSUME IsArrays(arrays, Keys), Settled, NEW u \in Threads, Still(u), key[u] \in Keys,
         NEW g \in Groups(arrays), NEW n \in Slots, Ahead(u, g, n)
  PROVE  Ahead(u, g, n)'
<1>1. PICK i \in Groups(arrays) :
        /\ Probe(arrays, Home(arrays, key[u]), i) = g /\ Passed(arrays, Hash[key[u]], i)
        /\ \/ i > loc[u].step
           \/ i = loc[u].step /\ pc[u] = "match" /\ (n \in loc[u].mask \/ n \notin loc[u].scan)
           \/ i = loc[u].step /\ pc[u] = "compare" /\ n \in loc[u].mask
  BY DEF Ahead
<1>2. arrays.groups \in GroupCounts /\ i \in Nat
  BY ArraysTyped DEF Groups
<1>3. Passed(arrays', Hash[key[u]], i)
  BY <1>1, <1>2, HashTyped, PassedMonotone DEF Settled
<1>4. /\ Groups(arrays') = Groups(arrays) /\ Home(arrays', key[u]) = Home(arrays, key[u])
      /\ Probe(arrays', Home(arrays, key[u]), i) = Probe(arrays, Home(arrays, key[u]), i)
  BY SameGroups DEF Settled, Home
<1> QED BY <1>1, <1>3, <1>4 DEF Ahead, Still

LEMMA OthersAnswer ==
  ASSUME NEW t \in Threads, Moves(t), NEW u \in Threads, u # t, pc[u] \in Inside => Settled
  PROVE  Answers(u)'
<1>1. Still(u) /\ Answers(u) /\ MissedOK(u)
  BY DEF Moves, AnswersOK, OthersStill, Answers
<1>2. /\ pc'[u] = pc[u] /\ op'[u] = op[u] /\ key'[u] = key[u] /\ res'[u] = res[u] /\ loc'[u] = loc[u]
      /\ Asked(op'[u], key'[u], loc'[u], res'[u]) = Asked(op[u], key[u], loc[u], res[u])
  BY <1>1 DEF Still
<1>3. ThreadOK(u) /\ IsArrays(arrays, Keys) /\ loc[u] \in Locals
  BY Mover DEF Moves
<1>4. \A k \in Asked(op[u], key[u], loc[u], res[u]) :
        k \notin missed'[u] => k \in Contents' /\ k \notin missed[u] /\ k \in Contents
  BY <1>2, Unmissed DEF Moves
<1>5. CallOK(u)'
  BY <1>1, <1>2 DEF Answers, CallOK
<1>6. Settled => Groups(arrays') = Groups(arrays) /\ \A k : Home(arrays', k) = Home(arrays, k)
  BY SameGroups DEF Settled, Home
<1>7. LookupOK(u)'
  <2> SUFFICES ASSUME pc[u] \in Searching, op[u] # "insert", key[u] \notin missed'[u]
               PROVE  \E g \in Groups(arrays'), n \in Slots : arrays'.elem[g][n] = key[u] /\ Ahead(u, g, n)'
    BY <1>2 DEF LookupOK
  <2>1. Settled /\ key[u] \in Keys /\ op[u] \notin Sweeps /\ res[u] = "none"
    BY <1>3 DEF ThreadOK, OpOK, OutcomeOK, ArgumentsOK, Searching, Inside, KeyOps, Sweeps, Erasing
  <2>2. key[u] \in Asked(op[u], key[u], loc[u], res[u])
    BY <2>1 DEF Asked
  <2>3. PICK g \in Groups(arrays), n \in Slots : arrays.elem[g][n] = key[u] /\ Ahead(u, g, n)
    BY <1>1, <1>4, <2>2 DEF Answers, LookupOK
  <2>4. arrays'.elem[g][n] = key[u]
    BY <1>4, <2>1, <2>2, <2>3 DEF Settled
  <2>5. Ahead(u, g, n)'
    BY <1>1, <1>3, <2>1, <2>3, AheadSettled
  <2> QED BY <1>6, <2>1, <2>4, <2>5
<1>8. BatchOK(u)'
  <2> SUFFICES ASSUME op[u] = "bulk", pc[u] \in Inside, NEW i \in 1 .. Len(loc[u].batch),
                      loc[u].batch[i].key \notin missed'[u]
               PROVE  \E g \in Groups(arrays'), n \in Slots :
                        /\ arrays'.elem[g][n] = loc[u].batch[i].key
                        /\ g = Home(arrays', loc[u].batch[i].key) => Recording(u, i, n)'
    BY <1>2 DEF BatchOK
  <2>1. Settled
    OBVIOUS
  <2>2. loc[u].batch[i].key \in Asked(op[u], key[u], loc[u], res[u])
    <3>1. loc[u].batch \in Seq(Matches)
      BY <1>3 DEF Locals
    <3> QED BY <3>1 DEF Asked, KeysLeft
  <2>3. PICK g \in Groups(arrays), n \in Slots :
          /\ arrays.elem[g][n] = loc[u].batch[i].key
          /\ g = Home(arrays, loc[u].batch[i].key) => Recording(u, i, n)
    BY <1>1, <1>4, <2>2 DEF Answers, BatchOK
  <2>4. arrays'.elem[g][n] = loc[u].batch[i].key
    BY <1>4, <2>1, <2>2, <2>3 DEF Settled
  <2>5. Recording(u, i, n)' <=> Recording(u, i, n)
    BY <1>2 DEF Recording
  <2> QED BY <1>6, <2>1, <2>3, <2>4, <2>5
<1>9. SweepMeets(u)'
  <2>1. unmet'[u] = IF op[u] \notin Sweeps \/ res[u] # "none" THEN {} ELSE unmet[u] \cup (Contents' \ Contents)
    <3>1. Met(u) = {} /\ (op[u] = "none" => op[u] \notin Sweeps)
      BY <1>2 DEF Met, Sweeps
    <3> QED BY <1>2, <3>1, WatchUnmet DEF Moves
  <2>2. op[u] \in Sweeps /\ pc[u] = "enter" => unmet'[u] = Keys
    <3>1. unmet'[u] \subseteq Keys
      BY HistoryKept DEF HistoryTyped, Moves
    <3>2. op[u] \in Sweeps /\ pc[u] = "enter" => unmet[u] = Keys /\ res[u] = "none"
      BY <1>1, <1>3 DEF Answers, SweepMeets, ThreadOK, OutcomeOK, Erasing
    <3> QED BY <2>1, <3>1, <3>2
  <2>3. ASSUME op[u] \in Sweeps, pc[u] \in {"sweep", "sweep_slot"} \cup Erasing
        PROVE  /\ pc[u] # "sweep" => loc[u].step \in loc[u].scan
               /\ \A g \in Groups(arrays'), n \in Slots :
                    ToVisit(u, g, n)' /\ ~Empty(arrays', g, n) => arrays'.elem[g][n] \in unmet'[u]
               /\ \A k \in unmet'[u] \ missed'[u] :
                    \E g \in Groups(arrays'), n \in Slots : arrays'.elem[g][n] = k /\ ToVisit(u, g, n)'
    <3>1. Settled /\ res[u] = "none"
      BY <1>3, <2>3 DEF ThreadOK, OutcomeOK, Inside, HoldingGroup, Visiting, Erasing, Sweeps
    <3>2. \A g, n : ToVisit(u, g, n)' <=> ToVisit(u, g, n)
      BY <1>2 DEF ToVisit
    <3>3. Asked(op[u], key[u], loc[u], res[u]) = Keys
      BY <2>3, <3>1, <1>3, KeysLeftTyped DEF Asked, Sweeps
    <3>4. ASSUME NEW g \in Groups(arrays), NEW n \in Slots, ToVisit(u, g, n), ~Empty(arrays', g, n)
          PROVE  arrays'.elem[g][n] \in unmet'[u]
      <4>1. arrays'.elem[g][n] \in Contents'
        BY <1>6, <3>1, <3>4, ElementThere DEF Contents
      <4>2. CASE arrays'.elem[g][n] \in Contents
        <5>1. arrays'.elem[g][n] = arrays.elem[g][n] /\ ~Empty(arrays, g, n)
          BY <3>1, <3>4, <4>2 DEF Settled, Empty
        <5>2. arrays.elem[g][n] \in unmet[u]
          BY <1>1, <2>3, <3>4, <5>1 DEF Answers, SweepMeets
        <5> QED BY <2>1, <2>3, <3>1, <5>1, <5>2
      <4> QED BY <2>1, <2>3, <3>1, <4>1, <4>2
    <3>5. ASSUME NEW k \in unmet'[u] \ missed'[u]
          PROVE  \E g \in Groups(arrays), n \in Slots : arrays'.elem[g][n] = k /\ ToVisit(u, g, n)
      <4>1. k \in Keys
        BY HistoryKept DEF HistoryTyped, Moves
      <4>2. k \in Contents' /\ k \notin missed[u] /\ k \in Contents
        BY <1>4, <3>3, <3>5, <4>1
      <4>3. k \in unmet[u]
        BY <2>1, <2>3, <3>1, <3>5, <4>2
      <4>4. PICK g \in Groups(arrays), n \in Slots : arrays.elem[g][n] = k /\ ToVisit(u, g, n)
        BY <1>1, <2>3, <4>2, <4>3 DEF Answers, SweepMeets
      <4> QED BY <3>1, <4>2, <4>4 DEF Settled
    <3>6. pc[u] # "sweep" => loc[u].step \in loc[u].scan
      BY <1>1, <2>3 DEF Answers, SweepMeets
    <3> QED BY <1>6, <3>1, <3>2, <3>4, <3>5, <3>6
  <2>4. op[u] \notin Sweeps \/ res[u] # "none" => unmet'[u] = {}
    BY <2>1
  <2> QED BY <1>2, <2>2, <2>3, <2>4 DEF SweepMeets
<1> QED BY <1>5, <1>7, <1>8, <1>9 DEF Answers

\* While a thread is inside, all elements are in the arrays in use.
LEMMA InUse ==
  ASSUME IInv, NEW t \in Threads, pc[t] \in Inside
  PROVE  newArrays = DummyArrays /\ Contents = Elements(arrays) /\ Elements(DummyArrays) = {}
<1>1. newArrays = DummyArrays
  BY InsideAlone DEF IInv, RehashOK
<1>2. Elements(DummyArrays) = {}
  BY DummyArraysTyped DEF Elements, Places
<1> QED BY <1>1, <1>2, ContentsOfArrays

LEMMA SameElementsSettled ==
  ASSUME arrays'.groups = arrays.groups, arrays'.elem = arrays.elem, UNCHANGED newArrays,
         \A g \in Groups(arrays) : arrays.overflow[g] \subseteq arrays'.overflow[g]
  PROVE  Settled /\ Contents' = Contents
<1>1. Elements(arrays') = Elements(arrays)
  BY SameGroups DEF Elements, Places
<1> QED BY <1>1 DEF Settled, Contents

LEMMA InsertionSettled ==
  ASSUME IInv, NEW t \in Threads, pc[t] \in Inside, UNCHANGED newArrays,
         NEW g \in Groups(arrays), NEW n \in Slots, Empty(arrays, g, n),
         NEW k \in Keys, Has(k, g, n), arrays' = SetElem(arrays, g, n, k)
  PROVE  Settled /\ Contents' = Contents \cup {k} /\ k \notin Contents
<1>1. IsArrays(arrays, Keys) /\ k # NoKey
  BY HashAssumption DEF IInv, TypeOK
<1>2. /\ IsArrays(arrays', Keys) /\ arrays'.groups = arrays.groups
      /\ arrays'.overflow = arrays.overflow /\ arrays'.elem[g][n] = k
      /\ \A h \in Groups(arrays), m \in Slots : h # g \/ m # n => arrays'.elem[h][m] = arrays.elem[h][m]
  <2>1. k \in Keys \cup {NoKey}
    OBVIOUS
  <2> QED BY <1>1, <2>1, ElementWritten
<1>3. Groups(arrays') = Groups(arrays)
  BY <1>2, SameGroups
<1>4. \A h \in Groups(arrays), m \in Slots : h # g \/ m # n => arrays.elem[h][m] # k
  <2>1. \A h \in Groups(arrays), m \in Slots : Has(k, h, m) => h = g /\ m = n
    BY DEF IInv, NoKeyTwice
  <2> QED BY <2>1 DEF Has
<1>5. Contents = Elements(arrays) /\ Contents' = Elements(arrays')
  BY InUse DEF Contents
<1>6. Elements(arrays') = Elements(arrays) \cup {k} /\ k \notin Elements(arrays)
  <2>1. arrays'.elem[g][n] # NoKey /\ arrays.elem[g][n] = NoKey
    BY <1>1, <1>2 DEF Empty
  <2>2. \A h \in Groups(arrays'), m \in Slots : h # g \/ m # n =>
          arrays.elem[h][m] = arrays'.elem[h][m] /\ arrays'.elem[h][m] # arrays'.elem[g][n]
    BY <1>2, <1>3, <1>4
  <2> QED BY <1>1, <1>2, <1>3, <2>1, <2>2, ElementGone, FiniteAssumption, HashAssumption
<1>7. ASSUME NEW h \in Groups(arrays), NEW m \in Slots,
             arrays.elem[h][m] \in Contents' \/ arrays'.elem[h][m] \in Contents
      PROVE  arrays'.elem[h][m] = arrays.elem[h][m]
  <2>1. NoKey \notin Contents'
    <3>1. Contents' \subseteq Keys
      BY <1>2, <1>5, ElementsCounted, FiniteAssumption, HashAssumption
    <3> QED BY <3>1, HashAssumption
  <2>2. CASE h = g /\ m = n
    BY <1>2, <1>5, <1>6, <1>7, <2>1, <2>2 DEF Empty
  <2> QED BY <1>2, <2>2
<1>8. Settled
  BY <1>2, <1>7 DEF Settled
<1> QED BY <1>5, <1>6, <1>8

LEMMA ErasureSettled ==
  ASSUME IInv, NEW t \in Threads, pc[t] \in Inside, UNCHANGED newArrays,
         NEW g \in Groups(arrays), NEW n \in Slots, ~Empty(arrays, g, n),
         arrays' = SetElem(arrays, g, n, NoKey)
  PROVE  /\ Settled /\ Contents' = Contents \ {arrays.elem[g][n]} /\ arrays.elem[g][n] \in Contents
         /\ \A h \in Groups(arrays), m \in Slots : h # g \/ m # n =>
              arrays'.elem[h][m] = arrays.elem[h][m] /\ arrays.elem[h][m] # arrays.elem[g][n]
<1>1. IsArrays(arrays, Keys) /\ arrays.elem[g][n] \in Keys
  BY ArraysTyped DEF IInv, TypeOK, Empty
<1>2. /\ IsArrays(arrays', Keys) /\ arrays'.groups = arrays.groups
      /\ arrays'.overflow = arrays.overflow /\ arrays'.elem[g][n] = NoKey
      /\ \A h \in Groups(arrays), m \in Slots : h # g \/ m # n => arrays'.elem[h][m] = arrays.elem[h][m]
  BY <1>1, ElementWritten
<1>3. \A h \in Groups(arrays), m \in Slots : h # g \/ m # n => arrays.elem[h][m] # arrays.elem[g][n]
  <2>1. OncePerKey(arrays)
    BY EachOnce
  <2> QED BY <2>1 DEF OncePerKey
<1>4. Contents = Elements(arrays) /\ Contents' = Elements(arrays')
  BY InUse DEF Contents
<1>5. Elements(arrays) = Elements(arrays') \cup {arrays.elem[g][n]} /\ arrays.elem[g][n] \notin Elements(arrays')
  <2>1. arrays.elem[g][n] # NoKey
    BY DEF Empty
  <2> QED BY <1>1, <1>2, <1>3, <2>1, ElementGone, FiniteAssumption, HashAssumption
<1>6. ASSUME NEW h \in Groups(arrays), NEW m \in Slots,
             arrays.elem[h][m] \in Contents' \/ arrays'.elem[h][m] \in Contents
      PROVE  arrays'.elem[h][m] = arrays.elem[h][m]
  <2>1. NoKey \notin Contents
    <3>1. Contents \subseteq Keys
      BY <1>1, <1>4, ElementsCounted, FiniteAssumption, HashAssumption
    <3> QED BY <3>1, HashAssumption
  <2>2. CASE h = g /\ m = n
    BY <1>2, <1>4, <1>5, <1>6, <2>1, <2>2
  <2> QED BY <1>2, <2>2
<1>7. Settled
  BY <1>2, <1>6 DEF Settled
<1>8. Contents' = Contents \ {arrays.elem[g][n]} /\ arrays.elem[g][n] \in Contents
  BY <1>4, <1>5
<1> QED BY <1>2, <1>3, <1>7, <1>8

-----------------------------------------------------------------------------
(* Steps of the set *)

Left(u) == KeysLeft(loc[u]) \cup unmet[u]

\* Each step keeps AnswersOK, and is a step of the set or none.
Refines == AnswersOK' /\ [Set!Next]_(Set!vars)

\* A step of t after which the others will answer as before.
Acts(t) == /\ Moves(t)
           /\ \A u \in Threads : u # t /\ pc[u] \in Inside => Settled

LEMMA NothingLeft ==
  ASSUME NEW l, l.todo = <<>>, l.batch = <<>>
  PROVE  KeysLeft(l) = {} /\ EachKeyOnce(l)
<1>1. DOMAIN l.todo = {} /\ DOMAIN l.batch = {} /\ Len(l.todo) = 0 /\ Len(l.batch) = 0
  OBVIOUS
<1>2. 1 .. 0 = {}
  OBVIOUS
<1> QED BY <1>1, <1>2 DEF KeysLeft, EachKeyOnce

LEMMA AnswersKept ==
  ASSUME NEW t \in Threads, Acts(t), Answers(t)'
  PROVE  AnswersOK' /\ Set!Watch
<1>1. IInv /\ IInv' /\ AnswersOK /\ Watch
  BY DEF Acts, Moves
<1>2. ASSUME NEW u \in Threads PROVE Answers(u)'
  BY OthersAnswer DEF Acts
<1>3. AnswersOK'
  BY <1>1, <1>2, HistoryKept DEF AnswersOK, Answers
<1>4. ASSUME NEW u \in Threads
      PROVE  Set!Asked(op'[u], key'[u], KeysLeft(loc'[u]) \cup unmet'[u], res'[u])
               = Asked(op'[u], key'[u], loc'[u], res'[u])
  <2>1. CASE op'[u] = "bulk"
    <3>1. unmet'[u] = {}
      BY <1>1, <2>1, WatchUnmet DEF Sweeps
    <3> QED BY <2>1, <3>1 DEF Set!Asked, Asked, Set!Sweeps, Sweeps
  <2>2. CASE op'[u] # "bulk"
    <3>1. loc'[u].todo = <<>> /\ loc'[u].batch = <<>>
      BY <1>2, <2>2 DEF Answers, CallOK
    <3>2. KeysLeft(loc'[u]) = {}
      BY <3>1, NothingLeft
    <3> QED BY <2>2, <3>2 DEF Set!Asked, Asked, Set!Sweeps, Sweeps
  <2> QED BY <2>1, <2>2
<1>5. \A u \in Threads :
        missed'[u] = {k \in Set!Asked(op'[u], key'[u], KeysLeft(loc'[u]) \cup unmet'[u], res'[u]) :
                        k \in missed[u] \/ k \notin Contents'}
  BY <1>1, <1>4, WatchMissed
<1>6. missed' = [u \in Threads |->
        {k \in Set!Asked(op'[u], key'[u], KeysLeft(loc'[u]) \cup unmet'[u], res'[u]) :
           k \in missed[u] \/ k \notin Contents'}]
  <2>1. missed' = [u \in Threads |-> missed'[u]]
    BY <1>1 DEF Watch
  <2> QED BY <1>5, <2>1
<1>7. Set!Watch
  BY <1>6 DEF Set!Watch
<1> QED BY <1>3, <1>7

LEMMA OthersLeft ==
  ASSUME NEW t \in Threads, Moves(t), NEW u \in Threads, u # t
  PROVE  Left(u)' = IF op[u] \in Sweeps /\ res[u] = "none" THEN Left(u) \cup (Contents' \ Contents)
                    ELSE Left(u)
<1>1. Still(u) /\ SweepMeets(u)
  BY DEF Moves, AnswersOK, OthersStill
<1>2. Met(u) = {} /\ (op[u] = "none" => op[u] \notin Sweeps)
  BY <1>1 DEF Met, Sweeps, Still
<1>3. unmet'[u] = IF op[u] \notin Sweeps \/ res[u] # "none" THEN {} ELSE unmet[u] \cup (Contents' \ Contents)
  BY <1>1, <1>2, WatchUnmet DEF Moves, Still
<1> QED BY <1>1, <1>3 DEF Left, SweepMeets, Still

LEMMA LeftOfStep ==
  ASSUME NEW t \in Threads, Moves(t), NEW X,
         Left(t)' = IF op[t] \in Sweeps /\ res[t] = "none" THEN X \cup (Contents' \ Contents) ELSE X
  PROVE  Set!LeftOf(t, X)
<1> DEFINE left == [u \in Threads |-> KeysLeft(loc[u]) \cup unmet[u]]
           rest == [left EXCEPT ![t] = X]
           next == [u \in Threads |-> IF Set!Sweeping(u) THEN rest[u] \cup (Contents' \ Contents) ELSE rest[u]]
<1>1. \A u \in Threads : Set!Sweeping(u) <=> op[u] \in Sweeps /\ res[u] = "none"
  BY DEF Set!Sweeping, Set!Sweeps, Sweeps
<1>2. ASSUME NEW u \in Threads PROVE Left(u)' = next[u]
  <2>1. CASE u = t
    BY <1>1, <2>1
  <2>2. CASE u # t
    BY <1>1, <2>2, OthersLeft DEF Left
  <2> QED BY <2>1, <2>2
<1>3. [u \in Threads |-> KeysLeft(loc'[u]) \cup unmet'[u]] = next
  BY <1>2 DEF Left
<1> QED BY <1>3 DEF Set!LeftOf, Set!LeftIs

\* The variables of the other threads are what they were.
LEMMA OnlyMover ==
  ASSUME NEW t \in Threads, Moves(t)
  PROVE  /\ op' = [op EXCEPT ![t] = op'[t]] /\ key' = [key EXCEPT ![t] = key'[t]]
         /\ res' = [res EXCEPT ![t] = res'[t]] /\ pc' = [pc EXCEPT ![t] = pc'[t]]
         /\ op'[t] = op[t] => op' = op
         /\ key'[t] = key[t] => key' = key
         /\ res'[t] = res[t] => res' = res
<1>1. ThreadsTyped /\ ThreadsTyped' /\ OthersStill(t)
  BY DEF Moves, IInv, TypeOK, ThreadsTyped
<1> QED BY <1>1 DEF ThreadsTyped, OthersStill, Still

LEMMA Silent ==
  ASSUME NEW t \in Threads, Acts(t), Answers(t)',
         op'[t] = op[t], key'[t] = key[t], res'[t] = res[t], Contents' = Contents,
         KeysLeft(loc'[t]) = KeysLeft(loc[t]), Met(t) = {}
  PROVE  Refines
<1>1. Moves(t) /\ AnswersOK /\ Watch /\ AnswersOK'
  BY AnswersKept DEF Acts, Moves
<1>2. op' = op /\ key' = key /\ res' = res
  BY <1>1, OnlyMover
<1>3. ASSUME NEW u \in Threads PROVE Left(u)' = Left(u) /\ missed'[u] = missed[u]
  <2>1. KeysLeft(loc'[u]) = KeysLeft(loc[u])
    BY <1>1 DEF Moves, OthersStill, Still
  <2>2. SweepMeets(u) /\ MissedOK(u) /\ (op[u] = "none" => op[u] \notin Sweeps)
    BY <1>1 DEF AnswersOK, Sweeps
  <2>3. Met(u) = {}
    BY <1>1 DEF Moves, OthersStill, Still, Met
  <2>4. unmet'[u] = unmet[u]
    BY <1>1, <1>2, <2>2, <2>3, WatchUnmet DEF SweepMeets
  <2>5. Asked(op'[u], key'[u], loc'[u], res'[u]) = Asked(op[u], key[u], loc[u], res[u])
    BY <1>2, <2>1 DEF Asked
  <2>6. missed'[u] = missed[u]
    BY <1>1, <2>2, <2>5, WatchMissed DEF MissedOK
  <2> QED BY <2>1, <2>4, <2>6 DEF Left
<1>4. missed' = missed
  <2>1. HistoryTyped /\ HistoryTyped'
    BY <1>1 DEF AnswersOK
  <2> QED BY <1>3, <2>1 DEF HistoryTyped
<1>5. [u \in Threads |-> KeysLeft(loc'[u]) \cup unmet'[u]] = [u \in Threads |-> KeysLeft(loc[u]) \cup unmet[u]]
  BY <1>3 DEF Left
<1>6. UNCHANGED Set!vars
  BY <1>2, <1>4, <1>5 DEF Set!vars
<1> QED BY <1>1, <1>6 DEF Refines

LEMMA Decided ==
  ASSUME NEW t \in Threads, Moves(t), NEW ops, op[t] \in ops, res[t] = "none",
         NEW r, r # "none", res'[t] = r, op'[t] = op[t], key'[t] = key[t],
         KeysLeft(loc'[t]) = KeysLeft(loc[t]),
         NEW s, Contents' = s,
         op[t] \in Sweeps => Contents' \subseteq Contents /\ KeysLeft(loc[t]) = {}
  PROVE  Set!Decide(t, ops, r, s)
<1>1. op' = op /\ key' = key /\ res' = [res EXCEPT ![t] = r]
  BY OnlyMover
<1>2. unmet'[t] = {} /\ (op[t] \notin Sweeps => unmet[t] = {})
  BY WatchUnmet DEF Moves, AnswersOK, SweepMeets
<1>3. PICK X : X = IF op[t] \in Sweeps THEN {} ELSE Left(t)
  OBVIOUS
<1>4. Set!LeftOf(t, X)
  <2>1. CASE op[t] \in Sweeps
    BY <1>2, <1>3, <2>1, LeftOfStep DEF Left
  <2>2. CASE op[t] \notin Sweeps
    BY <1>2, <1>3, <2>2, LeftOfStep DEF Left
  <2> QED BY <2>1, <2>2
<1>5. X = IF op[t] \in Set!Sweeps THEN {} ELSE [u \in Threads |-> KeysLeft(loc[u]) \cup unmet[u]][t]
  BY <1>3 DEF Left, Set!Sweeps, Sweeps
<1> QED BY <1>1, <1>4, <1>5 DEF Set!Decide, Set!LeftOf, Set!LeftIs

LEMMA OneMoves ==
  ASSUME IInv, NEW t \in Threads, Call(t) \/ Progress(t)
  PROVE  OthersStill(t)
<1>1. /\ pc \in [Threads -> Pcs] /\ op \in [Threads -> Calls \cup {"none"}]
      /\ key \in [Threads -> Keys \cup {NoKey}] /\ res \in [Threads -> Outcomes \cup {"none"}]
      /\ loc \in [Threads -> Locals]
  BY DEF IInv, TypeOK
<1>2. ASSUME NEW u \in Threads, u # t PROVE Still(u)
  <2>1. \A p : Goto(t, p) => pc'[u] = pc[u]
    BY <1>1, <1>2 DEF Goto
  <2>2. \A p, l : Local(t, p, l) => Still(u)
    BY <1>1, <1>2, <2>1 DEF Local, Still
  <2>3. \A r, p : Decide(t, r, p) => pc'[u] = pc[u] /\ res'[u] = res[u]
    BY <1>1, <1>2, <2>1 DEF Decide
  <2>4. ASSUME Call(t) PROVE Still(u)
    <3>1. PICK o, k, l, to : CallWith(t, o, k, l, to)
      BY <2>4, CallsFit
    <3> QED BY <1>1, <1>2, <2>1, <3>1 DEF CallWith, Still
  <2>5. ASSUME Enter(t) \/ BulkEnds(t) \/ FinishVisit(t) \/ SkipRehash(t) \/ CheckSize(t) PROVE Still(u)
    BY <2>2, <2>5 DEF Enter, EnterInsert, EnterVisit, EnterErase, EnterSweep, EnterBulk, EnterFor, BulkEnds,
       FinishVisit, SkipRehash, CheckSize
  <2>6. ASSUME MatchSlot(t) \/ CompareMisses(t) \/ SweepGroup(t) \/ SweepSlot(t) \/ NextBatch(t) \/ BulkMatchSlot(t)
        PROVE  Still(u)
    BY <2>2, <2>6 DEF MatchSlot, CompareMisses, SweepGroup, SweepSlot, NextBatch, BulkMatchSlot
  <2>7. ASSUME CompareFinds(t) \/ DestroyElement(t) PROVE Still(u)
    BY <1>1, <1>2, <2>3, <2>7 DEF CompareFinds, DestroyElement, Still
  <2>8. ASSUME CheckOverflow(t) PROVE Still(u)
    BY <2>2, <2>3, <2>8 DEF CheckOverflow, Still
  <2>9. ASSUME KeepElement(t) \/ SweepStops(t) \/ SweepEnds(t) \/ Construct(t) \/ ConstructThrows(t)
               \/ TransferThrows(t) \/ ClearTable(t)
        PROVE  Still(u)
    BY <2>3, <2>9 DEF KeepElement, SweepStops, SweepEnds, Construct, ConstructThrows, TransferThrows,
       ClearTable, Still
  <2>10. ASSUME LowerMaxLoad(t) \/ ResetSlot(t) \/ DecreaseSize(t) \/ BumpCounter(t)
                \/ RollbackSlot(t) \/ StartRehash(t)
         PROVE  Still(u)
    BY <2>1, <2>10 DEF LowerMaxLoad, ResetSlot, DecreaseSize, BumpCounter, RollbackSlot, StartRehash,
       sharedVars, Still
  <2>11. ASSUME SweepErases(t) \/ ReadCounter(t) \/ ReserveSize(t) \/ UndoSize(t) \/ RollbackSize(t) PROVE Still(u)
    BY <1>1, <1>2, <2>1, <2>11 DEF SweepErases, ReadCounter, ReserveSize, UndoSize, RollbackSize, Still
  <2>12. ASSUME NextKey(t) \/ Leave(t) PROVE Still(u)
    BY <1>1, <1>2, <2>1, <2>12 DEF NextKey, Leave, Still
  <2>13. ASSUME ProbeGroup(t) PROVE Still(u)
    BY <1>1, <1>2, <2>1, <2>13 DEF ProbeGroup, Still
  <2>14. ASSUME ReserveTable(t) \/ FinishRehash(t) PROVE Still(u)
    BY <2>1, <2>3, <2>14 DEF ReserveTable, FinishRehash, AfterRehash, Still
  <2>15. ASSUME TransferElement(t) PROVE Still(u)
    BY <2>15 DEF TransferElement, Still
  <2> QED BY <2>4, <2>5, <2>6, <2>7, <2>8, <2>9, <2>10, <2>11, <2>12, <2>13, <2>14, <2>15
             DEF Progress, Search, EraseStep, InsertStep, Sweep, BulkVisit, ExclusiveStep
<1> QED BY <1>2 DEF OthersStill

\* What a call that is neither a bulk visit nor a lookup nor a sweep has to show.
LEMMA PlainCall ==
  ASSUME IInv', NEW t \in Threads, op'[t] # "bulk", loc'[t].todo = <<>>, loc'[t].batch = <<>>,
         op'[t] = "none" => key'[t] = NoKey /\ res'[t] = "none",
         pc'[t] \in {"leave", "done"} => res'[t] # "none",
         pc'[t] = "enter" /\ op'[t] # "insert" => loc'[t].step = 0 /\ loc'[t].scan = {},
         pc'[t] \in {"compare", "check_overflow", "visiting"} /\ op'[t] # "insert" => loc'[t].scan = {},
         pc'[t] \in Erasing /\ op'[t] = "erase" => res'[t] = "erased"
  PROVE  CallOK(t)'
<1>1. OpOK(t)'
  BY DEF IInv, ControlOK
<1>2. pc'[t] \notin {"bulk_next", "bulk_match"}
  BY <1>1 DEF OpOK
<1> QED BY <1>2, NothingLeft DEF CallOK

LEMMA PlainAnswers ==
  ASSUME NEW t \in Threads, Moves(t), CallOK(t)', op'[t] \notin Sweeps, op'[t] # "bulk",
         pc'[t] \notin Searching \/ op'[t] = "insert"
  PROVE  Answers(t)'
<1>1. unmet'[t] = {}
  BY WatchUnmet DEF Moves
<1> QED BY <1>1 DEF Answers, LookupOK, BatchOK, SweepMeets

LEMMA NothingChanges ==
  ASSUME UNCHANGED <<arrays, newArrays>>
  PROVE  Settled /\ Contents' = Contents
BY SameElementsSettled

LEMMA InsertSilent ==
  ASSUME NEW t \in Threads, Acts(t), op[t] = "insert",
         op'[t] = op[t], key'[t] = key[t], res'[t] = res[t], Contents' = Contents,
         loc'[t].todo = <<>> \/ loc'[t].todo = loc[t].todo,
         loc'[t].batch = <<>> \/ loc'[t].batch = loc[t].batch,
         pc'[t] \in {"leave", "done"} => res[t] # "none"
  PROVE  Refines
<1>1. IInv /\ IInv' /\ Moves(t) /\ CallOK(t) /\ ThreadOK(t)
  BY Mover DEF Acts, Moves, AnswersOK
<1>2. loc[t].todo = <<>> /\ loc[t].batch = <<>>
  BY <1>1 DEF CallOK
<1>3. loc'[t].todo = <<>> /\ loc'[t].batch = <<>>
  BY <1>2
<1>4. CallOK(t)'
  BY <1>1, <1>3, PlainCall
<1>5. Answers(t)'
  BY <1>1, <1>4, PlainAnswers DEF Sweeps
<1>6. Met(t) = {}
  BY <1>1 DEF ThreadOK, OpOK, Met, Sweeps
<1>7. KeysLeft(loc'[t]) = KeysLeft(loc[t])
  BY <1>2, <1>3, NothingLeft
<1> QED BY <1>5, <1>6, <1>7, Silent

-----------------------------------------------------------------------------
(* Insertion *)

LEMMA InsertLocal ==
  ASSUME NEW t \in Threads, Moves(t), op[t] = "insert", UNCHANGED <<arrays, newArrays>>,
         op'[t] = op[t], key'[t] = key[t], res'[t] = res[t],
         loc'[t].todo = <<>> \/ loc'[t].todo = loc[t].todo,
         loc'[t].batch = <<>> \/ loc'[t].batch = loc[t].batch,
         pc'[t] \in {"leave", "done"} => res[t] # "none"
  PROVE  Refines
BY NothingChanges, InsertSilent DEF Acts

LEMMA InsertControl ==
  ASSUME NEW t \in Threads, Moves(t),
         \/ EnterInsert(t) \/ ReadCounter(t) \/ ReserveSize(t) \/ CheckSize(t) \/ UndoSize(t)
         \/ BumpCounter(t) \/ RollbackSize(t) \/ SkipRehash(t)
  PROVE  Refines
<1>1. /\ ThreadOK(t) /\ loc[t] \in Locals
      /\ loc \in [Threads -> Locals] /\ pc \in [Threads -> Pcs]
  BY Mover DEF Moves, IInv, TypeOK
<1>2. /\ op[t] = "insert" /\ UNCHANGED <<arrays, newArrays, op, key, res>>
  BY <1>1 DEF ThreadOK, OpOK, Reserved, EnterInsert, EnterFor, ReadCounter, ReserveSize, CheckSize, UndoSize,
     BumpCounter, RollbackSize, SkipRehash, Local, sharedVars
<1>3. /\ loc'[t].todo = <<>> \/ loc'[t].todo = loc[t].todo
      /\ loc'[t].batch = <<>> \/ loc'[t].batch = loc[t].batch
  <2>1. \A m : NoLocals(m).todo = <<>> /\ NoLocals(m).batch = <<>>
    BY DEF NoLocals
  <2>2. \/ loc'[t] = loc[t] \/ loc'[t] = NoLocals(loc[t].mode)
        \/ loc'[t] = [loc[t] EXCEPT !.ticket = 0] \/ loc'[t] = [loc[t] EXCEPT !.ticket = size + 1]
    BY <1>1 DEF EnterInsert, EnterFor, ReadCounter, ReserveSize, CheckSize, UndoSize,
       BumpCounter, RollbackSize, SkipRehash, Local, sharedVars
  <2> QED BY <1>1, <2>1, <2>2 DEF Locals
<1>4. pc'[t] \in {"leave", "done"} => res[t] # "none"
  BY <1>1 DEF EnterInsert, EnterFor, ReadCounter, ReserveSize, CheckSize, UndoSize,
       BumpCounter, RollbackSize, SkipRehash, Local, Goto
<1> QED BY <1>2, <1>3, <1>4, InsertLocal

LEMMA InsertMarks ==
  ASSUME NEW t \in Threads, Moves(t), op[t] = "insert", UNCHANGED <<newArrays, op, key, res>>,
         arrays'.groups = arrays.groups, arrays'.elem = arrays.elem,
         \A g \in Groups(arrays) : arrays.overflow[g] \subseteq arrays'.overflow[g],
         loc'[t].todo = loc[t].todo, loc'[t].batch = loc[t].batch, pc'[t] \notin {"leave", "done"}
  PROVE  Refines
<1>1. Settled /\ Contents' = Contents
  BY SameElementsSettled
<1> QED BY <1>1, InsertSilent DEF Acts

LEMMA ProbeGroupRefines ==
  ASSUME NEW t \in Threads, Moves(t), ProbeGroup(t)
  PROVE  Refines
<1>0. PICK g, hash : g = At(t) /\ hash = Hash[key[t]]
  OBVIOUS
<1>1. /\ op[t] = "insert" /\ loc[t] \in Locals /\ hash \in Hashes /\ g \in Groups(arrays)
      /\ IsArrays(arrays, Keys) /\ pc[t] = "probe"
  BY <1>0, Prober DEF Moves
<1>2. loc \in [Threads -> Locals] /\ pc \in [Threads -> Pcs]
  BY DEF Moves, IInv, TypeOK
<1>3. UNCHANGED <<newArrays, op, key, res>>
  BY DEF ProbeGroup
<1>4. CASE MatchAvailable(arrays, g) = {}
  <2>1. arrays' = MarkOverflow(arrays, g, hash.tag)
    BY <1>0, <1>4 DEF ProbeGroup
  <2>2. /\ arrays'.groups = arrays.groups /\ arrays'.elem = arrays.elem
        /\ \A h \in Groups(arrays) : arrays.overflow[h] \subseteq arrays'.overflow[h]
    BY <1>1, <2>1, Marking
  <2>3. pc'[t] = "probe"
    BY <1>0, <1>1, <1>4 DEF ProbeGroup
  <2>4. loc'[t].todo = loc[t].todo /\ loc'[t].batch = loc[t].batch
    <3>1. PICK j : loc' = [loc EXCEPT ![t].step = j]
      BY <1>0, <1>4 DEF ProbeGroup
    <3>2. loc'[t] = [loc[t] EXCEPT !.step = j]
      BY <1>2, <3>1
    <3> QED BY <1>1, <3>2 DEF Locals
  <2> QED BY <1>1, <1>3, <2>2, <2>3, <2>4, InsertMarks
<1>5. CASE MatchAvailable(arrays, g) # {}
  <2>1. PICK n : n = Lowest(MatchAvailable(arrays, g))
    OBVIOUS
  <2>2. n \in Slots /\ hash.tag \in Bytes
    BY <1>1, <1>5, <2>1, LowestOfSlots DEF MatchAvailable, Hashes, Bytes
  <2>3. arrays' = SetMeta(arrays, g, n, hash.tag)
    BY <1>0, <1>5, <2>1 DEF ProbeGroup
  <2>4. arrays'.groups = arrays.groups /\ arrays'.elem = arrays.elem /\ arrays'.overflow = arrays.overflow
    BY <1>1, <2>2, <2>3, MetaWritten
  <2>5. pc'[t] = "bump"
    BY <1>0, <1>2, <1>5 DEF ProbeGroup, Goto
  <2>6. loc'[t].todo = loc[t].todo /\ loc'[t].batch = loc[t].batch
    <3>1. loc' = [loc EXCEPT ![t].slot = n]
      BY <1>0, <1>5, <2>1 DEF ProbeGroup
    <3>2. loc'[t] = [loc[t] EXCEPT !.slot = n]
      BY <1>2, <3>1
    <3> QED BY <1>1, <3>2 DEF Locals
  <2> QED BY <1>1, <1>3, <2>4, <2>5, <2>6, InsertMarks
<1> QED BY <1>4, <1>5

LEMMA RollbackSlotRefines ==
  ASSUME NEW t \in Threads, Moves(t), RollbackSlot(t)
  PROVE  Refines
<1>0. PICK g, n : g = At(t) /\ n = loc[t].slot
  OBVIOUS
<1>1. /\ pc[t] = "rollback_slot" /\ op[t] = "insert" /\ IsArrays(arrays, Keys)
      /\ g \in Groups(arrays) /\ n \in Slots /\ Available \in Bytes
  <2>1. pc[t] \in Owners /\ pc[t] = "rollback_slot" /\ pc[t] \in Reserved /\ IInv
    BY DEF RollbackSlot, Owners, Reserved, Moves
  <2> QED BY <1>0, <2>1, Owner, Mover DEF ThreadOK, OpOK, Available, Bytes
<1>2. arrays' = SetMeta(arrays, g, n, Available) /\ UNCHANGED <<newArrays, op, key, res, loc>>
  BY <1>0 DEF RollbackSlot
<1>3. arrays'.groups = arrays.groups /\ arrays'.elem = arrays.elem /\ arrays'.overflow = arrays.overflow
  BY <1>1, <1>2, MetaWritten
<1>4. pc'[t] = "rollback_size"
  BY DEF RollbackSlot, Goto, Moves, IInv, TypeOK
<1> QED BY <1>1, <1>2, <1>3, <1>4, InsertMarks

\* A decision in an operation that is no bulk visit and no sweep.
LEMMA PlainDecides ==
  ASSUME NEW t \in Threads, Acts(t), op[t] \notin Sweeps, op[t] # "bulk", NEW ops, op[t] \in ops,
         res[t] = "none", NEW r, r # "none", res'[t] = r, op'[t] = op[t], key'[t] = key[t],
         loc'[t].todo = <<>> \/ loc'[t].todo = loc[t].todo,
         loc'[t].batch = <<>> \/ loc'[t].batch = loc[t].batch,
         pc'[t] \notin Searching \cup {"enter"},
         pc'[t] = "visiting" /\ op[t] # "insert" => loc'[t].scan = {},
         pc'[t] \in Erasing /\ op[t] = "erase" => r = "erased",
         NEW s, Contents' = s
  PROVE  AnswersOK' /\ Set!Watch /\ Set!Decide(t, ops, r, s)
<1>1. IInv /\ IInv' /\ Moves(t) /\ CallOK(t) /\ ThreadOK(t)
  BY Mover DEF Acts, Moves, AnswersOK
<1>2. /\ loc[t].todo = <<>> /\ loc[t].batch = <<>>
      /\ loc'[t].todo = <<>> /\ loc'[t].batch = <<>>
      /\ pc'[t] \notin {"compare", "check_overflow", "enter"}
  BY <1>1 DEF CallOK, Searching
<1>3. CallOK(t)'
  <2>1. op'[t] = "none" => key'[t] = NoKey /\ res'[t] = "none"
    <3>1. op'[t] = "none" => pc'[t] \in {"idle"}
      <4>1. OpOK(t)' /\ OutcomeOK(t)' /\ pc'[t] \in Pcs
        BY <1>1 DEF IInv, ControlOK, TypeOK
      <4>2. res'[t] # "none"
        OBVIOUS
      <4> QED BY <4>1 DEF OpOK, Pcs, Inside, Outside, Searching, Reserved,
                  HoldingGroup, Visiting, Erasing, KeyOps, Sweeps
    <3>2. pc'[t] # "idle"
      <4>1. OutcomeOK(t)'
        BY <1>1 DEF IInv, ControlOK
      <4> QED BY <4>1 DEF OutcomeOK, Erasing
    <3> QED BY <3>1, <3>2
  <2> QED BY <1>1, <1>2, <2>1, PlainCall
<1>4. Answers(t)'
  BY <1>1, <1>3, PlainAnswers
<1>5. KeysLeft(loc'[t]) = KeysLeft(loc[t])
  BY <1>2, NothingLeft
<1>6. Set!Decide(t, ops, r, s)
  BY <1>1, <1>5, Decided
<1> QED BY <1>4, <1>6, AnswersKept

LEMMA ConstructRefines ==
  ASSUME NEW t \in Threads, Moves(t), Construct(t)
  PROVE  Refines
<1>0. PICK g, n, k : g = At(t) /\ n = loc[t].slot /\ k = key[t]
  OBVIOUS
<1>1. /\ pc[t] = "construct" /\ op[t] = "insert" /\ k \in Keys /\ res[t] = "none"
      /\ pc[t] \in Inside /\ g \in Groups(arrays) /\ n \in Slots /\ Empty(arrays, g, n) /\ Has(k, g, n)
  <2>1. pc[t] \in Owners /\ pc[t] = "construct" /\ pc[t] \in Reserved /\ IInv
    BY DEF Construct, Owners, Reserved, Moves
  <2>2. op[t] = "insert" /\ k \in Keys /\ res[t] = "none"
    BY <1>0, <2>1, Mover DEF ThreadOK, OpOK, ArgumentsOK, OutcomeOK, KeyOps, Erasing
  <2> QED BY <1>0, <2>1, <2>2, Owner DEF Has, Constructing, Owns
<1>2. /\ arrays' = SetElem(arrays, g, n, k) /\ UNCHANGED <<newArrays, op, key, loc>>
      /\ res'[t] = "inserted" /\ pc'[t] = "visiting"
  BY <1>0 DEF Construct, Decide, Goto, Moves, IInv, TypeOK
<1>3. Settled /\ Contents' = Contents \cup {k} /\ k \notin Contents
  <2>1. IInv
    BY DEF Moves
  <2> QED BY <1>1, <1>2, <2>1, InsertionSettled
<1>4. Acts(t)
  BY <1>3 DEF Acts
<1>5. PICK ops, r, s : ops = {"insert"} /\ r = "inserted" /\ s = Contents \cup {k}
  OBVIOUS
<1>6. AnswersOK' /\ Set!Watch /\ Set!Decide(t, ops, r, s)
  <2>1. op[t] \in ops /\ op[t] \notin Sweeps /\ op[t] # "bulk" /\ r # "none"
    BY <1>1, <1>5 DEF Sweeps
  <2>2. /\ pc'[t] \notin Searching \cup {"enter"} /\ op[t] # "erase"
        /\ (pc'[t] = "visiting" /\ op[t] # "insert" => loc'[t].scan = {})
    BY <1>1, <1>2 DEF Searching
  <2>3. res'[t] = r /\ Contents' = s /\ loc'[t] = loc[t] /\ op'[t] = op[t] /\ key'[t] = key[t]
    BY <1>2, <1>3, <1>5
  <2> QED BY <1>1, <1>4, <2>1, <2>2, <2>3, PlainDecides
<1>7. Set!Insert(t)
  BY <1>0, <1>3, <1>5, <1>6 DEF Set!Insert, Set!Decide
<1> QED BY <1>6, <1>7 DEF Refines, Set!Next

LEMMA ConstructThrowsRefines ==
  ASSUME NEW t \in Threads, Moves(t), ConstructThrows(t)
  PROVE  Refines
<1>1. /\ pc[t] = "construct" /\ op[t] = "insert" /\ res[t] = "none"
  <2>1. pc[t] = "construct" /\ pc[t] \in Reserved /\ IInv
    BY DEF ConstructThrows, Reserved, Moves
  <2> QED BY <2>1, Mover DEF ThreadOK, OpOK, OutcomeOK, Erasing
<1>2. /\ UNCHANGED <<arrays, newArrays, op, key, loc>> /\ res'[t] = "threw" /\ pc'[t] = "rollback_slot"
  BY DEF ConstructThrows, Decide, Goto, Moves, IInv, TypeOK, sharedVars
<1>3. Acts(t) /\ Contents' = Contents
  BY <1>2, NothingChanges DEF Acts
<1>4. PICK ops, r, s : ops = {"insert", "reserve"} /\ r = "threw" /\ s = Contents
  OBVIOUS
<1>5. AnswersOK' /\ Set!Watch /\ Set!Decide(t, ops, r, s)
  <2>1. op[t] \in ops /\ op[t] \notin Sweeps /\ op[t] # "bulk" /\ r # "none"
    BY <1>1, <1>4 DEF Sweeps
  <2>2. pc'[t] \notin Searching \cup {"enter"} /\ op[t] # "erase" /\ pc'[t] # "visiting"
    BY <1>1, <1>2 DEF Searching
  <2>3. res'[t] = r /\ Contents' = s /\ loc'[t] = loc[t] /\ op'[t] = op[t] /\ key'[t] = key[t]
    BY <1>2, <1>3, <1>4
  <2> QED BY <1>1, <1>3, <2>1, <2>2, <2>3, PlainDecides
<1>6. Set!Throw(t)
  BY <1>4, <1>5 DEF Set!Throw, Set!Decide
<1> QED BY <1>5, <1>6 DEF Refines, Set!Next

-----------------------------------------------------------------------------
(* Calls and returns *)

LEMMA LeftStays ==
  ASSUME NEW t \in Threads, Moves(t), op[t] \notin Sweeps \/ res[t] # "none", Left(t)' = Left(t)
  PROVE  Set!LeftIs([u \in Threads |-> KeysLeft(loc[u]) \cup unmet[u]])
<1> DEFINE left == [u \in Threads |-> KeysLeft(loc[u]) \cup unmet[u]]
           next == [u \in Threads |-> IF Set!Sweeping(u) THEN left[u] \cup (Contents' \ Contents) ELSE left[u]]
<1>1. \A u \in Threads : Set!Sweeping(u) <=> op[u] \in Sweeps /\ res[u] = "none"
  BY DEF Set!Sweeping, Set!Sweeps, Sweeps
<1>2. ASSUME NEW u \in Threads PROVE Left(u)' = next[u]
  <2>1. CASE u = t
    BY <1>1, <2>1 DEF Left
  <2>2. CASE u # t
    BY <1>1, <2>2, OthersLeft DEF Left
  <2> QED BY <2>1, <2>2
<1>3. [u \in Threads |-> KeysLeft(loc'[u]) \cup unmet'[u]] = next
  BY <1>2 DEF Left
<1> QED BY <1>3 DEF Set!LeftIs

\* What a call leaves its thread with.
LEMMA CallAsks ==
  ASSUME IInv, AnswersOK, NEW t \in Threads, Call(t)
  PROVE  /\ pc[t] = "idle" /\ op[t] = "none" /\ key[t] = NoKey /\ res[t] = "none"
         /\ loc[t].todo = <<>> /\ loc[t].batch = <<>>
         /\ op'[t] \in Calls /\ key'[t] \in Keys \cup {NoKey} /\ res'[t] = "none" /\ loc'[t] \in Locals
         /\ loc'[t].batch = <<>> /\ UNCHANGED <<arrays, newArrays, res>>
         /\ op'[t] \in KeyOps => key'[t] \in Keys
         /\ op'[t] \notin KeyOps => key'[t] = NoKey
         /\ op'[t] # "bulk" => loc'[t].todo = <<>>
         /\ \A i, j \in 1 .. Len(loc'[t].todo) : loc'[t].todo[i] = loc'[t].todo[j] => i = j
         /\ pc'[t] \in {"enter", "clear_enter", "reserve_enter"}
         /\ pc'[t] = "enter" => loc'[t].step = 0 /\ loc'[t].scan = {}
         /\ op'[t] \in Sweeps => pc'[t] = "enter"
<1>1. /\ pc \in [Threads -> Pcs] /\ op \in [Threads -> Calls \cup {"none"}]
      /\ key \in [Threads -> Keys \cup {NoKey}] /\ res \in [Threads -> Outcomes \cup {"none"}]
      /\ loc \in [Threads -> Locals]
  BY DEF IInv, TypeOK
<1>2. /\ pc[t] = "idle" /\ op[t] = "none" /\ key[t] = NoKey /\ res[t] = "none"
      /\ loc[t].todo = <<>> /\ loc[t].batch = <<>>
  <2>1. pc[t] = "idle" /\ op[t] = "none" /\ CallOK(t)
    BY Mover DEF Call, ThreadOK, OpOK, AnswersOK
  <2> QED BY <2>1 DEF CallOK
<1>3. PICK o, k, l, to : CallFits(o, k, l, to) /\ CallWith(t, o, k, l, to)
  BY CallsFit
<1>4. \A p, q, m, r : CallWith(t, p, q, m, r) =>
        /\ op'[t] = p /\ key'[t] = q /\ loc'[t] = m /\ pc'[t] = r /\ res' = res
        /\ UNCHANGED <<arrays, newArrays>>
  BY <1>1 DEF CallWith, Goto, sharedVars
<1>5. op'[t] = o /\ key'[t] = k /\ loc'[t] = l /\ pc'[t] = to /\ res' = res /\ UNCHANGED <<arrays, newArrays>>
  BY <1>3, <1>4
<1>6. /\ o \in Calls /\ k \in Keys \cup {NoKey} /\ l \in Locals /\ l.batch = <<>> /\ (o \in KeyOps => k \in Keys)
      /\ to \in {"enter", "clear_enter", "reserve_enter"} /\ (o \in Sweeps => to = "enter")
  BY <1>3 DEF CallFits, Sweeps
<1>7. \A m : NoLocals(m).todo = <<>> /\ NoLocals(m).step = 0 /\ NoLocals(m).scan = {}
  BY DEF NoLocals
<1>8. /\ o \notin KeyOps => k = NoKey
      /\ o # "bulk" => l.todo = <<>>
      /\ o = "bulk" => \E ks \in Ranges : l.todo = ks
      /\ to = "enter" => l.step = 0 /\ l.scan = {}
  <2>1. ASSUME NEW p \in KeyOps, NEW m, CallKey(t, p, m)
        PROVE  o = p /\ l = NoLocals(m)
    BY <1>4, <1>5, <2>1 DEF CallKey
  <2>2. ASSUME NEW p \in Sweeps, NEW m, CallSweep(t, p, m)
        PROVE  o = p /\ k = NoKey /\ l = NoLocals(m)
    BY <1>4, <1>5, <2>2 DEF CallSweep
  <2>3. CASE CallInsert(t) \/ CallInsertOrAssign(t) \/ CallInsertOrVisit(t)
             \/ CallInsertAndVisit(t) \/ CallEmplaceOrVisit(t) \/ CallTryEmplace(t)
    BY <1>7, <2>1, <2>3 DEF CallInsert, CallInsertOrAssign, CallInsertOrVisit, CallInsertAndVisit,
       CallEmplaceOrVisit, CallTryEmplace, KeyOps
  <2>4. CASE CallVisit(t) \/ CallContains(t) \/ CallErase(t)
    BY <1>7, <2>1, <2>4 DEF CallVisit, CallContains, CallErase, KeyOps
  <2>5. CASE CallVisitAll(t) \/ CallVisitWhile(t) \/ CallEraseIf(t)
    BY <1>7, <2>2, <2>5 DEF CallVisitAll, CallVisitWhile, CallEraseIf, Sweeps
  <2>6. CASE CallBulkVisit(t)
    <3>1. PICK m \in Modes, ks \in Ranges :
            CallWith(t, "bulk", NoKey, [NoLocals(m) EXCEPT !.todo = ks], "enter")
      BY <2>6 DEF CallBulkVisit
    <3>2. o = "bulk" /\ k = NoKey /\ l = [NoLocals(m) EXCEPT !.todo = ks]
      BY <1>4, <1>5, <3>1
    <3>3. l.todo = ks /\ l.step = 0 /\ l.scan = {}
      BY <3>2 DEF NoLocals
    <3> QED BY <3>2, <3>3
  <2>7. CASE CallClear(t) \/ CallReserve(t)
    <3>1. o # "bulk" /\ k = NoKey /\ l = loc[t] /\ to # "enter"
      BY <1>4, <1>5, <2>7 DEF CallClear, CallReserve
    <3> QED BY <1>2, <3>1
  <2> QED BY <2>3, <2>4, <2>5, <2>6, <2>7 DEF Call
<1>9. \A i, j \in 1 .. Len(l.todo) : l.todo[i] = l.todo[j] => i = j
  <2>1. ASSUME o # "bulk" PROVE \A i, j \in 1 .. Len(l.todo) : l.todo[i] = l.todo[j] => i = j
    BY <1>8, <2>1
  <2>2. ASSUME o = "bulk" PROVE \A i, j \in 1 .. Len(l.todo) : l.todo[i] = l.todo[j] => i = j
    <3> DEFINE n == Cardinality(Keys)
    <3>1. n \in Nat
      BY FiniteAssumption, FS_CardinalityType
    <3>2. l.todo = <<>> \/ (l.todo \in [1 .. n -> Keys] /\ \A i, j \in DOMAIN l.todo : l.todo[i] = l.todo[j] => i = j)
      BY <1>8, <2>2 DEF Ranges
    <3> HIDE DEF n
    <3>3. CASE l.todo = <<>>
      BY <3>3
    <3>4. CASE l.todo # <<>>
      <4>1. l.todo \in Seq(Keys)
        BY <1>6 DEF Locals
      <4>2. DOMAIN l.todo = 1 .. Len(l.todo)
        BY <4>1
      <4> QED BY <3>2, <3>4, <4>2
    <3> QED BY <3>3, <3>4
  <2> QED BY <2>1, <2>2
<1> QED BY <1>2, <1>5, <1>6, <1>8, <1>9

LEMMA CallRefines ==
  ASSUME NEW t \in Threads, Moves(t), Call(t)
  PROVE  Refines
<1>1. /\ pc[t] = "idle" /\ op[t] = "none" /\ key[t] = NoKey /\ res[t] = "none"
      /\ loc[t].todo = <<>> /\ loc[t].batch = <<>>
      /\ op'[t] \in Calls /\ key'[t] \in Keys \cup {NoKey} /\ res'[t] = "none" /\ loc'[t] \in Locals
      /\ loc'[t].batch = <<>> /\ UNCHANGED <<arrays, newArrays, res>>
      /\ op'[t] \in KeyOps => key'[t] \in Keys
      /\ op'[t] \notin KeyOps => key'[t] = NoKey
      /\ op'[t] # "bulk" => loc'[t].todo = <<>>
      /\ \A i, j \in 1 .. Len(loc'[t].todo) : loc'[t].todo[i] = loc'[t].todo[j] => i = j
      /\ pc'[t] \in {"enter", "clear_enter", "reserve_enter"}
      /\ pc'[t] = "enter" => loc'[t].step = 0 /\ loc'[t].scan = {}
      /\ op'[t] \in Sweeps => pc'[t] = "enter"
  BY CallAsks DEF Moves
<1>2. Contents' = Contents /\ Acts(t)
  BY <1>1, NothingChanges DEF Acts
<1>3. op'[t] # "none" /\ op'[t] \in KeyOps \cup Sweeps \cup {"bulk", "clear", "reserve"}
  BY <1>1 DEF Calls, KeyOps, Sweeps
<1>4. unmet[t] = {} /\ unmet'[t] = IF op'[t] \in Sweeps THEN Keys ELSE {}
  BY <1>1, WatchUnmet DEF Moves, AnswersOK, SweepMeets, Sweeps
<1>5. EachKeyOnce(loc'[t])
  <2>1. Len(loc'[t].batch) = 0 /\ 1 .. 0 = {}
    BY <1>1
  <2> QED BY <1>1, <2>1 DEF EachKeyOnce
<1>6. CallOK(t)'
  BY <1>1, <1>3, <1>5 DEF CallOK, Erasing, KeyOps
<1>7. Answers(t)'
  <2>1. LookupOK(t)'
    BY <1>1 DEF LookupOK, Searching
  <2>2. BatchOK(t)'
    BY <1>1 DEF BatchOK, Inside, Searching, Reserved, HoldingGroup, Visiting
  <2>3. SweepMeets(t)'
    BY <1>1, <1>4 DEF SweepMeets, Erasing
  <2> QED BY <1>6, <2>1, <2>2, <2>3 DEF Answers
<1>8. AnswersOK' /\ Set!Watch
  BY <1>2, <1>7, AnswersKept
<1>9. op' = [op EXCEPT ![t] = op'[t]] /\ key' = [key EXCEPT ![t] = key'[t]] /\ (key'[t] = key[t] => key' = key)
  BY OnlyMover
<1>10. Left(t) = {}
  BY <1>1, <1>4, NothingLeft DEF Left
<1>11. ASSUME NEW o, op'[t] = o PROVE Set!Begins(t, o)
  BY <1>1, <1>2, <1>9, <1>11 DEF Set!Begins
<1>12. op'[t] \notin Sweeps \cup {"bulk"} => Set!LeftIs([u \in Threads |-> KeysLeft(loc[u]) \cup unmet[u]])
  <2>1. ASSUME op'[t] \notin Sweeps \cup {"bulk"} PROVE Left(t)' = Left(t)
    BY <1>1, <1>4, <1>10, <2>1, NothingLeft DEF Left
  <2> QED BY <1>1, <2>1, LeftStays DEF Sweeps
<1>13. CASE op'[t] \in KeyOps
  <2>1. \E k \in Keys : key' = [key EXCEPT ![t] = k]
    BY <1>1, <1>9, <1>13
  <2>2. ASSUME NEW o, op'[t] = o PROVE Set!BeginKey(t, o)
    BY <1>11, <1>12, <1>13, <2>1, <2>2 DEF Set!BeginKey, Set!LeftIs, KeyOps, Sweeps
  <2>3. Set!BeginInsert(t) \/ Set!BeginVisit(t) \/ Set!BeginErase(t)
    BY <1>13, <2>2 DEF Set!BeginInsert, Set!BeginVisit, Set!BeginErase, KeyOps
  <2> QED BY <1>8, <2>3 DEF Refines, Set!Next, Set!Begin
<1>14. CASE op'[t] = "bulk"
  <2>1. PICK ks : ks = KeysLeft(loc'[t])
    OBVIOUS
  <2>2. ks \in SUBSET Keys
    BY <1>1, <2>1, KeysLeftTyped
  <2>3. Set!LeftOf(t, ks)
    BY <1>1, <1>4, <1>14, <2>1, LeftOfStep DEF Left, Sweeps
  <2>4. Set!BeginBulk(t)
    BY <1>1, <1>9, <1>11, <1>14, <2>2, <2>3 DEF Set!BeginBulk, KeyOps
  <2> QED BY <1>8, <2>4 DEF Refines, Set!Next, Set!Begin
<1>15. CASE op'[t] \in Sweeps
  <2>1. KeysLeft(loc'[t]) = {}
    BY <1>1, <1>15, NothingLeft DEF Sweeps
  <2>2. Set!LeftOf(t, Keys)
    BY <1>1, <1>4, <1>15, <2>1, LeftOfStep DEF Left, Sweeps
  <2>3. Set!BeginSweep(t)
    BY <1>1, <1>9, <1>11, <1>15, <2>2 DEF Set!BeginSweep, KeyOps, Sweeps, Set!Sweeps
  <2> QED BY <1>8, <2>3 DEF Refines, Set!Next, Set!Begin
<1>16. CASE op'[t] \in {"clear", "reserve"}
  <2>1. Set!BeginWhole(t)
    BY <1>1, <1>9, <1>11, <1>12, <1>16 DEF Set!BeginWhole, Set!LeftIs, KeyOps, Sweeps
  <2> QED BY <1>8, <2>1 DEF Refines, Set!Next, Set!Begin
<1> QED BY <1>3, <1>13, <1>14, <1>15, <1>16

LEMMA LeaveRefines ==
  ASSUME NEW t \in Threads, Moves(t), Leave(t)
  PROVE  Refines
<1>1. /\ pc[t] \in {"leave", "done"} /\ UNCHANGED <<arrays, newArrays>> /\ pc'[t] = "idle"
      /\ op'[t] = "none" /\ key'[t] = NoKey /\ res'[t] = "none" /\ loc'[t] = NoLocals("shared")
  BY DEF Leave, Goto, Moves, IInv, TypeOK, sharedVars
<1>2. /\ op' = [op EXCEPT ![t] = "none"] /\ key' = [key EXCEPT ![t] = NoKey] /\ res' = [res EXCEPT ![t] = "none"]
  BY DEF Leave
<1>3. loc[t].todo = <<>> /\ loc[t].batch = <<>> /\ (res[t] # "none" \/ (op[t] = "bulk" /\ key[t] = NoKey))
  BY <1>1 DEF Moves, AnswersOK, CallOK
<1>4. loc'[t].todo = <<>> /\ loc'[t].batch = <<>>
  BY <1>1 DEF NoLocals
<1>5. Contents' = Contents /\ Acts(t)
  BY <1>1, NothingChanges DEF Acts
<1>6. CallOK(t)'
  <2>1. IInv'
    BY DEF Moves
  <2> QED BY <1>1, <1>4, <2>1, PlainCall DEF Erasing
<1>7. Answers(t)'
  <2>1. op'[t] \notin Sweeps /\ op'[t] # "bulk" /\ pc'[t] \notin Searching
    BY <1>1 DEF Sweeps, Searching
  <2> QED BY <1>6, <2>1, PlainAnswers
<1>8. unmet[t] = {} /\ unmet'[t] = {}
  BY <1>1, <1>3, WatchUnmet DEF Moves, AnswersOK, SweepMeets, Sweeps
<1>9. Left(t) = {} /\ Left(t)' = {}
  BY <1>3, <1>4, <1>8, NothingLeft DEF Left
<1>10. Set!LeftIs([u \in Threads |-> KeysLeft(loc[u]) \cup unmet[u]])
  BY <1>3, <1>9, LeftStays DEF Sweeps
<1>11. Set!Return(t)
  BY <1>2, <1>3, <1>5, <1>9, <1>10 DEF Set!Return, Set!LeftIs, Left
<1> QED BY <1>5, <1>7, <1>11, AnswersKept DEF Refines, Set!Next

\* A step of such an operation that decides nothing and is no lookup.
LEMMA PlainSilent ==
  ASSUME NEW t \in Threads, Acts(t), op[t] \notin Sweeps, op[t] # "bulk",
         op'[t] = op[t], key'[t] = key[t], res'[t] = res[t], Contents' = Contents,
         loc'[t].todo = <<>> \/ loc'[t].todo = loc[t].todo,
         loc'[t].batch = <<>> \/ loc'[t].batch = loc[t].batch,
         pc'[t] \notin Searching \cup {"visiting"}, pc'[t] # "enter" \/ op[t] = "insert",
         pc'[t] \in {"leave", "done"} => res[t] # "none",
         pc'[t] \in Erasing => pc[t] \in Erasing
  PROVE  Refines
<1>1. IInv /\ IInv' /\ Moves(t) /\ CallOK(t) /\ ThreadOK(t)
  BY Mover DEF Acts, Moves, AnswersOK
<1>2. /\ loc[t].todo = <<>> /\ loc[t].batch = <<>>
      /\ loc'[t].todo = <<>> /\ loc'[t].batch = <<>>
      /\ pc'[t] \notin {"compare", "check_overflow", "visiting"}
  BY <1>1 DEF CallOK, Searching
<1>3. CallOK(t)'
  <2>1. op'[t] = "none" => key'[t] = NoKey /\ res'[t] = "none"
    BY <1>1 DEF CallOK
  <2>2. pc'[t] \in Erasing /\ op'[t] = "erase" => res'[t] = "erased"
    BY <1>1 DEF CallOK
  <2> QED BY <1>1, <1>2, <2>1, <2>2, PlainCall
<1>4. Answers(t)'
  BY <1>1, <1>3, PlainAnswers
<1>5. Met(t) = {}
  BY <1>1 DEF ThreadOK, OpOK, Met, Sweeps
<1>6. KeysLeft(loc'[t]) = KeysLeft(loc[t])
  BY <1>2, NothingLeft
<1> QED BY <1>4, <1>5, <1>6, Silent

-----------------------------------------------------------------------------
(* Operations under exclusive access *)

LEMMA ActsAlone ==
  ASSUME NEW t \in Threads, Moves(t), AloneInTable(t)
  PROVE  Acts(t)
<1>1. Outside \cap Inside = {}
  BY ApartFromInside
<1> QED BY <1>1 DEF Acts, AloneInTable

LEMMA NoElements ==
  /\ Elements(DummyArrays) = {}
  /\ \A n : Elements(ArraysFor(n)) = {}
<1>1. Elements(DummyArrays) = {}
  BY DummyArraysTyped DEF Elements, Places
<1>2. ASSUME NEW G PROVE Elements(NewArrays(G)) = {}
  <2> DEFINE a == NewArrays(G)
  <2>1. a.groups = G /\ a.elem = [g \in 0 .. G - 1 |-> [n \in Slots |-> NoKey]]
    BY DEF NewArrays
  <2> HIDE DEF a
  <2>2. \A g \in Groups(a), n \in Slots : a.elem[g][n] = NoKey
    BY <2>1 DEF Groups
  <2>3. Elements(a) = {}
    BY <2>2 DEF Elements, Places
  <2> QED BY <2>3 DEF a
<1> QED BY <1>1, <1>2 DEF ArraysFor

LEMMA RehashBegins ==
  ASSUME NEW t \in Threads, Moves(t), StartRehash(t) \/ ReserveTable(t), pc'[t] = "rehash_move"
  PROVE  Refines
<1>1. /\ AloneInTable(t) /\ Rehashing = {} /\ newArrays = DummyArrays /\ op[t] \in {"insert", "reserve"}
  <2>1. IInv /\ CanEnterExclusive /\ pc[t] \in {"rehash_enter", "reserve_enter"}
    BY DEF StartRehash, ReserveTable, Moves
  <2> QED BY <2>1, EntersAlone, FoundAlone, Mover DEF ThreadOK, OpOK
<1>2. /\ UNCHANGED <<arrays, op, key, loc, res>> /\ \E n : newArrays' = ArraysFor(n)
  <2>1. CASE StartRehash(t)
    BY <2>1 DEF StartRehash, GrowthArrays
  <2>2. CASE ReserveTable(t)
    <3>1. ~Decide(t, "reserved", "done")
      BY DEF Decide, Goto, Moves, IInv, TypeOK
    <3> QED BY <2>2, <3>1 DEF ReserveTable
  <2> QED BY <2>1, <2>2
<1>3. Contents' = Contents
  BY <1>1, <1>2, NoElements DEF Contents
<1>4. op[t] \notin Sweeps /\ op[t] # "bulk" /\ pc'[t] \notin Searching \cup {"visiting"} \cup Erasing
  BY <1>1 DEF Sweeps, Searching, Erasing
<1> QED BY <1>1, <1>2, <1>3, <1>4, ActsAlone, PlainSilent

LEMMA ReserveTableRefines ==
  ASSUME NEW t \in Threads, Moves(t), ReserveTable(t)
  PROVE  Refines
<1>1. CASE pc'[t] = "rehash_move"
  BY <1>1, RehashBegins
<1>2. CASE pc'[t] # "rehash_move"
  <2>1. /\ AloneInTable(t) /\ op[t] = "reserve" /\ res[t] = "none"
    <3>1. IInv /\ CanEnterExclusive /\ pc[t] = "reserve_enter"
      BY DEF ReserveTable, Moves
    <3> QED BY <3>1, EntersAlone, Mover DEF ThreadOK, OpOK, OutcomeOK, Erasing
  <2>2. /\ UNCHANGED <<arrays, newArrays, op, key, loc>> /\ res'[t] = "reserved" /\ pc'[t] = "done"
    <3>1. ~Goto(t, "rehash_move")
      BY <1>2 DEF Goto, Moves, IInv, TypeOK
    <3> QED BY <3>1 DEF ReserveTable, Decide, Goto, Moves, IInv, TypeOK
  <2>3. Acts(t) /\ Contents' = Contents
    BY <2>1, <2>2, ActsAlone, NothingChanges
  <2>4. PICK ops, r, s : ops = {"reserve"} /\ r = "reserved" /\ s = Contents
    OBVIOUS
  <2>5. AnswersOK' /\ Set!Watch /\ Set!Decide(t, ops, r, s)
    <3>1. op[t] \in ops /\ op[t] \notin Sweeps /\ op[t] # "bulk" /\ r # "none"
      BY <2>1, <2>4 DEF Sweeps
    <3>2. pc'[t] \notin Searching \cup {"enter"} /\ op[t] # "erase" /\ pc'[t] # "visiting"
      BY <2>1, <2>2 DEF Searching
    <3>3. res'[t] = r /\ Contents' = s /\ loc'[t] = loc[t] /\ op'[t] = op[t] /\ key'[t] = key[t]
      BY <2>2, <2>3, <2>4
    <3> QED BY <2>1, <2>3, <3>1, <3>2, <3>3, PlainDecides
  <2>6. Set!Reserve(t)
    BY <2>4, <2>5 DEF Set!Reserve, Set!Decide
  <2> QED BY <2>5, <2>6 DEF Refines, Set!Next
<1> QED BY <1>1, <1>2

LEMMA StartRehashRefines ==
  ASSUME NEW t \in Threads, Moves(t), StartRehash(t)
  PROVE  Refines
<1>1. pc'[t] = "rehash_move"
  BY DEF StartRehash, Goto, Moves, IInv, TypeOK
<1> QED BY <1>1, RehashBegins

LEMMA ElementTaken ==
  ASSUME NEW a, IsArrays(a, Keys), OncePerKey(a), NEW g \in Groups(a), NEW n \in Slots, ~Empty(a, g, n),
         NEW b, b = SetElem(a, g, n, NoKey)
  PROVE  Elements(a) = Elements(b) \cup {a.elem[g][n]} /\ a.elem[g][n] \notin Elements(b)
<1>1. /\ IsArrays(b, Keys) /\ b.groups = a.groups /\ b.elem[g][n] = NoKey
      /\ \A h \in Groups(a), m \in Slots : h # g \/ m # n => b.elem[h][m] = a.elem[h][m]
  <2>1. NoKey \in Keys \cup {NoKey}
    OBVIOUS
  <2> QED BY <2>1, ElementWritten
<1>2. \A h \in Groups(a), m \in Slots : h # g \/ m # n => a.elem[h][m] # a.elem[g][n]
  BY DEF OncePerKey
<1>3. a.elem[g][n] # NoKey
  BY DEF Empty
<1> QED BY <1>1, <1>2, <1>3, ElementGone, FiniteAssumption, HashAssumption

LEMMA TransferElementRefines ==
  ASSUME NEW t \in Threads, Moves(t), TransferElement(t)
  PROVE  Refines
<1>0. PICK g, n, k : g = CursorGroup /\ n = CursorSlot /\ k = NextElement
  OBVIOUS
<1>1. /\ pc[t] = "rehash_move" /\ InOldArrays /\ UNCHANGED <<pc, op, key, res, loc>> /\ IInv
  BY DEF TransferElement, Moves
<1>2. AloneInTable(t) /\ op[t] \in {"insert", "reserve"}
  BY <1>1, RehashesAlone, Mover DEF ThreadOK, OpOK
<1>3. Contents' = Contents
  <2>1. CASE k = NoKey
    <3>1. UNCHANGED <<arrays, newArrays>>
      BY <1>0, <2>1 DEF TransferElement
    <3> QED BY <3>1, NothingChanges
  <2>2. CASE k # NoKey
    <3>1. /\ newArrays' = Emplaced(newArrays, Hash[k], k)
          /\ arrays' = IF MoveOnRehash THEN SetElem(arrays, g, n, NoKey) ELSE arrays
      BY <1>0, <2>2 DEF TransferElement
    <3>2. Elements(newArrays') = Elements(newArrays) \cup {k}
      BY <1>0, <1>1, <2>2, <3>1, NextEmplaced
    <3>3. k \in Elements(arrays) /\ ~Empty(arrays, g, n) /\ arrays.elem[g][n] = k
      BY <1>0, <1>1, <2>2, NextTransferred DEF NextElement
    <3>4. Elements(arrays) = Elements(arrays') \cup {k}
      <4>1. IsArrays(arrays, Keys) /\ OncePerKey(arrays) /\ g \in Groups(arrays) /\ n \in Slots
        BY <1>0, <1>1, CursorPlace, EachOnce, Mover
      <4>2. CASE MoveOnRehash
        BY <3>1, <3>3, <4>1, <4>2, ElementTaken
      <4>3. CASE ~MoveOnRehash
        BY <3>1, <3>3, <4>3
      <4> QED BY <4>2, <4>3
    <3> QED BY <3>2, <3>4 DEF Contents
  <2> QED BY <2>1, <2>2
<1>4. op[t] \notin Sweeps /\ op[t] # "bulk" /\ pc'[t] = "rehash_move"
      /\ pc'[t] \notin Searching \cup {"visiting"} \cup Erasing
  BY <1>1, <1>2 DEF Sweeps, Searching, Erasing
<1> QED BY <1>1, <1>2, <1>3, <1>4, ActsAlone, PlainSilent

LEMMA FinishRehashRefines ==
  ASSUME NEW t \in Threads, Moves(t), FinishRehash(t)
  PROVE  Refines
<1>1. /\ pc[t] = "rehash_move" /\ ~InOldArrays /\ arrays' = newArrays /\ newArrays' = DummyArrays
      /\ UNCHANGED <<op, key, loc>> /\ IInv
  BY DEF FinishRehash, Moves
<1>2. AloneInTable(t) /\ OldArraysOK /\ op[t] \in {"insert", "reserve"} /\ res[t] = "none"
  BY <1>1, RehashesAlone, FoundAlone, Mover DEF ThreadOK, OpOK, OutcomeOK, Erasing
<1>3. Contents' = Contents
  <2>1. ASSUME NEW k \in Elements(arrays) PROVE k \in Elements(newArrays)
    <3>1. PICK g \in Groups(arrays), n \in Slots : arrays.elem[g][n] = k /\ ~Empty(arrays, g, n)
      BY ElementSomewhere
    <3>2. Index(g, n) < cursor
      BY <1>1, CursorPast
    <3> QED BY <1>2, <3>1, <3>2 DEF OldArraysOK
  <2> QED BY <1>1, <2>1, NoElements DEF Contents
<1>4. CASE op[t] = "insert"
  <2>1. pc'[t] = "enter" /\ res'[t] = res[t]
    BY <1>4 DEF FinishRehash, AfterRehash, Goto, Moves, IInv, TypeOK
  <2> QED BY <1>1, <1>2, <1>3, <1>4, <2>1, ActsAlone, InsertSilent
<1>5. CASE op[t] = "reserve"
  <2>1. pc'[t] = "done" /\ res'[t] = "reserved"
    BY <1>5 DEF FinishRehash, AfterRehash, Decide, Goto, Moves, IInv, TypeOK
  <2>2. PICK ops, r, s : ops = {"reserve"} /\ r = "reserved" /\ s = Contents
    OBVIOUS
  <2>3. AnswersOK' /\ Set!Watch /\ Set!Decide(t, ops, r, s)
    <3>1. op[t] \in ops /\ op[t] \notin Sweeps /\ op[t] # "bulk" /\ r # "none"
      BY <1>5, <2>2 DEF Sweeps
    <3>2. pc'[t] \notin Searching \cup {"enter"} /\ op[t] # "erase" /\ pc'[t] # "visiting"
      BY <1>5, <2>1 DEF Searching
    <3>3. res'[t] = r /\ Contents' = s /\ loc'[t] = loc[t] /\ op'[t] = op[t] /\ key'[t] = key[t]
      BY <1>1, <1>3, <2>1, <2>2
    <3> QED BY <1>2, <3>1, <3>2, <3>3, ActsAlone, PlainDecides
  <2>4. Set!Reserve(t)
    BY <2>2, <2>3 DEF Set!Reserve, Set!Decide
  <2> QED BY <2>3, <2>4 DEF Refines, Set!Next
<1> QED BY <1>2, <1>4, <1>5

LEMMA TransferThrowsRefines ==
  ASSUME NEW t \in Threads, Moves(t), TransferThrows(t)
  PROVE  Refines
<1>0. PICK s \in {cursor, cursor + 1} : arrays' = WithoutSlots(arrays, Destroyed(s))
  BY DEF TransferThrows
<1> DEFINE D == Destroyed(s)
<1>1. /\ pc[t] = "rehash_move" /\ newArrays' = DummyArrays /\ MayThrow
      /\ UNCHANGED <<op, key, loc>> /\ IInv
  BY DEF TransferThrows, Moves
<1>2. /\ AloneInTable(t) /\ NewArraysOK /\ op[t] \in {"insert", "reserve"} /\ res[t] = "none"
      /\ IsArrays(arrays, Keys) /\ res'[t] = "threw" /\ pc'[t] = "done"
  BY <1>1, RehashesAlone, FoundAlone, Mover
     DEF ThreadOK, OpOK, OutcomeOK, Erasing, TransferThrows, Decide, Goto, IInv, TypeOK
<1>3. /\ arrays'.groups = arrays.groups
      /\ \A g \in Groups(arrays), n \in Slots :
           /\ <<g, n>> \in D => arrays'.elem[g][n] = NoKey
           /\ <<g, n>> \notin D => arrays'.elem[g][n] = arrays.elem[g][n]
  BY <1>0, <1>2, SlotsRemoved
<1>4. Groups(arrays') = Groups(arrays)
  BY <1>3, SameGroups
<1>5. Contents' = Elements(arrays')
  BY <1>1, NoElements DEF Contents
<1>6. Contents' \subseteq Contents
  <2>1. ASSUME NEW k \in Elements(arrays') PROVE k \in Elements(arrays)
    <3>1. PICK g \in Groups(arrays'), n \in Slots : arrays'.elem[g][n] = k /\ ~Empty(arrays', g, n)
      BY ElementSomewhere
    <3>2. arrays.elem[g][n] = k /\ ~Empty(arrays, g, n)
      BY <1>3, <1>4, <3>1 DEF Empty
    <3> QED BY <1>4, <3>2, ElementThere
  <2> QED BY <1>5, <2>1 DEF Contents
<1>7. ~MoveOnRehash => Contents' = Contents
  <2> SUFFICES ASSUME ~MoveOnRehash, NEW k \in Elements(arrays) PROVE k \in Elements(arrays')
    BY <1>2, <1>5, <1>6 DEF NewArraysOK, Contents
  <2>1. PICK g \in Groups(arrays), n \in Slots : arrays.elem[g][n] = k /\ ~Empty(arrays, g, n)
    BY ElementSomewhere
  <2>2. <<g, n>> \notin D
    BY <1>0 DEF Destroyed
  <2>3. arrays'.elem[g][n] = k /\ ~Empty(arrays', g, n)
    BY <1>3, <2>1, <2>2 DEF Empty
  <2> QED BY <1>4, <2>3, ElementThere
<1>8. PICK ops, r, left : ops = {"insert", "reserve"} /\ r = "threw" /\ left = Contents'
  OBVIOUS
<1>9. AnswersOK' /\ Set!Watch /\ Set!Decide(t, ops, r, left)
  <2>1. op[t] \in ops /\ op[t] \notin Sweeps /\ op[t] # "bulk" /\ r # "none"
    BY <1>2, <1>8 DEF Sweeps
  <2>2. pc'[t] \notin Searching \cup {"enter"} /\ op[t] # "erase" /\ pc'[t] # "visiting"
    BY <1>2 DEF Searching
  <2>3. res'[t] = r /\ Contents' = left /\ loc'[t] = loc[t] /\ op'[t] = op[t] /\ key'[t] = key[t]
    BY <1>1, <1>2, <1>8
  <2> QED BY <1>2, <2>1, <2>2, <2>3, ActsAlone, PlainDecides
<1>10. Set!Throw(t)
  <2>1. left \in (IF MayThrow /\ MoveOnRehash THEN SUBSET Contents ELSE {Contents})
    BY <1>1, <1>6, <1>7, <1>8
  <2> QED BY <1>8, <1>9, <2>1 DEF Set!Throw, Set!Decide
<1> QED BY <1>9, <1>10 DEF Refines, Set!Next

LEMMA ClearTableRefines ==
  ASSUME NEW t \in Threads, Moves(t), ClearTable(t)
  PROVE  Refines
<1>1. /\ pc[t] = "clear_enter" /\ CanEnterExclusive /\ arrays' = ClearedArrays(arrays)
      /\ UNCHANGED <<newArrays, op, key, loc>> /\ IInv
  BY DEF ClearTable, Moves
<1>2. /\ AloneInTable(t) /\ newArrays = DummyArrays /\ op[t] = "clear" /\ res[t] = "none"
      /\ res'[t] = "cleared" /\ pc'[t] = "done"
  BY <1>1, EntersAlone, FoundAlone, Mover
     DEF ThreadOK, OpOK, OutcomeOK, Erasing, ClearTable, Decide, Goto, IInv, TypeOK
<1>3. Contents' = {}
  <2>1. \A g \in Groups(arrays'), n \in Slots : arrays'.elem[g][n] = NoKey
    <3>1. IsArrays(arrays, Keys) /\ SentinelInPlace(arrays)
      BY <1>1, Mover DEF IInv, ArraysOK
    <3>2. IsArrays(arrays', Keys) /\ Blank(arrays')
      BY <1>1, <3>1, ClearedArraysTyped DEF Blank
    <3> QED BY <3>2 DEF Blank
  <2>2. Elements(arrays') = {}
    BY <2>1 DEF Elements, Places
  <2> QED BY <1>1, <1>2, <2>2, NoElements DEF Contents
<1>4. PICK ops, r, s : ops = {"clear"} /\ r = "cleared" /\ s = {}
  OBVIOUS
<1>5. AnswersOK' /\ Set!Watch /\ Set!Decide(t, ops, r, s)
  <2>1. op[t] \in ops /\ op[t] \notin Sweeps /\ op[t] # "bulk" /\ r # "none"
    BY <1>2, <1>4 DEF Sweeps
  <2>2. pc'[t] \notin Searching \cup {"enter"} /\ op[t] # "erase" /\ pc'[t] # "visiting"
    BY <1>2 DEF Searching
  <2>3. res'[t] = r /\ Contents' = s /\ loc'[t] = loc[t] /\ op'[t] = op[t] /\ key'[t] = key[t]
    BY <1>1, <1>2, <1>3, <1>4
  <2> QED BY <1>2, <2>1, <2>2, <2>3, ActsAlone, PlainDecides
<1>6. Set!Clear(t)
  BY <1>4, <1>5 DEF Set!Clear, Set!Decide
<1> QED BY <1>5, <1>6 DEF Refines, Set!Next

-----------------------------------------------------------------------------
(* Lookup and erasure *)

\* The elements that a lookup has found.
LEMMA HitThere ==
  ASSUME IInv, NEW t \in Threads, pc[t] = "compare", Hits(t) # {}, NEW g, g = At(t), NEW n, n = Lowest(Hits(t))
  PROVE  /\ g \in Groups(arrays) /\ n \in Slots /\ n \in loc[t].mask
         /\ arrays.elem[g][n] = key[t] /\ key[t] \in Keys /\ key[t] \in Contents /\ ~Empty(arrays, g, n)
         /\ pc[t] \in Inside
<1>1. pc[t] \in Searching /\ pc[t] \in Inside
  BY DEF Searching, Inside
<1>2. ThreadOK(t) /\ ThreadsTyped /\ IsArrays(arrays, Keys)
  BY Mover
<1>3. g \in Groups(arrays) /\ key[t] \in Keys
  <2>1. op[t] \in KeyOps \cup {"bulk"}
    BY <1>1, <1>2 DEF ThreadOK, OpOK
  <2> QED BY <1>1, <1>2, <2>1, AtTyped DEF ThreadOK, ArgumentsOK
<1>4. n \in Hits(t) /\ n \in loc[t].mask /\ n \in Slots
  BY HitsTyped
<1>5. arrays.elem[g][n] = key[t]
  BY <1>4 DEF Hits
<1>6. ~Empty(arrays, g, n)
  BY <1>3, <1>5, HashAssumption DEF Empty
<1>7. key[t] \in Contents
  BY <1>3, <1>4, <1>5, <1>6, ElementThere DEF Contents
<1> QED BY <1>1, <1>3, <1>4, <1>5, <1>6, <1>7

LEMMA KeepElementRefines ==
  ASSUME NEW t \in Threads, Moves(t), KeepElement(t)
  PROVE  Refines
<1>1. /\ pc[t] = "compare" /\ op[t] = "erase" /\ Hits(t) # {} /\ IInv
      /\ UNCHANGED <<arrays, newArrays, op, key, loc>> /\ res'[t] = "kept" /\ pc'[t] = "leave"
  BY DEF KeepElement, Decide, Goto, Moves, IInv, TypeOK, sharedVars
<1>2. res[t] = "none" /\ key[t] \in Contents
  BY <1>1, HitThere, Mover DEF ThreadOK, OutcomeOK, Erasing
<1>3. Acts(t) /\ Contents' = Contents
  BY <1>1, NothingChanges DEF Acts
<1>4. PICK ops, r, s : ops = {"erase"} /\ r = "kept" /\ s = Contents
  OBVIOUS
<1>5. AnswersOK' /\ Set!Watch /\ Set!Decide(t, ops, r, s)
  <2>1. op[t] \in ops /\ op[t] \notin Sweeps /\ op[t] # "bulk" /\ r # "none"
    BY <1>1, <1>4 DEF Sweeps
  <2>2. pc'[t] \notin Searching \cup {"enter"} /\ pc'[t] \notin Erasing /\ pc'[t] # "visiting"
    BY <1>1 DEF Searching, Erasing
  <2>3. res'[t] = r /\ Contents' = s /\ loc'[t] = loc[t] /\ op'[t] = op[t] /\ key'[t] = key[t]
    BY <1>1, <1>3, <1>4
  <2> QED BY <1>2, <1>3, <2>1, <2>2, <2>3, PlainDecides
<1>6. Set!Keep(t)
  BY <1>2, <1>4, <1>5 DEF Set!Keep, Set!Decide
<1> QED BY <1>5, <1>6 DEF Refines, Set!Next

LEMMA DestroyElementRefines ==
  ASSUME NEW t \in Threads, Moves(t), DestroyElement(t)
  PROVE  Refines
<1>0. PICK g, n : g = At(t) /\ n = Lowest(Hits(t))
  OBVIOUS
<1>1. /\ pc[t] = "compare" /\ op[t] = "erase" /\ Hits(t) # {} /\ IInv
      /\ arrays' = SetElem(arrays, g, n, NoKey)
      /\ UNCHANGED <<newArrays, op, key>> /\ res'[t] = "erased" /\ pc'[t] = "erase_ml"
  BY <1>0 DEF DestroyElement, Decide, Goto, Moves, IInv, TypeOK
<1>2. /\ g \in Groups(arrays) /\ n \in Slots /\ arrays.elem[g][n] = key[t] /\ ~Empty(arrays, g, n)
      /\ pc[t] \in Inside /\ res[t] = "none"
  BY <1>0, <1>1, HitThere, Mover DEF ThreadOK, OutcomeOK, Erasing
<1>3. loc'[t].todo = loc[t].todo /\ loc'[t].batch = loc[t].batch
  <2>1. loc' = [loc EXCEPT ![t].mask = {}, ![t].slot = n] /\ loc \in [Threads -> Locals]
    BY <1>0, <1>1 DEF DestroyElement, IInv, TypeOK
  <2>2. loc'[t] = [[loc[t] EXCEPT !.mask = {}] EXCEPT !.slot = n] /\ loc[t] \in Locals
    BY <2>1
  <2> QED BY <2>2 DEF Locals
<1>4. Settled /\ Contents' = Contents \ {key[t]} /\ key[t] \in Contents
  BY <1>1, <1>2, ErasureSettled
<1>5. Acts(t)
  BY <1>4 DEF Acts
<1>6. PICK ops, r, s : ops = {"erase"} /\ r = "erased" /\ s = Contents \ {key[t]}
  OBVIOUS
<1>7. AnswersOK' /\ Set!Watch /\ Set!Decide(t, ops, r, s)
  <2>1. op[t] \in ops /\ op[t] \notin Sweeps /\ op[t] # "bulk" /\ r # "none"
    BY <1>1, <1>6 DEF Sweeps
  <2>2. pc'[t] \notin Searching \cup {"enter"} /\ pc'[t] # "visiting"
    BY <1>1 DEF Searching
  <2>3. res'[t] = r /\ Contents' = s /\ op'[t] = op[t] /\ key'[t] = key[t]
    BY <1>1, <1>4, <1>6
  <2> QED BY <1>2, <1>3, <1>5, <1>6, <2>1, <2>2, <2>3, PlainDecides
<1>8. Set!Erase(t)
  BY <1>4, <1>6, <1>7 DEF Set!Erase, Set!Decide
<1> QED BY <1>7, <1>8 DEF Refines, Set!Next

\* A step of a sweep that meets nothing.
LEMMA SweepSilent ==
  ASSUME NEW t \in Threads, Acts(t), op[t] \in Sweeps, res[t] = "none", pc'[t] # "enter",
         pc[t] \in {"sweep"} \cup Erasing, pc'[t] \in {"sweep", "sweep_slot"} \cup Erasing,
         op'[t] = op[t], key'[t] = key[t], res'[t] = res[t], UNCHANGED newArrays,
         arrays'.groups = arrays.groups, arrays'.elem = arrays.elem,
         loc'[t].todo = loc[t].todo, loc'[t].batch = loc[t].batch,
         pc'[t] # "sweep" => loc'[t].step \in loc'[t].scan,
         \A g \in Groups(arrays), n \in Slots : ~Empty(arrays, g, n) => (ToVisit(t, g, n)' <=> ToVisit(t, g, n))
  PROVE  Refines
<1>1. IInv /\ IInv' /\ Moves(t) /\ CallOK(t) /\ MissedOK(t) /\ SweepMeets(t) /\ Watch
  BY DEF Acts, Moves, AnswersOK
<1>2. Contents' = Contents /\ Groups(arrays') = Groups(arrays)
  BY SameElements, SameGroups DEF Contents
<1>3. op[t] # "bulk" /\ op[t] # "none" /\ op[t] # "insert" /\ op[t] # "erase" /\ pc[t] # "sweep_slot"
  BY DEF Sweeps, Erasing
<1>4. loc'[t].todo = <<>> /\ loc'[t].batch = <<>>
  BY <1>1, <1>3 DEF CallOK
<1>5. CallOK(t)'
  <2>1. pc'[t] \notin {"leave", "done", "enter", "compare", "check_overflow", "visiting"}
    BY DEF Erasing
  <2> QED BY <1>1, <1>3, <1>4, <2>1, PlainCall
<1>6. Met(t) = {}
  BY <1>3 DEF Met
<1>7. unmet'[t] = unmet[t]
  BY <1>1, <1>2, <1>3, <1>6, WatchUnmet
<1>8. missed[t] \subseteq missed'[t]
  <2>1. KeysLeft(loc'[t]) = KeysLeft(loc[t])
    BY <1>1, <1>3, <1>4, NothingLeft DEF CallOK
  <2>2. Asked(op'[t], key'[t], loc'[t], res'[t]) = Asked(op[t], key[t], loc[t], res[t])
    BY <2>1 DEF Asked
  <2> QED BY <1>1, <2>2, WatchMissed DEF MissedOK
<1>9. SweepMeets(t)'
  <2>1. /\ \A g \in Groups(arrays), n \in Slots :
             ToVisit(t, g, n) /\ ~Empty(arrays, g, n) => arrays.elem[g][n] \in unmet[t]
        /\ \A k \in unmet[t] \ missed[t] :
             \E g \in Groups(arrays), n \in Slots : arrays.elem[g][n] = k /\ ToVisit(t, g, n)
    BY <1>1 DEF SweepMeets
  <2>2. \A g, n : Empty(arrays', g, n) <=> Empty(arrays, g, n)
    BY DEF Empty
  <2>3. \A k \in unmet[t] : k # NoKey
    BY <1>1, HashAssumption DEF Moves, AnswersOK, HistoryTyped
  <2>4. ASSUME NEW k \in unmet'[t] \ missed'[t]
        PROVE  \E g \in Groups(arrays'), n \in Slots : arrays'.elem[g][n] = k /\ ToVisit(t, g, n)'
    <3>1. PICK g \in Groups(arrays), n \in Slots : arrays.elem[g][n] = k /\ ToVisit(t, g, n)
      BY <1>7, <1>8, <2>1, <2>4
    <3>2. ~Empty(arrays, g, n)
      BY <1>7, <2>3, <2>4, <3>1 DEF Empty
    <3> QED BY <1>2, <3>1, <3>2
  <2>5. \A g \in Groups(arrays'), n \in Slots :
          ToVisit(t, g, n)' /\ ~Empty(arrays', g, n) => arrays'.elem[g][n] \in unmet'[t]
    BY <1>2, <1>7, <2>1, <2>2
  <2> QED BY <2>4, <2>5 DEF SweepMeets
<1>10. Answers(t)'
  <2>1. pc'[t] \notin Searching /\ op'[t] # "bulk"
    BY <1>3 DEF Searching, Erasing
  <2> QED BY <1>5, <1>9, <2>1 DEF Answers, LookupOK, BatchOK
<1>11. KeysLeft(loc'[t]) = KeysLeft(loc[t])
  BY <1>1, <1>3, <1>4, NothingLeft DEF CallOK
<1> QED BY <1>2, <1>6, <1>10, <1>11, Silent

LEMMA EraseTail ==
  ASSUME NEW t \in Threads, Moves(t), LowerMaxLoad(t) \/ ResetSlot(t) \/ DecreaseSize(t)
  PROVE  Refines
<1>1. /\ pc[t] \in Erasing /\ op[t] \in {"erase", "erase_if"} /\ IInv /\ IInv' /\ loc[t] \in Locals
      /\ CallOK(t) /\ OutcomeOK(t) /\ IsArrays(arrays, Keys)
  <2>1. pc[t] \in Erasing /\ IInv /\ IInv' /\ CallOK(t)
    BY DEF LowerMaxLoad, ResetSlot, DecreaseSize, Erasing, Moves, AnswersOK
  <2> QED BY <2>1, Mover DEF ThreadOK, OpOK
<1>2. UNCHANGED <<newArrays, op, key, res, loc>>
  BY DEF LowerMaxLoad, ResetSlot, DecreaseSize
<1>3. arrays'.groups = arrays.groups /\ arrays'.elem = arrays.elem /\ arrays'.overflow = arrays.overflow
  <2>1. CASE LowerMaxLoad(t) \/ DecreaseSize(t)
    BY <2>1 DEF LowerMaxLoad, DecreaseSize
  <2>2. CASE ResetSlot(t)
    <3>0. PICK g, n : g = At(t) /\ n = loc[t].slot
      OBVIOUS
    <3>1. g \in Groups(arrays) /\ n \in Slots /\ Available \in Bytes
      <4>1. pc[t] \in Owners
        BY <2>2 DEF ResetSlot, Owners
      <4> QED BY <1>1, <3>0, <4>1, Owner DEF Available, Bytes
    <3>2. arrays' = SetMeta(arrays, g, n, Available)
      BY <2>2, <3>0 DEF ResetSlot
    <3> QED BY <1>1, <3>1, <3>2, MetaWritten
  <2> QED BY <2>1, <2>2
<1>4. Settled /\ Contents' = Contents
  BY <1>2, <1>3, SameElementsSettled
<1>5. Acts(t)
  BY <1>4 DEF Acts
<1>6. pc'[t] \in Erasing \cup {IF op[t] = "erase_if" THEN AfterSlot(loc[t].mask) ELSE "leave"}
  BY DEF LowerMaxLoad, ResetSlot, DecreaseSize, Erasing, Goto, Moves, IInv, TypeOK
<1>7. CASE op[t] = "erase"
  <2>1. res[t] = "erased"
    BY <1>1, <1>7 DEF CallOK
  <2>2. pc'[t] \notin Searching \cup {"visiting"} /\ pc'[t] # "enter"
    BY <1>6, <1>7 DEF Searching, Erasing
  <2>3. op[t] \notin Sweeps /\ op[t] # "bulk"
    BY <1>7 DEF Sweeps
  <2> QED BY <1>1, <1>2, <1>4, <1>5, <2>1, <2>2, <2>3, PlainSilent
<1>8. CASE op[t] = "erase_if"
  <2>1. op[t] \in Sweeps /\ pc'[t] \in {"sweep", "sweep_slot"} \cup Erasing /\ pc'[t] # "enter"
    BY <1>6, <1>8 DEF Sweeps, AfterSlot, Erasing
  <2>2. res[t] = "none"
    BY <1>1, <1>8 DEF OutcomeOK, Erasing
  <2>3. pc'[t] = "sweep" => loc[t].mask = {}
    BY <1>6, <1>8 DEF AfterSlot, Erasing
  <2>4. \A g, n : ToVisit(t, g, n)' <=> ToVisit(t, g, n)
    BY <1>1, <1>2, <2>1, <2>3 DEF ToVisit, Erasing
  <2>5. loc'[t].step \in loc'[t].scan
    <3>1. SweepMeets(t) /\ op[t] \in Sweeps /\ pc[t] # "sweep"
      BY <1>1, <1>8 DEF Moves, AnswersOK, Sweeps, Erasing
    <3> QED BY <1>1, <1>2, <3>1 DEF SweepMeets
  <2> QED BY <1>1, <1>2, <1>3, <1>5, <2>1, <2>2, <2>4, <2>5, SweepSilent
<1> QED BY <1>1, <1>7, <1>8

-----------------------------------------------------------------------------
(* Lookups go on *)

LEMMA CallKept ==
  ASSUME NEW t \in Threads, Moves(t), op[t] # "none", op'[t] = op[t],
         loc'[t].todo = loc[t].todo, loc'[t].batch = loc[t].batch,
         pc'[t] \notin Erasing \cup {"enter"}, pc'[t] \in {"leave", "done"} => op[t] # "bulk",
         pc'[t] \in {"leave", "done", "bulk_next", "bulk_match"} => res'[t] # "none",
         pc'[t] \in {"compare", "check_overflow", "visiting", "bulk_next"} => loc'[t].scan = {} \/ op[t] = "insert"
  PROVE  CallOK(t)'
<1>1. CallOK(t)
  BY DEF Moves, AnswersOK
<1>2. EachKeyOnce(loc[t]) => EachKeyOnce(loc'[t])
  BY DEF EachKeyOnce
<1> QED BY <1>1, <1>2 DEF CallOK, Erasing

\* A bulk visit knows what it has recorded.
LEMMA BatchKept ==
  ASSUME NEW t \in Threads, Moves(t), UNCHANGED <<arrays, newArrays>>, op'[t] = op[t],
         loc'[t].todo = loc[t].todo, loc'[t].batch = loc[t].batch, op[t] = "bulk" => pc[t] \in Inside \ {"bulk_match"}
  PROVE  BatchOK(t)'
<1> SUFFICES ASSUME op[t] = "bulk", NEW i \in 1 .. Len(loc[t].batch), loc[t].batch[i].key \notin missed'[t]
             PROVE  \E g \in Groups(arrays), n \in Slots :
                      /\ arrays.elem[g][n] = loc[t].batch[i].key
                      /\ g = Home(arrays, loc[t].batch[i].key) => Recording(t, i, n)'
  BY DEF BatchOK, Home, Groups
<1>1. loc[t].batch \in Seq(Matches) /\ BatchOK(t)
  BY Mover DEF Locals, Moves, AnswersOK
<1>2. loc[t].batch[i].key \in KeysLeft(loc[t]) /\ KeysLeft(loc'[t]) = KeysLeft(loc[t])
  BY <1>1 DEF KeysLeft
<1>3. loc[t].batch[i].key \notin missed[t]
  BY <1>2, Unmissed DEF Moves, Asked
<1>4. PICK g \in Groups(arrays), n \in Slots :
        /\ arrays.elem[g][n] = loc[t].batch[i].key
        /\ g = Home(arrays, loc[t].batch[i].key) => Recording(t, i, n)
  BY <1>1, <1>3 DEF BatchOK
<1>5. Recording(t, i, n) => Recording(t, i, n)'
  BY DEF Recording
<1> QED BY <1>4, <1>5

\* An operation on a key that leaves the table as it is and decides nothing.
LEMMA LookupSilent ==
  ASSUME NEW t \in Threads, Moves(t), UNCHANGED <<arrays, newArrays>>, op[t] \notin Sweeps, op[t] # "none",
         op'[t] = op[t], key'[t] = key[t], res'[t] = res[t],
         KeysLeft(loc'[t]) = KeysLeft(loc[t]), CallOK(t)', LookupOK(t)', BatchOK(t)'
  PROVE  Refines
<1>1. Contents' = Contents /\ Acts(t)
  BY NothingChanges DEF Acts
<1>2. Met(t) = {}
  <2>1. OpOK(t)
    BY Mover DEF Moves, ThreadOK
  <2> QED BY <2>1 DEF OpOK, Met
<1>3. unmet'[t] = {}
  BY WatchUnmet DEF Moves
<1>4. Answers(t)'
  BY <1>3 DEF Answers, SweepMeets
<1> QED BY <1>1, <1>2, <1>4, Silent

LEMMA LookupKept ==
  ASSUME NEW t \in Threads, Moves(t), UNCHANGED <<arrays, newArrays>>, pc[t] \in Searching,
         op'[t] = op[t], key'[t] = key[t], res'[t] = res[t],
         \A g \in Groups(arrays), n \in Slots :
           op[t] # "insert" /\ pc'[t] \in Searching /\ arrays.elem[g][n] = key[t] /\ Ahead(t, g, n) => Ahead(t, g, n)'
  PROVE  LookupOK(t)'
<1> SUFFICES ASSUME pc'[t] \in Searching, op[t] # "insert", key[t] \notin missed'[t]
             PROVE  \E g \in Groups(arrays), n \in Slots : arrays.elem[g][n] = key[t] /\ Ahead(t, g, n)'
  BY DEF LookupOK, Groups
<1>1. ThreadOK(t) /\ LookupOK(t)
  BY Mover DEF Moves, AnswersOK
<1>2. key[t] \in Keys /\ op[t] \notin Sweeps /\ res[t] = "none"
  BY <1>1 DEF ThreadOK, OpOK, OutcomeOK, ArgumentsOK, Searching, KeyOps, Sweeps, Erasing
<1>3. key[t] \notin missed[t]
  <2>1. key[t] \in Asked(op'[t], key'[t], loc'[t], res'[t])
    BY <1>2 DEF Asked
  <2> QED BY <2>1, Unmissed DEF Moves
<1> QED BY <1>1, <1>3 DEF LookupOK

-----------------------------------------------------------------------------
(* Entering *)

\* The search for an element that is there will come to it.
LEMMA SearchFinds ==
  ASSUME IInv, NEW t \in Threads, Rehashing = {}, UNCHANGED arrays, NEW k \in Keys, k \in Contents,
         key'[t] = k, pc'[t] = "match", loc'[t].step = 0, loc'[t].scan = {}
  PROVE  \E g \in Groups(arrays), n \in Slots : arrays.elem[g][n] = k /\ Ahead(t, g, n)'
<1>1. k \in Elements(arrays)
  BY ContentsOfArrays DEF IInv, RehashOK
<1>2. PICK g \in Groups(arrays), n \in Slots : arrays.elem[g][n] = k
  BY <1>1, ElementSomewhere
<1>3. PICK i \in Groups(arrays) : Probe(arrays, Position(arrays, Hash[k]), i) = g /\ Passed(arrays, Hash[k], i)
  BY <1>2, HasReached DEF Reached, Has
<1>4. i = 0 \/ i > 0
  BY Mover, ArraysTyped DEF Groups
<1>5. Ahead(t, g, n)'
  BY <1>3, <1>4 DEF Ahead, Home, Groups
<1> QED BY <1>2, <1>5

LEMMA EnterLookupRefines ==
  ASSUME NEW t \in Threads, Moves(t), EnterVisit(t) \/ EnterErase(t)
  PROVE  Refines
<1>1. /\ pc[t] = "enter" /\ op[t] \in {"visit", "erase"} /\ pc'[t] = "match" /\ Rehashing = {} /\ IInv
      /\ UNCHANGED <<arrays, newArrays, op, key, res>> /\ loc'[t] = loc[t]
  BY DEF EnterVisit, EnterErase, EnterFor, CanEnter, Local, Goto, Moves, IInv, TypeOK, sharedVars
<1>2. key[t] \in Keys /\ res[t] = "none" /\ loc[t].step = 0 /\ loc[t].scan = {}
  BY <1>1, Mover DEF ThreadOK, OutcomeOK, ArgumentsOK, KeyOps, Erasing, Moves, AnswersOK, CallOK
<1>3. CallOK(t)' /\ BatchOK(t)'
  BY <1>1, CallKept, BatchKept DEF Erasing
<1>4. LookupOK(t)'
  <2> SUFFICES ASSUME key[t] \notin missed'[t]
               PROVE  \E g \in Groups(arrays), n \in Slots : arrays.elem[g][n] = key[t] /\ Ahead(t, g, n)'
    BY <1>1 DEF LookupOK, Groups
  <2>1. key[t] \in Asked(op'[t], key'[t], loc'[t], res'[t])
    BY <1>1, <1>2 DEF Asked, Sweeps
  <2>2. key[t] \in Contents
    BY <1>1, <2>1, Unmissed, NothingChanges DEF Moves
  <2> QED BY <1>1, <1>2, <2>2, SearchFinds
<1> QED BY <1>1, <1>3, <1>4, LookupSilent DEF Sweeps

LEMMA EnterBulkRefines ==
  ASSUME NEW t \in Threads, Moves(t), EnterBulk(t)
  PROVE  Refines
<1>1. /\ pc[t] = "enter" /\ op[t] = "bulk" /\ pc'[t] = "bulk_next" /\ IInv
      /\ UNCHANGED <<arrays, newArrays, op, key, res>> /\ loc'[t] = loc[t]
  BY DEF EnterBulk, EnterFor, Local, Goto, Moves, IInv, TypeOK, sharedVars
<1>2. loc[t].batch = <<>> /\ CallOK(t)
  BY <1>1, Mover DEF ThreadOK, LocalsOK, Moves, AnswersOK
<1>3. CallOK(t)'
  BY <1>1, <1>2 DEF CallOK, Erasing
<1>4. BatchOK(t)' /\ LookupOK(t)'
  BY <1>1, <1>2 DEF BatchOK, LookupOK, Searching
<1> QED BY <1>1, <1>3, <1>4, LookupSilent DEF Sweeps

LEMMA EnterSweepRefines ==
  ASSUME NEW t \in Threads, Moves(t), EnterSweep(t)
  PROVE  Refines
<1>1. /\ pc[t] = "enter" /\ op[t] \in Sweeps /\ pc'[t] = "sweep" /\ Rehashing = {} /\ IInv /\ Watch
      /\ UNCHANGED <<arrays, newArrays, op, key, res>> /\ loc'[t] = loc[t]
  BY DEF EnterSweep, EnterFor, CanEnter, Local, Goto, Moves, IInv, TypeOK, sharedVars
<1>2. /\ res[t] = "none" /\ loc[t].scan = {} /\ unmet[t] = Keys /\ CallOK(t)
      /\ op[t] # "bulk" /\ op[t] # "none" /\ op[t] # "insert"
  BY <1>1, Mover DEF ThreadOK, OutcomeOK, Erasing, Moves, AnswersOK, CallOK, SweepMeets, Sweeps
<1>3. Contents' = Contents /\ Acts(t) /\ Met(t) = {}
  BY <1>1, NothingChanges DEF Acts, Met
<1>4. unmet'[t] = Keys
  BY <1>1, <1>2, <1>3, WatchUnmet
<1>5. CallOK(t)'
  BY <1>1, <1>2 DEF CallOK, Erasing
<1>6. \A g, n : ToVisit(t, g, n)'
  BY <1>1, <1>2 DEF ToVisit
<1>7. SweepMeets(t)'
  <2>1. ASSUME NEW g \in Groups(arrays), NEW n \in Slots, ~Empty(arrays, g, n) PROVE arrays.elem[g][n] \in Keys
    BY <1>1, <2>1, Mover, ArraysTyped DEF Empty
  <2>2. ASSUME NEW k \in Keys, k \notin missed'[t]
        PROVE  \E g \in Groups(arrays), n \in Slots : arrays.elem[g][n] = k
    <3>1. k \in Asked(op'[t], key'[t], loc'[t], res'[t])
      BY <1>1, <1>2 DEF Asked
    <3>2. k \in Contents
      BY <1>3, <2>2, <3>1, Unmissed DEF Moves
    <3>3. k \in Elements(arrays)
      BY <1>1, <3>2, ContentsOfArrays DEF IInv, RehashOK
    <3> QED BY <3>3, ElementSomewhere
  <2> QED BY <1>1, <1>2, <1>4, <1>6, <2>1, <2>2 DEF SweepMeets, Empty, Groups
<1>8. Answers(t)'
  BY <1>1, <1>2, <1>5, <1>7 DEF Answers, LookupOK, BatchOK, Searching
<1>9. op'[t] = op[t] /\ key'[t] = key[t] /\ res'[t] = res[t] /\ KeysLeft(loc'[t]) = KeysLeft(loc[t])
  BY <1>1
<1> QED BY <1>3, <1>8, <1>9, Silent

-----------------------------------------------------------------------------
(* Lookup *)

LEMMA MatchSlotRefines ==
  ASSUME NEW t \in Threads, Moves(t), MatchSlot(t)
  PROVE  Refines
<1>0. IInv /\ AnswersOK
  BY DEF Moves
<1>1. pc[t] = "match" /\ pc[t] \notin Busy /\ op[t] \in KeyOps \cup {"bulk"} /\ key[t] \in Keys
  BY <1>0, Mover DEF MatchSlot, Busy, Owners, Reserved, Erasing, ThreadOK, OpOK, ArgumentsOK, Searching
<1>2. PICK n \in Slots \ loc[t].scan :
        LET hit  == arrays.meta[At(t)][n] = Hash[key[t]].tag
            mask == IF hit THEN loc[t].mask \cup {n} ELSE loc[t].mask
            scan == loc[t].scan \cup {n}
        IN  IF scan # Slots
            THEN Local(t, "match", [loc[t] EXCEPT !.scan = scan, !.mask = mask])
            ELSE Local(t, IF mask = {} THEN "check_overflow" ELSE "compare",
                          [loc[t] EXCEPT !.scan = {}, !.mask = mask])
  BY DEF MatchSlot
<1> DEFINE hit  == arrays.meta[At(t)][n] = Hash[key[t]].tag
           mask == IF hit THEN loc[t].mask \cup {n} ELSE loc[t].mask
           scan == loc[t].scan \cup {n}
           l == [loc[t] EXCEPT !.scan = IF scan # Slots THEN scan ELSE {}, !.mask = mask]
           p == IF scan # Slots THEN "match" ELSE IF mask = {} THEN "check_overflow" ELSE "compare"
<1>3. Local(t, p, l)
  BY <1>2
<1>4. /\ loc[t] \in Locals /\ loc[t].mask \subseteq Slots /\ loc[t].scan \subseteq Nat
      /\ n \in Slots /\ n \in Nat /\ n \notin loc[t].scan /\ loc[t].step \in Nat
  BY <1>0, Mover, SlotsNumbered DEF Locals
<1>5. /\ l \in Locals /\ l.mask = mask /\ l.scan = (IF scan # Slots THEN scan ELSE {})
      /\ l.batch = loc[t].batch /\ l.todo = loc[t].todo /\ l.step = loc[t].step
  BY <1>4 DEF Locals
<1>6. p \in {"match", "check_overflow", "compare"} /\ p \in Pcs \ Busy
  BY DEF Pcs, Inside, Searching, Busy, Owners, Reserved, Erasing
<1>7. /\ (p = "match" => scan # Slots) /\ (p # "match" => scan = Slots)
      /\ (p = "check_overflow" => mask = {}) /\ (mask = {} => p # "compare")
  OBVIOUS
<1> HIDE DEF p, l
<1>8. /\ UNCHANGED <<arrays, newArrays>>
      /\ pc'[t] = p /\ loc'[t] = l /\ op'[t] = op[t] /\ key'[t] = key[t] /\ res'[t] = res[t]
  <2>1. UNCHANGED newArrays
    BY <1>3 DEF Local, sharedVars
  <2> QED BY <1>0, <1>1, <1>3, <1>5, <1>6, <2>1, LocalStep
<1>9. op[t] \notin Sweeps /\ op[t] # "none"
  BY <1>1 DEF KeyOps, Sweeps
<1>10. CASE op[t] = "insert"
  <2>1. pc'[t] \notin {"leave", "done"}
    BY <1>6, <1>8
  <2> QED BY <1>5, <1>8, <1>10, <2>1, InsertLocal
<1>11. CASE op[t] # "insert"
  <2>1. CallOK(t)'
    <3>1. pc'[t] # "match" => loc'[t].scan = {}
      BY <1>5, <1>7, <1>8
    <3>2. pc'[t] \in {"match", "compare", "check_overflow"}
      BY <1>6, <1>8
    <3> QED BY <1>5, <1>8, <1>9, <3>1, <3>2, CallKept DEF Erasing
  <2>2. BatchOK(t)'
    BY <1>1, <1>5, <1>8, BatchKept DEF Inside, Searching
  <2>3. LookupOK(t)'
    <3>1. ASSUME NEW g \in Groups(arrays), NEW m \in Slots, arrays.elem[g][m] = key[t], Ahead(t, g, m)
          PROVE  Ahead(t, g, m)'
      <4>1. PICK i \in Groups(arrays) :
              /\ Probe(arrays, Home(arrays, key[t]), i) = g /\ Passed(arrays, Hash[key[t]], i)
              /\ \/ i > loc[t].step
                 \/ i = loc[t].step /\ pc[t] = "match" /\ (m \in loc[t].mask \/ m \notin loc[t].scan)
        BY <1>1, <3>1 DEF Ahead
      <4>2. i > l.step \/ (i = l.step /\ p = "match" /\ (m \in mask \/ m \notin l.scan))
            \/ (i = l.step /\ p = "compare" /\ m \in mask)
        <5>1. CASE i > loc[t].step
          BY <1>5, <5>1
        <5>2. CASE i = loc[t].step
          <6>1. g = At(t)
            BY <1>9, <4>1, <5>2 DEF At
          <6>2. m = n => hit
            BY <1>0, <1>1, <3>1, <6>1, HasTag DEF Has
          <6>3. m \in mask \/ m \notin scan
            BY <1>1, <4>1, <5>2, <6>2, <1>4
          <6> QED BY <1>5, <1>6, <1>7, <5>2, <6>3
        <5> QED BY <4>1, <5>1, <5>2
      <4> QED BY <1>5, <1>8, <4>1, <4>2 DEF Ahead, Home, Groups
    <3>2. pc[t] \in Searching
      BY <1>1 DEF Searching
    <3> QED BY <1>8, <3>1, <3>2, LookupKept
  <2>4. KeysLeft(loc'[t]) = KeysLeft(loc[t])
    BY <1>5, <1>8 DEF KeysLeft
  <2> QED BY <1>8, <1>9, <2>1, <2>2, <2>3, <2>4, LookupSilent
<1> QED BY <1>10, <1>11

LEMMA CompareMissesRefines ==
  ASSUME NEW t \in Threads, Moves(t), CompareMisses(t)
  PROVE  Refines
<1>0. IInv /\ AnswersOK
  BY DEF Moves
<1>1. /\ pc[t] = "compare" /\ op[t] \in KeyOps \cup {"bulk"} /\ key[t] \in Keys /\ loc[t] \in Locals
      /\ ThreadOK(t) /\ CallOK(t) /\ Hits(t) = {} /\ op[t] \notin Sweeps /\ op[t] # "none"
  BY <1>0, Mover DEF CompareMisses, ThreadOK, OpOK, ArgumentsOK, Searching, AnswersOK, KeyOps, Sweeps
<1> DEFINE l == [loc[t] EXCEPT !.mask = {}]
<1>2. /\ l.scan = loc[t].scan /\ l.batch = loc[t].batch /\ l.step = loc[t].step /\ l.todo = loc[t].todo
  BY <1>1 DEF Locals
<1>3. /\ UNCHANGED <<arrays, newArrays>> /\ pc'[t] = "check_overflow" /\ loc'[t] = l
      /\ op'[t] = op[t] /\ key'[t] = key[t] /\ res'[t] = res[t]
  BY <1>0 DEF CompareMisses, Local, Goto, IInv, TypeOK, sharedVars
<1> HIDE DEF l
<1>4. CASE op[t] = "insert"
  BY <1>2, <1>3, <1>4, InsertLocal
<1>5. CASE op[t] # "insert"
  <2>1. CallOK(t)'
    <3>1. loc'[t].scan = {}
      BY <1>1, <1>2, <1>3, <1>5 DEF CallOK
    <3> QED BY <1>1, <1>2, <1>3, <3>1, CallKept DEF Erasing
  <2>2. BatchOK(t)'
    BY <1>1, <1>2, <1>3, BatchKept DEF Inside, Searching
  <2>3. LookupOK(t)'
    <3>1. ASSUME NEW g \in Groups(arrays), NEW n \in Slots, arrays.elem[g][n] = key[t], Ahead(t, g, n)
          PROVE  Ahead(t, g, n)'
      <4>1. PICK i \in Groups(arrays) :
              /\ Probe(arrays, Home(arrays, key[t]), i) = g /\ Passed(arrays, Hash[key[t]], i)
              /\ i > loc[t].step \/ (i = loc[t].step /\ n \in loc[t].mask)
        BY <1>1, <3>1 DEF Ahead
      <4>2. ASSUME i = loc[t].step, n \in loc[t].mask PROVE FALSE
        <5>1. g = At(t)
          BY <1>1, <4>1, <4>2 DEF At
        <5>2. arrays.meta[g][n] # Available
          BY <1>0, <1>1, <3>1, HasTag, HashTyped DEF Has
        <5> QED BY <1>1, <3>1, <4>2, <5>1, <5>2 DEF Hits, Compared
      <4> QED BY <1>2, <1>3, <4>1, <4>2 DEF Ahead, Home, Groups
    <3>2. pc[t] \in Searching
      BY <1>1 DEF Searching
    <3> QED BY <1>3, <3>1, <3>2, LookupKept
  <2>4. KeysLeft(loc'[t]) = KeysLeft(loc[t])
    BY <1>2, <1>3 DEF KeysLeft
  <2> QED BY <1>1, <1>3, <2>1, <2>2, <2>3, <2>4, LookupSilent
<1> QED BY <1>4, <1>5

\* A lookup is decided, and leaves the table as it is.
LEMMA LookupDecides ==
  ASSUME NEW t \in Threads, Moves(t), UNCHANGED <<arrays, newArrays>>, op[t] \notin Sweeps,
         NEW ops, op[t] \in ops, res[t] = "none", NEW r, r # "none", res'[t] = r, op'[t] = op[t], key'[t] = key[t],
         KeysLeft(loc'[t]) = KeysLeft(loc[t]), pc'[t] \notin Searching, CallOK(t)', BatchOK(t)'
  PROVE  AnswersOK' /\ Set!Watch /\ Set!Decide(t, ops, r, Contents)
<1>1. Contents' = Contents /\ Acts(t)
  BY NothingChanges DEF Acts
<1>2. unmet'[t] = {}
  BY WatchUnmet DEF Moves
<1>3. Answers(t)'
  BY <1>2 DEF Answers, SweepMeets, LookupOK
<1>4. Set!Decide(t, ops, r, Contents)
  <2>1. PICK s : s = Contents
    OBVIOUS
  <2>2. Set!Decide(t, ops, r, s)
    BY <1>1, <2>1, Decided DEF Acts
  <2> QED BY <2>1, <2>2 DEF Set!Decide, Set!LeftOf, Set!LeftIs
<1> QED BY <1>1, <1>3, <1>4, AnswersKept

LEMMA CompareFindsRefines ==
  ASSUME NEW t \in Threads, Moves(t), CompareFinds(t)
  PROVE  Refines
<1>0. PICK n : n = Lowest(Hits(t))
  OBVIOUS
<1>1. /\ pc[t] = "compare" /\ Hits(t) # {} /\ op[t] \in {"insert", "visit", "bulk"} /\ IInv /\ CallOK(t)
      /\ res[t] = "none" /\ loc[t] \in Locals
  <2>1. pc[t] = "compare" /\ pc[t] \in Searching /\ Hits(t) # {} /\ op[t] # "erase" /\ IInv /\ CallOK(t)
    BY DEF CompareFinds, Searching, Moves, AnswersOK
  <2> QED BY <2>1, Mover DEF ThreadOK, OpOK, OutcomeOK, KeyOps, Erasing
<1>2. /\ UNCHANGED <<arrays, newArrays, op, key>> /\ res'[t] = "found" /\ pc'[t] = "visiting"
  BY DEF CompareFinds, Decide, Goto, Moves, IInv, TypeOK, sharedVars
<1>3. loc'[t].todo = loc[t].todo /\ loc'[t].batch = loc[t].batch /\ loc'[t].scan = loc[t].scan
  <2>1. loc' = [loc EXCEPT ![t].mask = {}, ![t].slot = n] /\ loc \in [Threads -> Locals]
    BY <1>0, <1>1 DEF CompareFinds, IInv, TypeOK
  <2>2. loc'[t] = [[loc[t] EXCEPT !.mask = {}] EXCEPT !.slot = n]
    BY <2>1
  <2> QED BY <1>1, <2>2 DEF Locals
<1>4. key[t] \in Contents
  BY <1>0, <1>1, HitThere
<1>5. CallOK(t)'
  <2>1. op[t] # "insert" => loc'[t].scan = {}
    BY <1>1, <1>3 DEF CallOK
  <2> QED BY <1>1, <1>2, <1>3, <2>1, CallKept DEF Erasing
<1>6. BatchOK(t)'
  BY <1>1, <1>2, <1>3, BatchKept DEF Inside, Searching
<1>7. KeysLeft(loc'[t]) = KeysLeft(loc[t])
  BY <1>3 DEF KeysLeft
<1>8. ASSUME NEW ops, op[t] \in ops, NEW r, r = "found"
      PROVE  AnswersOK' /\ Set!Watch /\ Set!Decide(t, ops, r, Contents)
  BY <1>1, <1>2, <1>5, <1>6, <1>7, <1>8, LookupDecides DEF Sweeps, Searching
<1>9. PICK ops, sole, r : ops = {"visit", "bulk"} /\ sole = {"insert"} /\ r = "found"
  OBVIOUS
<1>10. CASE op[t] = "insert"
  <2>1. AnswersOK' /\ Set!Watch /\ Set!Decide(t, sole, r, Contents)
    BY <1>8, <1>9, <1>10
  <2>2. Set!FindEqual(t)
    BY <1>4, <1>9, <2>1 DEF Set!FindEqual, Set!Decide
  <2> QED BY <2>1, <2>2 DEF Refines, Set!Next
<1>11. CASE op[t] \in {"visit", "bulk"}
  <2>1. AnswersOK' /\ Set!Watch /\ Set!Decide(t, ops, r, Contents)
    BY <1>8, <1>9, <1>11
  <2>2. Set!Find(t)
    BY <1>4, <1>9, <2>1 DEF Set!Find, Set!Decide
  <2> QED BY <2>1, <2>2 DEF Refines, Set!Next
<1> QED BY <1>1, <1>10, <1>11

LEMMA FinishVisitRefines ==
  ASSUME NEW t \in Threads, Moves(t), FinishVisit(t)
  PROVE  Refines
<1>1. /\ pc[t] = "visiting" /\ op[t] \in {"insert", "visit", "bulk"} /\ IInv /\ CallOK(t)
      /\ res[t] # "none"
  <2>1. pc[t] = "visiting" /\ IInv /\ CallOK(t)
    BY DEF FinishVisit, Moves, AnswersOK
  <2> QED BY <2>1, Mover DEF ThreadOK, OpOK, OutcomeOK, Erasing
<1>2. /\ UNCHANGED <<arrays, newArrays, op, key, res>> /\ loc'[t] = loc[t]
      /\ pc'[t] = IF op[t] = "bulk" THEN "bulk_next" ELSE "leave"
  BY DEF FinishVisit, Local, Answered, Goto, Moves, IInv, TypeOK, sharedVars
<1>3. CallOK(t)'
  <2>1. op[t] # "insert" => loc'[t].scan = {}
    BY <1>1, <1>2 DEF CallOK
  <2> QED BY <1>1, <1>2, <2>1, CallKept DEF Erasing
<1>4. BatchOK(t)'
  BY <1>1, <1>2, BatchKept DEF Inside, HoldingGroup
<1>5. LookupOK(t)'
  BY <1>2 DEF LookupOK, Searching
<1> QED BY <1>1, <1>2, <1>3, <1>4, <1>5, LookupSilent DEF Sweeps

LEMMA CheckOverflowRefines ==
  ASSUME NEW t \in Threads, Moves(t), CheckOverflow(t)
  PROVE  Refines
<1>0. PICK tag, more : /\ tag = Hash[key[t]].tag
                       /\ more = (~NotOverflowed(arrays, At(t), tag) /\ loc[t].step + 1 < arrays.groups)
  OBVIOUS
<1>1. /\ pc[t] = "check_overflow" /\ op[t] \in KeyOps \cup {"bulk"} /\ key[t] \in Keys /\ IInv /\ CallOK(t)
      /\ loc[t] \in Locals /\ loc[t].mask = {} /\ loc[t].step \in Nat /\ arrays.groups \in Nat
      /\ res[t] = "none" /\ op[t] \notin Sweeps /\ op[t] # "none" /\ LookupOK(t) /\ pc[t] \in Searching
      /\ loc \in [Threads -> Locals] /\ pc \in [Threads -> Pcs] /\ res \in [Threads -> Outcomes \cup {"none"}]
  <2>1. pc[t] = "check_overflow" /\ pc[t] \in Searching /\ IInv /\ CallOK(t) /\ LookupOK(t)
    BY DEF CheckOverflow, Searching, Moves, AnswersOK
  <2>2. loc[t] \in Locals /\ arrays.groups \in Nat /\ ThreadOK(t)
    BY <2>1, Mover, ArraysTyped
  <2>3. op[t] \in KeyOps \cup {"bulk"} /\ key[t] \in Keys /\ res[t] = "none" /\ loc[t].mask = {}
    BY <2>1, <2>2 DEF ThreadOK, OpOK, OutcomeOK, ArgumentsOK, LocalsOK, Erasing
  <2> QED BY <2>1, <2>2, <2>3 DEF Locals, KeyOps, Sweeps, IInv, TypeOK
<1>2. UNCHANGED <<arrays, newArrays, op, key>>
  BY DEF CheckOverflow, Local, sharedVars
\* Whatever is ahead is in one of the next groups.
<1>3. ASSUME NEW g \in Groups(arrays), NEW n \in Slots, Ahead(t, g, n)
      PROVE  more /\ \E i \in Groups(arrays) :
               /\ Probe(arrays, Home(arrays, key[t]), i) = g /\ Passed(arrays, Hash[key[t]], i)
               /\ i > loc[t].step
  <2>1. PICK i \in Groups(arrays) :
          /\ Probe(arrays, Home(arrays, key[t]), i) = g /\ Passed(arrays, Hash[key[t]], i)
          /\ i > loc[t].step
    BY <1>1, <1>3 DEF Ahead
  <2>2. i \in Nat /\ i < arrays.groups
    BY <1>1 DEF Groups
  <2>3. At(t) = Probe(arrays, Position(arrays, Hash[key[t]]), loc[t].step)
    BY <1>1 DEF At, Home
  <2>4. ~NotOverflowed(arrays, At(t), tag)
    BY <1>0, <1>1, <2>1, <2>2, <2>3, PassedFewer
  <2>5. loc[t].step + 1 < arrays.groups
    BY <1>1, <2>1, <2>2
  <2> QED BY <1>0, <2>1, <2>4, <2>5
<1>4. CASE more /\ Local(t, "match", [loc[t] EXCEPT !.step = @ + 1])
  <2> DEFINE i == loc[t].step + 1
             l == [loc[t] EXCEPT !.step = i]
  <2>1. Local(t, "match", l)
    BY <1>4
  <2>2. i \in Nat /\ (\A j \in Nat : j > loc[t].step => j > i \/ j = i)
    BY <1>1
  <2>3. l.step = i /\ l.scan = loc[t].scan /\ l.batch = loc[t].batch /\ l.todo = loc[t].todo
    BY <1>1, <2>2 DEF Locals
  <2> HIDE DEF i, l
  <2>4. pc'[t] = "match" /\ loc'[t] = l /\ res'[t] = res[t] /\ op'[t] = op[t] /\ key'[t] = key[t]
    BY <1>1, <2>1 DEF Local, Goto
  <2>5. CASE op[t] = "insert"
    BY <1>2, <2>3, <2>4, <2>5, InsertLocal
  <2>6. CASE op[t] # "insert"
    <3>1. loc'[t].scan = {}
      BY <1>1, <2>3, <2>4, <2>6 DEF CallOK
    <3>2. CallOK(t)'
      BY <1>1, <2>3, <2>4, <3>1, CallKept DEF Erasing
    <3>3. BatchOK(t)'
      BY <1>1, <1>2, <2>3, <2>4, BatchKept DEF Inside, Searching
    <3>4. ASSUME NEW g \in Groups(arrays), NEW n \in Slots, Ahead(t, g, n) PROVE Ahead(t, g, n)'
      <4>1. PICK j \in Groups(arrays) :
              /\ Probe(arrays, Home(arrays, key[t]), j) = g /\ Passed(arrays, Hash[key[t]], j)
              /\ j > loc[t].step
        BY <1>3, <3>4
      <4>2. j > i \/ j = i
        BY <1>1, <2>2, <4>1 DEF Groups
      <4> QED BY <1>2, <2>3, <2>4, <3>1, <4>1, <4>2 DEF Ahead, Home, Groups
    <3>5. LookupOK(t)'
      BY <1>1, <1>2, <2>4, <3>4, LookupKept
    <3>6. KeysLeft(loc'[t]) = KeysLeft(loc[t])
      BY <2>3, <2>4 DEF KeysLeft
    <3> QED BY <1>1, <1>2, <2>4, <3>2, <3>3, <3>5, <3>6, LookupSilent
  <2> QED BY <2>5, <2>6
<1>5. CASE op[t] = "insert" /\ Local(t, "reserve_size", [loc[t] EXCEPT !.step = 0])
  <2> DEFINE l == [loc[t] EXCEPT !.step = 0]
  <2>1. l.batch = loc[t].batch /\ l.todo = loc[t].todo
    BY <1>1 DEF Locals
  <2>2. Local(t, "reserve_size", l)
    BY <1>5
  <2> HIDE DEF l
  <2>3. pc'[t] = "reserve_size" /\ loc'[t] = l /\ res'[t] = res[t] /\ op'[t] = op[t] /\ key'[t] = key[t]
    BY <1>1, <2>2 DEF Local, Goto
  <2> QED BY <1>2, <1>5, <2>1, <2>3, InsertLocal
<1>6. CASE ~more /\ op[t] # "insert" /\ Decide(t, "missing", Answered(t)) /\ UNCHANGED loc
  <2>1. key[t] \in missed[t]
    BY <1>1, <1>3, <1>6 DEF LookupOK
  <2>2. /\ loc'[t] = loc[t] /\ res'[t] = "missing" /\ op'[t] = op[t] /\ key'[t] = key[t]
        /\ pc'[t] = IF op[t] = "bulk" THEN "bulk_next" ELSE "leave"
    BY <1>1, <1>2, <1>6 DEF Decide, Answered, Goto
  <2>3. loc[t].scan = {}
    BY <1>1, <1>6 DEF CallOK
  <2>4. CallOK(t)'
    BY <1>1, <2>2, <2>3, CallKept DEF Erasing
  <2>5. BatchOK(t)'
    BY <1>1, <1>2, <2>2, BatchKept DEF Inside, Searching
  <2>6. PICK ops, r : ops = {"visit", "erase", "bulk"} /\ r = "missing"
    OBVIOUS
  <2>7. op[t] \in ops
    BY <1>1, <1>6, <2>6 DEF KeyOps
  <2>8. AnswersOK' /\ Set!Watch /\ Set!Decide(t, ops, r, Contents)
    <3>1. pc'[t] \notin Searching /\ r # "none" /\ res'[t] = r /\ KeysLeft(loc'[t]) = KeysLeft(loc[t])
      BY <2>2, <2>6 DEF Searching
    <3> QED BY <1>1, <1>2, <2>2, <2>4, <2>5, <2>7, <3>1, LookupDecides
  <2>9. Set!Miss(t)
    BY <2>1, <2>6, <2>8 DEF Set!Miss, Set!Decide
  <2> QED BY <2>8, <2>9 DEF Refines, Set!Next
<1>7. \/ more /\ Local(t, "match", [loc[t] EXCEPT !.step = @ + 1])
      \/ op[t] = "insert" /\ Local(t, "reserve_size", [loc[t] EXCEPT !.step = 0])
      \/ ~more /\ op[t] # "insert" /\ Decide(t, "missing", Answered(t)) /\ UNCHANGED loc
  BY <1>0 DEF CheckOverflow
<1> QED BY <1>4, <1>5, <1>6, <1>7

-----------------------------------------------------------------------------
(* Sweeps *)

LEMMA SweepGroupRefines ==
  ASSUME NEW t \in Threads, Moves(t), SweepGroup(t)
  PROVE  Refines
<1>0. IInv /\ CallOK(t)
  BY DEF Moves, AnswersOK
<1>1. pc[t] = "sweep" /\ op[t] \in Sweeps /\ ThreadOK(t) /\ loc[t] \in Locals /\ pc[t] \in Inside /\ res[t] = "none"
  BY <1>0, Mover DEF SweepGroup, Erasing, ThreadOK, OpOK, OutcomeOK, Inside, Visiting
<1>2. PICK g \in Groups(arrays) \ loc[t].scan :
        LET mask == {n \in Slots : <<g, n>> \in MatchReallyOccupied(arrays)} IN
        /\ CanLock(g, loc[t].mode)
        /\ Local(t, AfterSlot(mask), [loc[t] EXCEPT !.scan = @ \cup {g}, !.step = g, !.mask = mask])
  BY DEF SweepGroup
<1> DEFINE mask == {n \in Slots : <<g, n>> \in MatchReallyOccupied(arrays)}
           l == [loc[t] EXCEPT !.scan = @ \cup {g}, !.step = g, !.mask = mask]
           p == IF mask = {} THEN "sweep" ELSE "sweep_slot"
<1>3. Local(t, p, l)
  BY <1>2 DEF AfterSlot
<1>4. \A n \in Slots : ~Empty(arrays, g, n) => n \in mask
  <2> SUFFICES ASSUME NEW n \in Slots, ~Empty(arrays, g, n) PROVE <<g, n>> \in MatchReallyOccupied(arrays)
    OBVIOUS
  <2>1. arrays.elem[g][n] \in Keys /\ arrays.meta[g][n] = Hash[arrays.elem[g][n]].tag
    <3>1. arrays.elem[g][n] \in Keys
      BY <1>0, Mover, ArraysTyped DEF Empty
    <3> QED BY <1>0, <3>1 DEF IInv, ArraysOK, ElementsReached
  <2>2. arrays.meta[g][n] \notin {Available, Sentinel}
    BY <2>1, HashTyped
  <2> QED BY <2>2 DEF MatchReallyOccupied, Places
<1>5. p \in {"sweep", "sweep_slot"} /\ (p = "sweep_slot" <=> mask # {})
  OBVIOUS
<1> HIDE DEF mask, p
<1>6. /\ l.step = g /\ l.mask = mask /\ l.batch = loc[t].batch /\ l.todo = loc[t].todo
      /\ l.scan = loc[t].scan \cup {g}
  BY <1>1 DEF Locals
<1> HIDE DEF l
<1>7. /\ UNCHANGED <<arrays, newArrays>> /\ pc'[t] = p /\ loc'[t] = l
      /\ op'[t] = op[t] /\ key'[t] = key[t] /\ res'[t] = res[t]
  BY <1>0, <1>3 DEF Local, Goto, IInv, TypeOK, sharedVars
<1>8. ASSUME NEW h \in Groups(arrays), NEW n \in Slots, ~Empty(arrays, h, n)
      PROVE  ToVisit(t, h, n)' <=> ToVisit(t, h, n)
  <2>1. ToVisit(t, h, n) <=> h \notin loc[t].scan
    BY <1>1 DEF ToVisit
  <2>2. ToVisit(t, h, n)' <=> h \notin loc[t].scan \cup {g} \/ (h = g /\ n \in mask)
    BY <1>5, <1>6, <1>7 DEF ToVisit
  <2> QED BY <1>2, <1>4, <1>8, <2>1, <2>2
<1>9. Acts(t) /\ pc'[t] \in {"sweep", "sweep_slot"} /\ pc'[t] # "enter"
  BY <1>5, <1>7, NothingChanges DEF Acts
<1>10. loc'[t].step \in loc'[t].scan
  BY <1>6, <1>7
<1> QED BY <1>1, <1>6, <1>7, <1>8, <1>9, <1>10, SweepSilent

\* The element a sweep has come to.
LEMMA SweepHere ==
  ASSUME NEW t \in Threads, Moves(t), pc[t] = "sweep_slot",
         NEW g, g = At(t), NEW n, n = Lowest(loc[t].mask), NEW k, k = arrays.elem[g][n]
  PROVE  /\ op[t] \in Sweeps /\ res[t] = "none" /\ pc[t] \in Inside /\ KeysLeft(loc[t]) = {} /\ Left(t) = unmet[t]
         /\ loc[t].todo = <<>> /\ loc[t].batch = <<>> /\ loc[t] \in Locals
         /\ g = loc[t].step /\ g \in loc[t].scan /\ g \in Groups(arrays) /\ n \in Slots /\ n \in loc[t].mask
         /\ ~Empty(arrays, g, n) /\ k \in Keys /\ k \in Contents /\ k \in unmet[t]
         /\ \A h \in Groups(arrays), m \in Slots : h # g \/ m # n => arrays.elem[h][m] # k
<1>1. /\ IInv /\ ThreadOK(t) /\ CallOK(t) /\ SweepMeets(t) /\ loc[t] \in Locals /\ pc[t] \in Inside
  BY Mover DEF Moves, AnswersOK, Inside, HoldingGroup
<1>2. op[t] \in Sweeps /\ res[t] = "none" /\ op[t] # "bulk"
  BY <1>1 DEF ThreadOK, OpOK, OutcomeOK, Erasing, Sweeps
<1>3. loc[t].todo = <<>> /\ loc[t].batch = <<>> /\ KeysLeft(loc[t]) = {} /\ Left(t) = unmet[t]
  BY <1>1, <1>2, NothingLeft DEF CallOK, Left
<1>4. /\ g = loc[t].step /\ g \in Groups(arrays) /\ loc[t].mask # {} /\ loc[t].mask \subseteq Slots
      /\ \A m \in loc[t].mask : ~Empty(arrays, g, m)
  BY <1>1, <1>2 DEF ThreadOK, SweepOK, At, Locals
<1>5. n \in loc[t].mask /\ n \in Slots /\ ~Empty(arrays, g, n)
  BY <1>4, LowestOfSlots
<1>6. k \in Keys /\ k \in Contents
  BY <1>1, <1>4, <1>5, Mover, ArraysTyped, ElementThere DEF Empty, Contents
<1>7. g \in loc[t].scan /\ k \in unmet[t]
  BY <1>1, <1>2, <1>4, <1>5 DEF SweepMeets, ToVisit
<1>8. OncePerKey(arrays)
  BY <1>1, EachOnce
<1> QED BY <1>1, <1>2, <1>3, <1>4, <1>5, <1>6, <1>7, <1>8 DEF OncePerKey

\* The element is met, and perhaps erased, and the sweep goes on.
LEMMA SweepMet ==
  ASSUME NEW t \in Threads, Moves(t), pc[t] = "sweep_slot",
         NEW g, g = At(t), NEW n, n = Lowest(loc[t].mask), NEW k, k = arrays.elem[g][n],
         pc'[t] \in {"sweep", "sweep_slot"} \cup Erasing, pc'[t] = "sweep" => loc'[t].mask = {},
         loc'[t].mask = loc[t].mask \ {n}, loc'[t].step = loc[t].step, loc'[t].scan = loc[t].scan,
         loc'[t].todo = loc[t].todo, loc'[t].batch = loc[t].batch,
         op'[t] = op[t], key'[t] = key[t], res'[t] = res[t], Settled, Contents' \subseteq Contents,
         \A h \in Groups(arrays), m \in Slots : h # g \/ m # n => arrays'.elem[h][m] = arrays.elem[h][m]
  PROVE  AnswersOK' /\ Set!Watch /\ Set!LeftOf(t, unmet[t] \ {k})
<1>1. /\ op[t] \in Sweeps /\ res[t] = "none" /\ pc[t] \in Inside /\ KeysLeft(loc[t]) = {} /\ Left(t) = unmet[t]
      /\ loc[t].todo = <<>> /\ loc[t].batch = <<>>
      /\ g = loc[t].step /\ g \in loc[t].scan /\ g \in Groups(arrays) /\ n \in Slots /\ n \in loc[t].mask
      /\ k \in Keys /\ \A h \in Groups(arrays), m \in Slots : h # g \/ m # n => arrays.elem[h][m] # k
  BY SweepHere
<1>2. /\ IInv /\ IInv' /\ AnswersOK /\ Watch /\ SweepMeets(t) /\ MissedOK(t) /\ Acts(t)
      /\ op[t] # "bulk" /\ op[t] # "none" /\ op[t] # "insert" /\ op[t] # "erase"
  BY <1>1 DEF Moves, AnswersOK, Acts, Sweeps
<1>3. Met(t) = {k}
  <2>1. loc'[t] # loc[t]
    BY <1>1
  <2> QED BY <2>1 DEF Met
<1>4. unmet'[t] = unmet[t] \ {k}
  <2>1. unmet'[t] = (unmet[t] \ Met(t)) \cup (Contents' \ Contents)
    BY <1>1, <1>2, WatchUnmet
  <2> QED BY <1>3, <2>1
<1>5. Groups(arrays') = Groups(arrays)
  BY SameGroups DEF Settled
<1>6. \A h, m : h # g \/ m # n => (ToVisit(t, h, m)' <=> ToVisit(t, h, m))
  BY <1>1 DEF ToVisit, Erasing
<1>7. ~ToVisit(t, g, n)'
  BY <1>1 DEF ToVisit
<1>8. SweepMeets(t)'
  <2>1. ASSUME NEW h \in Groups(arrays), NEW m \in Slots, ToVisit(t, h, m)', ~Empty(arrays', h, m)
        PROVE  arrays'.elem[h][m] \in unmet'[t]
    <3>1. h # g \/ m # n
      BY <1>7, <2>1
    <3>2. arrays'.elem[h][m] = arrays.elem[h][m] /\ ~Empty(arrays, h, m) /\ ToVisit(t, h, m) /\ arrays.elem[h][m] # k
      BY <1>1, <1>6, <2>1, <3>1 DEF Empty
    <3>3. arrays.elem[h][m] \in unmet[t]
      BY <1>1, <1>2, <3>2 DEF SweepMeets
    <3> QED BY <1>4, <3>2, <3>3
  <2>2. ASSUME NEW j \in unmet'[t] \ missed'[t]
        PROVE  \E h \in Groups(arrays), m \in Slots : arrays'.elem[h][m] = j /\ ToVisit(t, h, m)'
    <3>1. j \in Keys /\ j \in unmet[t] /\ j # k
      BY <1>2, <1>4, <2>2 DEF AnswersOK, HistoryTyped
    <3>2. j \notin missed[t]
      <4>1. j \in Asked(op'[t], key'[t], loc'[t], res'[t])
        BY <1>1, <3>1 DEF Asked
      <4> QED BY <1>2, <2>2, <4>1, Unmissed
    <3>3. PICK h \in Groups(arrays), m \in Slots : arrays.elem[h][m] = j /\ ToVisit(t, h, m)
      BY <1>1, <1>2, <3>1, <3>2 DEF SweepMeets
    <3>4. h # g \/ m # n
      BY <3>1, <3>3
    <3> QED BY <1>6, <3>3, <3>4
  <2>3. loc'[t].step \in loc'[t].scan /\ op'[t] \in Sweeps /\ res'[t] = "none" /\ pc'[t] # "enter"
    BY <1>1 DEF Erasing
  <2> QED BY <1>5, <2>1, <2>2, <2>3 DEF SweepMeets
<1>9. CallOK(t)'
  BY <1>1, <1>2, PlainCall DEF Erasing
<1>10. Answers(t)'
  BY <1>2, <1>8, <1>9 DEF Answers, LookupOK, BatchOK, Searching, Erasing
<1>11. Left(t)' = (unmet[t] \ {k}) \cup (Contents' \ Contents)
  <2>1. KeysLeft(loc'[t]) = {}
    BY <1>1, NothingLeft
  <2> QED BY <1>4, <2>1 DEF Left
<1>12. PICK X : X = unmet[t] \ {k}
  OBVIOUS
<1>13. Set!LeftOf(t, X)
  BY <1>1, <1>11, <1>12, LeftOfStep
<1> QED BY <1>2, <1>10, <1>12, <1>13, AnswersKept DEF Set!LeftOf, Set!LeftIs

LEMMA SweepSlotRefines ==
  ASSUME NEW t \in Threads, Moves(t), SweepSlot(t)
  PROVE  Refines
<1>0. PICK g, n, k : g = At(t) /\ n = Lowest(loc[t].mask) /\ k = arrays.elem[g][n]
  OBVIOUS
<1>1. /\ pc[t] = "sweep_slot" /\ op[t] \in Sweeps /\ res[t] = "none" /\ Left(t) = unmet[t] /\ loc[t] \in Locals
      /\ k \in Keys /\ k \in Contents /\ k \in unmet[t] /\ IInv
  BY <1>0, SweepHere DEF SweepSlot, Moves
<1> DEFINE rest == loc[t].mask \ {n}
           l == [loc[t] EXCEPT !.mask = rest]
<1>2. Local(t, AfterSlot(rest), l)
  BY <1>0 DEF SweepSlot
<1>3. /\ l.step = loc[t].step /\ l.mask = rest /\ l.batch = loc[t].batch /\ l.todo = loc[t].todo
      /\ l.scan = loc[t].scan
  BY <1>1 DEF Locals
<1> HIDE DEF l
<1>4. /\ UNCHANGED <<arrays, newArrays, op, key, res>> /\ loc'[t] = l
      /\ pc'[t] \in {"sweep", "sweep_slot"} /\ (pc'[t] = "sweep" => rest = {})
  BY <1>1, <1>2 DEF Local, Goto, AfterSlot, IInv, TypeOK, sharedVars
<1>5. Settled /\ Contents' = Contents
  BY <1>4, NothingChanges
<1>6. AnswersOK' /\ Set!Watch /\ Set!LeftOf(t, unmet[t] \ {k})
  BY <1>0, <1>1, <1>3, <1>4, <1>5, SweepMet
<1>7. PICK X : X = unmet[t] \ {k}
  OBVIOUS
<1>8. X = IF res'[t] = "none" THEN [u \in Threads |-> KeysLeft(loc[u]) \cup unmet[u]][t] \ {k} ELSE {}
  BY <1>1, <1>4, <1>7 DEF Left
<1>9. Set!LeftOf(t, X)
  BY <1>6, <1>7 DEF Set!LeftOf, Set!LeftIs
<1>10. Set!Sweeping(t) /\ k \in Contents \cap [u \in Threads |-> KeysLeft(loc[u]) \cup unmet[u]][t]
  BY <1>1 DEF Set!Sweeping, Set!Sweeps, Sweeps, Left
<1>11. Set!Meet(t, k)
  BY <1>4, <1>5, <1>8, <1>9, <1>10 DEF Set!Meet, Set!LeftOf, Set!LeftIs
<1> QED BY <1>1, <1>6, <1>11 DEF Refines, Set!Next

LEMMA SweepErasesRefines ==
  ASSUME NEW t \in Threads, Moves(t), SweepErases(t)
  PROVE  Refines
<1>0. PICK g, n, k : g = At(t) /\ n = Lowest(loc[t].mask) /\ k = arrays.elem[g][n]
  OBVIOUS
<1>1. /\ pc[t] = "sweep_slot" /\ op[t] = "erase_if" /\ op[t] \in Sweeps /\ res[t] = "none" /\ Left(t) = unmet[t]
      /\ loc[t] \in Locals /\ k \in Keys /\ k \in Contents /\ k \in unmet[t] /\ IInv /\ pc[t] \in Inside
      /\ g \in Groups(arrays) /\ n \in Slots /\ ~Empty(arrays, g, n)
  BY <1>0, SweepHere DEF SweepErases, Moves
<1>2. arrays' = SetElem(arrays, g, n, NoKey) /\ UNCHANGED <<newArrays, op, key, res>> /\ pc'[t] = "erase_ml"
  BY <1>0, <1>1 DEF SweepErases, Goto, IInv, TypeOK
<1>3. /\ loc'[t].mask = loc[t].mask \ {n} /\ loc'[t].step = loc[t].step /\ loc'[t].scan = loc[t].scan
      /\ loc'[t].todo = loc[t].todo /\ loc'[t].batch = loc[t].batch
  <2>1. loc' = [loc EXCEPT ![t].mask = @ \ {n}, ![t].slot = n] /\ loc \in [Threads -> Locals]
    BY <1>0, <1>1 DEF SweepErases, IInv, TypeOK
  <2>2. loc'[t] = [[loc[t] EXCEPT !.mask = @ \ {n}] EXCEPT !.slot = n]
    BY <2>1
  <2> QED BY <1>1, <2>2 DEF Locals
<1>4. /\ Settled /\ Contents' = Contents \ {k}
      /\ \A h \in Groups(arrays), m \in Slots : h # g \/ m # n => arrays'.elem[h][m] = arrays.elem[h][m]
  BY <1>0, <1>1, <1>2, ErasureSettled
<1>5. AnswersOK' /\ Set!Watch /\ Set!LeftOf(t, unmet[t] \ {k})
  <2>1. pc'[t] \in Erasing /\ pc'[t] # "sweep" /\ Contents' \subseteq Contents
    BY <1>2, <1>4 DEF Erasing
  <2> QED BY <1>0, <1>1, <1>2, <1>3, <1>4, <2>1, SweepMet
<1>6. PICK X : X = unmet[t] \ {k}
  OBVIOUS
<1>7. X = IF res'[t] = "none" THEN [u \in Threads |-> KeysLeft(loc[u]) \cup unmet[u]][t] \ {k} ELSE {}
  BY <1>1, <1>2, <1>6 DEF Left
<1>8. Set!LeftOf(t, X)
  BY <1>5, <1>6 DEF Set!LeftOf, Set!LeftIs
<1>9. Set!Sweeping(t) /\ k \in Contents \cap [u \in Threads |-> KeysLeft(loc[u]) \cup unmet[u]][t]
  BY <1>1 DEF Set!Sweeping, Set!Sweeps, Sweeps, Left
<1>10. Set!Meet(t, k)
  BY <1>1, <1>2, <1>4, <1>7, <1>8, <1>9 DEF Set!Meet, Set!LeftOf, Set!LeftIs
<1> QED BY <1>1, <1>5, <1>10 DEF Refines, Set!Next

\* A sweep is decided: there is nothing left for it to meet.
LEMMA SweepDecides ==
  ASSUME NEW t \in Threads, Moves(t), op[t] \in Sweeps, res[t] = "none", pc'[t] = "leave",
         UNCHANGED <<arrays, newArrays, op, key, loc>>, NEW r, r # "none", res'[t] = r,
         NEW ops, op[t] \in ops, NEW s, s = Contents
  PROVE  /\ AnswersOK' /\ Set!Watch /\ Set!Decide(t, ops, r, s)
         /\ Set!LeftOf(t, {}) /\ res' = [res EXCEPT ![t] = r]
<1>1. CallOK(t) /\ op[t] # "bulk" /\ op[t] # "none" /\ op[t] # "insert" /\ IInv /\ IInv' /\ Watch
  BY DEF Moves, AnswersOK, Sweeps
<1>2. loc[t].todo = <<>> /\ loc[t].batch = <<>> /\ KeysLeft(loc[t]) = {}
  BY <1>1, NothingLeft DEF CallOK
<1>3. Acts(t) /\ Contents' = Contents
  BY NothingChanges DEF Acts
<1>4. unmet'[t] = {}
  BY <1>1, WatchUnmet
<1>5. CallOK(t)'
  BY <1>1, <1>2, PlainCall DEF Erasing
<1>6. Answers(t)'
  BY <1>1, <1>4, <1>5 DEF Answers, LookupOK, BatchOK, SweepMeets, Searching, Erasing
<1>7. PICK X : X = {}
  OBVIOUS
<1>8. Set!LeftOf(t, X)
  BY <1>2, <1>3, <1>4, <1>7, LeftOfStep DEF Left
<1>9. Set!Decide(t, ops, r, s)
  BY <1>2, <1>3, Decided
<1> QED BY <1>3, <1>6, <1>7, <1>8, <1>9, AnswersKept, OnlyMover DEF Set!LeftOf, Set!LeftIs

LEMMA SweepStopsRefines ==
  ASSUME NEW t \in Threads, Moves(t), SweepStops(t)
  PROVE  Refines
<1>0. PICK g, n, k : g = At(t) /\ n = Lowest(loc[t].mask) /\ k = arrays.elem[g][n]
  OBVIOUS
<1>1. /\ op[t] \in Sweeps /\ res[t] = "none" /\ Left(t) = unmet[t]
      /\ k \in Keys /\ k \in Contents /\ k \in unmet[t] /\ IInv
  BY <1>0, SweepHere DEF SweepStops, Moves
<1>2. /\ UNCHANGED <<arrays, newArrays, op, key, loc>> /\ pc'[t] = "leave"
      /\ res'[t] = IF op[t] = "visit_while" THEN "stopped" ELSE "threw"
  BY <1>1 DEF SweepStops, Decide, Goto, IInv, TypeOK, sharedVars
<1>3. Contents' = Contents
  BY <1>2, NothingChanges
<1>4. CASE op[t] = "visit_while"
  <2>1. PICK ops, r, s, X : ops = {"visit_while"} /\ r = "stopped" /\ s = Contents /\ X = {}
    OBVIOUS
  <2>2. /\ AnswersOK' /\ Set!Watch /\ Set!LeftOf(t, {}) /\ res' = [res EXCEPT ![t] = r] /\ res'[t] = r
    BY <1>1, <1>2, <1>4, <2>1, SweepDecides
  <2>3. X = IF res'[t] = "none" THEN [u \in Threads |-> KeysLeft(loc[u]) \cup unmet[u]][t] \ {k} ELSE {}
    BY <2>1, <2>2
  <2>4. Set!LeftOf(t, X)
    BY <2>1, <2>2 DEF Set!LeftOf, Set!LeftIs
  <2>5. Set!Sweeping(t) /\ k \in Contents \cap [u \in Threads |-> KeysLeft(loc[u]) \cup unmet[u]][t]
    BY <1>1 DEF Set!Sweeping, Set!Sweeps, Sweeps, Left
  <2>6. Set!Meet(t, k)
    BY <1>2, <1>3, <1>4, <2>1, <2>2, <2>3, <2>4, <2>5 DEF Set!Meet, Set!LeftOf, Set!LeftIs
  <2> QED BY <1>1, <2>2, <2>6 DEF Refines, Set!Next
<1>5. CASE op[t] # "visit_while"
  <2>1. PICK ops, r, s : ops = Set!Sweeps /\ r = "threw" /\ s = Contents
    OBVIOUS
  <2>2. op[t] \in ops
    BY <1>1, <2>1 DEF Sweeps, Set!Sweeps
  <2>3. AnswersOK' /\ Set!Watch /\ Set!Decide(t, ops, r, s)
    BY <1>1, <1>2, <1>5, <2>1, <2>2, SweepDecides
  <2>4. Set!Throw(t)
    BY <2>1, <2>3 DEF Set!Throw, Set!Decide, Set!LeftOf, Set!LeftIs
  <2> QED BY <2>3, <2>4 DEF Refines, Set!Next
<1> QED BY <1>4, <1>5

LEMMA UnbuiltEmpty ==
  ASSUME IInv, ~arrays.built
  PROVE  Contents = {}
<1>1. /\ IsFiniteSet(Contents) /\ Cardinality(Contents) \in Nat /\ ml \in Nat /\ InitialMaxLoad(arrays) = 0
  BY ContentsTyped, CapacityTyped, ArraysTyped DEF IInv, TypeOK
<1>2. Count(Granted) \in Nat /\ Count({"erase_ml"}) \in Nat /\ Grantable(ml) \in Nat
  <2>1. /\ \A P : CountIn(pc, P) = Count(P)
        /\ \A m : GrantableIn(pc, loc, m) = Grantable(m)
    BY DEF CountIn, Count, GrantableIn, Grantable
  <2> QED BY <2>1, CountsRelated
<1>3. Cardinality(Contents) = 0
  BY <1>1, <1>2 DEF IInv, LoadBounded
<1> QED BY <1>1, <1>3, FS_EmptySet

LEMMA SweepEndsRefines ==
  ASSUME NEW t \in Threads, Moves(t), SweepEnds(t)
  PROVE  Refines
<1>1. /\ pc[t] = "sweep" /\ op[t] \in Sweeps /\ res[t] = "none" /\ SweepMeets(t) /\ CallOK(t) /\ IInv
      /\ arrays.built => Groups(arrays) = loc[t].scan
      /\ UNCHANGED <<arrays, newArrays, op, key, loc>> /\ pc'[t] = "leave" /\ res'[t] = "swept"
  <2>1. pc[t] = "sweep" /\ ThreadOK(t) /\ IInv /\ SweepMeets(t) /\ CallOK(t)
    BY Mover DEF SweepEnds, Moves, AnswersOK
  <2> QED BY <2>1 DEF SweepEnds, Decide, Goto, IInv, TypeOK, sharedVars, ThreadOK, OpOK, OutcomeOK, Erasing
<1>2. Left(t) = unmet[t]
  <2>1. loc[t].todo = <<>> /\ loc[t].batch = <<>>
    BY <1>1 DEF CallOK, Sweeps
  <2> QED BY <2>1, NothingLeft DEF Left
<1>3. unmet[t] \subseteq missed[t]
  <2> SUFFICES ASSUME NEW k \in unmet[t] \ missed[t] PROVE FALSE
    OBVIOUS
  <2>1. PICK g \in Groups(arrays), n \in Slots : arrays.elem[g][n] = k /\ ToVisit(t, g, n)
    BY <1>1 DEF SweepMeets
  <2>2. ~arrays.built
    BY <1>1, <2>1 DEF ToVisit
  <2>3. k \in Contents
    <3>1. k \in Keys
      BY DEF Moves, AnswersOK, HistoryTyped
    <3>2. ~Empty(arrays, g, n)
      BY <2>1, <3>1, HashAssumption DEF Empty
    <3> QED BY <2>1, <3>2, ElementThere DEF Contents
  <2> QED BY <1>1, <2>2, <2>3, UnbuiltEmpty
<1>4. PICK ops, r, s : ops = Set!Sweeps /\ r = "swept" /\ s = Contents
  OBVIOUS
<1>5. op[t] \in ops
  BY <1>1, <1>4 DEF Sweeps, Set!Sweeps
<1>6. AnswersOK' /\ Set!Watch /\ Set!Decide(t, ops, r, s)
  BY <1>1, <1>4, <1>5, SweepDecides
<1>7. Set!Swept(t)
  BY <1>2, <1>3, <1>4, <1>6 DEF Set!Swept, Set!Decide, Set!LeftOf, Set!LeftIs, Left
<1> QED BY <1>6, <1>7 DEF Refines, Set!Next

-----------------------------------------------------------------------------
(* Bulk visits *)

LEMMA BulkEndsRefines ==
  ASSUME NEW t \in Threads, Moves(t), BulkEnds(t)
  PROVE  Refines
<1>1. /\ pc[t] = "bulk_next" /\ op[t] = "bulk" /\ pc'[t] = "leave" /\ loc[t].batch = <<>> /\ loc[t].todo = <<>>
      /\ CallOK(t)
      /\ UNCHANGED <<arrays, newArrays, op, key, res>> /\ loc'[t] = loc[t]
  <2>1. pc[t] = "bulk_next" /\ ThreadOK(t) /\ IInv /\ CallOK(t)
    BY Mover DEF BulkEnds, Moves, AnswersOK
  <2> QED BY <2>1 DEF BulkEnds, Local, Goto, IInv, TypeOK, sharedVars, ThreadOK, OpOK
<1>2. CallOK(t)'
  BY <1>1 DEF CallOK, Erasing
<1>3. BatchOK(t)' /\ LookupOK(t)'
  BY <1>1 DEF BatchOK, LookupOK, Searching
<1> QED BY <1>1, <1>2, <1>3, LookupSilent DEF Sweeps

\* The keys f[1] .. f[L] are in m, the first n of them in its batch.
Split(f, L, n, m) ==
  /\ L \in Nat /\ n \in Nat /\ n <= L
  /\ \A i, j \in 1 .. L : f[i] = f[j] => i = j
  /\ Len(m.todo) = L - n /\ DOMAIN m.todo = 1 .. L - n /\ \A i \in 1 .. L - n : m.todo[i] = f[n + i]
  /\ Len(m.batch) = n /\ DOMAIN m.batch = 1 .. n /\ \A i \in 1 .. n : m.batch[i].key = f[i]

LEMMA KeysSplit ==
  ASSUME NEW L, NEW n, NEW f, NEW m, Split(f, L, n, m)
  PROVE  KeysLeft(m) = {f[i] : i \in 1 .. L} /\ EachKeyOnce(m)
<1>0. /\ L \in Nat /\ n \in Nat /\ n <= L
      /\ \A i, j \in 1 .. L : f[i] = f[j] => i = j
      /\ Len(m.todo) = L - n /\ DOMAIN m.todo = 1 .. L - n /\ \A i \in 1 .. L - n : m.todo[i] = f[n + i]
      /\ Len(m.batch) = n /\ DOMAIN m.batch = 1 .. n /\ \A i \in 1 .. n : m.batch[i].key = f[i]
  BY DEF Split
<1> USE <1>0
<1>1. \A i \in 1 .. L - n : n + i \in 1 .. L
  OBVIOUS
<1>2. \A i \in 1 .. n : i \in 1 .. L
  OBVIOUS
<1>3. \A i \in 1 .. L : i \in 1 .. n \/ (i - n \in 1 .. L - n /\ n + (i - n) = i)
  OBVIOUS
<1>4. KeysLeft(m) = {m.todo[i] : i \in 1 .. L - n} \cup {m.batch[i].key : i \in 1 .. n}
  BY DEF KeysLeft
<1>5. ASSUME NEW x \in KeysLeft(m) PROVE x \in {f[i] : i \in 1 .. L}
  <2>1. CASE \E i \in 1 .. L - n : x = m.todo[i]
    <3>1. PICK i \in 1 .. L - n : x = m.todo[i]
      BY <2>1
    <3>2. x = f[n + i] /\ n + i \in 1 .. L
      BY <1>1, <3>1
    <3> QED BY <3>2
  <2>2. CASE \E i \in 1 .. n : x = m.batch[i].key
    BY <1>2, <2>2
  <2> QED BY <1>4, <1>5, <2>1, <2>2
<1>6. ASSUME NEW i \in 1 .. L PROVE f[i] \in KeysLeft(m)
  <2>1. CASE i \in 1 .. n
    BY <1>4, <2>1
  <2>2. CASE i - n \in 1 .. L - n /\ n + (i - n) = i
    <3>1. m.todo[i - n] = f[i]
      BY <2>2
    <3> QED BY <1>4, <2>2, <3>1
  <2> QED BY <1>3, <2>1, <2>2
<1>7. ASSUME NEW i \in 1 .. L - n, NEW j \in 1 .. L - n, m.todo[i] = m.todo[j] PROVE i = j
  <2>1. n + i = n + j
    BY <1>1, <1>7
  <2> QED BY <2>1
<1>8. ASSUME NEW i \in 1 .. L - n, NEW j \in 1 .. n, m.todo[i] = m.batch[j].key PROVE FALSE
  <2>1. n + i = j
    BY <1>1, <1>2, <1>8
  <2> QED BY <2>1
<1>9. \A i, j \in 1 .. n : m.batch[i].key = m.batch[j].key => i = j
  BY <1>2
<1>10. EachKeyOnce(m)
  BY <1>7, <1>8, <1>9 DEF EachKeyOnce
<1> QED BY <1>5, <1>6, <1>10

LEMMA NextBatchRefines ==
  ASSUME NEW t \in Threads, Moves(t), NextBatch(t)
  PROVE  Refines
<1> DEFINE todo == loc[t].todo
           n == BatchSize(Len(todo))
           batch == [i \in 1 .. n |-> [key |-> todo[i], mask |-> {}]]
           rest == SubSeq(todo, n + 1, Len(todo))
           l == [loc[t] EXCEPT !.batch = batch, !.todo = rest, !.step = 1, !.scan = {}]
<1>1. /\ pc[t] = "bulk_next" /\ op[t] = "bulk" /\ CallOK(t) /\ loc[t] \in Locals /\ loc[t].batch = <<>> /\ IInv
      /\ pc[t] \in Inside
  <2>1. pc[t] = "bulk_next" /\ ThreadOK(t) /\ IInv /\ CallOK(t) /\ loc[t] \in Locals
    BY Mover DEF NextBatch, Moves, AnswersOK
  <2> QED BY <2>1 DEF NextBatch, ThreadOK, OpOK, Inside, Visiting
<1>2. Local(t, "bulk_match", l)
  BY DEF NextBatch
<1>3. todo \in Seq(Keys) /\ todo # <<>>
  BY <1>1 DEF NextBatch, Locals
<1> HIDE DEF todo
<1>4. Len(todo) \in Nat /\ Len(todo) > 0
  BY <1>3
<1>5. n \in 1 .. Len(todo)
  BY <1>4, BatchSizeTyped
<1> HIDE DEF n
<1>6. l.batch = batch /\ l.todo = rest /\ l.step = 1 /\ l.scan = {}
  BY <1>1 DEF Locals
<1> HIDE DEF l
<1>7. Len(batch) = n /\ DOMAIN batch = 1 .. n /\ \A i \in 1 .. n : batch[i].key = todo[i]
  BY <1>5
<1> HIDE DEF batch
<1>8. KeysLeft(l) = KeysLeft(loc[t]) /\ EachKeyOnce(l)
  <2>1. /\ Len(rest) = Len(todo) - n /\ DOMAIN rest = 1 .. Len(todo) - n
        /\ \A i \in 1 .. Len(todo) - n : rest[i] = todo[n + i]
    BY <1>3, <1>5
  <2>2. n \in Nat /\ n <= Len(todo)
    BY <1>4, <1>5
  <2>3. \A i, j \in 1 .. Len(todo) : todo[i] = todo[j] => i = j
    BY <1>1 DEF CallOK, EachKeyOnce, todo
  <2>4. KeysLeft(loc[t]) = {todo[i] : i \in 1 .. Len(todo)}
    <3>1. DOMAIN todo = 1 .. Len(todo) /\ DOMAIN loc[t].batch = {}
      BY <1>1, <1>3
    <3> QED BY <3>1 DEF KeysLeft, todo
  <2> HIDE DEF rest
  <2>5. KeysLeft(l) = {todo[i] : i \in 1 .. Len(todo)} /\ EachKeyOnce(l)
    <3>1. PICK L, f : L = Len(todo) /\ f = todo
      OBVIOUS
    <3>2. /\ Len(l.todo) = L - n /\ DOMAIN l.todo = 1 .. L - n /\ \A i \in 1 .. L - n : l.todo[i] = f[n + i]
          /\ Len(l.batch) = n /\ DOMAIN l.batch = 1 .. n /\ \A i \in 1 .. n : l.batch[i].key = f[i]
      BY <1>6, <1>7, <2>1, <3>1
    <3>3. L \in Nat /\ n \in Nat /\ n <= L /\ \A i, j \in 1 .. L : f[i] = f[j] => i = j
      BY <1>4, <2>2, <2>3, <3>1
    <3>4. KeysLeft(l) = {f[i] : i \in 1 .. L} /\ EachKeyOnce(l)
      BY <3>2, <3>3, KeysSplit DEF Split
    <3> QED BY <3>1, <3>4
  <2> QED BY <2>4, <2>5
<1>9. /\ UNCHANGED <<arrays, newArrays>> /\ pc'[t] = "bulk_match" /\ loc'[t] = l
      /\ op'[t] = op[t] /\ key'[t] = key[t] /\ res'[t] = res[t]
  BY <1>1, <1>2 DEF Local, Goto, IInv, TypeOK, sharedVars
<1>10. CallOK(t)'
  BY <1>1, <1>6, <1>8, <1>9 DEF CallOK, Erasing
<1>11. BatchOK(t)'
  <2> SUFFICES ASSUME NEW i \in 1 .. Len(l.batch), l.batch[i].key \notin missed'[t]
               PROVE  \E g \in Groups(arrays), m \in Slots : arrays.elem[g][m] = l.batch[i].key /\ Recording(t, i, m)'
    BY <1>9 DEF BatchOK, Groups
  <2>1. l.batch[i].key \in Asked(op'[t], key'[t], loc'[t], res'[t])
    <3>1. l.batch[i].key \in KeysLeft(l)
      BY <1>5, <1>6, <1>7 DEF KeysLeft
    <3> QED BY <1>9, <3>1 DEF Asked
  <2>2. l.batch[i].key \in Elements(arrays)
    <3>1. l.batch[i].key \in Contents
      BY <1>9, <2>1, Unmissed, NothingChanges DEF Moves
    <3> QED BY <1>1, <3>1, InUse
  <2>3. PICK g \in Groups(arrays), m \in Slots : arrays.elem[g][m] = l.batch[i].key
    BY <2>2, ElementSomewhere
  <2>4. i = 1 \/ i > 1
    BY <1>5, <1>6, <1>7
  <2>5. Recording(t, i, m)'
    BY <1>6, <1>9, <2>4 DEF Recording
  <2> QED BY <2>3, <2>5
<1>12. LookupOK(t)'
  BY <1>9 DEF LookupOK, Searching
<1> QED BY <1>1, <1>8, <1>9, <1>10, <1>11, <1>12, LookupSilent DEF Sweeps

\* The keys stay when a mask changes.
LEMMA SameKeysLeft ==
  ASSUME NEW l, NEW m, l.batch \in Seq(Matches), m.batch \in Seq(Matches), m.todo = l.todo,
         Len(m.batch) = Len(l.batch), \A j \in 1 .. Len(l.batch) : m.batch[j].key = l.batch[j].key
  PROVE  KeysLeft(m) = KeysLeft(l) /\ (EachKeyOnce(l) => EachKeyOnce(m))
<1>1. DOMAIN l.batch = 1 .. Len(l.batch) /\ DOMAIN m.batch = 1 .. Len(l.batch)
  OBVIOUS
<1>2. KeysLeft(m) = KeysLeft(l)
  BY <1>1 DEF KeysLeft
<1> QED BY <1>2 DEF EachKeyOnce

LEMMA BulkMatchSlotRefines ==
  ASSUME NEW t \in Threads, Moves(t), BulkMatchSlot(t)
  PROVE  Refines
<1> DEFINE batch == loc[t].batch
           i == loc[t].step
           k == batch[i].key
<1>1. /\ pc[t] = "bulk_match" /\ op[t] = "bulk" /\ CallOK(t) /\ BatchOK(t) /\ loc[t] \in Locals /\ IInv
      /\ ThreadOK(t) /\ pc[t] \in Inside
  <2>1. pc[t] = "bulk_match" /\ ThreadOK(t) /\ IInv /\ CallOK(t) /\ BatchOK(t) /\ loc[t] \in Locals
    BY Mover DEF BulkMatchSlot, Moves, AnswersOK
  <2> QED BY <2>1 DEF ThreadOK, OpOK, Inside, Visiting
<1>2. i \in 1 .. Len(batch) /\ batch \in Seq(Matches)
  BY <1>1 DEF ThreadOK, LocalsOK, Locals
<1>3. PICK n \in Slots \ loc[t].scan :
        LET hit == arrays.meta[Home(arrays, k)][n] = Hash[k].tag
            l == [loc[t] EXCEPT !.batch[i].mask = IF hit THEN @ \cup {n} ELSE @]
        IN  IF loc[t].scan \cup {n} # Slots
            THEN Local(t, "bulk_match", [l EXCEPT !.scan = @ \cup {n}])
            ELSE Local(t, IF i = Len(l.batch) THEN "bulk_next" ELSE "bulk_match",
                          [l EXCEPT !.scan = {}, !.step = i + 1])
  BY DEF BulkMatchSlot
<1> DEFINE hit == arrays.meta[Home(arrays, k)][n] = Hash[k].tag
           mask == IF hit THEN batch[i].mask \cup {n} ELSE batch[i].mask
           b == [batch EXCEPT ![i] = [batch[i] EXCEPT !.mask = mask]]
           e == [loc[t] EXCEPT !.batch = b]
           scan == loc[t].scan \cup {n}
           l == IF scan # Slots THEN [e EXCEPT !.scan = scan] ELSE [e EXCEPT !.scan = {}, !.step = i + 1]
           p == IF scan # Slots \/ i # Len(b) THEN "bulk_match" ELSE "bulk_next"
<1>4. k \in Keys /\ batch[i] \in Matches /\ batch[i].mask \subseteq Slots
  <2>1. batch[i] \in Matches
    BY <1>2
  <2> HIDE DEF batch, i
  <2> QED BY <2>1 DEF Matches
<1>5. mask \subseteq Slots /\ batch[i].mask \subseteq mask /\ (hit => n \in mask)
  BY <1>4
<1>6. Local(t, p, l)
  <2>1. e.batch = b /\ e.scan = loc[t].scan
    BY <1>1 DEF Locals
  <2>2. IF scan # Slots THEN Local(t, "bulk_match", [e EXCEPT !.scan = @ \cup {n}])
        ELSE Local(t, IF i = Len(e.batch) THEN "bulk_next" ELSE "bulk_match", [e EXCEPT !.scan = {}, !.step = i + 1])
    BY <1>3
  <2> HIDE DEF e, b
  <2>3. CASE scan # Slots
    BY <2>1, <2>2, <2>3
  <2>4. CASE scan = Slots
    <3>1. Local(t, IF i = Len(b) THEN "bulk_next" ELSE "bulk_match", [e EXCEPT !.scan = {}, !.step = i + 1])
      BY <2>1, <2>2, <2>4
    <3>2. p = IF i = Len(b) THEN "bulk_next" ELSE "bulk_match"
      BY <2>4
    <3>3. l = [e EXCEPT !.scan = {}, !.step = i + 1]
      BY <2>4
    <3> HIDE DEF p, l
    <3> QED BY <3>1, <3>2, <3>3
  <2> QED BY <2>3, <2>4
<1>7. hit \/ ~hit
  OBVIOUS
<1> HIDE DEF mask
<1>8. /\ b \in Seq(Matches) /\ Len(b) = Len(batch)
      /\ b[i].key = k /\ b[i].mask = mask
      /\ \A j \in 1 .. Len(batch) : j # i => b[j] = batch[j]
  <2> HIDE DEF batch, i
  <2> DEFINE x == [batch[i] EXCEPT !.mask = mask]
  <2>1. x \in Matches /\ x.key = batch[i].key /\ x.mask = mask
    BY <1>4, <1>5 DEF Matches
  <2> HIDE DEF x
  <2>2. /\ [batch EXCEPT ![i] = x] \in Seq(Matches) /\ Len([batch EXCEPT ![i] = x]) = Len(batch)
        /\ [batch EXCEPT ![i] = x][i] = x
        /\ \A j \in 1 .. Len(batch) : j # i => [batch EXCEPT ![i] = x][j] = batch[j]
    BY <1>2, <2>1
  <2> QED BY <2>1, <2>2 DEF x
<1> HIDE DEF b
<1>9. /\ l.batch = b /\ l.todo = loc[t].todo
      /\ l.step = (IF scan # Slots THEN i ELSE i + 1) /\ l.scan = (IF scan # Slots THEN scan ELSE {})
  <2>1. e \in Locals /\ e.batch = b /\ e.todo = loc[t].todo /\ e.step = i
    BY <1>1, <1>8 DEF Locals
  <2> HIDE DEF e, scan, i
  <2> QED BY <2>1 DEF Locals
<1>10. /\ p \in {"bulk_match", "bulk_next"} /\ (p = "bulk_next" => scan = Slots /\ i = Len(b))
  OBVIOUS
<1> HIDE DEF l, p
<1>11. /\ UNCHANGED <<arrays, newArrays>> /\ pc'[t] = p /\ loc'[t] = l
       /\ op'[t] = op[t] /\ key'[t] = key[t] /\ res'[t] = res[t]
  BY <1>1, <1>6 DEF Local, Goto, IInv, TypeOK, sharedVars
<1>12. \A j \in 1 .. Len(batch) : b[j].key = batch[j].key
  BY <1>8
<1>13. KeysLeft(l) = KeysLeft(loc[t]) /\ EachKeyOnce(l)
  BY <1>1, <1>2, <1>8, <1>9, <1>12, SameKeysLeft DEF CallOK
<1>14. CallOK(t)'
  <2>1. p = "bulk_next" => l.scan = {}
    BY <1>9, <1>10
  <2> QED BY <1>1, <1>10, <1>11, <1>13, <2>1 DEF CallOK, Erasing
<1>15. ASSUME NEW j \in 1 .. Len(batch), batch[j].key \notin missed'[t]
       PROVE  \E g \in Groups(arrays), m \in Slots :
                /\ arrays.elem[g][m] = batch[j].key
                /\ g = Home(arrays, batch[j].key) => Recording(t, j, m)'
  <2>1. batch[j].key \in KeysLeft(loc[t])
    BY <1>2 DEF KeysLeft
  <2>2. batch[j].key \notin missed[t]
    BY <1>11, <1>13, <1>15, <2>1, Unmissed DEF Moves, Asked
  <2>3. PICK g \in Groups(arrays), m \in Slots :
          /\ arrays.elem[g][m] = batch[j].key
          /\ g = Home(arrays, batch[j].key) => Recording(t, j, m)
    BY <1>1, <2>2 DEF BatchOK
  <2>4. ASSUME g = Home(arrays, batch[j].key) PROVE Recording(t, j, m)'
    <3>1. m \in batch[j].mask \/ j > i \/ (j = i /\ m \notin loc[t].scan)
      BY <1>1, <2>3, <2>4 DEF Recording
    <3>2. Recording(t, j, m)' <=> m \in b[j].mask
                                  \/ (p = "bulk_match" /\ (j > l.step \/ (j = l.step /\ m \notin l.scan)))
      BY <1>9, <1>11 DEF Recording
    <3>3. CASE m \in batch[j].mask
      BY <1>5, <1>8, <3>2, <3>3
    <3>4. CASE j > i
      <4>1. p = "bulk_match"
        BY <1>2, <1>8, <1>10, <3>4
      <4>2. j > l.step \/ (j = l.step /\ m \notin l.scan)
        BY <1>2, <1>9, <3>4
      <4> QED BY <3>2, <4>1, <4>2
    <3>5. CASE j = i /\ m \notin loc[t].scan /\ m = n
      <4>1. Has(k, g, n) /\ k \in Keys
        BY <1>4, <2>3, <3>5 DEF Has
      <4>2. arrays.meta[g][n] = Hash[k].tag
        BY <1>1, <2>3, <3>5, <4>1, HasTag
      <4>3. hit
        BY <2>4, <3>5, <4>2
      <4> QED BY <1>5, <1>8, <3>2, <3>5, <4>3
    <3>6. CASE j = i /\ m \notin loc[t].scan /\ m # n
      <4>1. m \notin scan /\ scan # Slots
        BY <2>3, <3>6
      <4>2. p = "bulk_match" /\ l.step = i /\ l.scan = scan
        BY <1>9, <1>10, <4>1
      <4> QED BY <3>2, <3>6, <4>1, <4>2
    <3> QED BY <3>1, <3>3, <3>4, <3>5, <3>6
  <2> QED BY <2>3, <2>4
<1>16. BatchOK(t)'
  <2>1. loc'[t].batch = b
    BY <1>9, <1>11
  <2> SUFFICES ASSUME NEW j \in 1 .. Len(b), b[j].key \notin missed'[t]
               PROVE  \E g \in Groups(arrays), m \in Slots :
                        /\ arrays.elem[g][m] = b[j].key
                        /\ g = Home(arrays, b[j].key) => Recording(t, j, m)'
    <3> HIDE DEF batch, i, k
    <3> QED BY <1>11, <2>1 DEF BatchOK, Home, Groups
  <2>2. j \in 1 .. Len(batch) /\ b[j].key = batch[j].key
    BY <1>8, <1>12
  <2> HIDE DEF batch
  <2> QED BY <1>15, <2>2
<1>17. LookupOK(t)'
  BY <1>10, <1>11 DEF LookupOK, Searching
<1> QED BY <1>1, <1>11, <1>13, <1>14, <1>16, <1>17, LookupSilent DEF Sweeps

\* The first key of the batch is no longer left.
LEMMA FirstTaken ==
  ASSUME NEW l, NEW m, l.batch \in Seq(Matches), l.batch # <<>>, m.batch = Tail(l.batch), m.todo = l.todo,
         EachKeyOnce(l)
  PROVE  /\ EachKeyOnce(m) /\ l.batch[1].key \in KeysLeft(l)
         /\ KeysLeft(m) = KeysLeft(l) \ {l.batch[1].key}
<1>1. /\ Len(l.batch) \in Nat /\ Len(l.batch) > 0 /\ DOMAIN l.batch = 1 .. Len(l.batch)
      /\ Len(m.batch) = Len(l.batch) - 1 /\ DOMAIN m.batch = 1 .. Len(l.batch) - 1
      /\ \A j \in 1 .. Len(l.batch) - 1 : m.batch[j] = l.batch[j + 1] /\ j + 1 \in 1 .. Len(l.batch) /\ j + 1 # 1
      /\ \A j \in 1 .. Len(l.batch) : j = 1 \/ (j - 1 \in 1 .. Len(l.batch) - 1 /\ (j - 1) + 1 = j)
  OBVIOUS
<1>2. 1 \in 1 .. Len(l.batch)
  BY <1>1
<1>3. PICK L, M, b, c, todo, done : /\ L = Len(l.batch) /\ M = Len(m.batch) /\ b = l.batch /\ c = m.batch
                                    /\ todo = l.todo
                                    /\ done = b[1].key
  OBVIOUS
<1>4. /\ \A i, j \in 1 .. L : b[i].key = b[j].key => i = j
      /\ \A i, j \in 1 .. Len(todo) : todo[i] = todo[j] => i = j
      /\ \A i \in 1 .. Len(todo), j \in 1 .. L : todo[i] # b[j].key
  BY <1>3 DEF EachKeyOnce
<1>5. \A j \in 1 .. M : c[j].key = b[j + 1].key /\ j + 1 \in 1 .. L /\ j + 1 # 1
  BY <1>1, <1>3
<1>6. EachKeyOnce(m)
  <2>1. ASSUME NEW i \in 1 .. M, NEW j \in 1 .. M, c[i].key = c[j].key PROVE i = j
    <3>1. i + 1 = j + 1
      BY <1>4, <1>5, <2>1
    <3> QED BY <3>1
  <2>2. \A i \in 1 .. Len(todo), j \in 1 .. M : todo[i] # c[j].key
    BY <1>4, <1>5
  <2> QED BY <1>3, <1>4, <2>1, <2>2 DEF EachKeyOnce
<1>7. done \in KeysLeft(l)
  BY <1>1, <1>2, <1>3 DEF KeysLeft
<1>8. ASSUME NEW x \in KeysLeft(m) PROVE x \in KeysLeft(l) /\ x # done
  <2>1. CASE \E i \in DOMAIN todo : x = todo[i]
    <3>1. DOMAIN todo = 1 .. Len(todo)
      OBVIOUS
    <3> QED BY <1>2, <1>3, <1>4, <2>1, <3>1 DEF KeysLeft
  <2>2. CASE \E i \in 1 .. M : x = c[i].key
    BY <1>1, <1>2, <1>3, <1>4, <1>5, <2>2 DEF KeysLeft
  <2> QED BY <1>1, <1>3, <1>8, <2>1, <2>2 DEF KeysLeft
<1>9. ASSUME NEW x \in KeysLeft(l), x # done PROVE x \in KeysLeft(m)
  <2>1. CASE \E i \in DOMAIN todo : x = todo[i]
    BY <1>3, <2>1 DEF KeysLeft
  <2>2. CASE \E i \in 1 .. L : x = b[i].key
    <3>1. PICK i \in 1 .. L : x = b[i].key
      BY <2>2
    <3>2. i - 1 \in 1 .. M /\ x = c[i - 1].key
      BY <1>1, <1>3, <1>9, <3>1
    <3> QED BY <1>1, <1>3, <3>2 DEF KeysLeft
  <2> QED BY <1>1, <1>3, <1>9, <2>1, <2>2 DEF KeysLeft
<1> QED BY <1>3, <1>6, <1>7, <1>8, <1>9

LEMMA NextKeyRefines ==
  ASSUME NEW t \in Threads, Moves(t), NextKey(t)
  PROVE  Refines
<1> DEFINE batch == loc[t].batch
           k == batch[1].key
           mask == batch[1].mask
           l == [loc[t] EXCEPT !.batch = Tail(batch), !.step = 0, !.mask = mask]
           p == IF mask = {} THEN "check_overflow" ELSE "compare"
<1>1. /\ pc[t] = "bulk_next" /\ op[t] = "bulk" /\ CallOK(t) /\ BatchOK(t) /\ loc[t] \in Locals /\ IInv
      /\ pc[t] \in Inside
  <2>1. pc[t] = "bulk_next" /\ ThreadOK(t) /\ IInv /\ CallOK(t) /\ BatchOK(t) /\ loc[t] \in Locals
    BY Mover DEF NextKey, Moves, AnswersOK
  <2> QED BY <2>1 DEF ThreadOK, OpOK, Inside, Visiting
<1>2. batch \in Seq(Matches) /\ batch # <<>>
  BY <1>1 DEF NextKey, Locals
<1>3. /\ pc' = [pc EXCEPT ![t] = p] /\ key' = [key EXCEPT ![t] = k] /\ loc' = [loc EXCEPT ![t] = l]
      /\ res' = [res EXCEPT ![t] = "none"] /\ UNCHANGED <<sharedVars, op, moved>>
  <2>1. Head(batch) = batch[1]
    BY <1>2
  <2> QED BY <2>1 DEF NextKey, Goto
<1>4. /\ Tail(batch) \in Seq(Matches) /\ Len(Tail(batch)) = Len(batch) - 1 /\ Len(batch) \in Nat /\ Len(batch) > 0
      /\ \A j \in 1 .. Len(batch) - 1 : Tail(batch)[j] = batch[j + 1] /\ j + 1 \in 1 .. Len(batch)
      /\ 1 \in 1 .. Len(batch)
  <2> HIDE DEF batch
  <2> QED BY <1>2
<1>5. k \in Keys /\ mask \subseteq Slots
  <2>1. batch[1] \in Matches
    BY <1>2, <1>4
  <2> HIDE DEF batch
  <2> QED BY <2>1 DEF Matches
<1>6. /\ l.batch = Tail(batch) /\ l.step = 0 /\ l.mask = mask /\ l.todo = loc[t].todo /\ l.scan = loc[t].scan
  <2> HIDE DEF batch, mask
  <2> QED BY <1>1 DEF Locals
<1>7. p \in {"check_overflow", "compare"} /\ (p = "check_overflow" <=> mask = {})
  OBVIOUS
<1> HIDE DEF l, p
<1>8. /\ UNCHANGED <<arrays, newArrays, op>> /\ pc'[t] = p /\ loc'[t] = l
      /\ key' = [key EXCEPT ![t] = k] /\ key'[t] = k /\ res' = [res EXCEPT ![t] = "none"] /\ res'[t] = "none"
  BY <1>1, <1>3 DEF IInv, TypeOK, sharedVars
<1>9. EachKeyOnce(l) /\ k \in KeysLeft(loc[t]) /\ KeysLeft(l) = KeysLeft(loc[t]) \ {k}
  BY <1>1, <1>2, <1>6, FirstTaken DEF CallOK
<1> HIDE DEF k, mask
<1>10. CallOK(t)'
  BY <1>1, <1>6, <1>7, <1>8, <1>9 DEF CallOK, Erasing
<1>11. k \notin missed'[t] => k \notin missed[t]
  <2>1. k \in Asked(op'[t], key'[t], loc'[t], res'[t])
    BY <1>1, <1>5, <1>8 DEF Asked, Sweeps
  <2> QED BY <2>1, Unmissed DEF Moves
<1>12. LookupOK(t)'
  <2> SUFFICES ASSUME k \notin missed'[t]
               PROVE  \E g \in Groups(arrays), n \in Slots : arrays.elem[g][n] = k /\ Ahead(t, g, n)'
    BY <1>8 DEF LookupOK, Groups
  <2>1. PICK g \in Groups(arrays), n \in Slots :
          arrays.elem[g][n] = k /\ (g = Home(arrays, k) => Recording(t, 1, n))
    BY <1>1, <1>4, <1>11 DEF BatchOK, k
  <2>2. g = Home(arrays, k) => n \in mask
    BY <1>1, <2>1 DEF Recording, mask
  <2>3. PICK i \in Groups(arrays) : Probe(arrays, Home(arrays, k), i) = g /\ Passed(arrays, Hash[k], i)
    BY <1>1, <1>5, <2>1, HasReached DEF Reached, Has, Home
  <2>4. /\ IsArrays(arrays, Keys) /\ arrays.groups \in GroupCounts /\ Home(arrays, k) \in Groups(arrays)
    BY <1>1, <1>5, Mover, ArraysTyped, HomeTyped
  <2>5. i = 0 \/ i > 0
    BY <2>4, GroupsPositive DEF Groups
  <2>6. i = 0 => n \in mask /\ p = "compare"
    BY <1>7, <2>2, <2>3, <2>4, ProbeBegins
  <2>7. Ahead(t, g, n)'
    BY <1>6, <1>8, <2>3, <2>5, <2>6 DEF Ahead, Home, Groups
  <2> QED BY <2>1, <2>7
<1>13. BatchOK(t)'
  <2>1. loc'[t].batch = Tail(batch)
    BY <1>6, <1>8
  <2> SUFFICES ASSUME NEW j \in 1 .. Len(batch) - 1, batch[j + 1].key \notin missed'[t]
               PROVE  \E g \in Groups(arrays), n \in Slots :
                        /\ arrays.elem[g][n] = batch[j + 1].key
                        /\ g = Home(arrays, batch[j + 1].key) => Recording(t, j, n)'
    <3> HIDE DEF batch
    <3> QED BY <1>4, <1>8, <2>1 DEF BatchOK, Home, Groups
  <2>2. j + 1 \in 1 .. Len(batch) /\ Tail(batch)[j] = batch[j + 1]
    <3> HIDE DEF batch
    <3> QED BY <1>4
  <2>3. batch[j + 1].key \notin missed[t]
    <3>1. batch[j + 1].key \in KeysLeft(l)
      <4>1. j \in DOMAIN l.batch /\ l.batch[j] = batch[j + 1]
        <5> HIDE DEF batch
        <5> QED BY <1>4, <1>6, <2>2
      <4> QED BY <4>1 DEF KeysLeft
    <3> QED BY <1>8, <3>1, Unmissed DEF Moves, Asked
  <2>4. PICK g \in Groups(arrays), n \in Slots :
          /\ arrays.elem[g][n] = batch[j + 1].key
          /\ g = Home(arrays, batch[j + 1].key) => Recording(t, j + 1, n)
    BY <1>1, <2>2, <2>3 DEF BatchOK
  <2>5. Recording(t, j + 1, n) => Recording(t, j, n)'
    BY <1>1, <2>1, <2>2 DEF Recording
  <2> QED BY <2>4, <2>5
<1>14. op'[t] \notin Sweeps /\ op[t] \notin Sweeps
  BY <1>1, <1>8 DEF Sweeps
<1>15. unmet'[t] = {} /\ unmet[t] = {}
  BY <1>14, WatchUnmet DEF Moves, AnswersOK, SweepMeets
<1>16. Acts(t) /\ Contents' = Contents
  BY <1>8, NothingChanges DEF Acts
<1>17. AnswersOK' /\ Set!Watch
  <2>1. Answers(t)'
    BY <1>10, <1>12, <1>13, <1>14, <1>15 DEF Answers, SweepMeets
  <2> QED BY <1>16, <2>1, AnswersKept
<1>18. PICK X : X = Left(t) \ {k}
  OBVIOUS
<1>19. Set!LeftOf(t, X)
  <2>1. Left(t)' = X
    BY <1>8, <1>9, <1>15, <1>18 DEF Left
  <2> QED BY <1>14, <1>16, <2>1, LeftOfStep DEF Acts
<1>20. /\ k \in [u \in Threads |-> KeysLeft(loc[u]) \cup unmet[u]][t]
       /\ X = [u \in Threads |-> KeysLeft(loc[u]) \cup unmet[u]][t] \ {k}
  BY <1>9, <1>18 DEF Left
<1>21. Set!NextKey(t)
  BY <1>1, <1>8, <1>16, <1>19, <1>20 DEF Set!NextKey, Set!LeftOf, Set!LeftIs
<1> QED BY <1>17, <1>21 DEF Refines, Set!Next

-----------------------------------------------------------------------------
(* The refinement *)

LEMMA ProgressRefines ==
  ASSUME NEW t \in Threads, Moves(t), Progress(t)
  PROVE  Refines
<1>1. ASSUME Enter(t) PROVE Refines
  BY <1>1, InsertControl, EnterLookupRefines, EnterSweepRefines, EnterBulkRefines DEF Enter
<1>2. ASSUME Search(t) PROVE Refines
  BY <1>2, MatchSlotRefines, CompareMissesRefines, CompareFindsRefines, CheckOverflowRefines, FinishVisitRefines
     DEF Search
<1>3. ASSUME EraseStep(t) PROVE Refines
  BY <1>3, KeepElementRefines, DestroyElementRefines, EraseTail DEF EraseStep
<1>4. ASSUME InsertStep(t) PROVE Refines
  BY <1>4, InsertControl, ProbeGroupRefines, ConstructRefines, ConstructThrowsRefines, RollbackSlotRefines
     DEF InsertStep
<1>5. ASSUME Sweep(t) PROVE Refines
  BY <1>5, SweepGroupRefines, SweepSlotRefines, SweepErasesRefines, SweepStopsRefines, SweepEndsRefines DEF Sweep
<1>6. ASSUME BulkVisit(t) PROVE Refines
  BY <1>6, NextBatchRefines, BulkMatchSlotRefines, NextKeyRefines, BulkEndsRefines DEF BulkVisit
<1>7. ASSUME ExclusiveStep(t) PROVE Refines
  BY <1>7, InsertControl, StartRehashRefines, TransferElementRefines, FinishRehashRefines, TransferThrowsRefines,
     ReserveTableRefines, ClearTableRefines DEF ExclusiveStep
<1> QED BY <1>1, <1>2, <1>3, <1>4, <1>5, <1>6, <1>7, LeaveRefines DEF Progress

LEMMA StepRefines ==
  ASSUME IInv, IInv', AnswersOK, [Next]_vars
  PROVE  Refines
<1>1. ASSUME NEW t \in Threads, Call(t) \/ Progress(t), Watch PROVE Refines
  <2>1. Moves(t)
    BY <1>1, OneMoves DEF Moves
  <2> QED BY <1>1, <2>1, CallRefines, ProgressRefines
<1>2. CASE UNCHANGED vars
  <2>1. Contents' = Contents
    BY <1>2 DEF vars, Contents
  <2>2. AnswersOK'
    BY <1>2, <2>1 DEF vars, AnswersOK, HistoryTyped, CallOK, MissedOK, LookupOK, BatchOK, SweepMeets, Recording,
       ToVisit, Ahead
  <2>3. UNCHANGED Set!vars
    BY <1>2, <2>1 DEF vars, Set!vars
  <2> QED BY <2>2, <2>3 DEF Refines
<1> QED BY <1>1, <1>2 DEF Next

LEMMA InitAnswers ==
  ASSUME Init
  PROVE  AnswersOK /\ Set!Init
<1>1. /\ Contents = {} /\ \A t \in Threads :
        /\ pc[t] = "idle" /\ op[t] = "none" /\ key[t] = NoKey /\ res[t] = "none"
        /\ loc[t].todo = <<>> /\ loc[t].batch = <<>> /\ missed[t] = {} /\ unmet[t] = {}
  <2>1. \A m : NoLocals(m).todo = <<>> /\ NoLocals(m).batch = <<>>
    BY DEF NoLocals
  <2> QED BY <2>1, NoElements DEF Init, Contents
<1>2. \A t \in Threads : KeysLeft(loc[t]) = {} /\ EachKeyOnce(loc[t])
  BY <1>1, NothingLeft
<1>3. HistoryTyped
  BY DEF Init, HistoryTyped
<1>4. ASSUME NEW t \in Threads PROVE CallOK(t) /\ MissedOK(t) /\ LookupOK(t) /\ BatchOK(t) /\ SweepMeets(t)
  <2>1. Asked(op[t], key[t], loc[t], res[t]) = {}
    BY <1>1, <1>2, HashAssumption DEF Asked, Sweeps
  <2>2. pc[t] \notin Searching /\ pc[t] \notin Erasing
    BY <1>1 DEF Searching, Erasing
  <2> QED BY <1>1, <1>2, <2>1, <2>2 DEF CallOK, MissedOK, LookupOK, BatchOK, SweepMeets, Sweeps
<1>5. [t \in Threads |-> KeysLeft(loc[t]) \cup unmet[t]] = [t \in Threads |-> {}]
  BY <1>1, <1>2
<1>6. Set!Init
  BY <1>1, <1>5 DEF Init, Set!Init
<1> QED BY <1>3, <1>4, <1>6 DEF AnswersOK

\* What operations in progress have been told of the past, and have yet to come
\* to, is true and enough for their answers.
THEOREM AnswersAreTrue == Spec => []AnswersOK
<1>1. Init => AnswersOK
  BY InitAnswers
<1>2. IInv /\ IInv' /\ AnswersOK /\ [Next]_vars => AnswersOK'
  BY StepRefines DEF Refines
<1> QED BY <1>1, <1>2, Invariance, PTL DEF Spec

\* The table implements the set: whatever its threads do, each operation on a
\* key looks as if it happened at one instant between its call and its return,
\* and the sweeps meet what they must, as ConcurrentSet says.
THEOREM Linearizes == Spec => ImplementsSet
<1>1. Init => Set!Init
  BY InitAnswers
<1>2. IInv /\ IInv' /\ AnswersOK /\ [Next]_vars => [Set!Next]_(Set!vars)
  BY StepRefines DEF Refines
<1> QED BY <1>1, <1>2, Invariance, AnswersAreTrue, PTL DEF Spec, ImplementsSet, Set!Spec
=============================================================================
