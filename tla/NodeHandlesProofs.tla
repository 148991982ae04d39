-------------------------- MODULE NodeHandlesProofs --------------------------
(***************************************************************************)
(* Proofs about node handles, for any sets of nodes, handles, containers   *)
(* and allocators.  IInv says node by node what NodesOwned says of sets of *)
(* owners; every action preserves its four parts.                          *)
(***************************************************************************)
EXTENDS NodeHandles, TLAPS

USE NodesAssumption, OwnersAssumption

\* What an owner has was allocated by the owner's allocator.
ContainersAgree ==
  \A c \in Containers : \A n \in nodes[c] : origin[n] = al[c]
HandlesAgree ==
  \A h \in Handles : ~Empty(h) => origin[handle[h].p] = handle[h].a /\ handle[h].a \in Allocators

\* A node has no second owner.
OneOwner ==
  /\ \A c, d \in Containers : \A n \in nodes[c] : n \in nodes[d] => c = d
  /\ \A c \in Containers, h \in Handles : handle[h].p \notin nodes[c]
  /\ \A h, g \in Handles : ~Empty(h) /\ handle[h].p = handle[g].p => h = g

\* A node in use has an owner.
SomeOwner ==
  \A n \in Nodes : origin[n] # NoAllocator =>
    \/ \E c \in Containers : n \in nodes[c]
    \/ \E h \in Handles : handle[h].p = n

IInv == TypeOK /\ ContainersAgree /\ HandlesAgree /\ OneOwner /\ SomeOwner

\* The invariant holds at first.
LEMMA InitIInv == Init => IInv
BY DEF Init, IInv, TypeOK, ContainersAgree, HandlesAgree, OneOwner, SomeOwner, Empty, NoHandle

\* The parts imply that owners are unique and free what they own correctly.
LEMMA IInvImpliesNodesOwned == IInv => NodesOwned
<1> SUFFICES ASSUME IInv, NEW n \in Nodes
             PROVE  IF origin[n] = NoAllocator THEN Owners(n) = {}
                    ELSE \E o \in Owners(n) : Owners(n) = {o} /\ AllocatorOf(o) = origin[n]
  BY DEF NodesOwned
<1>1. CASE origin[n] = NoAllocator
  <2>1. \A c \in Containers : n \notin nodes[c]
    BY <1>1 DEF IInv, TypeOK, ContainersAgree
  <2>2. \A h \in Handles : handle[h].p # n
    BY <1>1 DEF IInv, TypeOK, HandlesAgree, Empty
  <2> QED BY <1>1, <2>1, <2>2 DEF Owners
<1>2. ASSUME NEW c \in Containers, n \in nodes[c], origin[n] # NoAllocator
      PROVE  c \in Owners(n) /\ Owners(n) = {c} /\ AllocatorOf(c) = origin[n]
  <2>1. \A d \in Containers : n \in nodes[d] => d = c
    BY <1>2 DEF IInv, OneOwner
  <2>2. \A h \in Handles : handle[h].p # n
    BY <1>2 DEF IInv, OneOwner
  <2> QED BY <1>2, <2>1, <2>2 DEF Owners, AllocatorOf, IInv, ContainersAgree
<1>3. ASSUME NEW h \in Handles, handle[h].p = n, origin[n] # NoAllocator
      PROVE  h \in Owners(n) /\ Owners(n) = {h} /\ AllocatorOf(h) = origin[n]
  <2>1. ~Empty(h)
    BY <1>3 DEF Empty
  <2>2. \A c \in Containers : n \notin nodes[c]
    BY <1>3 DEF IInv, OneOwner
  <2>3. \A g \in Handles : handle[g].p = n => g = h
    BY <1>3, <2>1 DEF IInv, OneOwner
  <2> QED BY <1>3, <2>1, <2>2, <2>3 DEF Owners, AllocatorOf, IInv, HandlesAgree
<1> QED BY <1>1, <1>2, <1>3 DEF IInv, SomeOwner
-----------------------------------------------------------------------------
(* Steps between handles *)

\* MoveConstruct keeps every part of the invariant.
LEMMA MoveConstructPreserves ==
  ASSUME IInv, NEW h \in Handles, NEW g \in Handles, MoveConstruct(h, g)
  PROVE  IInv'
<1> USE DEF IInv, TypeOK, MoveConstruct, NoHandle, Empty
<1>1. TypeOK'         OBVIOUS
<1>2. ContainersAgree' BY DEF ContainersAgree
<1>3. HandlesAgree'   BY DEF HandlesAgree
<1>4. OneOwner'       BY DEF OneOwner
<1>5. SomeOwner'      BY DEF SomeOwner
<1> QED BY <1>1, <1>2, <1>3, <1>4, <1>5

\* Destruct keeps every part of the invariant.
LEMMA DestructPreserves ==
  ASSUME IInv, NEW h \in Handles, Destruct(h)
  PROVE  IInv'
<1> USE DEF IInv, TypeOK, Destruct, NoHandle, Empty, Freed, NodeOf
<1>1. TypeOK'         OBVIOUS
<1>2. ContainersAgree' BY DEF ContainersAgree, OneOwner
<1>3. HandlesAgree'   BY DEF HandlesAgree, OneOwner
<1>4. OneOwner'       BY DEF OneOwner
<1>5. SomeOwner'      BY DEF SomeOwner
<1> QED BY <1>1, <1>2, <1>3, <1>4, <1>5

\* BaseAssign keeps every part of the invariant.
LEMMA BaseAssignPreserves ==
  ASSUME IInv, NEW h \in Handles, NEW g \in Handles, BaseAssign(h, g)
  PROVE  IInv'
<1> USE DEF IInv, TypeOK, BaseAssign, NoHandle, Empty, Freed, NodeOf
<1>1. TypeOK'         OBVIOUS
<1>2. ContainersAgree' BY DEF ContainersAgree, OneOwner
<1>3. HandlesAgree'   BY DEF HandlesAgree, OneOwner
<1>4. OneOwner'       BY DEF OneOwner
<1>5. SomeOwner'      BY DEF SomeOwner
<1> QED BY <1>1, <1>2, <1>3, <1>4, <1>5

\* OptionalAssign keeps every part of the invariant.
LEMMA OptionalAssignPreserves ==
  ASSUME IInv, NEW h \in Handles, NEW g \in Handles, OptionalAssign(h, g)
  PROVE  IInv'
<1> USE DEF IInv, TypeOK, OptionalAssign, NoHandle, Empty, Freed, NodeOf
<1>1. TypeOK'         OBVIOUS
<1>2. ContainersAgree' BY DEF ContainersAgree, OneOwner
<1>3. HandlesAgree'   BY DEF HandlesAgree, OneOwner
<1>4. OneOwner'       BY DEF OneOwner
<1>5. SomeOwner'      BY DEF SomeOwner
<1> QED BY <1>1, <1>2, <1>3, <1>4, <1>5

\* A swap with or without the allocators keeps every part of the invariant.
LEMMA SwappedPreserves ==
  ASSUME IInv, NEW h \in Handles, NEW g \in Handles, NEW b \in BOOLEAN, Swapped(h, g, b)
  PROVE  IInv'
<1> USE DEF IInv, TypeOK, Swapped, Empty
<1>1. TypeOK'         OBVIOUS
<1>2. ContainersAgree' BY DEF ContainersAgree
<1>3. HandlesAgree'   BY DEF HandlesAgree
<1>4. OneOwner'       BY DEF OneOwner
<1>5. SomeOwner'      BY DEF SomeOwner
<1> QED BY <1>1, <1>2, <1>3, <1>4, <1>5

-----------------------------------------------------------------------------
(* Steps of containers *)

\* Emplace keeps every part of the invariant.
LEMMA EmplacePreserves ==
  ASSUME IInv, NEW c \in Containers, NEW n \in Nodes, Emplace(c, n)
  PROVE  IInv'
<1> USE DEF IInv, TypeOK, Emplace, Empty, ContainersAgree, HandlesAgree
<1>1. TypeOK'         OBVIOUS
<1>2. ContainersAgree' BY DEF ContainersAgree, OneOwner
<1>3. HandlesAgree'   BY DEF HandlesAgree, OneOwner
<1>4. OneOwner'       BY DEF OneOwner
<1>5. SomeOwner'      BY DEF SomeOwner, ContainersAgree, HandlesAgree
<1> QED BY <1>1, <1>2, <1>3, <1>4, <1>5

\* Erase keeps every part of the invariant.
LEMMA ErasePreserves ==
  ASSUME IInv, NEW c \in Containers, NEW n \in Nodes, Erase(c, n)
  PROVE  IInv'
<1> USE DEF IInv, TypeOK, Erase, Empty, Freed
<1>1. TypeOK'         OBVIOUS
<1>2. ContainersAgree' BY DEF ContainersAgree, OneOwner
<1>3. HandlesAgree'   BY DEF HandlesAgree, OneOwner
<1>4. OneOwner'       BY DEF OneOwner
<1>5. SomeOwner'      BY DEF SomeOwner, ContainersAgree, HandlesAgree
<1> QED BY <1>1, <1>2, <1>3, <1>4, <1>5

\* Extract keeps every part of the invariant.
LEMMA ExtractPreserves ==
  ASSUME IInv, NEW c \in Containers, NEW n \in Nodes, NEW h \in Handles, Extract(c, n, h)
  PROVE  IInv'
<1> USE DEF IInv, TypeOK, Extract, NoHandle, Empty, ContainersAgree
<1>1. TypeOK'         OBVIOUS
<1>2. ContainersAgree' BY DEF ContainersAgree, OneOwner
<1>3. HandlesAgree'   BY DEF HandlesAgree, OneOwner
<1>4. OneOwner'       BY DEF OneOwner
<1>5. SomeOwner'      BY DEF SomeOwner, ContainersAgree, HandlesAgree
<1> QED BY <1>1, <1>2, <1>3, <1>4, <1>5

\* ExtractMissing keeps every part of the invariant.
LEMMA ExtractMissingPreserves ==
  ASSUME IInv, NEW c \in Containers, NEW h \in Handles, ExtractMissing(c, h)
  PROVE  IInv'
<1> USE DEF IInv, TypeOK, ExtractMissing, NoHandle, Empty
<1>1. TypeOK'         OBVIOUS
<1>2. ContainersAgree' BY DEF ContainersAgree, OneOwner
<1>3. HandlesAgree'   BY DEF HandlesAgree, OneOwner
<1>4. OneOwner'       BY DEF OneOwner
<1>5. SomeOwner'      BY DEF SomeOwner, ContainersAgree, HandlesAgree
<1> QED BY <1>1, <1>2, <1>3, <1>4, <1>5

\* Insert keeps every part of the invariant.
LEMMA InsertPreserves ==
  ASSUME IInv, NEW c \in Containers, NEW h \in Handles, Insert(c, h)
  PROVE  IInv'
<1> USE DEF IInv, TypeOK, Insert, MayInsert, Reset, NoHandle, NodeOf, Empty, HandlesAgree
<1>1. TypeOK'         OBVIOUS
<1>2. ContainersAgree' BY DEF ContainersAgree, OneOwner
<1>3. HandlesAgree'   BY DEF HandlesAgree, OneOwner
<1>4. OneOwner'       BY DEF OneOwner
<1>5. SomeOwner'      BY DEF SomeOwner, ContainersAgree, HandlesAgree
<1> QED BY <1>1, <1>2, <1>3, <1>4, <1>5

\* InsertThrows keeps every part of the invariant.
LEMMA InsertThrowsPreserves ==
  ASSUME IInv, NEW c \in Containers, NEW h \in Handles, InsertThrows(c, h)
  PROVE  IInv'
<1> USE DEF IInv, TypeOK, InsertThrows, MayInsert, NoHandle, NodeOf, Freed, Empty
<1>1. TypeOK'         OBVIOUS
<1>2. ContainersAgree' BY DEF ContainersAgree, OneOwner
<1>3. HandlesAgree'   BY DEF HandlesAgree, OneOwner
<1>4. OneOwner'       BY DEF OneOwner
<1>5. SomeOwner'      BY DEF SomeOwner, ContainersAgree, HandlesAgree
<1> QED BY <1>1, <1>2, <1>3, <1>4, <1>5

\* Merge keeps every part of the invariant.
LEMMA MergePreserves ==
  ASSUME IInv, NEW c \in Containers, NEW d \in Containers, Merge(c, d)
  PROVE  IInv'
<1> USE DEF IInv, TypeOK, Merge, Freed, Empty
<1>1. TypeOK'         OBVIOUS
<1>2. ContainersAgree' BY DEF ContainersAgree, OneOwner
<1>3. HandlesAgree'   BY DEF HandlesAgree, OneOwner
<1>4. OneOwner'       BY DEF OneOwner
<1>5. SomeOwner'      BY DEF SomeOwner, ContainersAgree, HandlesAgree
<1> QED BY <1>1, <1>2, <1>3, <1>4, <1>5

\* SwapContainers keeps every part of the invariant.
LEMMA SwapContainersPreserves ==
  ASSUME IInv, NEW c \in Containers, NEW d \in Containers, SwapContainers(c, d)
  PROVE  IInv'
<1> USE DEF IInv, TypeOK, SwapContainers, Empty
<1>1. TypeOK'         OBVIOUS
<1>2. ContainersAgree' BY DEF ContainersAgree, OneOwner
<1>3. HandlesAgree'   BY DEF HandlesAgree, OneOwner
<1>4. OneOwner'       BY DEF OneOwner
<1>5. SomeOwner'      BY DEF SomeOwner, ContainersAgree, HandlesAgree
<1> QED BY <1>1, <1>2, <1>3, <1>4, <1>5

\* AssignContainer keeps every part of the invariant.
LEMMA AssignContainerPreserves ==
  ASSUME IInv, NEW c \in Containers, NEW d \in Containers, AssignContainer(c, d)
  PROVE  IInv'
<1> USE DEF IInv, TypeOK, AssignContainer, Freed, Empty
<1>1. TypeOK'         OBVIOUS
<1>2. ContainersAgree' BY DEF ContainersAgree, OneOwner
<1>3. HandlesAgree'   BY DEF HandlesAgree, OneOwner
<1>4. OneOwner'       BY DEF OneOwner
<1>5. SomeOwner'      BY DEF SomeOwner, ContainersAgree, HandlesAgree
<1> QED BY <1>1, <1>2, <1>3, <1>4, <1>5

-----------------------------------------------------------------------------
\* Every step keeps the invariant.
LEMMA StepPreserves == IInv /\ [Next]_vars => IInv'
<1> SUFFICES ASSUME IInv, [Next]_vars PROVE IInv'
  OBVIOUS
<1>1. ASSUME NEW h \in Handles, Destruct(h) PROVE IInv'
  BY <1>1, DestructPreserves
<1>2. ASSUME NEW h \in Handles, NEW g \in Handles, HandleStep(h, g) PROVE IInv'
  <2>1. ASSUME NEW b \in BOOLEAN, Swapped(h, g, b) PROVE IInv'
    BY <2>1, SwappedPreserves
  <2>2. CASE BaseSwap(h, g)
    <3>1. (traits.pocs \/ Empty(h) \/ Empty(g)) \in BOOLEAN
      BY DEF IInv, TypeOK, Traits
    <3> QED BY <2>1, <2>2, <3>1 DEF BaseSwap
  <2>3. CASE OptionalSwap(h, g)
    <3>1. (traits.pocs \/ NoAllocator \in {handle[h].a, handle[g].a}) \in BOOLEAN
      BY DEF IInv, TypeOK, Traits
    <3> QED BY <2>1, <2>3, <3>1 DEF OptionalSwap
  <2> QED BY <1>2, <2>2, <2>3, MoveConstructPreserves, BaseAssignPreserves,
             OptionalAssignPreserves DEF HandleStep
<1>3. ASSUME NEW c \in Containers, NEW n \in Nodes, Emplace(c, n) \/ Erase(c, n) PROVE IInv'
  BY <1>3, EmplacePreserves, ErasePreserves
<1>4. ASSUME NEW c \in Containers, NEW h \in Handles, Transfer(c, h) PROVE IInv'
  BY <1>4, ExtractMissingPreserves, InsertPreserves, InsertThrowsPreserves DEF Transfer
<1>5. ASSUME NEW c \in Containers, NEW h \in Handles, NEW n \in Nodes, Extract(c, n, h) PROVE IInv'
  BY <1>5, ExtractPreserves
<1>6. ASSUME NEW c \in Containers, NEW h \in Handles, NEW r \in Handles, InsertFails(c, h, r)
      PROVE  IInv'
  BY <1>6, MoveConstructPreserves DEF InsertFails
<1>7. ASSUME NEW c \in Containers, NEW d \in Containers, ContainerStep(c, d) PROVE IInv'
  BY <1>7, MergePreserves, SwapContainersPreserves, AssignContainerPreserves DEF ContainerStep
<1>8. CASE UNCHANGED vars
  BY <1>8 DEF vars, IInv, TypeOK, ContainersAgree, HandlesAgree, OneOwner, SomeOwner, Empty
<1> QED BY <1>1, <1>2, <1>3, <1>4, <1>5, <1>6, <1>7, <1>8 DEF Next

\* No node is leaked, freed twice or given back to a stranger.
THEOREM NodesAreOwned == Spec => []NodesOwned
<1>1. Spec => []IInv
  BY InitIInv, StepPreserves, PTL DEF Spec
<1> QED BY <1>1, IInvImpliesNodesOwned, PTL
=============================================================================
