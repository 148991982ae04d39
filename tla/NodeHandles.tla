----------------------------- MODULE NodeHandles -----------------------------
(***************************************************************************)
(* Node handles and the containers they take nodes from and give them back *)
(* to.  There are two classes of handles: node_handle_base, of the node    *)
(* containers with open addressing, has an allocator as long as it has a   *)
(* node; node_handle_map, of the containers with closed addressing, has an *)
(* optional allocator, which a handle without a node may still hold.       *)
(*                                                                         *)
(* The containers are what handles see of them: nodes and an allocator.    *)
(* Keys are unique.  BOOST_ASSERTs of equal allocators are preconditions.  *)
(***************************************************************************)
EXTENDS FiniteSets

CONSTANTS Containers, Handles, Allocators, Nodes, NoNode, NoAllocator,
          KeyOf   \* the key of the element in each node

ASSUME NodesAssumption == NoNode \notin Nodes /\ NoAllocator \notin Allocators
ASSUME OwnersAssumption == Containers \cap Handles = {}

VARIABLES
  traits,  \* the class of the handles, what propagates, and what throws
  nodes,   \* the nodes in each container
  al,      \* the allocator of each container
  handle,  \* the node and the allocator of each handle
  origin   \* the allocator each node in use was allocated with

vars == <<traits, nodes, al, handle, origin>>

Traits == [optional : BOOLEAN, pocma : BOOLEAN, pocs : BOOLEAN, throws : BOOLEAN]
NoHandle == [p |-> NoNode, a |-> NoAllocator]
Empty(h) == handle[h].p = NoNode

Init ==
  /\ traits \in Traits
  /\ nodes = [c \in Containers |-> {}]
  /\ al \in [Containers -> Allocators]
  /\ handle = [h \in Handles |-> NoHandle]
  /\ origin = [n \in Nodes |-> NoAllocator]

\* An element with the key of n is in the container.
HasKey(c, n) == \E m \in nodes[c] : KeyOf[m] = KeyOf[n]
\* destroy() and deallocation of the nodes ns.
Freed(ns) == [n \in Nodes |-> IF n \in ns THEN NoAllocator ELSE origin[n]]
NodeOf(h) == {handle[h].p} \ {NoNode}

-----------------------------------------------------------------------------
(* Handles *)

\* Both classes move the allocator along with the node.
MoveConstruct(h, g) ==
  /\ handle[h] = NoHandle /\ g # h
  /\ handle' = [handle EXCEPT ![h] = handle[g], ![g] = NoHandle]
  /\ UNCHANGED <<traits, nodes, al, origin>>

\* ~node_handle_base(), ~node_handle_map().
Destruct(h) ==
  /\ origin' = Freed(NodeOf(h))
  /\ handle' = [handle EXCEPT ![h] = NoHandle]
  /\ UNCHANGED <<traits, nodes, al>>

\* Mutant: the allocator stays where it is, also if it propagates.
BaseAssignKeepingAllocator(h, g) ==
  LET a == IF Empty(h) THEN handle[g].a ELSE handle[h].a
  IN  /\ ~traits.optional
      /\ ~Empty(h) /\ ~Empty(g) => traits.pocma \/ handle[h].a = handle[g].a
      /\ origin' = Freed(NodeOf(h))
      /\ handle' = [handle EXCEPT ![g] = NoHandle,
                      ![h] = IF h = g THEN NoHandle ELSE [p |-> handle[g].p, a |-> a]]
      /\ UNCHANGED <<traits, nodes, al>>

\* node_handle_base::operator=: assigned from itself or from an empty one, a
\* handle is emptied.
BaseAssign(h, g) ==
  LET both == ~Empty(h) /\ ~Empty(g)
      a    == IF both /\ ~traits.pocma THEN handle[h].a ELSE handle[g].a
  IN  /\ ~traits.optional
      /\ both => traits.pocma \/ handle[h].a = handle[g].a
      /\ origin' = Freed(NodeOf(h))
      /\ handle' = [handle EXCEPT ![g] = NoHandle,
                      ![h] = IF h = g THEN NoHandle ELSE [p |-> handle[g].p, a |-> a]]
      /\ UNCHANGED <<traits, nodes, al>>

\* node_handle_map::operator=: a handle that keeps its allocator leaves the
\* other one's behind.
OptionalAssign(h, g) ==
  LET mine   == handle[h].a
      takes  == mine = NoAllocator \/ traits.pocma
      source == IF takes THEN NoHandle ELSE [p |-> NoNode, a |-> handle[g].a]
  IN  /\ traits.optional
      /\ takes \/ handle[g].a = mine
      /\ origin' = Freed(NodeOf(h))
      /\ handle' = [handle EXCEPT ![g] = source,
           ![h] = IF h = g THEN source
                  ELSE [p |-> handle[g].p, a |-> IF takes THEN handle[g].a ELSE mine]]
      /\ UNCHANGED <<traits, nodes, al>>

\* The nodes of h and g are swapped, and perhaps their allocators, which
\* otherwise have to be equal.
Swapped(h, g, allocators) ==
  /\ h # g
  /\ allocators \/ handle[h].a = handle[g].a
  /\ handle' = [handle EXCEPT
       ![h] = [p |-> handle[g].p, a |-> handle[IF allocators THEN g ELSE h].a],
       ![g] = [p |-> handle[h].p, a |-> handle[IF allocators THEN h ELSE g].a]]
  /\ UNCHANGED <<traits, nodes, al, origin>>

\* node_handle_base::swap: with an empty handle the allocator goes along.
BaseSwap(h, g) == ~traits.optional /\ Swapped(h, g, traits.pocs \/ Empty(h) \/ Empty(g))

\* node_handle_map::swap: so it does with a handle that has none.
OptionalSwap(h, g) ==
  /\ traits.optional
  /\ Swapped(h, g, traits.pocs \/ NoAllocator \in {handle[h].a, handle[g].a})

-----------------------------------------------------------------------------
(* Containers *)

Emplace(c, n) ==
  /\ origin[n] = NoAllocator /\ ~HasKey(c, n)
  /\ nodes' = [nodes EXCEPT ![c] = @ \cup {n}]
  /\ origin' = [origin EXCEPT ![n] = al[c]]
  /\ UNCHANGED <<traits, al, handle>>

Erase(c, n) ==
  /\ n \in nodes[c]
  /\ nodes' = [nodes EXCEPT ![c] = @ \ {n}]
  /\ origin' = Freed({n})
  /\ UNCHANGED <<traits, al, handle>>

\* extract(): h is the handle returned.  The slot left behind has no node any
\* more, so that erasing it destroys nothing.
Extract(c, n, h) ==
  /\ n \in nodes[c] /\ handle[h] = NoHandle
  /\ nodes' = [nodes EXCEPT ![c] = @ \ {n}]
  /\ handle' = [handle EXCEPT ![h] = [p |-> n, a |-> al[c]]]
  /\ UNCHANGED <<traits, al, origin>>

\* extract() of a key that is not there gives an optional allocator anyway.
ExtractMissing(c, h) ==
  /\ traits.optional /\ handle[h] = NoHandle
  /\ \E k \in {KeyOf[n] : n \in Nodes} : \A m \in nodes[c] : KeyOf[m] # k
  /\ handle' = [handle EXCEPT ![h].a = al[c]]
  /\ UNCHANGED <<traits, nodes, al, origin>>

\* An emptied handle: an optional allocator stays.
Reset(h) == IF traits.optional THEN [handle[h] EXCEPT !.p = NoNode] ELSE NoHandle

MayInsert(c, h) == ~Empty(h) /\ handle[h].a = al[c]

\* insert(node_type&&) that succeeds, or throws from the function that visits
\* the new element, which is in the container for good by then.
Insert(c, h) ==
  /\ MayInsert(c, h) /\ ~HasKey(c, handle[h].p)
  /\ nodes' = [nodes EXCEPT ![c] = @ \cup NodeOf(h)]
  /\ handle' = [handle EXCEPT ![h] = Reset(h)]
  /\ UNCHANGED <<traits, al, origin>>

\* An equivalent element is there: the node goes into the handle r of the
\* insert_return_type.  With a hint it stays where it is, and so it does when
\* the insertion throws before it takes the node.
InsertFails(c, h, r) ==
  /\ MayInsert(c, h) /\ HasKey(c, handle[h].p)
  /\ MoveConstruct(r, h)

\* unchecked_emplace_with_rehash puts the node into the new arrays before the
\* others: if then a hash function throws, all those in the new arrays are
\* destroyed, this one included.  A concurrent container rehashes first.
InsertThrows(c, h) ==
  /\ traits.throws /\ ~traits.optional
  /\ MayInsert(c, h) /\ ~HasKey(c, handle[h].p)
  /\ \E lost \in SUBSET nodes[c], mine \in {{}, NodeOf(h)} :
       /\ nodes' = [nodes EXCEPT ![c] = @ \ lost]
       /\ origin' = Freed(lost \cup mine)
       /\ handle' = IF mine = {} THEN handle ELSE [handle EXCEPT ![h] = NoHandle]
  /\ UNCHANGED <<traits, al>>

\* merge(): the nodes with keys that c does not have, or, if it throws, some of
\* them; a rehash that throws loses others.
Merge(c, d) ==
  /\ c # d /\ al[c] = al[d]
  /\ \E ns \in SUBSET {n \in nodes[d] : ~HasKey(c, n)}, lost \in SUBSET (nodes[c] \cup nodes[d]) :
       /\ ns = {n \in nodes[d] : ~HasKey(c, n)} \/ traits.throws
       /\ lost = {} \/ (traits.throws /\ ~traits.optional /\ lost \subseteq nodes[c] \cup ns)
       /\ nodes' = [nodes EXCEPT ![c] = (@ \cup ns) \ lost, ![d] = @ \ ns]
       /\ origin' = Freed(lost)
  /\ UNCHANGED <<traits, al, handle>>

\* swap() and operator= of the containers: the nodes and, if they propagate, the
\* allocators.  (With allocators that differ and stay, assignment makes new
\* nodes: see TableCore and ClosedTable.)
SwapContainers(c, d) ==
  /\ c # d /\ (traits.pocs \/ al[c] = al[d])
  /\ nodes' = [nodes EXCEPT ![c] = nodes[d], ![d] = nodes[c]]
  /\ al' = [al EXCEPT ![c] = al[d], ![d] = al[c]]
  /\ UNCHANGED <<traits, handle, origin>>

AssignContainer(c, d) ==
  /\ c # d /\ (traits.pocma \/ al[c] = al[d])
  /\ nodes' = [nodes EXCEPT ![c] = nodes[d], ![d] = {}]
  /\ al' = [al EXCEPT ![c] = al[d]]
  /\ origin' = Freed(nodes[c])
  /\ UNCHANGED <<traits, handle>>

-----------------------------------------------------------------------------
HandleStep(h, g) == MoveConstruct(h, g) \/ BaseAssign(h, g) \/ OptionalAssign(h, g)
                    \/ BaseSwap(h, g) \/ OptionalSwap(h, g)
Transfer(c, h) == ExtractMissing(c, h) \/ Insert(c, h) \/ InsertThrows(c, h)
ContainerStep(c, d) == Merge(c, d) \/ SwapContainers(c, d) \/ AssignContainer(c, d)

Next ==
  \/ \E h \in Handles : Destruct(h) \/ \E g \in Handles : HandleStep(h, g)
  \/ \E c \in Containers : \E n \in Nodes : Emplace(c, n) \/ Erase(c, n)
  \/ \E c \in Containers, h \in Handles : Transfer(c, h)
  \/ \E c \in Containers, h \in Handles, n \in Nodes : Extract(c, n, h)
  \/ \E c \in Containers, h, r \in Handles : InsertFails(c, h, r)
  \/ \E c, d \in Containers : ContainerStep(c, d)

Spec == Init /\ [][Next]_vars

-----------------------------------------------------------------------------
(* Properties *)

TypeOK ==
  /\ traits \in Traits
  /\ nodes \in [Containers -> SUBSET Nodes]
  /\ al \in [Containers -> Allocators]
  /\ handle \in [Handles -> [p : Nodes \cup {NoNode}, a : Allocators \cup {NoAllocator}]]
  /\ origin \in [Nodes -> Allocators \cup {NoAllocator}]

\* Who has the node n, and the allocator by which an owner will free its nodes.
Owners(n) == {c \in Containers : n \in nodes[c]} \cup {h \in Handles : handle[h].p = n}
AllocatorOf(o) == IF o \in Containers THEN al[o] ELSE handle[o].a

\* Every node in use has one owner, which will free it by the allocator it came
\* from, and nobody has a node that is free: however handles and containers are
\* moved, assigned and swapped, allocators propagating or not, and whatever
\* insertions throw, none is leaked, freed twice or given back to a stranger.
NodesOwned ==
  \A n \in Nodes :
    IF origin[n] = NoAllocator THEN Owners(n) = {}
    ELSE \E o \in Owners(n) : Owners(n) = {o} /\ AllocatorOf(o) = origin[n]
=============================================================================
