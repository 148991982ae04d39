---------------------------- MODULE ContainerCalls ----------------------------
(***************************************************************************)
(* How a program uses the containers on top of ClosedTable: it makes one   *)
(* call after the other, each with one of its outcomes.                    *)
(***************************************************************************)
EXTENDS ClosedTable, FiniteSetsExt

NoCall == [op |-> "none", x |-> NoTable, y |-> NoTable, es |-> <<>>, ok |-> TRUE]

Init ==
  /\ tab = [x \in Tables |-> NoTable]
  /\ handle = NoHandle
  /\ live = [al \in Allocators |-> [nodes |-> 0, arrays |-> 0]]
  /\ call = NoCall
  /\ use \in Uses

Built == {x \in Tables : tab[x] # NoTable}
Pair(x, y) == x \in Built /\ y \in Built \ {x}

\* Bound: the nodes there are, and those an operation is to make.
Fits(n) == MapThenSumSet(LAMBDA al : live[al].nodes, Allocators) + n <= use.nodes

Calls(op, x, y, es, outcomes) ==
  \E r \in outcomes :
    /\ tab' = r.s.tab /\ handle' = r.s.handle /\ live' = r.s.live
    /\ call' = [op |-> op, x |-> x, y |-> y, es |-> es, ok |-> r.ok]
    /\ UNCHANGED use
On(op, x, es, outcomes) == op \in use.calls /\ Calls(op, x, NoTable, es, outcomes)
Onto(op, x, y, outcomes) == op \in use.calls /\ Calls(op, x, y, <<>>, outcomes)

PlacesIn(x) == Range(Places(tab[x]))
Hints(x) == PlacesIn(x) \cup {EndOf(tab[x])}

\* What ranges and lists hold.
Ranges == {<<e>> : e \in Elements} \cup (Elements \X Elements)

\* The table of a range constructor has buckets for its length, if that is
\* known, and is destroyed when the insertion, a set of outcomes, throws.
initial_size(es, forward, n) == MaxOf(IF forward THEN Len(es) ELSE 1, n)
Filled(x, es, forward, n, h, al, Inserting(_)) ==
  Then(construct_functions(State), LAMBDA s :
    Then(Constructed(s, x, initial_size(es, forward, n), <<1, 1>>, h, al), LAMBDA u :
      Catch(Inserting(u), LAMBDA v : Destroyed(v, x))))
ConstructsRange(x, Inserting(_, _, _)) ==
  /\ x \in use.tables \ Built /\ Fits(2)
  /\ \E es \in Ranges, forward \in BOOLEAN, n \in use.counts \cup {0},
        h \in use.hashers, al \in use.allocators :
       On("construct_range", x, es,
          Filled(x, es, forward, n, h, al, LAMBDA u : Inserting(u, es, forward)))

\* The node in the handle goes into a table of its allocator.
InsertsNode(x, outcomes) ==
  /\ x \in Built /\ handle # NoHandle /\ tab[x].al = handle.al
  /\ On("insert_node", x, <<>>, outcomes)
=============================================================================
