--------------------------- MODULE EquivalentGroups ---------------------------
(***************************************************************************)
(* group_equals_equiv: do two groups of elements with equivalent keys have *)
(* the same elements, in whatever order?  A group is the sequence of its   *)
(* elements.                                                               *)
(***************************************************************************)
EXTENDS Naturals, FiniteSets, Sequences

find_equiv(g, first, last, v) == \E i \in first..last-1 : g[i] = v
count_equal_equiv(g, first, v) == Cardinality({i \in first..Len(g) : g[i] = v})

\* The common prefix is passed over, then each element not met yet is counted
\* in what is left of both groups.
group_equals_equiv(g1, g2) ==
  LET differ == {i \in 1..Len(g1) : i > Len(g2) \/ g1[i] # g2[i]}
      n == CHOOSE i \in differ : \A j \in differ : i <= j
  IN  IF differ = {} THEN Len(g1) = Len(g2)
      ELSE /\ n <= Len(g2)
           /\ Len(g1) = Len(g2)
           /\ \A i \in n..Len(g1) :
                ~find_equiv(g1, n, i, g1[i]) =>
                  LET matches == count_equal_equiv(g2, n, g1[i])
                  IN  matches # 0 /\ matches = 1 + count_equal_equiv(g1, i + 1, g1[i])

\* The reference: the groups as bags.
SameBag(g1, g2) ==
  \A v \in {g1[i] : i \in 1..Len(g1)} \cup {g2[i] : i \in 1..Len(g2)} :
    count_equal_equiv(g1, 1, v) = count_equal_equiv(g2, 1, v)
=============================================================================
