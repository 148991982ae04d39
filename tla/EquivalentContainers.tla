------------------------- MODULE EquivalentContainers -------------------------
(***************************************************************************)
(* unordered_multimap and unordered_multiset: what they do with elements,  *)
(* of which those with equivalent keys are next to each other.             *)
(***************************************************************************)
EXTENDS ContainerCalls

ConstructRangeEquiv(x) ==
  /\ ~use.unique
  /\ ConstructsRange(x, LAMBDA s, es, forward : insert_range_equiv(s, x, es, forward))

EmplaceEquiv(x, e) ==
  /\ ~use.unique /\ x \in Built /\ Fits(1)
  /\ On("emplace", x, <<e>>, emplace_equiv(State, x, e))
EmplaceHintEquiv(x, e) ==
  /\ ~use.unique /\ x \in Built /\ Fits(1)
  /\ \E hint \in Hints(x) :
       On("emplace_hint", x, <<e>>, emplace_hint_equiv(State, x, hint, e))
InsertRangeEquiv(x) ==
  /\ ~use.unique /\ x \in Built /\ Fits(2)
  /\ \E es \in Ranges, forward \in BOOLEAN :
       On("insert_range", x, es, insert_range_equiv(State, x, es, forward))
AssignListEquiv(x) ==
  /\ ~use.unique /\ x \in Built /\ Fits(2)
  /\ \E es \in Ranges :
       On("assign_list", x, es, insert_range_equiv(clear_impl(State, x), x, es, TRUE))

EraseKeyEquiv(x, e) ==
  /\ ~use.unique /\ x \in Built
  /\ On("erase_key", x, <<e>>, erase_key_equiv(State, x, e))
ExtractEquiv(x) ==
  /\ ~use.unique /\ x \in Built /\ handle = NoHandle
  /\ \/ \E e \in Elements : On("extract", x, <<e>>, extract_by_key(State, x, e))
     \/ \E pos \in PlacesIn(x) :
          On("extract", x, <<NodeAt(tab[x].arr, pos)>>, extract_by_iterator(State, x, pos))
InsertNodeEquiv(x) ==
  /\ ~use.unique
  /\ \/ InsertsNode(x, move_insert_node_type_equiv(State, x))
     \/ x \in Built /\ \E hint \in Hints(x) :
          InsertsNode(x, move_insert_node_type_with_hint_equiv(State, x, hint))
MergeEquiv(x, y) ==
  /\ ~use.unique /\ Pair(x, y) /\ tab[x].al = tab[y].al
  /\ Onto("merge", x, y, merge_equiv(State, x, y))

EquivStep ==
  \E x \in Tables :
    \/ ConstructRangeEquiv(x) \/ InsertRangeEquiv(x) \/ AssignListEquiv(x)
    \/ ExtractEquiv(x) \/ InsertNodeEquiv(x)
    \/ \E y \in Tables : MergeEquiv(x, y)
    \/ \E e \in Elements : EmplaceEquiv(x, e) \/ EmplaceHintEquiv(x, e) \/ EraseKeyEquiv(x, e)

-----------------------------------------------------------------------------
(* Lookup *)

count_equiv(t, k) == group_count(t, k)
\* From the first element of the key to the first, in the iteration, of another.
equal_range_equiv(t, k) ==
  LET places == Places(t)
      first == find(t, k)
      next == next_group([j \in 1..Len(places) |-> NodeAt(t.arr, places[j])], Rank(t, first))
  IN  <<first, IF AtEnd(t.arr, first) THEN first
               ELSE IF next > Len(places) THEN EndOf(t) ELSE places[next]>>
=============================================================================
