--------------------------- MODULE UniqueContainers ---------------------------
(***************************************************************************)
(* unordered_map and unordered_set: what they do with elements, of which   *)
(* no two have equivalent keys.                                            *)
(***************************************************************************)
EXTENDS ContainerCalls

ConstructRangeUnique(x) ==
  use.unique /\ ConstructsRange(x, LAMBDA s, es, forward : insert_range_unique(s, x, es))

EmplaceUnique(x, e) ==
  /\ use.unique /\ x \in Built /\ Fits(1)
  /\ On("emplace", x, <<e>>, emplace_extracted(State, x, e))
EmplaceHintUnique(x, e) ==
  /\ use.unique /\ x \in Built /\ Fits(1)
  /\ \E hint \in Hints(x) :
       On("emplace_hint", x, <<e>>, emplace_hint_extracted(State, x, hint, e))
InsertRangeUnique(x) ==
  /\ use.unique /\ x \in Built /\ Fits(2)
  /\ \E es \in Ranges : On("insert_range", x, es, insert_range_unique(State, x, es))
AssignListUnique(x) ==
  /\ use.unique /\ x \in Built /\ Fits(2)
  /\ \E es \in Ranges :
       On("assign_list", x, es, insert_range_unique(clear_impl(State, x), x, es))

\* Of maps.
TryEmplace(x, e) ==
  /\ use.unique /\ x \in Built /\ Fits(1)
  /\ On("emplace", x, <<e>>, try_emplace_unique(State, x, e))
TryEmplaceHint(x, e) ==
  /\ use.unique /\ x \in Built /\ Fits(1)
  /\ \E hint \in Hints(x) :
       On("emplace_hint", x, <<e>>, try_emplace_hint_unique(State, x, hint, e))
\* The hint of some of them is not used.
InsertOrAssign(x, e) ==
  /\ use.unique /\ x \in Built /\ Fits(1)
  /\ On("insert_or_assign", x, <<e>>, insert_or_assign_unique(State, x, e))

EraseKeyUnique(x, e) ==
  /\ use.unique /\ x \in Built
  /\ On("erase_key", x, <<e>>, erase_key_unique(State, x, e))
ExtractUnique(x) ==
  /\ use.unique /\ x \in Built /\ handle = NoHandle
  /\ \/ \E e \in Elements : On("extract", x, <<e>>, extract_by_key(State, x, e))
     \/ \E pos \in PlacesIn(x) :
          On("extract", x, <<NodeAt(tab[x].arr, pos)>>, extract_by_iterator(State, x, pos))
InsertNodeUnique(x) ==
  /\ use.unique
  /\ \/ InsertsNode(x, move_insert_node_type_unique(State, x))
     \/ x \in Built /\ \E hint \in Hints(x) :
          InsertsNode(x, move_insert_node_type_with_hint_unique(State, x, hint))
MergeUnique(x, y) ==
  /\ use.unique /\ Pair(x, y) /\ tab[x].al = tab[y].al
  /\ Onto("merge", x, y, merge_unique(State, x, y))

UniqueStep ==
  \E x \in Tables :
    \/ ConstructRangeUnique(x) \/ InsertRangeUnique(x) \/ AssignListUnique(x)
    \/ ExtractUnique(x) \/ InsertNodeUnique(x)
    \/ \E y \in Tables : MergeUnique(x, y)
    \/ \E e \in Elements :
         \/ EmplaceUnique(x, e) \/ EmplaceHintUnique(x, e) \/ EraseKeyUnique(x, e)
         \/ TryEmplace(x, e) \/ TryEmplaceHint(x, e) \/ InsertOrAssign(x, e)

-----------------------------------------------------------------------------
(* Lookup *)

contains(t, k) == ~AtEnd(t.arr, find(t, k))
count_unique(t, k) == IF FindIn(t, k) # 0 THEN 1 ELSE 0
\* From the element to the next one, or from end to end.
equal_range_unique(t, k) ==
  LET first == find(t, k)
  IN  <<first, IF AtEnd(t.arr, first) THEN first ELSE Advanced(t.arr, first)>>
\* The element, or none, which is thrown.
at_key(t, k) ==
  IF t.size > 0 /\ FindIn(t, k) # 0 THEN NodeAt(t.arr, find(t, k)) ELSE NoElement
=============================================================================
