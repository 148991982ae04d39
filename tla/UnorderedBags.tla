---------------------------- MODULE UnorderedBags ----------------------------
(***************************************************************************)
(* What unordered_(multi)map and unordered_(multi)set promise: each        *)
(* container has a bag of elements, one for each key if keys are unique;   *)
(* a call that returns changes the bags as its name says, and a call that  *)
(* throws leaves them alone, or, where the comments of the code promise    *)
(* only basic safety, makes up no element.                                 *)
(***************************************************************************)
EXTENDS Naturals, FiniteSets, Sequences

CONSTANTS Containers, Elements, KeyOf, Absent, NoElement

VARIABLES
  bag,     \* the elements of each container
  held,    \* the element in the node handle
  unique,  \* no two elements of a container have the same key
  hashing, \* hash functions may throw
  call     \* the last call, its containers, elements and whether it returned

bagvars == <<bag, held, unique, hashing, call>>

Empty == [e \in Elements |-> 0]
OneOf(e) == [Empty EXCEPT ![e] = 1]
Sum(b, c) == [e \in Elements |-> b[e] + c[e]]
b \sqsubseteq c == \A e \in Elements : b[e] <= c[e]
HasKey(b, e) == \E f \in Elements : KeyOf[f] = KeyOf[e] /\ b[f] > 0

With(b, e) == IF unique /\ HasKey(b, e) THEN b ELSE Sum(b, OneOf(e))
AllWith(b, es) ==
  LET f[i \in 0..Len(es)] == IF i = 0 THEN b ELSE With(f[i-1], es[i]) IN f[Len(es)]
Without(b, F) == [e \in Elements |-> IF e \in F THEN 0 ELSE b[e]]
Like(e) == {f \in Elements : KeyOf[f] = KeyOf[e]}

Init ==
  /\ bag = [x \in Containers |-> Absent] /\ held = NoElement
  /\ unique \in BOOLEAN /\ hashing \in BOOLEAN
  /\ call = [op |-> "none", x |-> Absent, y |-> Absent, es |-> <<>>, ok |-> TRUE]

Is(ops, x, ok) == call'.op \in ops /\ call'.x = x /\ call'.ok = ok
Only(x, b) == bag' = [bag EXCEPT ![x] = b]
SameHeld == held' = held

Makes(x) == Is({"construct"}, x, TRUE) /\ Only(x, Empty) /\ SameHeld
MakesOf(x) ==
  Is({"construct_range"}, x, TRUE) /\ Only(x, AllWith(Empty, call'.es)) /\ SameHeld
Copies(x, y) ==
  /\ Is({"copy_construct", "copy_assign"}, x, TRUE) /\ call'.y = y
  /\ Only(x, bag[y]) /\ SameHeld
\* The source is empty, or has the elements that were moved from.
Moves(x, y) ==
  /\ Is({"move_construct", "move_assign"}, x, TRUE) /\ call'.y = y /\ SameHeld
  /\ \E b \in {Empty, bag[y]} : bag' = [bag EXCEPT ![x] = bag[y], ![y] = b]
Swaps(x, y) ==
  /\ Is({"swap"}, x, TRUE) /\ call'.y = y /\ SameHeld
  /\ bag' = [bag EXCEPT ![x] = bag[y], ![y] = bag[x]]
Destroys(x) == Is({"destroy"}, x, TRUE) /\ Only(x, Absent) /\ SameHeld

Inserts(x) ==
  /\ Is({"emplace", "emplace_hint"}, x, TRUE)
  /\ Only(x, With(bag[x], call'.es[1])) /\ SameHeld
InsertsRange(x) ==
  Is({"insert_range"}, x, TRUE) /\ Only(x, AllWith(bag[x], call'.es)) /\ SameHeld
AssignsList(x) ==
  Is({"assign_list"}, x, TRUE) /\ Only(x, AllWith(Empty, call'.es)) /\ SameHeld
Assigns(x) ==
  LET e == call'.es[1]
  IN  /\ Is({"insert_or_assign"}, x, TRUE) /\ SameHeld
      /\ Only(x, Sum(IF HasKey(bag[x], e) THEN Without(bag[x], Like(e)) ELSE bag[x], OneOf(e)))
Erases(x) ==
  /\ Is({"erase_key"}, x, TRUE) /\ Only(x, Without(bag[x], Like(call'.es[1]))) /\ SameHeld
ErasesNodes(x) ==
  /\ Is({"erase"}, x, TRUE) /\ SameHeld
  /\ bag'[x] # Absent
  /\ LET gone[i \in 0..Len(call'.es)] ==
           IF i = 0 THEN bag'[x] ELSE Sum(gone[i-1], OneOf(call'.es[i]))
     IN  bag[x] = gone[Len(call'.es)] /\ Only(x, bag'[x])
ErasesIf(x) ==
  /\ Is({"erase_if"}, x, TRUE) /\ Only(x, Without(bag[x], {call'.es[1]})) /\ SameHeld
Clears(x) == Is({"clear"}, x, TRUE) /\ Only(x, Empty) /\ SameHeld

\* Takes an element of the key, or nothing if there is none.
Extracts(x) ==
  /\ Is({"extract"}, x, TRUE)
  /\ IF HasKey(bag[x], call'.es[1])
     THEN /\ held' \in Like(call'.es[1])
          /\ bag[x] = Sum(bag'[x], OneOf(held')) /\ Only(x, bag'[x])
     ELSE UNCHANGED bag /\ SameHeld
InsertsHeld(x) ==
  /\ Is({"insert_node"}, x, TRUE)
  /\ IF unique /\ HasKey(bag[x], held) THEN UNCHANGED bag /\ SameHeld
     ELSE Only(x, Sum(bag[x], OneOf(held))) /\ held' = NoElement
DropsHeld == call'.op = "drop_node" /\ held' = NoElement /\ UNCHANGED bag

\* The elements that the destination has no key for, or all of them.
Merges(x, y) ==
  /\ Is({"merge"}, x, TRUE) /\ call'.y = y /\ SameHeld
  /\ bag' = [bag EXCEPT ![x] = bag'[x], ![y] = bag'[y]]
  /\ Sum(bag'[x], bag'[y]) = Sum(bag[x], bag[y])
  /\ IF unique THEN /\ bag[x] \sqsubseteq bag'[x]
                    /\ \A e \in Elements :
                         bag[y][e] > bag'[y][e] => ~HasKey(bag[x], e)
                    /\ \A e \in Elements : bag'[y][e] > 0 => HasKey(bag'[x], e)
     ELSE bag'[y] = Empty

Keeps(x) ==
  /\ Is({"rehash", "reserve", "max_load_factor"}, x, TRUE) /\ UNCHANGED bag /\ SameHeld

\* Strong safety of everything but a rehash in which a hash function throws,
\* and of ranges, which may have been inserted in part.
Throws(x) ==
  /\ Is({"construct", "construct_range", "emplace", "emplace_hint", "insert_or_assign", "insert_range", "erase_key",
         "extract", "insert_node", "rehash", "reserve"}, x, FALSE)
  /\ SameHeld
  /\ IF bag[x] = Absent THEN UNCHANGED bag
     ELSE /\ Only(x, bag'[x]) /\ bag'[x] \sqsubseteq AllWith(bag[x], call'.es)
          /\ ~hashing /\ call'.op # "insert_range" => bag'[x] = bag[x]
          /\ ~hashing => bag[x] \sqsubseteq bag'[x]
\* The old elements are gone, and the list may be there in part.
ThrowsAssigning(x) ==
  /\ Is({"assign_list"}, x, FALSE) /\ SameHeld
  /\ Only(x, bag'[x]) /\ bag'[x] \sqsubseteq AllWith(Empty, call'.es)
ThrowsCopying(x, y) ==
  /\ Is({"copy_construct", "copy_assign", "move_construct", "move_assign", "swap"}, x, FALSE)
  /\ call'.y = y /\ SameHeld /\ Only(x, bag'[x])
  /\ IF bag[x] = Absent \/ call'.op = "swap" THEN UNCHANGED bag
     ELSE bag'[x] \sqsubseteq bag[x] \/ bag'[x] \sqsubseteq bag[y]
ThrowsMerging(x, y) ==
  /\ Is({"merge"}, x, FALSE) /\ call'.y = y /\ SameHeld
  /\ bag' = [bag EXCEPT ![x] = bag'[x], ![y] = bag'[y]]
  /\ Sum(bag'[x], bag'[y]) \sqsubseteq Sum(bag[x], bag[y])
  /\ unique /\ ~hashing => UNCHANGED bag

Next ==
  /\ UNCHANGED <<unique, hashing>>
  /\ \/ DropsHeld
     \/ \E x \in Containers :
          \/ Makes(x) \/ MakesOf(x) \/ Destroys(x) \/ Inserts(x) \/ InsertsRange(x)
          \/ AssignsList(x) \/ Assigns(x) \/ Erases(x) \/ ErasesNodes(x)
          \/ ErasesIf(x) \/ Clears(x) \/ Extracts(x) \/ InsertsHeld(x) \/ Keeps(x) \/ Throws(x)
          \/ ThrowsAssigning(x)
          \/ \E y \in Containers \ {x} :
               \/ Copies(x, y) \/ Moves(x, y) \/ Swaps(x, y) \/ Merges(x, y)
               \/ ThrowsCopying(x, y) \/ ThrowsMerging(x, y)

Spec == Init /\ [][Next]_bagvars
=============================================================================
