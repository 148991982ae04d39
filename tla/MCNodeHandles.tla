---------------------------- MODULE MCNodeHandles ----------------------------
(* Two nodes of one key and one of another, two containers, three handles, two *)
(* allocators.                                                                 *)
EXTENDS NodeHandles, TLC

CONSTANTS c1, c2, h1, h2, h3, n1, n2, n3, a1, a2

SomeKeys == n1 :> 1 @@ n2 :> 1 @@ n3 :> 2
Symmetry == Permutations({c1, c2}) \cup Permutations({h1, h2, h3})
            \cup Permutations({n1, n2}) \cup Permutations({a1, a2})
=============================================================================
