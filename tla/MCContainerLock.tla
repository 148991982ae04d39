--------------------------- MODULE MCContainerLock ---------------------------
(* Instances of ContainerLock for TLC. *)
EXTENDS ContainerLock

CONSTANTS t1, t2

\* Each thread has a mutex of its own.
Slots == [t \in Threads |-> IF t = t2 THEN 1 ELSE 0]

\* Visitation functions operate on a table at a higher, or at a lower address.
Upwards    == {<<0, 1>>}
Downwards  == {<<1, 0>>}
=============================================================================
