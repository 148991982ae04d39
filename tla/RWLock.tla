------------------------------- MODULE RWLock -------------------------------
(***************************************************************************)
(* What foa::rw_spinlock promises to its users: a reader-writer lock with  *)
(* a bounded number of readers in which an announced writer keeps new      *)
(* readers out.  It has no loads, no compare-and-swap and no state word:   *)
(* RWSpinlock.tla shows that those implement it.                           *)
(***************************************************************************)
EXTENDS Naturals, FiniteSets

CONSTANTS Threads,     \* the lock's users; a thread holding twice is two users
          MaxReaders   \* how many shared holders fit in the state word

VARIABLES hold,        \* what each thread holds
          pending      \* a writer is waiting for the readers to leave

vars == <<hold, pending>>

SharedHolders    == {t \in Threads : hold[t] = "shared"}
ExclusiveHolders == {t \in Threads : hold[t] = "exclusive"}

Init == /\ hold = [t \in Threads |-> "none"]
        /\ pending = FALSE

AcquireShared(t) ==
  /\ hold[t] = "none"
  /\ ExclusiveHolders = {}
  /\ ~pending
  /\ Cardinality(SharedHolders) < MaxReaders
  /\ hold' = [hold EXCEPT ![t] = "shared"]
  /\ UNCHANGED pending

\* The announcement is consumed by whichever writer gets in first.
AcquireExclusive(t) ==
  /\ hold[t] = "none"
  /\ ExclusiveHolders = {} /\ SharedHolders = {}
  /\ hold' = [hold EXCEPT ![t] = "exclusive"]
  /\ pending' = FALSE

\* Only a writer that found readers inside announces itself.
AnnounceWriter ==
  /\ ~pending
  /\ SharedHolders # {}
  /\ pending' = TRUE
  /\ UNCHANGED hold

Release(t) ==
  /\ hold[t] # "none"
  /\ hold' = [hold EXCEPT ![t] = "none"]
  /\ UNCHANGED pending

Next == AnnounceWriter
        \/ \E t \in Threads : AcquireShared(t) \/ AcquireExclusive(t) \/ Release(t)

Spec == Init /\ [][Next]_vars
=============================================================================
