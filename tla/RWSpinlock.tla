----------------------------- MODULE RWSpinlock -----------------------------
(***************************************************************************)
(* foa::rw_spinlock, one atomic access per action.  The state word         *)
(*                                                                         *)
(*     bit 31: locked exclusive   bit 30: writer pending   29..0: readers  *)
(*                                                                         *)
(* is a number, ReaderMask standing for the 30-bit count's largest value.  *)
(* Between the load of the word and the compare-and-swap that bets on it   *)
(* any other thread may run, and a weak compare-and-swap may fail though   *)
(* the word is as expected.                                                *)
(*                                                                         *)
(* The memory orders are modelled too.  The holders of the lock read and   *)
(* write the data it protects; an access is ordered after another only if  *)
(* a chain of release and acquire operations on the word says so, and the  *)
(* variables from seesWrite on keep that happens-before relation.          *)
(***************************************************************************)
EXTENDS Naturals, FiniteSets

CONSTANTS Threads,     \* the lock's users; a thread holding twice is two users
          ReaderMask   \* reader_lock_count_mask: (1<<30)-1 in the code

ASSUME ThreadsAssumption == IsFiniteSet(Threads)
ASSUME ReaderMaskAssumption == ReaderMask \in Nat \ {0}

VARIABLES
  state_,      \* the state word
  pc,          \* where each thread is in the lock's operations
  st,          \* the value each thread has loaded and will compare with
  seesWrite,   \* the threads that the last write to the data happens-before
  reads,       \* the threads that read the data since that write
  seesRead,    \* per thread, the threads of reads whose read happens-before it
  relWrite,    \* an acquiring access to the word would be after the last write
  relReads     \* ... and after the reads of these threads

lockVars == <<state_, pc, st>>
hbVars   == <<seesWrite, reads, seesRead, relWrite, relReads>>
vars     == <<state_, pc, st, seesWrite, reads, seesRead, relWrite, relReads>>

-----------------------------------------------------------------------------
(* The state word *)

writer_pending_mask   == ReaderMask + 1
locked_exclusive_mask == 2 * writer_pending_mask

LockedExclusive(s) == s >= locked_exclusive_mask
WriterPending(s) ==
  \/ s >= writer_pending_mask /\ s < locked_exclusive_mask
  \/ s >= locked_exclusive_mask + writer_pending_mask
ReaderCount(s) ==
  s - (IF LockedExclusive(s) THEN locked_exclusive_mask ELSE 0)
    - (IF WriterPending(s) THEN writer_pending_mask ELSE 0)

WaitingShared    == {"lock_shared", "lock_shared_cas"}
WaitingExclusive == {"lock", "lock_cas", "pending_cas"}
Trying           == {"try_lock_shared", "try_lock_shared_cas", "try_lock", "try_lock_cas"}
Pcs == {"idle", "shared", "exclusive"} \cup WaitingShared \cup WaitingExclusive \cup Trying

Readers == {t \in Threads : pc[t] = "shared"}
Writers == {t \in Threads : pc[t] = "exclusive"}

\* The data is initialised before the threads that use it are started.
Init ==
  /\ state_ = 0
  /\ pc = [t \in Threads |-> "idle"]
  /\ st = [t \in Threads |-> 0]
  /\ seesWrite = Threads
  /\ reads = {}
  /\ seesRead = [t \in Threads |-> {}]
  /\ relWrite = TRUE
  /\ relReads = {}

-----------------------------------------------------------------------------
(* Memory orders of an access to the word, and the accesses to the data *)

\* Reading the word with memory_order_acquire.
Acquire(t) ==
  /\ seesWrite' = IF relWrite THEN seesWrite \cup {t} ELSE seesWrite
  /\ seesRead' = [seesRead EXCEPT ![t] = @ \cup relReads]
  /\ UNCHANGED <<reads, relWrite, relReads>>

\* A read-modify-write with memory_order_release continues the release sequence.
ReleaseRMW(t) ==
  /\ relWrite' = IF t \in seesWrite THEN TRUE ELSE relWrite
  /\ relReads' = relReads \cup seesRead[t]
  /\ UNCHANGED <<seesWrite, reads, seesRead>>

\* A store with memory_order_release starts a new one.
ReleaseStore(t) ==
  /\ relWrite' = (t \in seesWrite)
  /\ relReads' = seesRead[t]
  /\ UNCHANGED <<seesWrite, reads, seesRead>>

\* A read-modify-write with memory_order_relaxed leaves the sequence as it is.
Relaxed == UNCHANGED hbVars

\* What the holders do to the protected data: external to the lock.
ReadData(t) ==
  /\ pc[t] \in {"shared", "exclusive"}
  /\ reads' = reads \cup {t}
  /\ seesRead' = [seesRead EXCEPT ![t] = @ \cup {t}]
  /\ UNCHANGED <<seesWrite, relWrite, relReads>>
  /\ UNCHANGED lockVars

WriteData(t) ==
  /\ pc[t] = "exclusive"
  /\ seesWrite' = {t}
  /\ reads' = {}
  /\ seesRead' = [u \in Threads |-> {}]
  /\ relWrite' = FALSE
  /\ relReads' = {}
  /\ UNCHANGED lockVars

-----------------------------------------------------------------------------
(* Steps shared by the operations *)

\* A client calls one of the four locking functions.
Call(t, op) ==
  /\ pc[t] = "idle"
  /\ op \in {"lock_shared", "try_lock_shared", "lock", "try_lock"}
  /\ pc' = [pc EXCEPT ![t] = op]
  /\ UNCHANGED <<state_, st>>
  /\ UNCHANGED hbVars

\* state_.load(relaxed); the value decides where the thread goes.
Load(t, to) ==
  /\ st' = [st EXCEPT ![t] = state_]
  /\ pc' = [pc EXCEPT ![t] = to]
  /\ UNCHANGED state_
  /\ UNCHANGED hbVars

\* state_ still has the loaded value and becomes newst.
CasTo(t, newst, to) ==
  /\ state_ = st[t]
  /\ state_' = newst
  /\ pc' = [pc EXCEPT ![t] = to]
  /\ st' = [st EXCEPT ![t] = 0]

\* The failure order is relaxed in every call.
CasFails(t, to) ==
  /\ pc' = [pc EXCEPT ![t] = to]
  /\ st' = [st EXCEPT ![t] = 0]
  /\ UNCHANGED state_
  /\ UNCHANGED hbVars

-----------------------------------------------------------------------------
(* lock_shared, try_lock_shared, unlock_shared *)

\* Mutant: the limit is one reader too high.
LockSharedLoadOffByOne(t) ==
  /\ pc[t] = "lock_shared"
  /\ state_ <= ReaderMask
  /\ Load(t, "lock_shared_cas")

\* Mutant: the pending bit is ignored.
LockSharedLoadIgnoresPending(t) ==
  /\ pc[t] = "lock_shared"
  /\ ~LockedExclusive(state_) /\ ReaderCount(state_) < ReaderMask
  /\ Load(t, "lock_shared_cas")

\* With the limit reached or a bit above the count set, the thread spins.
LockSharedLoad(t) ==
  /\ pc[t] = "lock_shared"
  /\ state_ < ReaderMask
  /\ Load(t, "lock_shared_cas")

\* Mutant: a fetch_add in place of the compare-and-swap.
LockSharedCasUnconditional(t) ==
  /\ pc[t] = "lock_shared_cas"
  /\ state_' = state_ + 1
  /\ pc' = [pc EXCEPT ![t] = "shared"]
  /\ st' = [st EXCEPT ![t] = 0]
  /\ Acquire(t)

LockSharedCas(t) ==
  /\ pc[t] = "lock_shared_cas"
  /\ \/ CasTo(t, st[t] + 1, "shared") /\ Acquire(t)
     \/ state_ # st[t] /\ CasFails(t, "lock_shared")

TryLockSharedLoad(t) ==
  /\ pc[t] = "try_lock_shared"
  /\ IF state_ >= ReaderMask THEN /\ pc' = [pc EXCEPT ![t] = "idle"]
                                  /\ UNCHANGED <<state_, st>>
                                  /\ UNCHANGED hbVars
                             ELSE Load(t, "try_lock_shared_cas")

TryLockSharedCas(t) ==
  /\ pc[t] = "try_lock_shared_cas"
  /\ \/ CasTo(t, st[t] + 1, "shared") /\ Acquire(t)
     \/ state_ # st[t] /\ CasFails(t, "idle")

\* Mutant: the count is decremented with memory_order_relaxed.
UnlockSharedRelaxed(t) ==
  /\ pc[t] = "shared"
  /\ state_' = state_ - 1
  /\ pc' = [pc EXCEPT ![t] = "idle"]
  /\ UNCHANGED st
  /\ Relaxed

UnlockShared(t) ==
  /\ pc[t] = "shared"
  /\ state_' = state_ - 1
  /\ pc' = [pc EXCEPT ![t] = "idle"]
  /\ UNCHANGED st
  /\ ReleaseRMW(t)

-----------------------------------------------------------------------------
(* lock, try_lock, unlock *)

\* Mutant: a writer goes for the lock only if the word is zero.
LockLoadZero(t) ==
  /\ pc[t] = "lock"
  /\ ~LockedExclusive(state_)
  /\ \/ state_ = 0 /\ Load(t, "lock_cas")
     \/ ReaderCount(state_) # 0 /\ ~WriterPending(state_) /\ Load(t, "pending_cas")

\* Locked exclusive, or readers inside with the pending bit set: spin.
LockLoad(t) ==
  /\ pc[t] = "lock"
  /\ ~LockedExclusive(state_)
  /\ \/ ReaderCount(state_) = 0 /\ Load(t, "lock_cas")
     \/ ReaderCount(state_) # 0 /\ ~WriterPending(state_) /\ Load(t, "pending_cas")

LockCas(t) ==
  /\ pc[t] = "lock_cas"
  /\ \/ CasTo(t, locked_exclusive_mask, "exclusive") /\ Acquire(t)
     \/ state_ # st[t] /\ CasFails(t, "lock")

\* Mutant: the writer gives up after announcing itself, as try_lock would.
PendingCasGivesUp(t) ==
  /\ pc[t] = "pending_cas"
  /\ \/ CasTo(t, st[t] + writer_pending_mask, "idle") /\ Relaxed
     \/ state_ # st[t] /\ CasFails(t, "lock")

PendingCas(t) ==
  /\ pc[t] = "pending_cas"
  /\ \/ CasTo(t, st[t] + writer_pending_mask, "lock") /\ Relaxed
     \/ state_ # st[t] /\ CasFails(t, "lock")

\* Mutant: the readers inside are not looked at.
TryLockLoadIgnoresReaders(t) ==
  /\ pc[t] = "try_lock"
  /\ IF LockedExclusive(state_)
     THEN /\ pc' = [pc EXCEPT ![t] = "idle"]
          /\ UNCHANGED <<state_, st>>
          /\ UNCHANGED hbVars
     ELSE Load(t, "try_lock_cas")

TryLockLoad(t) ==
  /\ pc[t] = "try_lock"
  /\ IF LockedExclusive(state_) \/ ReaderCount(state_) # 0
     THEN /\ pc' = [pc EXCEPT ![t] = "idle"]
          /\ UNCHANGED <<state_, st>>
          /\ UNCHANGED hbVars
     ELSE Load(t, "try_lock_cas")

TryLockCas(t) ==
  /\ pc[t] = "try_lock_cas"
  /\ \/ CasTo(t, locked_exclusive_mask, "exclusive") /\ Acquire(t)
     \/ state_ # st[t] /\ CasFails(t, "idle")

Unlock(t) ==
  /\ pc[t] = "exclusive"
  /\ state_' = 0
  /\ pc' = [pc EXCEPT ![t] = "idle"]
  /\ UNCHANGED st
  /\ ReleaseStore(t)

\* compare_exchange_weak may fail with the word as expected.
SpuriousFailure(t) ==
  /\ state_ = st[t]
  /\ \/ pc[t] = "lock_shared_cas" /\ CasFails(t, "lock_shared")
     \/ pc[t] \in {"lock_cas", "pending_cas"} /\ CasFails(t, "lock")

-----------------------------------------------------------------------------
LockStep(t) ==
  \/ LockSharedLoad(t) \/ LockSharedCas(t)
  \/ TryLockSharedLoad(t) \/ TryLockSharedCas(t)
  \/ LockLoad(t) \/ LockCas(t) \/ PendingCas(t)
  \/ TryLockLoad(t) \/ TryLockCas(t)
UnlockStep(t) == UnlockShared(t) \/ Unlock(t)

ThreadStep(t) ==
  \/ \E op \in {"lock_shared", "try_lock_shared", "lock", "try_lock"} : Call(t, op)
  \/ LockStep(t) \/ UnlockStep(t) \/ SpuriousFailure(t)
DataStep(t) == ReadData(t) \/ WriteData(t)

Next == \E t \in Threads : ThreadStep(t) \/ DataStep(t)

Spec == Init /\ [][Next]_vars

\* A weak compare-and-swap that finds what it expects.
WeakCasSucceeds(t) ==
  /\ pc[t] \in {"lock_shared_cas", "lock_cas", "pending_cas"} /\ state_ = st[t]
  /\ LockSharedCas(t) \/ LockCas(t) \/ PendingCas(t)

\* Spinning threads are scheduled and holders leave.  A thread's weak
\* compare-and-swaps do not all fail without reason from some time on; how often
\* they fail because another thread has changed the word is not restricted.  The
\* accesses to the data play no part in the lock's progress and are left out of
\* the fair specification.
Fairness ==
  \A t \in Threads :
    /\ WF_vars(LockStep(t)) /\ WF_vars(UnlockStep(t))
    /\ []<><<SpuriousFailure(t)>>_vars => []<><<WeakCasSucceeds(t)>>_vars
FairSpec == Init /\ [][\E t \in Threads : ThreadStep(t)]_vars /\ Fairness

-----------------------------------------------------------------------------
(* Properties *)

TypeOK ==
  /\ state_ \in 0 .. 2 * locked_exclusive_mask - 1
  /\ pc \in [Threads -> Pcs]
  /\ st \in [Threads -> 0 .. 2 * locked_exclusive_mask - 1]
  /\ seesWrite \subseteq Threads /\ reads \subseteq Threads
  /\ seesRead \in [Threads -> SUBSET Threads]
  /\ relWrite \in BOOLEAN /\ relReads \subseteq Threads

\* A writer is alone: no other writer and no reader holds the lock with it.
MutualExclusion ==
  \A t \in Writers : Writers = {t} /\ Readers = {}

\* The word is what its comment says it is: the exclusive bit alone while a
\* writer holds the lock, and otherwise exactly as many readers as hold it.  A
\* reader that came in at the limit would carry into the pending bit.
WordCountsHolders ==
  IF Writers # {} THEN state_ = locked_exclusive_mask
  ELSE /\ ~LockedExclusive(state_)
       /\ ReaderCount(state_) = Cardinality(Readers)

\* A set pending bit stops every reader, so somebody must be in lock() to act
\* on it: a bit whose writer has gone would close the lock to readers for ever.
PendingHasWriter ==
  WriterPending(state_) => \E t \in Threads : pc[t] \in WaitingExclusive

\* The lock's memory orders make the data race-free: what was last written
\* happens-before each holder, and all reads of it happen-before a writer.
NoDataRace ==
  /\ Readers \cup Writers \subseteq seesWrite
  /\ \A t \in Writers : reads \subseteq seesRead[t]

\* An announced writer is served, the announcing one or another: readers cannot
\* keep coming in for ever once the bit is set.
PendingServed == WriterPending(state_) ~> LockedExclusive(state_)

\* Whoever waits in lock() or lock_shared(), the lock does not stay free for
\* ever: among spinning threads one gets in.
SomebodyGetsIn ==
  (\E t \in Threads : pc[t] \in WaitingShared \cup WaitingExclusive)
    ~> (Readers \cup Writers # {})

\* What the proofs need besides: each value a thread is about to compare with
\* passed the test that led it there.
TestedValue(p, s) ==
  /\ p \in {"lock_shared_cas", "try_lock_shared_cas"} => s < ReaderMask
  /\ p \in {"lock_cas", "try_lock_cas"} => ~LockedExclusive(s) /\ ReaderCount(s) = 0
  /\ p = "pending_cas" => ~LockedExclusive(s) /\ ~WriterPending(s) /\ ReaderCount(s) # 0
LoadedValues == \A t \in Threads : TestedValue(pc[t], st[t])

\* What the release sequence of the word carries while nobody writes: the last
\* write, and every read whose reader has left.
Published ==
  /\ Writers = {} => relWrite
  /\ reads \subseteq Readers \cup Writers \cup relReads
  /\ \A u \in reads : u \in seesRead[u]

IInv == TypeOK /\ MutualExclusion /\ WordCountsHolders /\ PendingHasWriter
        /\ NoDataRace /\ LoadedValues /\ Published

\* rw_spinlock implements the reader-writer lock of RWLock.
Lock == INSTANCE RWLock WITH
  MaxReaders <- ReaderMask,
  hold <- [t \in Threads |-> IF pc[t] \in {"shared", "exclusive"} THEN pc[t] ELSE "none"],
  pending <- WriterPending(state_)
ImplementsRWLock == Lock!Spec
=============================================================================
