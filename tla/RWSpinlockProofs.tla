-------------------------- MODULE RWSpinlockProofs --------------------------
(***************************************************************************)
(* Proofs about rw_spinlock, for any finite set of threads and any reader  *)
(* limit.  IInv is inductive; everything else follows from it.             *)
(***************************************************************************)
EXTENDS RWSpinlock, FiniteSetTheorems, TLAPS

USE ThreadsAssumption, ReaderMaskAssumption

-----------------------------------------------------------------------------
(* Holders and the state word *)

\* The number of holders is a natural number, zero just when there is none.
LEMMA ReadersFinite ==
  /\ IsFiniteSet(Readers)
  /\ Cardinality(Readers) \in Nat
  /\ Cardinality(Readers) = 0 <=> Readers = {}
<1>1. IsFiniteSet(Readers)
  BY FS_Subset DEF Readers
<1> QED
  BY <1>1, FS_CardinalityType, FS_EmptySet

\* A thread that becomes a reader adds one to the number of readers.
LEMMA ReaderEnters ==
  ASSUME NEW t \in Threads, TypeOK, t \notin Readers, pc' = [pc EXCEPT ![t] = "shared"]
  PROVE  /\ Readers' = Readers \cup {t}
         /\ Cardinality(Readers') = Cardinality(Readers) + 1
<1>1. Readers' = Readers \cup {t}
  BY DEF TypeOK, Readers
<1> QED
  BY <1>1, ReadersFinite, FS_AddElement

\* A reader that leaves takes one away.
LEMMA ReaderLeaves ==
  ASSUME NEW t \in Threads, TypeOK, t \in Readers, pc' = [pc EXCEPT ![t] = "idle"]
  PROVE  /\ Readers' = Readers \ {t}
         /\ Cardinality(Readers') = Cardinality(Readers) - 1
<1>1. Readers' = Readers \ {t}
  BY DEF TypeOK, Readers
<1> QED
  BY <1>1, ReadersFinite, FS_RemoveElement

\* A thread that moves between places where it holds nothing changes no holder.
LEMMA NoHolderChange ==
  ASSUME NEW t \in Threads, NEW to \in Pcs \ {"shared", "exclusive"}, TypeOK,
         pc[t] \notin {"shared", "exclusive"}, pc' = [pc EXCEPT ![t] = to]
  PROVE  Readers' = Readers /\ Writers' = Writers
BY DEF TypeOK, Readers, Writers

\* Arithmetic of the word: what one more or one less reader, and the pending
\* bit, do to what the word says.
LEMMA WordArithmetic ==
  ASSUME NEW s \in Nat, ~LockedExclusive(s)
  PROVE  /\ ReaderCount(s) \in 0 .. ReaderMask
         /\ s < ReaderMask => /\ ~LockedExclusive(s + 1)
                              /\ ~WriterPending(s + 1) /\ ~WriterPending(s)
                              /\ ReaderCount(s + 1) = ReaderCount(s) + 1
                              /\ ReaderCount(s) = s
         /\ ReaderCount(s) > 0 => /\ s - 1 \in Nat
                                  /\ ~LockedExclusive(s - 1)
                                  /\ WriterPending(s - 1) <=> WriterPending(s)
                                  /\ ReaderCount(s - 1) = ReaderCount(s) - 1
         /\ ~WriterPending(s) =>
              /\ ~LockedExclusive(s + writer_pending_mask)
              /\ WriterPending(s + writer_pending_mask)
              /\ ReaderCount(s + writer_pending_mask) = ReaderCount(s)
BY DEF LockedExclusive, WriterPending, ReaderCount, locked_exclusive_mask,
       writer_pending_mask
-----------------------------------------------------------------------------
(* The kinds of steps a thread can take *)

\* A load, a failed attempt, a call or a return without the lock: the thread
\* goes to another place where it holds nothing and the word stays.
Move(t) == \E to \in Pcs \ {"shared", "exclusive"}, v \in 0 .. 2 * locked_exclusive_mask - 1 :
  /\ pc[t] \notin {"shared", "exclusive"}
  /\ pc[t] \in WaitingExclusive => to \in WaitingExclusive
  /\ pc' = [pc EXCEPT ![t] = to]
  /\ st' = [st EXCEPT ![t] = v]
  /\ TestedValue(to, v)
  /\ state_' = state_
  /\ UNCHANGED hbVars

EnterShared(t) ==
  /\ pc[t] \in {"lock_shared_cas", "try_lock_shared_cas"}
  /\ state_ < ReaderMask
  /\ state_' = state_ + 1
  /\ pc' = [pc EXCEPT ![t] = "shared"]
  /\ st' = [st EXCEPT ![t] = 0]
  /\ Acquire(t)

EnterExclusive(t) ==
  /\ pc[t] \in {"lock_cas", "try_lock_cas"}
  /\ ~LockedExclusive(state_) /\ ReaderCount(state_) = 0
  /\ state_' = locked_exclusive_mask
  /\ pc' = [pc EXCEPT ![t] = "exclusive"]
  /\ st' = [st EXCEPT ![t] = 0]
  /\ Acquire(t)

SetPending(t) ==
  /\ pc[t] = "pending_cas"
  /\ ~LockedExclusive(state_) /\ ~WriterPending(state_) /\ ReaderCount(state_) # 0
  /\ state_' = state_ + writer_pending_mask
  /\ pc' = [pc EXCEPT ![t] = "lock"]
  /\ st' = [st EXCEPT ![t] = 0]
  /\ UNCHANGED hbVars

Kind(t) == Move(t) \/ EnterShared(t) \/ EnterExclusive(t) \/ SetPending(t)
           \/ UnlockShared(t) \/ Unlock(t) \/ ReadData(t) \/ WriteData(t)

\* Every action of the lock is of one of these kinds.
LEMMA StepKinds ==
  ASSUME NEW t \in Threads, IInv, ThreadStep(t) \/ DataStep(t)
  PROVE  Kind(t)
<1> USE DEF IInv, TypeOK, LoadedValues, TestedValue, Pcs, WaitingShared,
            WaitingExclusive, Trying
<1>0. 0 \in 0 .. 2 * locked_exclusive_mask - 1
  BY DEF locked_exclusive_mask, writer_pending_mask
<1>1. ASSUME NEW op \in {"lock_shared", "try_lock_shared", "lock", "try_lock"}, Call(t, op)
      PROVE  Move(t)
  <2>1. st' = [st EXCEPT ![t] = st[t]]
    BY <1>1 DEF Call
  <2> QED
    BY <1>1, <2>1 DEF Call, Move
<1>2. CASE LockSharedLoad(t) \/ LockLoad(t)
  BY <1>2 DEF LockSharedLoad, LockLoad, Load, Move, Kind
<1>3. CASE TryLockSharedLoad(t)
  <2>1. CASE state_ >= ReaderMask
    <3>1. st' = [st EXCEPT ![t] = st[t]]
      BY <1>3, <2>1 DEF TryLockSharedLoad
    <3> QED
      BY <1>3, <2>1, <3>1 DEF TryLockSharedLoad, Move, Kind
  <2>2. CASE ~(state_ >= ReaderMask)
    BY <1>3, <2>2 DEF TryLockSharedLoad, Load, Move, Kind, locked_exclusive_mask, writer_pending_mask
  <2> QED
    BY <2>1, <2>2
<1>4. CASE TryLockLoad(t)
  <2>1. CASE LockedExclusive(state_) \/ ReaderCount(state_) # 0
    <3>1. st' = [st EXCEPT ![t] = st[t]]
      BY <1>4, <2>1 DEF TryLockLoad
    <3> QED
      BY <1>4, <2>1, <3>1 DEF TryLockLoad, Move, Kind
  <2>2. CASE ~(LockedExclusive(state_) \/ ReaderCount(state_) # 0)
    BY <1>4, <2>2 DEF TryLockLoad, Load, Move, Kind
  <2> QED
    BY <2>1, <2>2
<1>5. CASE LockSharedCas(t) \/ TryLockSharedCas(t)
  BY <1>0, <1>5 DEF LockSharedCas, TryLockSharedCas, CasTo, CasFails, EnterShared, Move, Kind
<1>6. CASE LockCas(t) \/ TryLockCas(t)
  BY <1>0, <1>6 DEF LockCas, TryLockCas, CasTo, CasFails, EnterExclusive, Move, Kind
<1>7. CASE PendingCas(t)
  BY <1>0, <1>7 DEF PendingCas, CasTo, CasFails, SetPending, Move, Kind, Relaxed
<1>8. CASE SpuriousFailure(t)
  BY <1>0, <1>8 DEF SpuriousFailure, CasFails, Move, Kind
<1>9. CASE UnlockStep(t) \/ DataStep(t)
  BY <1>9 DEF UnlockStep, DataStep, Kind
<1> QED
  BY <1>1, <1>2, <1>3, <1>4, <1>5, <1>6, <1>7, <1>8, <1>9 DEF ThreadStep, LockStep, Kind

-----------------------------------------------------------------------------
(* Each kind of step preserves IInv *)

LEMMA MovePreserves ==
  ASSUME NEW t \in Threads, IInv, Move(t)
  PROVE  IInv'
<1>1. PICK to \in Pcs \ {"shared", "exclusive"}, v \in 0 .. 2 * locked_exclusive_mask - 1 :
        Move(t)!(to, v)
  BY DEF Move
<1>2. Readers' = Readers /\ Writers' = Writers
  BY <1>1, NoHolderChange DEF IInv
<1>3. TypeOK'
  BY <1>1 DEF IInv, TypeOK, hbVars
<1>4. MutualExclusion' /\ WordCountsHolders' /\ NoDataRace' /\ Published'
  BY <1>1, <1>2 DEF IInv, MutualExclusion, WordCountsHolders, NoDataRace, Published, hbVars
<1>5. PendingHasWriter'
  BY <1>1 DEF IInv, TypeOK, PendingHasWriter
<1>6. LoadedValues'
  BY <1>1 DEF IInv, TypeOK, LoadedValues
<1> QED
  BY <1>3, <1>4, <1>5, <1>6 DEF IInv

\* What taking the lock does to the happens-before relation when nobody holds
\* it exclusively.
LEMMA AcquireOrders ==
  ASSUME NEW t \in Threads, IInv, Acquire(t), Writers = {}
  PROVE  /\ seesWrite' = seesWrite \cup {t}
         /\ reads' = reads /\ relWrite' = relWrite /\ relReads' = relReads
         /\ seesRead' \in [Threads -> SUBSET Threads]
         /\ \A u \in Threads : seesRead[u] \subseteq seesRead'[u]
         /\ relReads \subseteq seesRead'[t]
BY DEF IInv, TypeOK, Published, Acquire

LEMMA EnterSharedPreserves ==
  ASSUME NEW t \in Threads, IInv, EnterShared(t)
  PROVE  IInv'
<1>1. t \notin Readers /\ t \notin Writers
  BY DEF EnterShared, Readers, Writers
<1>2. Writers = {}
  BY DEF IInv, TypeOK, WordCountsHolders, EnterShared, locked_exclusive_mask, writer_pending_mask
<1>3. Readers' = Readers \cup {t} /\ Cardinality(Readers') = Cardinality(Readers) + 1
  BY <1>1, ReaderEnters DEF IInv, EnterShared
<1>4. Writers' = Writers
  BY <1>1 DEF IInv, TypeOK, EnterShared, Writers
<1>5. state_ \in Nat /\ ~LockedExclusive(state_) /\ state_ < ReaderMask
  BY <1>2 DEF IInv, TypeOK, WordCountsHolders, EnterShared
<1>6. TypeOK'
  <2>1. state_' \in 0 .. 2 * locked_exclusive_mask - 1 /\ 0 \in 0 .. 2 * locked_exclusive_mask - 1
    BY <1>5 DEF EnterShared, locked_exclusive_mask, writer_pending_mask
  <2> QED
    BY <1>2, <2>1, AcquireOrders DEF IInv, TypeOK, EnterShared, Pcs
<1>7. MutualExclusion' /\ WordCountsHolders'
  BY <1>2, <1>3, <1>4, <1>5, WordArithmetic
     DEF IInv, MutualExclusion, WordCountsHolders, EnterShared
<1>8. PendingHasWriter'
  BY <1>5, WordArithmetic DEF PendingHasWriter, EnterShared
<1>9. NoDataRace' /\ Published'
  <2>1. /\ seesWrite' = seesWrite \cup {t}
        /\ reads' = reads /\ relWrite' = relWrite /\ relReads' = relReads
        /\ \A u \in Threads : seesRead[u] \subseteq seesRead'[u]
    BY <1>2, AcquireOrders DEF EnterShared
  <2> QED
    BY <1>2, <1>3, <1>4, <2>1 DEF IInv, TypeOK, NoDataRace, Published
<1>10. LoadedValues'
  BY DEF IInv, TypeOK, LoadedValues, TestedValue, EnterShared
<1> QED
  BY <1>6, <1>7, <1>8, <1>9, <1>10 DEF IInv

LEMMA EnterExclusivePreserves ==
  ASSUME NEW t \in Threads, IInv, EnterExclusive(t)
  PROVE  IInv'
<1>1. t \notin Readers /\ t \notin Writers
  BY DEF EnterExclusive, Readers, Writers
<1>2. Writers = {} /\ Readers = {}
  <2>1. Writers = {}
    BY DEF IInv, TypeOK, WordCountsHolders, EnterExclusive, LockedExclusive,
           locked_exclusive_mask, writer_pending_mask
  <2> QED
    BY <2>1, ReadersFinite DEF IInv, WordCountsHolders, EnterExclusive
<1>3. Readers' = {} /\ Writers' = {t}
  BY <1>2 DEF IInv, TypeOK, EnterExclusive, Readers, Writers
<1>4. TypeOK'
  <2>1. locked_exclusive_mask \in 0 .. 2 * locked_exclusive_mask - 1
        /\ 0 \in 0 .. 2 * locked_exclusive_mask - 1
    BY DEF locked_exclusive_mask, writer_pending_mask
  <2> QED
    BY <1>2, <2>1, AcquireOrders DEF IInv, TypeOK, EnterExclusive, Pcs
<1>5. MutualExclusion' /\ WordCountsHolders'
  BY <1>3 DEF MutualExclusion, WordCountsHolders, EnterExclusive
<1>6. PendingHasWriter'
  <2>1. ~WriterPending(locked_exclusive_mask)
    BY DEF WriterPending, locked_exclusive_mask, writer_pending_mask
  <2> QED
    BY <2>1 DEF PendingHasWriter, EnterExclusive, WriterPending, locked_exclusive_mask,
                writer_pending_mask
<1>7. NoDataRace' /\ Published'
  <2>1. /\ seesWrite' = seesWrite \cup {t}
        /\ reads' = reads /\ relWrite' = relWrite /\ relReads' = relReads
        /\ \A u \in Threads : seesRead[u] \subseteq seesRead'[u]
        /\ relReads \subseteq seesRead'[t]
    BY <1>2, AcquireOrders DEF EnterExclusive
  <2>2. reads \subseteq relReads
    BY <1>2 DEF IInv, Published
  <2> QED
    BY <1>2, <1>3, <2>1, <2>2 DEF IInv, TypeOK, NoDataRace, Published
<1>8. LoadedValues'
  BY DEF IInv, TypeOK, LoadedValues, TestedValue, EnterExclusive
<1> QED
  BY <1>4, <1>5, <1>6, <1>7, <1>8 DEF IInv

LEMMA SetPendingPreserves ==
  ASSUME NEW t \in Threads, IInv, SetPending(t)
  PROVE  IInv'
<1>1. Readers' = Readers /\ Writers' = Writers
  BY NoHolderChange DEF IInv, SetPending, Pcs, WaitingExclusive
<1>2. Writers = {}
  BY DEF IInv, TypeOK, WordCountsHolders, SetPending, LockedExclusive,
         locked_exclusive_mask, writer_pending_mask
<1>3. state_ \in Nat /\ ~LockedExclusive(state_) /\ ~WriterPending(state_)
  BY DEF IInv, TypeOK, SetPending
<1>4. TypeOK'
  <2>1. state_' \in 0 .. 2 * locked_exclusive_mask - 1 /\ 0 \in 0 .. 2 * locked_exclusive_mask - 1
    BY <1>3 DEF SetPending, LockedExclusive, locked_exclusive_mask, writer_pending_mask
  <2> QED
    BY <2>1 DEF IInv, TypeOK, SetPending, Pcs, WaitingExclusive, hbVars
<1>5. MutualExclusion' /\ WordCountsHolders'
  BY <1>1, <1>2, <1>3, WordArithmetic
     DEF IInv, MutualExclusion, WordCountsHolders, SetPending
<1>6. PendingHasWriter'
  BY DEF IInv, TypeOK, PendingHasWriter, SetPending, WaitingExclusive
<1>7. NoDataRace' /\ Published'
  BY <1>1 DEF IInv, NoDataRace, Published, SetPending, hbVars
<1>8. LoadedValues'
  BY DEF IInv, TypeOK, LoadedValues, TestedValue, SetPending
<1> QED
  BY <1>4, <1>5, <1>6, <1>7, <1>8 DEF IInv

LEMMA UnlockSharedPreserves ==
  ASSUME NEW t \in Threads, IInv, UnlockShared(t)
  PROVE  IInv'
<1>1. t \in Readers
  BY DEF UnlockShared, Readers
<1>2. Writers = {}
  BY <1>1 DEF IInv, MutualExclusion
<1>3. Readers' = Readers \ {t} /\ Cardinality(Readers') = Cardinality(Readers) - 1
  BY <1>1, ReaderLeaves DEF IInv, UnlockShared
<1>4. Writers' = {}
  BY <1>2 DEF IInv, TypeOK, UnlockShared, Writers
<1>5. state_ \in Nat /\ ~LockedExclusive(state_) /\ ReaderCount(state_) = Cardinality(Readers)
  BY <1>2 DEF IInv, TypeOK, WordCountsHolders
<1>6. ReaderCount(state_) > 0
  BY <1>1, <1>5, ReadersFinite
<1>7. TypeOK'
  <2>1. state_' \in 0 .. 2 * locked_exclusive_mask - 1
    BY <1>5, <1>6, WordArithmetic
       DEF IInv, TypeOK, UnlockShared, locked_exclusive_mask, writer_pending_mask
  <2>2. relWrite' \in BOOLEAN
    <3>1. relWrite \in BOOLEAN /\ relWrite' = IF t \in seesWrite THEN TRUE ELSE relWrite
      BY DEF IInv, TypeOK, UnlockShared, ReleaseRMW
    <3> QED
      BY <3>1
  <2>3. pc' \in [Threads -> Pcs] /\ st' \in [Threads -> 0 .. 2 * locked_exclusive_mask - 1]
    BY DEF IInv, TypeOK, UnlockShared, Pcs
  <2>4. /\ seesWrite' \subseteq Threads /\ reads' \subseteq Threads
        /\ seesRead' \in [Threads -> SUBSET Threads] /\ relReads' \subseteq Threads
    BY DEF IInv, TypeOK, UnlockShared, ReleaseRMW
  <2> QED
    BY <2>1, <2>2, <2>3, <2>4 DEF TypeOK
<1>8. MutualExclusion' /\ WordCountsHolders'
  BY <1>3, <1>4, <1>5, <1>6, WordArithmetic
     DEF IInv, MutualExclusion, WordCountsHolders, UnlockShared
<1>9. PendingHasWriter'
  BY <1>5, <1>6, WordArithmetic
     DEF IInv, TypeOK, PendingHasWriter, UnlockShared, WaitingExclusive
<1>10. NoDataRace' /\ Published'
  BY <1>1, <1>2, <1>3, <1>4 DEF IInv, TypeOK, NoDataRace, Published, UnlockShared, ReleaseRMW
<1>11. LoadedValues'
  BY DEF IInv, TypeOK, LoadedValues, TestedValue, UnlockShared
<1> QED
  BY <1>7, <1>8, <1>9, <1>10, <1>11 DEF IInv

LEMMA UnlockPreserves ==
  ASSUME NEW t \in Threads, IInv, Unlock(t)
  PROVE  IInv'
<1>1. t \in Writers /\ Writers = {t} /\ Readers = {}
  BY DEF IInv, MutualExclusion, Unlock, Writers
<1>2. Readers' = {} /\ Writers' = {}
  BY <1>1 DEF IInv, TypeOK, Unlock, Readers, Writers
<1>3. TypeOK'
  BY DEF IInv, TypeOK, Unlock, ReleaseStore, Pcs, locked_exclusive_mask, writer_pending_mask
<1>4. MutualExclusion' /\ WordCountsHolders' /\ PendingHasWriter'
  <2>1. ~LockedExclusive(0) /\ ~WriterPending(0) /\ ReaderCount(0) = 0
    BY DEF LockedExclusive, WriterPending, ReaderCount, locked_exclusive_mask, writer_pending_mask
  <2> QED
    BY <1>2, <2>1, FS_EmptySet
       DEF MutualExclusion, WordCountsHolders, PendingHasWriter, Unlock,
           LockedExclusive, WriterPending, ReaderCount, locked_exclusive_mask,
           writer_pending_mask
<1>5. NoDataRace' /\ Published'
  BY <1>1, <1>2 DEF IInv, TypeOK, NoDataRace, Published, Unlock, ReleaseStore
<1>6. LoadedValues'
  BY DEF IInv, TypeOK, LoadedValues, TestedValue, Unlock
<1> QED
  BY <1>3, <1>4, <1>5, <1>6 DEF IInv

LEMMA DataStepPreserves ==
  ASSUME NEW t \in Threads, IInv, DataStep(t)
  PROVE  IInv'
<1>1. Readers' = Readers /\ Writers' = Writers /\ lockVars' = lockVars
  BY DEF DataStep, ReadData, WriteData, lockVars, Readers, Writers
<1>2. MutualExclusion' /\ WordCountsHolders' /\ PendingHasWriter' /\ LoadedValues'
  BY <1>1 DEF IInv, MutualExclusion, WordCountsHolders, PendingHasWriter, LoadedValues, lockVars
<1>3. CASE ReadData(t)
  <2>1. t \in Readers \cup Writers
    BY <1>3 DEF ReadData, Readers, Writers
  <2>2. TypeOK'
    BY <1>1, <1>3 DEF IInv, TypeOK, ReadData, lockVars
  <2>3. NoDataRace' /\ Published'
    BY <1>1, <1>3, <2>1 DEF IInv, TypeOK, MutualExclusion, NoDataRace, Published, ReadData
  <2> QED
    BY <1>2, <2>2, <2>3 DEF IInv
<1>4. CASE WriteData(t)
  <2>1. Writers = {t} /\ Readers = {}
    BY <1>4 DEF IInv, MutualExclusion, WriteData, Writers
  <2>2. TypeOK'
    BY <1>1, <1>4 DEF IInv, TypeOK, WriteData, lockVars
  <2>3. NoDataRace' /\ Published'
    BY <1>1, <1>4, <2>1 DEF NoDataRace, Published, WriteData
  <2> QED
    BY <1>2, <2>2, <2>3 DEF IInv
<1> QED
  BY <1>3, <1>4 DEF DataStep

-----------------------------------------------------------------------------
(* The theorems *)

LEMMA InitEstablishes == Init => IInv
<1> SUFFICES ASSUME Init PROVE IInv
  OBVIOUS
<1>1. Readers = {} /\ Writers = {}
  BY DEF Init, Readers, Writers
<1>2. TypeOK
  BY DEF Init, TypeOK, Pcs, locked_exclusive_mask, writer_pending_mask
<1>3. ~LockedExclusive(0) /\ ~WriterPending(0) /\ ReaderCount(0) = 0
  BY DEF LockedExclusive, WriterPending, ReaderCount, locked_exclusive_mask, writer_pending_mask
<1>4. MutualExclusion /\ WordCountsHolders /\ PendingHasWriter
  BY <1>1, <1>3, FS_EmptySet DEF Init, MutualExclusion, WordCountsHolders, PendingHasWriter
<1>5. NoDataRace /\ Published /\ LoadedValues
  BY <1>1 DEF Init, NoDataRace, Published, LoadedValues, TestedValue
<1> QED
  BY <1>2, <1>4, <1>5 DEF IInv

LEMMA KindPreserves ==
  ASSUME NEW t \in Threads, IInv, Kind(t)
  PROVE  IInv'
BY MovePreserves, EnterSharedPreserves, EnterExclusivePreserves, SetPendingPreserves,
   UnlockSharedPreserves, UnlockPreserves, DataStepPreserves DEF Kind, DataStep

LEMMA StepPreserves == IInv /\ [Next]_vars => IInv'
<1> SUFFICES ASSUME IInv, [Next]_vars PROVE IInv'
  OBVIOUS
<1>1. CASE Next
  <2>1. PICK t \in Threads : ThreadStep(t) \/ DataStep(t)
    BY <1>1 DEF Next
  <2> QED
    BY <2>1, StepKinds, KindPreserves
<1>2. CASE UNCHANGED vars
  BY <1>2 DEF vars, IInv, TypeOK, MutualExclusion, WordCountsHolders, PendingHasWriter,
              NoDataRace, LoadedValues, Published, Readers, Writers
<1> QED
  BY <1>1, <1>2

\* In every behaviour of the lock the inductive invariant holds.
THEOREM Invariance == Spec => []IInv
BY InitEstablishes, StepPreserves, PTL DEF Spec

\* The state word, the loaded values and the happens-before sets keep their
\* types: the word never leaves its 32 bits, whatever the number of threads.
THEOREM TypeCorrect == Spec => []TypeOK
<1>1. IInv => TypeOK
  BY DEF IInv
<1> QED
  BY <1>1, Invariance, PTL

\* A writer holds the lock alone.
THEOREM WritersAlone == Spec => []MutualExclusion
<1>1. IInv => MutualExclusion
  BY DEF IInv
<1> QED
  BY <1>1, Invariance, PTL

\* The word counts exactly the readers inside, or is the exclusive bit alone:
\* more clients than the count can hold never carry into the pending bit.
THEOREM WordIsExact == Spec => []WordCountsHolders
<1>1. IInv => WordCountsHolders
  BY DEF IInv
<1> QED
  BY <1>1, Invariance, PTL

\* A set pending bit always has a writer in lock() that will consume it.
THEOREM PendingNeverOrphaned == Spec => []PendingHasWriter
<1>1. IInv => PendingHasWriter
  BY DEF IInv
<1> QED
  BY <1>1, Invariance, PTL

\* With the memory orders the code gives its atomic accesses, the data the lock
\* protects is free of races for any number of threads.
THEOREM RaceFree == Spec => []NoDataRace
<1>1. IInv => NoDataRace
  BY DEF IInv
<1> QED
  BY <1>1, Invariance, PTL

-----------------------------------------------------------------------------
(* The lock implements RWLock *)

\* Holders and readers are the same through the refinement mapping.
LEMMA MappedHolders ==
  ASSUME TypeOK
  PROVE  Lock!SharedHolders = Readers /\ Lock!ExclusiveHolders = Writers
BY DEF TypeOK, Lock!SharedHolders, Lock!ExclusiveHolders, Readers, Writers

LEMMA SameCardinality == \A S : Lock!Cardinality(S) = Cardinality(S)
BY DEF Lock!Cardinality, Cardinality

LEMMA InitRefines == Init => Lock!Init
BY DEF Init, Lock!Init, WriterPending, locked_exclusive_mask, writer_pending_mask

\* Every step of the lock is a step of the abstract lock or changes nothing
\* its users can see.
LEMMA StepRefines ==
  ASSUME IInv, IInv', [Next]_vars
  PROVE  [Lock!Next]_(Lock!vars)
<1> DEFINE hold == [t \in Threads |->
                      IF pc[t] \in {"shared", "exclusive"} THEN pc[t] ELSE "none"]
<1>1. CASE UNCHANGED vars
  BY <1>1 DEF vars, Lock!vars
<1>2. CASE Next
  <2>1. PICK t \in Threads : Kind(t)
    BY <1>2, StepKinds DEF Next
  <2>2. CASE Move(t)
    BY <2>2 DEF IInv, TypeOK, Move, Lock!vars
  <2>3. CASE EnterShared(t)
    <3>1. Writers = {}
      BY <2>3 DEF IInv, TypeOK, WordCountsHolders, EnterShared, locked_exclusive_mask,
                  writer_pending_mask
    <3>2. state_ \in Nat /\ ~LockedExclusive(state_)
          /\ ReaderCount(state_) = Cardinality(Readers)
      BY <3>1 DEF IInv, TypeOK, WordCountsHolders
    <3>3. ~WriterPending(state_) /\ ~WriterPending(state_') /\ Cardinality(Readers) < ReaderMask
      BY <2>3, <3>2, WordArithmetic DEF EnterShared
    <3>4. hold[t] = "none" /\ hold' = [hold EXCEPT ![t] = "shared"]
      BY <2>3 DEF IInv, TypeOK, EnterShared
    <3>5. Lock!AcquireShared(t)
      BY <3>1, <3>3, <3>4, MappedHolders, SameCardinality DEF IInv, Lock!AcquireShared, WriterPending
    <3> QED
      BY <3>5 DEF Lock!Next
  <2>4. CASE EnterExclusive(t)
    <3>1. Writers = {} /\ Readers = {}
      <4>1. Writers = {}
        BY <2>4 DEF IInv, TypeOK, WordCountsHolders, EnterExclusive, LockedExclusive,
                    locked_exclusive_mask, writer_pending_mask
      <4> QED
        BY <2>4, <4>1, ReadersFinite DEF IInv, WordCountsHolders, EnterExclusive
    <3>2. ~WriterPending(state_')
      BY <2>4 DEF EnterExclusive, WriterPending, locked_exclusive_mask, writer_pending_mask
    <3>3. hold[t] = "none" /\ hold' = [hold EXCEPT ![t] = "exclusive"]
      BY <2>4 DEF IInv, TypeOK, EnterExclusive
    <3>4. Lock!AcquireExclusive(t)
      BY <3>1, <3>2, <3>3, MappedHolders DEF IInv, Lock!AcquireExclusive
    <3> QED
      BY <3>4 DEF Lock!Next
  <2>5. CASE SetPending(t)
    <3>1. Writers = {} /\ state_ \in Nat
      BY <2>5 DEF IInv, TypeOK, WordCountsHolders, SetPending, LockedExclusive,
                  locked_exclusive_mask, writer_pending_mask
    <3>2. Readers # {}
      BY <2>5, <3>1, ReadersFinite DEF IInv, WordCountsHolders, SetPending
    <3>3. ~WriterPending(state_) /\ WriterPending(state_')
      BY <2>5, <3>1, WordArithmetic DEF SetPending
    <3>4. hold' = hold
      BY <2>5 DEF IInv, TypeOK, SetPending
    <3>5. Lock!AnnounceWriter
      BY <3>2, <3>3, <3>4, MappedHolders DEF IInv, Lock!AnnounceWriter
    <3> QED
      BY <3>5 DEF Lock!Next
  <2>6. CASE UnlockShared(t)
    <3>1. t \in Readers /\ Writers = {}
      BY <2>6 DEF IInv, MutualExclusion, UnlockShared, Readers
    <3>2. state_ \in Nat /\ ~LockedExclusive(state_) /\ ReaderCount(state_) > 0
      BY <3>1, ReadersFinite DEF IInv, TypeOK, WordCountsHolders
    <3>3. WriterPending(state_') <=> WriterPending(state_)
      BY <2>6, <3>2, WordArithmetic DEF UnlockShared
    <3>4. hold[t] # "none" /\ hold' = [hold EXCEPT ![t] = "none"]
      BY <2>6 DEF IInv, TypeOK, UnlockShared
    <3>5. Lock!Release(t)
      BY <3>3, <3>4 DEF Lock!Release, WriterPending
    <3> QED
      BY <3>5 DEF Lock!Next
  <2>7. CASE Unlock(t)
    <3>1. state_ = locked_exclusive_mask
      BY <2>7 DEF IInv, WordCountsHolders, Unlock, Writers
    <3>2. ~WriterPending(state_) /\ ~WriterPending(state_')
      BY <2>7, <3>1 DEF Unlock, WriterPending, locked_exclusive_mask, writer_pending_mask
    <3>3. hold[t] # "none" /\ hold' = [hold EXCEPT ![t] = "none"]
      BY <2>7 DEF IInv, TypeOK, Unlock
    <3>4. Lock!Release(t)
      BY <3>2, <3>3 DEF Lock!Release, WriterPending
    <3> QED
      BY <3>4 DEF Lock!Next
  <2>8. CASE ReadData(t) \/ WriteData(t)
    BY <2>8 DEF ReadData, WriteData, lockVars, Lock!vars
  <2> QED
    BY <2>1, <2>2, <2>3, <2>4, <2>5, <2>6, <2>7, <2>8 DEF Kind
<1> QED
  BY <1>1, <1>2

\* The spinlock implements the reader-writer lock its users rely on: whatever
\* they do with it, they see a behaviour of RWLock.
THEOREM Refinement == Spec => ImplementsRWLock
<1>1. Init => Lock!Init
  BY InitRefines
<1>2. IInv /\ IInv' /\ [Next]_vars => [Lock!Next]_(Lock!vars)
  BY StepRefines
<1> QED
  BY <1>1, <1>2, Invariance, PTL DEF Spec, ImplementsRWLock, Lock!Spec
=============================================================================
