# Formal models of Boost.Unordered

Boost.Unordered is a header-only C++ library of hash containers: the
closed-addressing `unordered_{map,set}` and their multi variants, the
open-addressing `unordered_{flat,node}_{map,set}`, and the thread-safe
`concurrent_{flat,node}_{map,set}`.  This directory holds TLA+ models of
them, the TLC configurations that check these on small instances, and proofs
checked by TLAPS.  Paths below are relative to `include/boost/unordered/`.

    tlasany M.tla                          parse
    tlc -config X.cfg M                    model-check
    tlapm NodeHandlesProofs.tla            check the proofs of a module

`PROJECT.json` holds the list of runs, the mutants (a plausible bug per
checked property, which must make TLC report that property), the source lines
each definition stands for, the hazards, and the theorems.

## 1. Inventory

| Component | State | Operations | What is hard | What makes it correct |
|---|---|---|---|---|
| **rw_spinlock** `detail/foa/rw_spinlock.hpp` | one 32-bit atomic word: exclusive bit, writer-pending bit, 30-bit reader count | `lock_shared`, `lock`, the two `try_`, the two unlocks | load-then-compare-and-swap with everything in between; weak CAS; a pending bit without an owner; relaxed loads | exclusion; the word counts the holders; no orphaned pending bit; no data race; an announced writer is served |
| **container lock, reentrancy check** `detail/foa/concurrent_table.hpp` 75–196, 1094–1166; `reentrancy_check.hpp` | 128 spinlocks per container; a mutex number per thread; a thread-local list of entry traces | shared access, exclusive access to one table or two, entry and exit of traced scopes | mutexes are locked one by one; visitation functions run with locks held and may operate on other containers | the array acts as one reader-writer lock; no deadlock; traces are exactly the accesses in progress |
| **concurrent_table** (same file) | groups (metadata, overflow byte, elements), a lock and an insertion counter per group, atomic size and maximum load | visit, emplace/insert, erase, clear, rehash; whole-table and bulk visitation, erase_if, merge, swap, assignment, extraction, reserve | lookup reads metadata without a lock; insertion is optimistic; exceptions with a slot occupied and a size reserved; growth that drops and retakes the container lock; sweeps that others overtake | linearizable set; no duplicates; every element reachable by its probe sequence; size accounts for elements and reservations; the load never passes the maximum; operations end |
| **table_core** `detail/foa/core.hpp` | `table_arrays`, hash, predicate, allocator, size control | insertion, lookup, erasure, rehash, reserve, copy, move, assignment, swap, clear, comparison | exceptions between steps; allocator propagation; maximum load lowered by erasures (anti-drift) | strong or basic guarantee as documented; findability; size; load; memory |
| **group15** (core.hpp 219–797) | 15 metadata bytes and an overflow byte, in three layouts | match, match_available, set, reset, mark_overflow, sentinel | without SIMD a byte is written by four accesses while others match | all layouts are the same 15-slot group, to an unlocked match too |
| **size policy, prober** (core.hpp 800–888) | — | `size_index`, `size`, `position`; `next` | powers of two, width of the shift | each group visited exactly once per cycle |
| **foa::table, iterators** `detail/foa/table.hpp` | a table_core and its iterators | iteration, erase, extract, erase_if, merge, conversion from a concurrent table | iterators advanced past erased elements; sentinel | iteration visits each element once |
| **node handles** `detail/foa/node_*`, `detail/{map,set}.hpp` | an extracted node and its allocator | construction, move, swap, reset, extraction, insertion | two classes with rules of their own for the allocator of an empty handle | every node has one owner, which has its allocator |
| **statistics** `detail/foa/cumulative_stats.hpp` | running sums under a spinlock | add, summary, copy | concurrent adds and reads | summaries come from one state |
| **grouped bucket array** `detail/fca.hpp` | buckets, bucket groups with bitmasks, a circular list of groups | insert, extract, unlink empty buckets, iteration | groups linked exactly while non-empty | bitmask = non-empty buckets; list = non-empty groups |
| **closed-addressing tables** `detail/implementation.hpp` | node chains, size, max load, function objects and a spare | insertion, erasure, rehash, copy, assignment, merge, equality | equivalent keys stay adjacent; exceptions; max load kept apart from what it depends on | a bag per container; findability; memory; load |
| **mixing, prime reduction** `detail/mulx.hpp`, `xmx.hpp`, `prime_fmod.hpp` | — | fixed-width arithmetic | overflow | equals the mathematical remainder |
| **containers** `*.hpp` | a table | documented interfaces | merge, ranges, hints, node insertion, erase_if | those of the tables |
| **serialization** `detail/serialize_*.hpp` | archives | save, load | tracked addresses of loaded elements | elements do not move while a container is loaded |
| type machinery, debugger printers | — | — | compile-time or formatting | not modelled |

How they interact: a container forwards to its table; `concurrent_table` and
`table` derive from `table_core`; a concurrent operation enters the container
through the multimutex of spinlocks (traced by the reentrancy check), then locks
one group at a time with that group's own spinlock, and calls the user's
visitation function back with both held.  Rehash, clear, swap, merge,
assignment and comparison take all the mutexes.  Group locks and insertion
counters live in the arrays and change with them.  The two kinds of open-addressing
table are made from one another by handing the arrays over.  The closed-addressing
containers share nothing with these but the node handles' purpose: `detail::table`
over a grouped bucket array.

## 2. Modules

| Module | What it is | Code |
|---|---|---|
| `RWLock` | abstract reader-writer lock: who holds what, and whether a writer is announced | the promise of `rw_spinlock` |
| `RWSpinlock` | the spinlock, one atomic access per action, with memory orders; implements `RWLock` | `rw_spinlock.hpp` |
| `RWSpinlockProofs` | theorems about it | |
| `ContainerLock` | multimutex, scoped locks and entry traces over mutexes that behave as `RWLock`; implements one `RWLock` per table | `concurrent_table.hpp`, `reentrancy_check.hpp` |
| `ContainerLockProofs` | that it does, that entry traces are the accesses, and when it cannot deadlock | |
| `ConcurrentSet` | abstract concurrent container: linearizable operations by key, what sweeps and bulk visits promise | the promise of a concurrent container |
| `TableArrays`, `TableArraysProofs` | operators on a pair of arrays: sizes, groups, probing, lookup, insertion, removal; what they return and preserve | `core.hpp` |
| `ConcurrentTable` | groups, overflow bytes, counters, size, maximum load; lookup, optimistic insertion, erasure, sweeps, bulk visits, clear, reserve, rehash; implements `ConcurrentSet` | `concurrent_table.hpp`, `core.hpp`, `concurrent_*.hpp` |
| `ConcurrentTableInvariant` | an inductive invariant of it, each part named for what it says | |
| `ConcurrentTableProofs` | that it is inductive, and the safety properties of the table that follow | |
| `ConcurrentTableRefinement` | that the table implements `ConcurrentSet` | |
| `TableCore` | tables one call at a time: every operation with the exceptions of its allocations, constructors and hash calls, conversions, loading | `core.hpp`, `table.hpp`, `concurrent_table.hpp`, `unordered_{flat,node}_*.hpp`, `serialize_container.hpp` |
| `TableCoreInvariant`, `TableCoreProofs` | an inductive invariant of it; that it is one, and the properties of the tables that follow | |
| `GroupLayouts`, `TableIterators` | a group in both physical layouts, written access by access; iteration over arrays of such groups | `core.hpp`, `table.hpp` |
| `PrimeFmod` | the position of a hash in a bucket array | `prime_fmod.hpp` |
| `WordProofs` | theorems about these three: the layouts agree, an unlocked match is stable, iterators traverse, the position is a remainder | |
| `BucketArray` | the grouped bucket array | `fca.hpp` |
| `EquivalentGroups` | comparison of groups of equivalent elements | `implementation.hpp` |
| `ClosedTable` | `detail::table`: each operation as the set of its outcomes, exceptions included | `implementation.hpp`, `map.hpp`, `set.hpp` |
| `ContainerCalls`, `UniqueContainers`, `EquivalentContainers`, `ClosedContainers` | a program calling the four closed-addressing containers; what they share, with unique keys, with equivalent ones, together | `unordered_map.hpp`, `unordered_set.hpp` |
| `UnorderedBags` | abstract closed-addressing containers, which `ClosedContainers` implements | their promise |
| `NodeHandles`, `NodeHandlesProofs` | handles of both classes and the containers they exchange nodes with; that nodes have one owner | `node_handle.hpp`, `map.hpp`, `set.hpp`, containers |
| `MC*` | instances for TLC | |

The layers meet through their abstract specifications: the proof that
`RWSpinlock` implements `RWLock` is what lets `ContainerLock` take a mutex as
a `RWLock`, and that the multimutex implements `RWLock` is what lets
`ConcurrentTable` derive who holds which lock from where the threads are.  That the two
layouts of a group agree, for an unlocked match too, is what lets `TableArrays` and
`ConcurrentTable` have one metadata byte per slot.

### RWSpinlock

`state_` is the word, as a number; `pc[t]` says in which member function a thread
is and before which atomic access; `st[t]` is the local variable of that name.
Each load and each compare-and-swap is an action; a weak compare-and-swap may
fail with the expected value in place (`SpuriousFailure`), a step other than the
failure of one that finds another value.  `ReaderMask` is
`reader_lock_count_mask`, so that the limit of readers is within TLC's reach.

The memory orders are modelled by a happens-before relation over a datum that
the lock protects: `seesWrite`, `reads` and `seesRead` say which accesses happen
before which threads' next steps; `relWrite` and `relReads` say what a thread
would acquire from the word, which a release store resets, a release
read-modify-write extends, and a relaxed read-modify-write leaves as it is.
`NoDataRace` then says that any access a holder may make is ordered after all
conflicting ones.

### ContainerLock

A thread's `stack` holds the accesses it has begun and not ended, each with its
plan (the mutexes to lock, in order, and in which mode), how many of them have
been granted, and its entry traces.  Visitation functions may begin accesses of
their own (`Nested` says from which table to which).  A group lock is
represented by mutex number `M` of its table.  `header` is the thread-local
list head of the entry traces; reentrancy into a table already being accessed is
what the `BOOST_ASSERT` of `reentrancy_checked` excludes, so `Nested` has no pair
of a table with itself.

### ConcurrentTable

One action is one access to shared memory, or the accesses made to a group with
its lock held.  `arrays` holds groups of `N` slots (15 in the code), the last slot
of the last group being the sentinel; an empty table has the static dummy arrays.
A hash has two parts: `top`, its high bits, which choose the group, and `tag`, the reduced
hash stored in the metadata byte, whose remainder by 8 chooses the overflow bit.

- Lookup (`MatchSlot`, `CompareMisses`, `CompareFinds`, `CheckOverflow`): the
  metadata is read unlocked, one slot at a time in any order; matched slots are
  compared under the group lock if still occupied; the overflow byte is read
  after unlocking.
- Insertion (`ReadCounter`, lookup, `ReserveSize`, `CheckSize`, `ProbeGroup`,
  `BumpCounter`, `Construct`, and the rollbacks of `reserve_slot` and
  `reserve_size`).  `moved` holds the threads whose recorded insertion counter has
  changed, which is all the code ever asks of a counter.
- Erasure: `DestroyElement` and the three stores of `recover_slot`.
- Sweeps (`SweepGroup`, `SweepSlot`, `SweepErases`, `SweepStops`): `visit_while` and
  `erase_if` over the whole table, the mask of occupied slots taken when the group's
  lock is; `visit_all` is a `visit_while` whose function never ends it, and the parallel
  algorithms, which may take the groups in any order, are why the groups come in any.
- Bulk visits (`NextBatch`, `BulkMatchSlot`, `NextKey`): the first groups of a batch
  of keys are matched before any lock is taken.
- Growth: `UndoSize` releases the container lock; `SkipRehash`/`StartRehash` retake it
  exclusively; `TransferElement` moves one slot at a time; `TransferThrows` is an
  exception from the hash function or the constructor in the middle.
- `missed` and `unmet` are history variables for the abstract specification: a key may be
  reported missing if it was missing at some instant of the call, and a sweep has yet to
  meet `unmet` before it ends.

### TableCore

`tab[x]` is a table: its arrays, size and maximum load, hash function, allocator and
kind, plain or concurrent.
`act` is the operation in progress with its local variables: `new`, the arrays being
filled by a rehash; `cursor`, the slot `for_all_elements` has come to; `outer`, that of the
source of a merge.  An action runs from one call that may throw to the next and takes
that call's outcome; what then unwinds (`delete_arrays`, `recover_slot` for the
elements moved, `clear_on_exit`, `erase_on_exit`, the destructor of a table whose
constructor threw) is part of it.  `live` counts the arrays (and the group accesses of
concurrent tables) per allocator and `alive` the
elements, at the places where the code allocates, constructs and destroys, so that
`MemoryAccounted` can compare them with what the tables hold.  `was` is a history variable:
the contents when the operation was called.
`use`, chosen once at the start, is the
program around the tables: which assignments its allocators propagate in, whether
elements are moved or copied by a rehash, what may throw, and which operations it calls.

Elements that may throw on moving and cannot be copied, node elements and those that move
without throwing are moved to new arrays (`MoveOnRehash`); the others are copied.  An
exception is named by what threw it: `"alloc"`, `"element"` or `"hash"`.

### GroupLayouts and TableIterators

The same calls are made on both layouts: `bytes` and `overflow` are the regular one, `m` the two
64-bit words of the interleaved one as sets of bits.  A writer holds the group and makes one
atomic read-modify-write per action (`set_impl` takes four for a byte); `reader` is a `match`
without a lock, which reads the two words at two moments.  `TableIterators` adds the
traversal: `pc` and `p`, the pointers of an iterator, as the distances they move by, over one to three
groups of which the first is the one being written.

### The closed-addressing containers

`BucketArray` has an array as `chain`, a sequence of nodes per bucket, and `group`, the bitmask
and the neighbours of each bucket group, or nothing for one that is not linked.  One thread
calls these containers and nothing it calls back sees them half-way, so `ClosedTable`
writes an operation as an operator that maps a state (`tab`, the node handle, what is `live` per
allocator) to the set of its outcomes, each with the state it leaves and whether it returned;
`Then` goes on where no exception was thrown, `Catch` cleans up where one was.  Whether the key is
known from the arguments of `emplace` or `emplace_hint`, made of one of them or known only once the node is there
(`no_key`) depends on their types, and any of it may be the case.  The steps are those of
the code in its order: which spare functions are constructed when, where the
allocator or the factor changes, when elements have moved to the new array.  An action of `ContainerCalls` and
the modules after it is one public call, `call` records it, and `use` plays the part it has
in `TableCore`.

### NodeHandles

`traits.optional` tells the two classes of handles apart: `node_handle_base` has an allocator while it
has a node, `node_handle_{map,set}` an `optional` one that it may keep.  `origin` is the allocator each node
was allocated with, which only allocation and deallocation change.

## 3. Runs

| Run | Instance | What it shows |
|---|---|---|
| `spinlock` | 3 threads, at most 2 readers | `MutualExclusion`, `WordCountsHolders`, `PendingHasWriter`, `NoDataRace`, implements `RWLock` |
| `spinlock_live` | 4 threads, at most 2 readers | an announced writer is served; among waiting threads one gets in |
| `container_lock` | 2 threads, 2 tables of 2 mutexes, accesses two deep, nesting from the lower address to the higher | the multimutex is one reader-writer lock; traces are exactly the accesses; no deadlock, every operation ends |
| `container_lock_downwards` | the same, nesting from the higher to the lower address | operations deadlock (section 5) |
| `table_ops` | 2 threads, 2 keys of one home group and tag, groups of 1 slot; insert, assign, erase, visit and reserve, with exceptions, rehash by move | all the table's invariants, implements `ConcurrentSet` |
| `table_sweep` | one thread inserts and erases, another visits the whole table, erases over it, visits in bulk and clears | no sweep misses an element that stays or meets one twice, no bulk visit answers for a key as it never was; every operation ends, through rehashes and retries |
| `core` | one table of 4 keys with elements copied or moved by a rehash; two tables of 3 keys, 2 hash functions, 2 allocators, in four uses: allocators that propagate, that stay, merges, conversions and loading; groups of 1 slot | exact size and load, every element found, no leak, strong guarantee where elements are copied, the right contents after every call, `operator==` is equality of contents, no rehash while loading |
| `core_source` | as `core` with allocators that stay, allocations throw too | a failed move assignment spoils its source (section 5) |
| `closed` | one closed-addressing container with its node handle, 3 elements of 2 keys, three maximum load factors, everything throws; two containers with 2 allocators, and 2 hash functions; unique and equivalent keys | the bucket array stays linked, iteration is complete, equivalent keys stay together, the maximum load is current and kept, no leak, equality is of contents, positions are remainders, implements `UnorderedBags` |
| `closed_assign` | as `closed`, allocators that propagate in copy assignment | it leaves a maximum load of deleted buckets (section 5) |
| `node_handles` | 2 containers, 3 handles, 3 nodes of 2 keys, 2 allocators, both classes of handles, every propagation | each node has one owner, which has its allocator |
| `group_layouts` | groups of 2 slots in both layouts, 3 hashes, one writer and one unlocked match; arrays of up to 3 groups | the layouts agree, an unlocked match does not miss or invent elements that stay, erasure finds the overflow bit insertion set, iterators go through all elements in both layouts, also from an erased one |

Why the bounds are enough.  The spinlock's interesting cases are a reader at the
limit, a writer announcing itself, and a second writer or reader that takes the
word between the first one's load and its compare-and-swap: three threads and a
limit of two have all of them; the liveness run needs readers that replace one
another while two writers wait, hence four.  For the multimutex, two mutexes make an
array (a prefix locked, the rest not), each thread has one of them as its own, and a
nested access makes a thread hold locks while it waits for others.  For the concurrent
table, groups of one slot make overflow, wrap-around of the probe sequence and
growth happen with two elements; keys with the same home group and tag are the
ones that interfere.  Visits by key share their group; those that
are exclusive are `insert_or_assign` and `erase_if` with a predicate that is false.  `BulkVisitSize` is 2, so that a batch has up to three keys, more than there are.
The sequential table goes from no arrays to two, four and
eight groups, so a transfer has up to three elements
to fail at, and tables of all these sizes are assigned to one another.  In `core`
allocations throw in every use but that of allocators that stay, because of what
`core_source` shows, in merges and conversions tables have two keys and two hash functions or three keys and one, and in `closed` no allocator propagates in copy assignment, because of what
`closed_assign` shows.
Bucket arrays have 3, 5, 7 or 11 buckets in groups of 2, so that there are groups in the
middle, an end bucket in a group of its own and one in a shared group; half a word
is 8, so that sizes and hashes lie on both sides of it.  Two equivalent elements and one other,
which one hash function sends to the same bucket and the other does not, are
what it takes for adjacency to be lost.  A lane of three bits has two slots and the overflow bit; the reduced hash
0 is taken for 8, and the three hashes use bits of both words.  All state spaces are
finite and are searched completely; no state constraint is used.

Deadlock is checked but in the runs whose counterexample is one (`container_lock_downwards`)
and in those of the closed-addressing containers, where a program may have no call left within the bounds
(`Fits`).  Symmetry is used in safety runs only.  `closed` uses a view that leaves out
`call`, the record of the last call: no action reads it, and invariants do not.

### Fairness

- Spinning threads in `rw_spinlock` pause, yield and sleep (`yield`, lines 33–70) and
  thus do get scheduled: weak fairness of the locking and unlocking steps of each
  thread.  A weak compare-and-swap may fail for no reason (`SpuriousFailure`, which
  is possible only while the word is the one expected), endlessly often even, but
  not always: a thread with endlessly many such failures also has endlessly many
  compare-and-swaps that find what they expect and succeed.  Failures by contention,
  where another thread changed the word after the load, are not restricted at all:
  that somebody gets in (`SomebodyGetsIn`) in spite of them is what is shown.
- `ContainerLock`: weak fairness of each thread's step inside an operation.  A
  mutex grants to any waiting thread, so the operations end only because new calls
  stop (`<>[]` no `Begin`).
- `ConcurrentTable`: weak fairness of each thread inside an operation, and strong
  fairness of the steps that take the container lock exclusively.  The latter is
  what writer announcement gives: `PendingServed` says that once a writer finds
  readers inside, readers cannot keep coming in.  Calls stop eventually; without
  that nothing in the code promises an end to a single insertion, which others may
  make start over indefinitely.  The subscripts leave the history variables out: a
  step that changes nothing but these is no step of the program.

`TableCore`, the closed-addressing containers, node handles and groups have safety properties only: they
are called by one thread at a time, and the loops of an operation go through arrays or chains once.

## 4. Proofs

`RWSpinlockProofs` proves, for every finite set of threads and every positive reader
limit, `TypeOK`, `MutualExclusion`, `WordCountsHolders`, `PendingHasWriter` and
`NoDataRace` as invariants of `Spec`, and that `Spec` implements `RWLock`.
Assumptions: `ThreadsAssumption` (finitely many threads, else a count of readers makes
no sense) and `ReaderMaskAssumption` (positive).

The inductive invariant `IInv` adds two facts to those five:

- `LoadedValues`: what a thread is about to compare the word with has passed the
  test that led there.  Without it a successful compare-and-swap says nothing: it
  is the equality of the word with the tested value that makes the test hold at the
  instant of the swap.
- `Published`: while no writer is inside, the word's release sequence carries the
  last write, and every read is by a thread still inside or is carried too.
  `NoDataRace` says nothing of threads outside, so it is not inductive alone.

The steps of the spinlock are first reduced to six kinds by what they do to the
holders (`StepKinds`); each kind preserves the invariant (one lemma per kind, one step
per conjunct that it can disturb); `WordArithmetic` collects what setting, clearing
and counting do to the three fields of the word.  `Refinement` maps the same kinds to
actions of `RWLock` or to stuttering.

`NodeHandlesProofs` proves `NodesOwned` for any containers, handles, nodes and allocators and any keys,
from `NodesAssumption` (the missing node and allocator are none of the others) and
`OwnersAssumption` (containers are not handles).  `NodesOwned` speaks of the set of a node's owners;
the inductive invariant says it node by node: what a container or a handle has, its
allocator allocated (`ContainersAgree`, `HandlesAgree`), no node has a second owner (`OneOwner`), a node in use
has one (`SomeOwner`), and `TypeOK`.  One lemma per action, one step per conjunct.

`WordProofs` is about what is computed with the bits of words.  It proves `LayoutsAgree`, `UnlockedMatchIsStable`,
`ErasureSeesOverflow` and `IteratorsTraverse` for lanes of any width (`LanesAssumption`: three bits or more, two slots and the
overflow bit) and any hashes (`HashesAssumption`: naturals).

- A bit of a word is `Bit(l, p)`, lane and slot, each bit being one such (`BitExists`, `BitUnique`): this is all the proofs
  know of the arithmetic of words.  `AllLanesAre`, `AnyLaneIs`, `MatchIs` and `SetImpl` say what the shifts and masks of
  `match_impl`, `match_occupied` and `set_impl` do to bits.
- The inductive invariant (`WordsHoldBytes`): `SlotsOK`, a slot of either word holds its half of the byte unless a write of it is under way,
  and then, after the first of the two accesses of a word, at least its one bits are there (`SlotHeld`);
  `OverflowOK`, the overflow bits are those of the byte but for the one being marked, and the 16-bit word loaded for that has not changed
  meanwhile; `ReaderOK`, the word an unlocked match has read is that of the bytes of all slots but those it has on record as written;
  `SentinelOK`.  `UnlockedMatchIsStable` speaks only of a match that has ended, hence the part about its first word.
  TLC has checked `IInv` in the instance of `group_layouts`.
- `Traversal` is the statement for arrays of any number of groups, in both layouts: both ways to compute an increment give the next
  occupied slot (`IncrementIs`, `NextOccupied`), and so does the erased position, whose metadata no longer show it.
  `IteratorsAlwaysTraverse` applies it to the arrays of the run.

It also proves, for a word of any width, that `position` is the remainder of the
folded hash (`PositionIsRemainder`), from `HalfRangeAssumption` (at least two values).  With m = (F + d - 1) div d
the fractional part of m * a, times d, stays below the next multiple of F because the excess of m over F / d,
times the hash, is less than F / d.  `PortableRemainder` proves the variant without double-width integers.
That the entries of `inv_sizes32` are these m was verified by computing the 29 of them.

`ConcurrentTableProofs` proves the safety properties of the concurrent table: `NoDuplicates`,
`Findable`, `ComparesLiveElements`, `SizeAccounts`, `SizeWithinMaxLoad` and `RoomForReserved`, for every
finite set of threads and of keys, every width of groups and hash function, any operations and exceptions.
The assumptions, beside the types of the constants:

- `FiniteAssumption`: finitely many threads and keys, else sizes make no sense.
- `GroupCountsAssumption`, `ProberAssumption`: arrays have a number of groups that the prober traverses;
  TLC evaluates both for the powers of two the runs use.
- `EnoughGroupsAssumption`: there is a size of arrays for every number of elements the
  keys and threads can need.  (`GroupCounts` is all powers of two in the code, and a finite set for TLC.)

The invariant `IInv` of `ConcurrentTableInvariant` has, beside types and control, these parts:

- `LocksExclude`: holders of one group's lock are all readers, and a thread that rehashes has the table alone.
- `ArraysOK`: the sentinel is in its place, and every element has its tag and is *reached*: the groups of
  its probe sequence before its own are marked.  This is `Findable` said slot by slot.
- `SlotsOwned`: a slot occupied without an element belongs to exactly one thread, which has yet to construct the
  element or to make the slot available.  `RoomForReserved` counts slots by it, and a rehash relies on there being none.
- `SweepMasks`, `MasksMatched`: what a thread has recorded of a group is still good enough to act on: the slots a sweep has
  locked keep their elements, and a stale match is never of the sentinel.
- `GroupsMarked`: an insertion has marked the groups it has passed (or all of them are marked), so that the element it constructs is reached.
- `NoKeyTwice`: no key is in two places, counting the elements about to be constructed by threads whose
  insertion counter has been compared.
- `CounterTells` is the argument for optimistic insertion: while the counter an insertion has read is unchanged, its
  key is nowhere, or at a place its lookup has still to come to.  It needs every group on the way to that
  place to be marked and the masks of the lookup to be counted (`Ahead`).
- `LoadBounded`: elements, granted reservations and erasures under way stay within the maximum load, also
  counting the reservations that would be granted if the maximum load were what it was initially; the latter is because
  `recover_slot` lowers the maximum load in between.
- `RehashOK`: what the transfer has passed is in the new arrays and what it has not is not.

No property of the list is inductive alone: `NoDuplicates` needs `CounterTells`, that needs `Findable`, that needs
`GroupsMarked`; `RoomForReserved` needs `LoadBounded` and `SlotsOwned`.  A part about each thread is a predicate of one
thread: the module shows once what a step of another thread leaves of it
(`OthersOK`, `SharedStep`), so that the lemma of a step shows its own thread's part and what it does to the arrays.
It has one lemma per action of threads that share the table, ordered by how much they disturb: nothing (`QuietStep`), the
sizes (`CountedStep`), the arrays (`EditStep`).  Last come the actions of a thread that has the table
alone (`AloneStep`): clear, reserve and the rehash slot by slot.  The runs have checked `IInv` as an invariant of the
instances of `table_ops` and `table_sweep`.

`ConcurrentTableRefinement` proves `ImplementsSet`: under the mapping of `ConcurrentTable` (`set` is `Contents`, `left` the
keys a bulk visit has left and those a sweep has yet to meet) every step is a step of `ConcurrentSet` or changes
nothing of it.  `IInv` speaks of the table; what an answer may be depends on the past, which the history
variables hold, and `AnswersOK` (proved invariant beside `IInv`: `AnswersAreTrue`) relates the two:

- `MissedOK`: what is not there now is among what has been missing.
- `LookupOK`: unless its key has been missing, a lookup has yet to come to the slot with that key
  (`Ahead`).  So a lookup that ends has `missed` to answer with, though groups are matched without locks
  and the overflow byte is read after unlocking: an element that stays is never overtaken.
- `BatchOK`: the same of the keys of a bulk visit, whose first groups are matched long before they are looked up.
- `SweepMeets`: a sweep has not met what is in the slots before it, and what it has not met and was there
  all along is in one of these; hence it meets an element that stays once, and none twice.
- `CallOK`: which local variables are in use when, and that a bulk visit has each key once.

What makes these stable is that the steps of other threads that are inside leave elements where they are
(`Settled`), clear no overflow bit and change neither the probe sequence nor the locked slots
(`OthersAnswer`); a rehash, which moves them, has the table alone.  Steps are grouped by what they are to the set: nothing
(`Silent`, `LookupSilent`, `SweepSilent`), a decision (`Decided`, `LookupDecides`, `SweepDecides`), an element met (`SweepMet`).
The linearization point of an insertion is the construction of the element, of an erasure its destruction, of a visit that
finds its key the comparison under the group lock; a miss answers as of an instant of the past.

`TableCoreProofs` is about tables that are used one call at a time, for every finite set of keys, any tables, hash functions,
allocators, widths of groups and uses: which calls are made, what may throw, whether elements are moved or copied by a
rehash, in which assignments allocators propagate.  It proves six properties of the run `core`: `ElementsSearchable`,
`SizeIsExact`, `CallsDeliver`, `StrongGuarantee`, `EqualityIsOfContents` and `LoadingIsStable`.  Its assumptions, beside the types of the
constants, are those about sizes of arrays above (`EnoughGroupsAssumption` is here about the elements and the numbers that
calls may ask room for) and `NoTableAssumption`: an object not constructed is not a table.

Every theorem has the hypothesis `NoStrandedSources`: no program makes move assignments
whose allocators do not propagate *and* has allocations that throw.  That is exactly the case in which the code leaves a source that does
not find its elements (section 5, 2, `core_source`); without it `ElementsSearchable` is false.  All
the uses of `core` satisfy it, and the properties are claimed of no others.

The properties speak of tables at rest; the invariant `IInv` of `TableCoreInvariant` says what they are like between any
two calls of an operation that may throw:

- `TablesOK`: every table but the one the operation is in the middle of (`Unfinished`) is `Sound`: its elements are each in
  one slot, with the tag of their hash and reached by its probe sequence (`WellPlaced`), and counted (`Counted`).
- `RehashTables`: while elements are moved to new arrays the slots behind the cursor are `Hollow`: occupied in the
  metadata, without an element.  The new arrays are well placed by the same hash function, and what they have and what is
  left add up to the size and one, for the element being inserted.  This is what `recover_slot` relies on when an exception
  gives the elements moved so far up, and `nosize_unchecked_emplace_at` for room.
- `RehashElements`: nothing is in both arrays that is still to come, and together they have what there was `Before` and what is
  `Coming`; where elements are copied the old arrays still have all.  `StrongGuarantee` is the second half of it.
- `MergeOK`: of the source of a merge, the elements passed that are left in it are in the target; what both had stays.
- `CopyOK` (`Filled`, or `FilledInPlace` where the arrays have the same size and the metadata come last), `MoveOK`, `AssignOK`,
  `FillOK`: what a table that is being filled has, how it relates to the cursor in the other table, and that the room
  reserved in the beginning suffices for what is still to come.
- `HistoryOK`: what operations have not changed yet, and the tables they do not touch.

`MoveOK` and `AssignOK` have the source of a move assignment sound *with the target's hash function*, since
the two are exchanged first: `Unfinished` takes that table out of `TablesOK` until the operation ends.  The proof shows for the operators on arrays (`Emplaced`,
removal, moving an element away, copying a group) what they do to `WellPlaced` and to the elements, then for a table, then one lemma per
action; `SameCall` and `Stays` say what most of them leave alone.  TLC has checked `IInv` on the
uses of `core`.

`ContainerLockProofs` is about any finite set of threads, any tables and number of mutexes, any assignment of mutexes to
threads (`SlotAssumption`; several threads may share one) and accesses nested to any depth.

- `ActsAsOneLock` (`ImplementsRWLock`): its inductive invariant says of single mutexes that one held exclusively is held once
  (`MutexExcludes`).  A thread that gets the last of them excludes everybody: each has a mutex of its own to lock, which is
  among them.  So the access to a table comes with one step, though it is made of `M` locks that are taken one by one.
- `TracesAreAccesses` (`TraceIsStack`): the entries of a thread, newest first, are those of its accesses, with one entry or
  two each.  It is inductive; what there is to show is that the entries that `End` clears are the newest.
- `NoDeadlock`: if visitation functions operate only on tables at higher addresses than their own (`NestedUpwards`),
  some thread inside an operation can always go on (`SomeoneProceeds`).  Two more invariants: `Climbs`, each access locks
  its mutexes in order and after those of the accesses it is nested in; `PendingAwaited`, a writer that has been announced is waiting
  for that very mutex.  If everyone waited, everyone would wait for a mutex that someone holds who waits for a later
  one, which a finite set of threads cannot do (`NoEndlessAscent`, by the well-foundedness of strict inclusion).
  This is the safety half of `OperationsReturn`.  The hypothesis cannot be dropped: `container_lock_downwards` is the counterexample, and
  TLC has found `SomeoneProceeds` true in the instance of `container_lock` and violated in that one.

Model-checked only:

- liveness, which is outside what the proof system does;
- `MemoryAccounted` of `TableCore`: it adds up the blocks of all tables with a fold of the community modules, a recursion over
  a set, about which the provers know nothing;
- the closed-addressing containers (`BucketsLinked` and the others of `closed`, and that they implement `UnorderedBags`):
  their operations go through chains and buckets with recursive functions and folds, and what these compute for chains
  of any length takes induction over data.  Of `RemainderExact`, `PositionIsRemainder` is the general statement.

Induction over the natural numbers takes an operator as a parameter in the library and cannot be instantiated here; where
a proof needs it, it goes by a least counterexample (`LeastNumber`, `FirstIsLeast`).  Of the values recursive functions
compute for whole arrays and chains (`From`, iteration, chains) nothing is proved.

## 5. What the checks found

1. `concurrent.adoc` 266–272 says that operations on other containers are fine within a
   visitation function and that blocking needs no precaution.  With an operation on
   the container at the lower address from within the one at the higher address,
   and another thread swapping, merging, assigning or comparing the two, each waits
   for the other for ever.  (`container_lock_downwards`)
2. Move assignment between tables with unequal allocators that do not propagate swaps the hash
   functions before `noshrink_reserve` (`core.hpp` 1662–1666).  If that allocation throws,
   the source is left with its elements and the destination's old hash function, and does
   not find them: `check_equivalent_keys` (`test/helpers/invariants.hpp` 57) would report it, but
   the exception test of move assignment only looks at the destination.  (`core_source`)
3. Copy assignment of a closed-addressing container whose allocator propagates and differs
   (`implementation.hpp` 1604–1629) replaces the buckets but recomputes `max_load_` only if `reserve` finds their number
   wrong, which it is not: the maximum load is that of the deleted buckets.  If the source is empty
   the destination is left without buckets and with a positive `max_load_`, so that an insertion
   skips `reserve` and uses the iterator of a null bucket.  (`closed_assign`)

Met on the way, with no sentence in the repository that says otherwise, or one that exempts it:

- After a closed-addressing container was moved from by one with an unequal allocator, it keeps the moved-from
  elements (the open-addressing ones are cleared, by `clear_on_exit`).
- `unordered_multi{map,set}::merge` extracts a node and inserts it: if the insertion throws, the element that
  travels is destroyed with its handle.  Merging such a container into itself does not end.
- `assign` of `detail::table` (1583 "Strong exception safety.") sets `mlf_` before what may throw: the elements
  stay as they were, the factor does not.
- `insert(node_type&&)` into an open-addressing node container loses its node if the hash function throws in the rehash
  after the node was placed; the documentation exempts hash functions.
- An emptied handle of a closed-addressing container keeps its allocator, so that assigning it a handle of
  another allocator that does not propagate trips the `BOOST_ASSERT`.

## 6. Abstractions

- `ConcurrentTable` is sequentially consistent; memory orders are modelled in the
  spinlock only.  Metadata bytes are read one by one in any order, but orders of
  accesses to different groups are those of the program.
- Sizes are exact: the single-precision computation of the new capacity is
  represented by the integers it approximates.  The 32-bit insertion counter does not
  wrap around within one insertion.
- Groups have 1 or 2 slots instead of 15; a multimutex 2 mutexes instead of 128; one
  group lock stands for all those of a table in `ContainerLock`; bucket groups 2 buckets instead of 64.
- Without SIMD `mark_overflow` is a plain 16-bit read-modify-write made with the group held
  exclusively: no update is lost, though formally it races with the unlocked
  `is_not_overflowed`; `ConcurrentTable` makes it one access, `GroupLayouts` a load and a store.
- Parallel sweeps are one thread that visits the groups in any order.  An exception of a
  visitation function ends the operation as returning does.  A range insertion into a concurrent
  container is one insertion after another.  A concurrent `extract` is the `pull` of `TableCore`, on a plain table;
  that the element stays when the extractor throws is left out.
- Predicates of concurrent tables do not throw; an `erase_if` by key whose predicate is false is an
  exclusive visit.
- `TableCore` has plain pointers, for which empty tables allocate nothing.  Copying function
  objects and comparing keys does not throw; a moved-from function object still hashes as
  it did.  The key and the value of an element are one, and so are construction from
  arguments, by copy and by move, but for the exceptions they may throw.  The branch of loading that
  would rehash is left out, `LoadingIsStable` being that it is not reached.
- In `ConcurrentTable` a rehash fills the arrays it allocated; an allocation that throws leaves everything
  as it was and is not an action.
- The hint of `insert_or_assign` is not used by the code, nor by the model.
- Overloads that differ in the types of their arguments are one action, and so are
  `operator[]` and `try_emplace`.
- The layout of cache-aligned arrays, prefetching and SIMD instructions are left out.

### Not modelled

- Statistics: off by default; floating-point sums, which nothing of the containers reads.
- `mulx` and `xmx`: some function of the hash, whichever.
- Saving to archives, the addresses reported to them, archived iterators, and archives of the closed-addressing
  containers, which are cleared and inserted into one element at a time.
- Merges between a container of unique and one of equivalent keys; node handles of containers
  with equivalent keys, and the move assignment of containers with unequal allocators in `NodeHandles`
  (both are in `ClosedTable`, with one handle).
- Type machinery and debugger support: nothing that runs, or nothing that changes state.

## 7. Plan

1. Proofs: `BucketsLinked` and `MaxLoadIsCurrent` of the closed-addressing containers, one operator of `BucketArray` at a time.
2. Three threads and two slots per group in `ConcurrentTable`, on a machine that searches longer than the
   runs here: optimistic insertions that roll back one another in a chain.
3. Prober and size policy as arithmetic of powers of two; archives with iterators.
