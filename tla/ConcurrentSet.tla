---------------------------- MODULE ConcurrentSet ----------------------------
(***************************************************************************)
(* What a concurrent container promises to the threads that use it.  Each  *)
(* operation on a key looks as if it happened at one instant between its   *)
(* call and its return: insertions, erasures and visits take effect when   *)
(* they are decided, and an operation may answer that a key is missing if  *)
(* it was at any instant since the call, which is what "missed" remembers. *)
(*                                                                         *)
(* A bulk visit answers for its keys one by one, each as of an instant     *)
(* since the call.  A visit of the whole container is no snapshot, but it  *)
(* meets an element at most once between two insertions of its key, and    *)
(* those in the container from the call to the return exactly once.        *)
(***************************************************************************)
EXTENDS FiniteSets

CONSTANTS Threads, Keys, NoKey,
          MayLose   \* whether moving elements to new arrays can throw

VARIABLES
  set,     \* the keys in the container
  op,      \* the operation each thread is executing
  key,     \* the key it is about, or the one a bulk visit has come to
  left,    \* the keys a bulk visit has yet to come to, or a sweep to meet
  missed,  \* the keys in question that were missing at some instant since the call
  res      \* the outcome, once decided

vars == <<set, op, key, left, missed, res>>

KeyOps == {"insert", "visit", "erase"}
Sweeps == {"visit_while", "erase_if"}

Init == /\ set = {}
        /\ op  = [t \in Threads |-> "none"]
        /\ key = [t \in Threads |-> NoKey]
        /\ left = [t \in Threads |-> {}]
        /\ missed = [t \in Threads |-> {}]
        /\ res = [t \in Threads |-> "none"]

\* The keys whose absence matters to an operation in progress.
Asked(o, k, rest, r) ==
  (IF r # "none" THEN {} ELSE IF o \in Sweeps THEN Keys ELSE {k} \cap Keys)
    \cup (IF o = "bulk" THEN rest ELSE {})

\* The operations in progress watch the set that each step leaves behind.
Watch ==
  missed' = [t \in Threads |-> {k \in Asked(op'[t], key'[t], left'[t], res'[t]) :
                                  k \in missed[t] \/ k \notin set'}]

\* A key that comes into the set is one more for the sweeps to meet.
Sweeping(t) == op[t] \in Sweeps /\ res[t] = "none"
LeftIs(rest) ==
  left' = [t \in Threads |-> IF Sweeping(t) THEN rest[t] \cup (set' \ set) ELSE rest[t]]
LeftOf(t, keys) == LeftIs([left EXCEPT ![t] = keys])

\* The operation o is called.
Begins(t, o) == op[t] = "none" /\ op' = [op EXCEPT ![t] = o] /\ UNCHANGED <<set, res>>

BeginKey(t, o) ==
  Begins(t, o) /\ LeftIs(left) /\ \E k \in Keys : key' = [key EXCEPT ![t] = k]
BeginInsert(t) == BeginKey(t, "insert")
BeginVisit(t)  == BeginKey(t, "visit")
BeginErase(t)  == BeginKey(t, "erase")
\* A bulk visit is about any keys, a sweep about all of them.
BeginBulk(t)  == Begins(t, "bulk") /\ UNCHANGED key /\ \E ks \in SUBSET Keys : LeftOf(t, ks)
BeginSweep(t) == UNCHANGED key /\ \E o \in Sweeps : Begins(t, o) /\ LeftOf(t, Keys)
BeginWhole(t) == UNCHANGED key /\ \E o \in {"clear", "reserve"} : Begins(t, o) /\ LeftIs(left)
Begin(t) == BeginInsert(t) \/ BeginVisit(t) \/ BeginErase(t)
            \/ BeginBulk(t) \/ BeginSweep(t) \/ BeginWhole(t)

\* The operation of t, one of ops, is decided as r and leaves the set s.
Decide(t, ops, r, s) ==
  /\ op[t] \in ops /\ res[t] = "none"
  /\ set' = s
  /\ res' = [res EXCEPT ![t] = r]
  /\ LeftOf(t, IF op[t] \in Sweeps THEN {} ELSE left[t])
  /\ UNCHANGED <<op, key>>

Insert(t)  == key[t] \notin set /\ Decide(t, {"insert"}, "inserted", set \cup {key[t]})
Erase(t)   == key[t] \in set /\ Decide(t, {"erase"}, "erased", set \ {key[t]})
Keep(t)    == key[t] \in set /\ Decide(t, {"erase"}, "kept", set)
Clear(t)   == Decide(t, {"clear"}, "cleared", {})
Reserve(t) == Decide(t, {"reserve"}, "reserved", set)
Find(t)    == key[t] \in set /\ Decide(t, {"visit", "bulk"}, "found", set)
FindEqual(t) == key[t] \in set /\ Decide(t, {"insert"}, "found", set)
Miss(t)    == key[t] \in missed[t] /\ Decide(t, {"visit", "erase", "bulk"}, "missing", set)

\* A bulk visit comes to another of its keys.
NextKey(t) ==
  /\ op[t] = "bulk"
  /\ \E k \in left[t] : key' = [key EXCEPT ![t] = k] /\ LeftOf(t, left[t] \ {k})
  /\ res' = [res EXCEPT ![t] = "none"]
  /\ UNCHANGED <<set, op>>

\* A sweep meets an element; erase_if may erase it, visit_while may stop there.
Meet(t, k) ==
  /\ Sweeping(t) /\ k \in set \cap left[t]
  /\ \/ op[t] = "erase_if" /\ set' = set \ {k} /\ UNCHANGED res
     \/ op[t] = "visit_while" /\ res' = [res EXCEPT ![t] = "stopped"] /\ UNCHANGED set
     \/ UNCHANGED <<set, res>>
  /\ LeftOf(t, IF res'[t] = "none" THEN left[t] \ {k} ELSE {})
  /\ UNCHANGED <<op, key>>

Swept(t) == left[t] \subseteq missed[t] /\ Decide(t, Sweeps, "swept", set)

\* An exception leaves the container as it was, but one thrown while elements
\* are moved to new arrays loses those already moved.
Throw(t) == \/ \E s \in (IF MayLose THEN SUBSET set ELSE {set}) :
                 Decide(t, {"insert", "reserve"}, "threw", s)
            \/ Decide(t, Sweeps, "threw", set)

Return(t) ==
  /\ res[t] # "none" \/ (op[t] = "bulk" /\ key[t] = NoKey)
  /\ left[t] = {}
  /\ op' = [op EXCEPT ![t] = "none"]
  /\ key' = [key EXCEPT ![t] = NoKey]
  /\ res' = [res EXCEPT ![t] = "none"]
  /\ LeftIs(left)
  /\ UNCHANGED set

Next == /\ \E t \in Threads :
             \/ Begin(t) \/ Insert(t) \/ Erase(t) \/ Keep(t) \/ Clear(t) \/ Reserve(t)
             \/ Find(t) \/ FindEqual(t) \/ Miss(t) \/ NextKey(t) \/ Swept(t) \/ Throw(t) \/ Return(t)
             \/ \E k \in Keys : Meet(t, k)
        /\ Watch

Spec == Init /\ [][Next]_vars
=============================================================================
