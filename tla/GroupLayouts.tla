---------------------------- MODULE GroupLayouts ----------------------------
(***************************************************************************)
(* group15: the metadata of a group in its two physical layouts, side by   *)
(* side.  The regular one (SSE2, NEON) has a byte per slot and one for the *)
(* overflow bits.  The interleaved one (no SIMD) has two words of four     *)
(* lanes: bit p of lane l of word w is bit 4w + l of the byte of slot p,   *)
(* and the last bit of the eight lanes are the overflow bits.              *)
(*                                                                         *)
(* In a concurrent table the writer holds the group exclusively, and a     *)
(* lookup matches without a lock: it may read the words between any two    *)
(* of the writer's accesses, each of which is atomic by itself.            *)
(***************************************************************************)
EXTENDS Naturals, FiniteSets

CONSTANTS
  S,       \* bits of a lane: 16 in the code
  Hashes   \* the hash values used

ASSUME LanesAssumption  == S \in Nat /\ S >= 3
ASSUME HashesAssumption == Hashes \subseteq Nat

VARIABLES
  bytes,      \* the regular layout: a byte per slot
  overflow,   \* and the overflow byte, as a set of bits
  m,          \* the interleaved layout: two words, as sets of bits
  sentinel,   \* whether the group is the last one of its arrays
  writing,    \* the access the writer makes next, or Idle
  reader      \* an unlocked lookup

vars == <<bytes, overflow, m, sentinel, writing, reader>>

N     == S - 1
Slots == 0 .. N - 1
Bits  == 0 .. 4 * S - 1
Lanes == 0 .. 3
Idle  == [what |-> "idle"]

Available    == 0
SentinelByte == 1

\* Mutant: only 0 and 1 are avoided, by other values than those of the table.
reduced_hash_other(hash) == IF hash % 256 \in {0, 1} THEN (hash % 256) + 2 ELSE hash % 256

\* The values for available slots and for the sentinel are avoided.
reduced_hash(hash) == IF hash % 256 \in {0, 1} THEN (hash % 256) + 8 ELSE hash % 256

-----------------------------------------------------------------------------
(* The regular layout *)

\* SSE2 compares sixteen bytes with a word of four, repeated.
match_word(hash) == [i \in 0 .. 3 |-> reduced_hash(hash)]

match_bytes(hash)            == {p \in Slots : bytes[p] = match_word(hash)[p % 4]}
is_not_overflowed_byte(hash) == hash % 8 \notin overflow
maybe_caused_overflow_byte(p) == ~is_not_overflowed_byte(bytes[p])
match_available_bytes        == {p \in Slots : bytes[p] = Available}
is_sentinel_byte(p)          == bytes[p] = SentinelByte

-----------------------------------------------------------------------------
(* The interleaved layout *)

Left(x, k)   == {b + k : b \in x} \cap Bits
Right(x, k)  == {b - k : b \in {c \in x : c >= k}}
Xor(x, y)    == (x \ y) \cup (y \ x)
Not(x)       == Bits \ x
Without15(x) == x \cap Slots           \* & 0x7FFF

\* The lanes of the one bits, and of the zero bits, of half a byte.
OneLanes(n)  == {l \in Lanes : (n \div 2 ^ l) % 2 = 1}
mask(n)      == {l * S : l \in OneLanes(n)}
imask(n)     == {l * S : l \in Lanes \ OneLanes(n)}
FullLanes(n) == {b \in Bits : b \div S \in OneLanes(n)}

\* Bits set in all four lanes, and in any of them.
AllLanes(x) == LET y == x \cap Right(x, 2 * S) IN Without15(y \cap Right(y, S))
AnyLane(x)  == LET y == x \cup Right(x, 2 * S) IN Without15(y \cup Right(y, S))

\* Mutant: a slot matches when either half of its byte does.
match_impl_halves(w0, w1, n) ==
  AllLanes(Not(Xor(w1, FullLanes(n \div 16)) \cap Xor(w0, FullLanes(n % 16))))

match_impl(w0, w1, n) ==
  AllLanes(Not(Xor(w1, FullLanes(n \div 16)) \cup Xor(w0, FullLanes(n % 16))))

match(hash)     == match_impl(m[0], m[1], reduced_hash(hash))
match_available == AllLanes(Not(m[0] \cup m[1]))
Occupied(w)     == AnyLane(w[0] \cup w[1])
match_occupied  == Occupied(m)
is_occupied(p)  == (m[0] \cup m[1]) \cap {l * S + p : l \in Lanes} # {}

SentinelAt(w, p) ==
  /\ p = N - 1
  /\ w[0] \cap {l * S + N - 1 : l \in Lanes} = {N - 1}
  /\ w[1] \cap {l * S + N - 1 : l \in Lanes} = {}
is_sentinel(p) == SentinelAt(m, p)

\* Bit 15 of the 16-bit word number hash % 8.
OverflowWord(hash) == (hash % 8) \div 4
OverflowBit(hash)  == ((hash % 8) % 4) * S + N
is_not_overflowed(hash) == OverflowBit(hash) \notin m[OverflowWord(hash)]

\* The three low bits of the byte are gathered from the first three lanes; what
\* else is left in y does not matter, for it is taken modulo 8.
LowBits(p) == Right(m[0], p) \cap {0, S, 2 * S}
GatheredLow(x) == x \cup Right(x, S - 1) \cup Right(x, 2 * S - 2)
maybe_caused_overflow(p) ==
  LET y == GatheredLow(LowBits(p)) IN
  ~is_not_overflowed((IF 0 \in y THEN 1 ELSE 0) + (IF 1 \in y THEN 2 ELSE 0)
                       + (IF 2 \in y THEN 4 ELSE 0))

-----------------------------------------------------------------------------
(* The writer *)

NoReader == [at |-> "idle", hash |-> 0, first |-> 0, word |-> {}, found |-> {}, touched |-> {}]

\* initialize, and set_sentinel for the last group.
Cleared(last) ==
  /\ bytes'    = [p \in Slots |-> IF last /\ p = N - 1 THEN SentinelByte ELSE Available]
  /\ overflow' = {}
  /\ m'        = [w \in {0, 1} |-> IF last /\ w = 0 THEN {N - 1} ELSE {}]

Init ==
  /\ sentinel \in BOOLEAN
  /\ bytes    = [p \in Slots |-> IF sentinel /\ p = N - 1 THEN SentinelByte ELSE Available]
  /\ overflow = {}
  /\ m        = [w \in {0, 1} |-> IF sentinel /\ w = 0 THEN {N - 1} ELSE {}]
  /\ writing  = Idle
  /\ reader   = NoReader

\* clear has the container to itself.
Initialize ==
  /\ writing = Idle /\ reader.at = "idle"
  /\ Cleared(sentinel)
  /\ UNCHANGED <<sentinel, writing, reader>>

\* A byte is stored at once in the regular layout; the interleaved one takes
\* four accesses.
BeginWrite(p, n) ==
  /\ writing = Idle
  /\ bytes'   = [bytes EXCEPT ![p] = n]
  /\ writing' = [what |-> "slot", pos |-> p, byte |-> n, step |-> 0]
  /\ reader'  = IF reader.at = "idle" THEN reader
                ELSE [reader EXCEPT !.touched = @ \cup {p}]
  /\ UNCHANGED <<overflow, m, sentinel>>

Set(p, hash) == bytes[p] = Available /\ BeginWrite(p, reduced_hash(hash))
Reset(p) ==
  /\ bytes[p] \notin {Available, SentinelByte}
  /\ BeginWrite(p, Available)

\* Mutant: the zero bits are left as they were.
set_impl_ones(x, p, n, clear) == IF clear THEN x ELSE x \cup Left(mask(n), p)

\* x |= mask[n] << pos, then x &= ~(imask[n] << pos).
set_impl(x, p, n, clear) == IF clear THEN x \ Left(imask(n), p) ELSE x \cup Left(mask(n), p)

Half(n, w) == IF w = 0 THEN n % 16 ELSE n \div 16
WriteStep ==
  /\ writing.what = "slot"
  /\ LET w == writing.step \div 2 IN
     m' = [m EXCEPT ![w] = set_impl(@, writing.pos, Half(writing.byte, w),
                                    writing.step % 2 = 1)]
  /\ writing' = IF writing.step = 3 THEN Idle ELSE [writing EXCEPT !.step = @ + 1]
  /\ UNCHANGED <<bytes, overflow, sentinel, reader>>

\* mark_overflow, of full groups.  The 16-bit word is not an atomic object: it
\* is loaded, and then stored.
LaneOf(hash) == {b \in m[OverflowWord(hash)] : b \div S = (hash % 8) % 4}
LoadLane(hash) ==
  /\ writing = Idle /\ match_available_bytes = {}
  /\ overflow' = overflow \cup {hash % 8}
  /\ writing'  = [what |-> "lane", hash |-> hash, lane |-> LaneOf(hash)]
  /\ UNCHANGED <<bytes, m, sentinel, reader>>

StoreLane ==
  /\ writing.what = "lane"
  /\ m' = [m EXCEPT ![OverflowWord(writing.hash)] =
             (@ \ LaneOf(writing.hash)) \cup writing.lane \cup {OverflowBit(writing.hash)}]
  /\ writing' = Idle
  /\ UNCHANGED <<bytes, overflow, sentinel, reader>>

-----------------------------------------------------------------------------
(* An unlocked match *)

\* The two words are read one by one, in either order.
BeginMatch(hash, first) ==
  /\ reader.at = "idle"
  /\ reader' = [NoReader EXCEPT
                  !.at = "second", !.hash = hash, !.first = first, !.word = m[first],
                  !.touched = IF writing.what = "slot" THEN {writing.pos} ELSE {}]
  /\ UNCHANGED <<bytes, overflow, m, sentinel, writing>>

EndMatch ==
  /\ reader.at = "second"
  /\ LET other == m[1 - reader.first]
         w0 == IF reader.first = 0 THEN reader.word ELSE other
         w1 == IF reader.first = 1 THEN reader.word ELSE other
     IN  reader' = [reader EXCEPT !.at = "done", !.word = {},
                      !.found = match_impl(w0, w1, reduced_hash(reader.hash))]
  /\ UNCHANGED <<bytes, overflow, m, sentinel, writing>>

Leave ==
  /\ reader.at = "done"
  /\ reader' = NoReader
  /\ UNCHANGED <<bytes, overflow, m, sentinel, writing>>

Next ==
  \/ Initialize \/ WriteStep \/ StoreLane \/ EndMatch \/ Leave
  \/ \E p \in Slots : Reset(p) \/ \E hash \in Hashes : Set(p, hash)
  \/ \E hash \in Hashes : LoadLane(hash) \/ \E first \in {0, 1} : BeginMatch(hash, first)

Spec == Init /\ [][Next]_vars

-----------------------------------------------------------------------------
(* Properties *)

\* All observers of a group answer the same in both layouts whenever nobody is
\* writing: matching, availability, occupancy, the sentinel, and the overflow
\* bits, those of a stored byte (maybe_caused_overflow) being those of the hash
\* it was reduced from.
LayoutsAgree ==
  writing = Idle =>
    /\ match_available = match_available_bytes
    /\ match_occupied = Slots \ match_available_bytes
    /\ \A hash \in Hashes : /\ match(hash) = match_bytes(hash)
                            /\ is_not_overflowed(hash) = is_not_overflowed_byte(hash)
    /\ \A p \in Slots : /\ is_occupied(p) = (p \notin match_available_bytes)
                        /\ is_sentinel(p) = is_sentinel_byte(p)
    /\ \A p \in Slots \ match_available_bytes :
         maybe_caused_overflow(p) = maybe_caused_overflow_byte(p)

\* A match without the lock reports every slot that kept the wanted byte while
\* it ran, and none that kept another one: no element is missed and no sentinel
\* is taken for an element, whatever is being written to other slots meanwhile.
UnlockedMatchIsStable ==
  reader.at = "done" =>
    \A p \in Slots \ reader.touched :
      p \in reader.found <=> bytes[p] = reduced_hash(reader.hash)

\* A slot that holds a hash which overflowed the group is seen to do so when it
\* is erased (the anti-drift measure), for every hash that may be in the slot.
ErasureSeesOverflow ==
  writing = Idle =>
    \A hash \in Hashes : \A p \in match(hash) :
      ~is_not_overflowed(hash) => maybe_caused_overflow(p)
=============================================================================
