------------------------------ MODULE LinearOps ------------------------------
(***************************************************************************)
(* The linear silo record (silo_t) and what each routine of silo.c,        *)
(* silo_linear.c and silo_common.c does to it.  Stacks, sequences and      *)
(* queues share one record; only a queue is circular, with its first       *)
(* element at head.  Storage comes from an arena: a fresh block holds Junk *)
(* until it is written.                                                    *)
(***************************************************************************)
EXTENDS Integers, Sequences

CONSTANTS
  Value,    (* the uvlongs a client stores                              *)
  Junk,     (* the content of a cell that was never written             *)
  Chunk     (* COETUA_SILO_CHUNK                                        *)

ASSUME ChunkAssumption == Chunk \in Nat \ {0}
ASSUME JunkAssumption  == Junk \notin Value

LinearTypes == {"stack", "seq", "queue"}

\* silo_new on a fresh slot: no storage, empty, first generation.
NewSilo(type) ==
  [type |-> type, data |-> [i \in 0..-1 |-> Junk],
   cap |-> 0, len |-> 0, head |-> 0, gen |-> 1]

\* A record with these six fields, whose occupied cells lie in the storage
\* and whose head does too, once there is some.
IsSilo(s) ==
  /\ s \in [type : LinearTypes, data : [0..(s.cap - 1) -> Value \cup {Junk}],
            cap : Nat, len : 0..s.cap, head : Nat, gen : Nat]
  /\ s.head < s.cap \/ s.head = 0

Touch(s) == [s EXCEPT !.gen = @ + 1]

\* The cell that holds the i-th element (from 0).  For stacks and sequences
\* head is 0 and this is cell i itself.
Cell(s, i) == (s.head + i) % s.cap

\* What the silo contains, oldest (or bottom) element first.
Elems(s) == [i \in 1..s.len |-> s.data[Cell(s, i - 1)]]

\* Every element is a value some call stored, and only a queue rotates.
Stored(s) == \A i \in 0..(s.len - 1) : s.data[Cell(s, i)] \in Value
Straight(s) == s.type # "queue" => s.head = 0

NewCap(s, needed) ==
  IF needed > s.cap + Chunk THEN needed ELSE s.cap + Chunk

NeedsRoom(s, needed) == s.cap < needed

\* A faulty variant: a queue is copied cell by cell.
GrowDropHead(s, needed) ==
  IF ~NeedsRoom(s, needed) THEN s
  ELSE [s EXCEPT !.cap  = NewCap(s, needed),
                 !.head = 0,
                 !.data = [i \in 0..(NewCap(s, needed) - 1) |->
                             IF i >= s.cap THEN Junk ELSE s.data[i]]]

\* silo_grow when the allocation succeeds: a queue is unwrapped into the new
\* block, except an empty one, whose head stays where it was.
Grow(s, needed) ==
  IF ~NeedsRoom(s, needed) THEN s
  ELSE [s EXCEPT
          !.cap  = NewCap(s, needed),
          !.head = IF s.type = "queue" /\ s.len > 0 THEN 0 ELSE @,
          !.data = [i \in 0..(NewCap(s, needed) - 1) |->
                      IF i >= s.len THEN Junk
                      ELSE IF s.type = "queue" THEN s.data[Cell(s, i)]
                      ELSE s.data[i]]]

AppendLinear(s, v) ==
  LET g == Grow(s, s.len + 1)
  IN  Touch([g EXCEPT !.data = [@ EXCEPT ![g.len] = v], !.len = @ + 1])

Enqueue(s, v) ==
  LET g == Grow(s, s.len + 1)
  IN  Touch([g EXCEPT !.data = [@ EXCEPT ![Cell(g, g.len)] = v], !.len = @ + 1])

\* linear_cram_one: the append of the silo's own type.
AppendOne(s, v) == IF s.type = "queue" THEN Enqueue(s, v) ELSE AppendLinear(s, v)

Pop(s) == Touch([s EXCEPT !.len = @ - 1])

\* A faulty variant: the head runs out of the storage.
DequeueOff(s) == Touch([s EXCEPT !.head = @ + 1, !.len = @ - 1])

Dequeue(s) == Touch([s EXCEPT !.head = (@ + 1) % s.cap, !.len = @ - 1])

\* norm_index: a negative position counts from the end; -1 stands for the
\* routine's refusal.
NormIndex(len, pos, allowEnd) ==
  LET p == IF pos < 0 THEN pos + len ELSE pos
  IN  IF 0 <= p /\ (p < len \/ (allowEnd /\ p = len)) THEN p ELSE -1

\* A faulty variant: the last element is not shifted.
ShiftRightShort(s, pos) ==
  [s EXCEPT !.data = [i \in DOMAIN @ |->
     IF pos < i /\ i < s.len THEN s.data[i - 1] ELSE s.data[i]]]

ShiftRight(s, pos) ==
  [s EXCEPT !.data = [i \in DOMAIN @ |->
     IF pos < i /\ i <= s.len THEN s.data[i - 1] ELSE s.data[i]]]

ShiftLeft(s, pos) ==
  [s EXCEPT !.data = [i \in DOMAIN @ |->
     IF pos <= i /\ i < s.len - 1 THEN s.data[i + 1] ELSE s.data[i]]]

PlaceAt(s, pos, v) ==
  LET g == ShiftRight(Grow(s, s.len + 1), pos)
  IN  Touch([g EXCEPT !.data = [@ EXCEPT ![pos] = v], !.len = @ + 1])

DropAt(s, pos) == Touch([ShiftLeft(s, pos) EXCEPT !.len = @ - 1])

\* A faulty variant: no new generation.
SwapAtQuiet(s, pa, pb) ==
  [s EXCEPT !.data = [@ EXCEPT ![pa] = s.data[pb], ![pb] = s.data[pa]]]

SwapAt(s, pa, pb) ==
  Touch([s EXCEPT !.data = [@ EXCEPT ![pa] = s.data[pb], ![pb] = s.data[pa]]])

\* silo_swop_linear: the cell whose element is exchanged with the caller's.
SwopCell(s) == IF s.type = "queue" THEN s.head ELSE s.len - 1

Swop(s, v) ==
  IF s.len = 0
    THEN Touch([Grow(s, 1) EXCEPT !.data = [@ EXCEPT ![0] = v], !.head = 0, !.len = 1])
    ELSE Touch([s EXCEPT !.data = [@ EXCEPT ![SwopCell(s)] = v]])

\* linear_spew_one: a queue dequeues; a stack and a sequence lose cell 0.
SpewOne(s) == IF s.type = "queue" THEN Dequeue(s) ELSE DropAt(s, 0)

Teem(s) == Touch([s EXCEPT !.len = 0, !.head = 0])

\* tamp: reallocate to exactly len cells, unwrapping a queue.
Tamp(s) ==
  Touch([s EXCEPT
    !.data = [i \in 0..(s.len - 1) |->
                IF s.type = "queue" THEN s.data[Cell(s, i)] ELSE s.data[i]],
    !.cap = s.len, !.head = 0])

\* iter_remove_linear and the bookkeeping of its caller, at position 0, the
\* only position an obliterating iterator of a linear silo ever has.
TakeFirst(s) == SpewOne(s)
=============================================================================
