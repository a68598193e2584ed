----------------------------- MODULE LinearSilo -----------------------------
(***************************************************************************)
(* One live linear silo (src/silo_linear.c, with the linear halves of      *)
(* src/silo_common.c and silo_grow of src/silo.c) used by one thread.      *)
(* Every public operation is an action; an operation that needs storage    *)
(* may find the arena out of memory.  cram and spew are loops over single  *)
(* operations and take one step per iteration.                             *)
(***************************************************************************)
EXTENDS LinearOps

CONSTANTS
  Types,    (* the kinds of silo to consider: "stack", "seq", "queue"   *)
  MaxLen,   (* bound: no element is added at this length                *)
  MaxGen,   (* bound: no mutation is made at this generation            *)
  MaxBatch  (* bound: the longest batch given to cram or asked of spew  *)

ASSUME TypesAssumption == Types \subseteq LinearTypes
ASSUME BoundAssumption == MaxLen \in Nat /\ MaxGen \in Nat /\ MaxBatch \in Nat

VARIABLES
  silo,     (* the silo_t record                                        *)
  todo,     (* the cram or spew loop in progress                        *)
  ret       (* what the last call returned: [err, val], val a sequence  *)

vars == <<silo, todo, ret>>

None   == <<>>
Idle   == [op |-> "idle"]
Pos    == -(MaxLen + 1)..(MaxLen + 1)
Called == todo = Idle /\ UNCHANGED todo
Result(v) == ret' = [err |-> FALSE, val |-> v]
Error     == ret' = [err |-> TRUE, val |-> None] /\ UNCHANGED silo
Mutable == silo.gen < MaxGen
Empty   == silo.len = 0

\* aden returned null: the caller gets an error and the silo is as it was.
OutOfMemory(needed) == NeedsRoom(silo, needed) /\ Error

\* push, atch and enqueue.
Add(v) ==
  /\ Called /\ Mutable /\ silo.len < MaxLen
  /\ \/ silo' = AppendOne(silo, v) /\ Result(None)
     \/ OutOfMemory(silo.len + 1)

\* pop and dequeue.
Take ==
  /\ Called /\ Mutable
  /\ silo.type \in {"stack", "queue"}
  /\ IF Empty THEN Error
     ELSE IF silo.type = "stack"
       THEN silo' = Pop(silo) /\ Result(<<silo.data[silo.len - 1]>>)
       ELSE silo' = Dequeue(silo) /\ Result(<<silo.data[silo.head]>>)

\* peep and peekq.
Peek ==
  /\ Called
  /\ silo.type \in {"stack", "queue"}
  /\ IF Empty THEN Error
     ELSE /\ Result(<<silo.data[IF silo.type = "stack" THEN silo.len - 1 ELSE silo.head]>>)
          /\ UNCHANGED silo

Place(pos, v) ==
  /\ Called /\ Mutable /\ silo.len < MaxLen
  /\ silo.type = "seq"
  /\ LET p == NormIndex(silo.len, pos, TRUE)
     IN  IF p = -1 THEN Error
         ELSE \/ silo' = PlaceAt(silo, p, v) /\ Result(None)
              \/ OutOfMemory(silo.len + 1)

Drop(pos) ==
  /\ Called /\ Mutable
  /\ silo.type = "seq"
  /\ LET p == NormIndex(silo.len, pos, FALSE)
     IN  IF p = -1 THEN Error
         ELSE silo' = DropAt(silo, p) /\ Result(<<silo.data[p]>>)

Swap(pa, pb) ==
  /\ Called /\ Mutable
  /\ silo.type = "seq"
  /\ LET a == NormIndex(silo.len, pa, FALSE)
         b == NormIndex(silo.len, pb, FALSE)
     IN  IF a = -1 \/ b = -1 THEN Error
         ELSE silo' = SwapAt(silo, a, b) /\ Result(None)

\* pick, and the elements a span returned by swath points at.
Pick(pos) ==
  /\ Called
  /\ silo.type = "seq"
  /\ LET p == NormIndex(silo.len, pos, FALSE)
     IN  IF p = -1 THEN Error ELSE Result(<<silo.data[p]>>) /\ UNCHANGED silo

SwopWith(v) ==
  /\ Called /\ Mutable /\ MaxLen > 0
  /\ \/ /\ silo' = Swop(silo, v)
        /\ Result(<<IF Empty THEN v ELSE silo.data[SwopCell(silo)]>>)
     \/ Empty /\ OutOfMemory(1)

Clear == Called /\ Mutable /\ silo' = Teem(silo) /\ Result(None)

\* cize and slen.
Count == Called /\ Result(<<silo.len>>) /\ UNCHANGED silo

\* efflate reserves without a new generation; what it reserves is bounded.
Efflate(size) ==
  /\ Called
  /\ silo.cap < MaxLen
  /\ \/ silo' = Grow(silo, size) /\ Result(None)
     \/ OutOfMemory(size)

Shrink ==
  /\ Called /\ Mutable
  /\ IF Empty THEN UNCHANGED silo /\ Result(None)
     ELSE (silo' = Tamp(silo) /\ Result(None)) \/ Error

Batches == UNION {[1..n -> Value] : n \in 1..MaxBatch}

BeginCram(data) ==
  todo = Idle /\ todo' = [op |-> "cram", data |-> data] /\ UNCHANGED <<silo, ret>>

BeginSpew(n) ==
  todo = Idle /\ todo' = [op |-> "spew", n |-> n, got |-> <<>>]
  /\ UNCHANGED <<silo, ret>>

\* One turn of the loop of cram: append the next element, or stop at the end
\* or at the first failure, keeping what was added before it.
CramStep ==
  /\ todo.op = "cram"
  /\ IF todo.data = <<>> \/ silo.len >= MaxLen \/ ~Mutable
       THEN todo' = Idle /\ Result(None) /\ UNCHANGED silo
       ELSE \/ /\ silo' = AppendOne(silo, Head(todo.data))
               /\ todo' = [todo EXCEPT !.data = Tail(@)]
               /\ UNCHANGED ret
            \/ OutOfMemory(silo.len + 1) /\ todo' = Idle

\* One turn of the loop of spew: take the front element, or stop when the
\* silo is empty or n were taken.
SpewStep ==
  /\ todo.op = "spew"
  /\ IF todo.n = 0 \/ Empty
       THEN todo' = Idle /\ Result(todo.got) /\ UNCHANGED silo
       ELSE /\ silo' = SpewOne(silo)
            /\ todo' = [todo EXCEPT !.n = @ - 1,
                                    !.got = Append(@, silo.data[silo.head])]
            /\ UNCHANGED ret

Init ==
  /\ \E type \in Types : silo = NewSilo(type)
  /\ todo = Idle
  /\ ret = [err |-> FALSE, val |-> None]

Next ==
  \/ \E v \in Value : Add(v) \/ SwopWith(v)
  \/ Take \/ Peek \/ Clear \/ Count \/ Shrink
  \/ \E pos \in Pos :
       \/ Drop(pos) \/ Pick(pos)
       \/ \E v \in Value : Place(pos, v)
       \/ \E pb \in Pos : Swap(pos, pb)
  \/ \E size \in 1..MaxLen : Efflate(size)
  \/ \E data \in Batches : BeginCram(data)
  \/ \E n \in 1..MaxBatch : BeginSpew(n)
  \/ CramStep \/ SpewStep

Spec == Init /\ [][Next]_vars

-----------------------------------------------------------------------------
(* Properties *)

\* The record keeps its shape: the occupied cells lie inside the storage and
\* the head inside it too (silo_t, as silo_grow and tamp leave it); a batch
\* only ever carries values.
TypeOK ==
  /\ IsSilo(silo) /\ silo.type \in Types
  /\ \/ todo = Idle
     \/ todo \in [op : {"cram"}, data : Seq(Value)]
     \/ todo \in [op : {"spew"}, n : Nat, got : Seq(Value)]

\* Growing, unwrapping, shifting and shrinking never expose a cell nobody
\* wrote: every element of the silo is a value some call stored (silo_grow,
\* seq_shift_right, seq_shift_left, tamp).
NoJunk == Stored(silo)

\* No call changes the sequence without a new generation: an iterator that
\* compares generations can trust equal ones (silo_touch in every mutator).
MutationTouches ==
  [][Elems(silo') # Elems(silo) => silo'.gen > silo.gen]_silo

\* The silo implements a plain finite sequence, call by call and result by
\* result, whatever its storage went through before.
Abstract == INSTANCE SeqSpec WITH items <- Elems(silo), type <- silo.type
ImplementsSequence == Abstract!Spec

\* silo.h says of swop on a queue "enqueue and dequeue (atomically exchange
\* one)": the oldest element goes out and the caller's comes in last.
SwopQueues ==
  [][\A v \in Value :
       silo.type = "queue" /\ ~Empty /\ SwopWith(v) /\ ~ret'.err =>
         Elems(silo') = Append(Tail(Elems(silo)), v)]_vars
=============================================================================
