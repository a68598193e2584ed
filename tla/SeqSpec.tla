------------------------------- MODULE SeqSpec -------------------------------
(***************************************************************************)
(* What a linear silo promises its client: a finite sequence, operated on  *)
(* at its ends or at an index, with storage nowhere in sight.  Every       *)
(* operation that may need memory may also fail and then changes nothing.  *)
(***************************************************************************)
EXTENDS Integers, Sequences

CONSTANTS Value, Types, MaxLen

VARIABLES
  type,    (* the kind of silo, fixed when it is made                     *)
  items,   (* the elements, oldest or bottom first                        *)
  todo,    (* a batch in progress: elements still to add, or to take      *)
  ret      (* what the last call handed back: [err, val]                  *)

vars == <<type, items, todo, ret>>

None   == <<>>
Idle   == [op |-> "idle"]
Ok(v)  == ret' = [err |-> FALSE, val |-> v]
Fail   == ret' = [err |-> TRUE, val |-> None] /\ UNCHANGED items
Called == todo = Idle /\ UNCHANGED todo

Index(pos) == IF pos < 0 THEN pos + Len(items) ELSE pos
Inside(pos) == Index(pos) \in 0..(Len(items) - 1)

Add(v) ==
  /\ Called
  /\ \/ items' = Append(items, v) /\ Ok(None)
     \/ Fail

\* pop and dequeue: the last element of a stack, the first of a queue.
Take ==
  /\ Called
  /\ type \in {"stack", "queue"}
  /\ IF items = <<>> THEN Fail
     ELSE IF type = "stack"
       THEN Ok(<<items[Len(items)]>>) /\ items' = SubSeq(items, 1, Len(items) - 1)
       ELSE Ok(<<items[1]>>) /\ items' = SubSeq(items, 2, Len(items))

Peek ==
  /\ Called
  /\ type \in {"stack", "queue"}
  /\ IF items = <<>> THEN Fail
     ELSE /\ Ok(<<IF type = "stack" THEN items[Len(items)] ELSE items[1]>>)
          /\ UNCHANGED items

Place(pos, v) ==
  /\ Called
  /\ type = "seq"
  /\ \/ /\ Index(pos) \in 0..Len(items)
        /\ items' = [i \in 1..(Len(items) + 1) |->
                       IF i <= Index(pos) THEN items[i]
                       ELSE IF i = Index(pos) + 1 THEN v ELSE items[i - 1]]
        /\ Ok(None)
     \/ Fail

Drop(pos) ==
  /\ Called
  /\ type = "seq"
  /\ IF ~Inside(pos) THEN Fail
     ELSE /\ items' = [i \in 1..(Len(items) - 1) |->
                         IF i <= Index(pos) THEN items[i] ELSE items[i + 1]]
          /\ Ok(<<items[Index(pos) + 1]>>)

Swap(pa, pb) ==
  /\ Called
  /\ type = "seq"
  /\ IF ~(Inside(pa) /\ Inside(pb)) THEN Fail
     ELSE /\ items' = [items EXCEPT ![Index(pa) + 1] = items[Index(pb) + 1],
                                    ![Index(pb) + 1] = items[Index(pa) + 1]]
          /\ Ok(None)

Pick(pos) ==
  /\ Called
  /\ type = "seq"
  /\ IF Inside(pos) THEN Ok(<<items[Index(pos) + 1]>>) /\ UNCHANGED items ELSE Fail

\* swop exchanges the element a stack or sequence gives up last, a queue first.
\* A queue's newcomer takes that element's place at the front, as the code has
\* it; silo.h speaks of an enqueue (SwopQueues of LinearSilo is about that).
Swop(v) ==
  /\ Called
  /\ IF items = <<>>
       THEN (items' = <<v>> /\ Ok(<<v>>)) \/ Fail
       ELSE LET i == IF type = "queue" THEN 1 ELSE Len(items)
            IN  items' = [items EXCEPT ![i] = v] /\ Ok(<<items[i]>>)

Clear == Called /\ items' = <<>> /\ Ok(None)

Count == Called /\ Ok(<<Len(items)>>) /\ UNCHANGED items

\* efflate and tamp change the storage, never the sequence.
Resize == Called /\ UNCHANGED items /\ (Ok(None) \/ Fail)

BeginBatch ==
  /\ todo = Idle
  /\ todo'.op \in {"cram", "spew"}
  /\ UNCHANGED <<items, ret>>

\* One element of a batch: added at the end or taken from the front.
BatchStep ==
  \/ /\ todo.op = "cram"
     /\ \/ /\ todo.data # <<>>
           /\ items' = Append(items, Head(todo.data))
           /\ todo' = [todo EXCEPT !.data = Tail(@)]
           /\ UNCHANGED ret
        \/ todo' = Idle /\ ret'.err \in BOOLEAN /\ UNCHANGED items
  \/ /\ todo.op = "spew"
     /\ IF todo.n > 0 /\ items # <<>>
          THEN /\ items' = Tail(items)
               /\ todo' = [todo EXCEPT !.n = @ - 1, !.got = Append(@, Head(items))]
               /\ UNCHANGED ret
          ELSE Ok(todo.got) /\ todo' = Idle /\ UNCHANGED items

Init ==
  /\ type \in Types /\ items = <<>>
  /\ todo = Idle /\ ret = [err |-> FALSE, val |-> None]

Operation ==
  \/ \E v \in Value : Add(v) \/ Swop(v)
  \/ Take \/ Peek \/ Clear \/ Count \/ Resize \/ BeginBatch \/ BatchStep
  \/ \E pos \in -(MaxLen + 1)..(MaxLen + 1) :
       \/ Drop(pos) \/ Pick(pos)
       \/ \E v \in Value : Place(pos, v)
       \/ \E pb \in -(MaxLen + 1)..(MaxLen + 1) : Swap(pos, pb)

Next == Operation /\ UNCHANGED type

Spec == Init /\ [][Next]_vars
=============================================================================
