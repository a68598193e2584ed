------------------------------ MODULE KeyStore ------------------------------
(***************************************************************************)
(* What a set or a map promises its client: a set of entries, at most one  *)
(* for each key, with no order, capacity or tombstones in sight.  A set is *)
(* a store whose entries all have the same value.                          *)
(***************************************************************************)
EXTENDS Integers, Sequences, FiniteSets

CONSTANTS Key, Val

VARIABLES
  ismap,   (* whether it is a map or a set, fixed when it is made         *)
  store,   (* the entries                                                 *)
  todo,    (* entries the call in progress has still to add               *)
  ret      (* what the last call returned: the entries it handed out, a
              number or a truth value, and whether it failed              *)

vars == <<ismap, store, todo, ret>>

Entry  == [key : Key, val : Val]
Ok(out, num) == ret' = [err |-> FALSE, out |-> out, num |-> num]
Done         == Ok({}, 0)
Called == todo = <<>> /\ UNCHANGED todo

With(k) == {e \in store : e.key = k}

\* A call that adds entries: one (insert, adds), several (cram), or one in
\* exchange for an entry of the store (swop).
BeginAdd == todo = <<>> /\ todo' \in Seq(Entry) /\ Done /\ UNCHANGED store

BeginSwop(e) ==
  /\ todo = <<>> /\ todo' = <<e>>
  /\ \E out \in store : store' = store \ {out} /\ Ok({out}, 0)

\* The next entry replaces the one with its key - except in a set, where
\* that changes nothing - or memory has run out and the rest is not added.
AddNext ==
  /\ todo # <<>>
  /\ \/ /\ LET e == Head(todo)
           IN  store' = IF With(e.key) # {} /\ ~ismap THEN store
                        ELSE (store \ With(e.key)) \cup {e}
        /\ todo' = Tail(todo)
        /\ UNCHANGED ret
     \/ store' = store /\ todo' = <<>> /\ ret' = [ret EXCEPT !.err = TRUE]

Lookup(k) == Called /\ Ok(With(k), 0) /\ UNCHANGED store

Remove(k) == Called /\ store' = store \ With(k) /\ Ok({}, IF With(k) # {} THEN 1 ELSE 0)

\* revamp: an existing key takes a new value, an absent one stays absent.
BeginRevamp(e) ==
  /\ todo = <<>>
  /\ todo' = IF With(e.key) # {} THEN <<e>> ELSE <<>>
  /\ Done /\ UNCHANGED store

\* spew: n entries, whichever the implementation comes across first.
Spew(n) ==
  /\ Called
  /\ \E out \in SUBSET store :
       /\ Cardinality(out) = n
       /\ store' = store \ out
       /\ Ok(out, n)

Clear == Called /\ store' = {} /\ Done
Count == Called /\ Ok({}, Cardinality(store)) /\ UNCHANGED store

\* compact and tamp.
Compact == Called /\ UNCHANGED store /\ ret'.err \in BOOLEAN

Init ==
  /\ ismap \in BOOLEAN
  /\ store = {} /\ todo = <<>> /\ ret = [err |-> FALSE, out |-> {}, num |-> 0]

Operation ==
  \/ BeginAdd \/ AddNext \/ Clear \/ Count \/ Compact
  \/ \E e \in Entry : BeginSwop(e) \/ BeginRevamp(e)
  \/ \E k \in Key : Lookup(k) \/ Remove(k)
  \/ \E n \in 0..Cardinality(store) : Spew(n)

Next == Operation /\ UNCHANGED ismap

Spec == Init /\ [][Next]_vars
=============================================================================
