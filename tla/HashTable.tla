----------------------------- MODULE HashTable -----------------------------
(***************************************************************************)
(* One live set or map used by one thread: every operation of              *)
(* src/silo_set.c and src/silo_map.c on a single table, with the hash      *)
(* halves of src/silo_common.c.  An add is a loop over the entries given;  *)
(* when the table is too full it first moves every entry to a larger one,  *)
(* a step for each old slot.                                               *)
(***************************************************************************)
EXTENDS HashOps, Sequences

CONSTANTS
  MaxCap,    (* bound: the arena cannot hold a larger table               *)
  MaxGen,    (* bound: no call that mutates begins at this generation     *)
  MaxBatch   (* bound: the longest batch given to cram                    *)

ASSUME BoundAssumption == MaxCap \in Nat /\ MaxGen \in Nat /\ MaxBatch \in Nat

VARIABLES
  ismap,  (* whether the table is a map or a set                          *)
  t,      (* the htab_t record                                            *)
  todo,   (* entries the call in progress has still to add                *)
  move,   (* the move to a new table in progress, as a record, or Still   *)
  ret     (* what the last call returned                                  *)

vars == <<ismap, t, todo, move, ret>>

Still    == [moving |-> FALSE]
Idle     == todo = <<>> /\ move = Still
Called   == Idle /\ UNCHANGED <<ismap, todo, move>>
Mutable  == t.gen < MaxGen
Ok(out, num) == ret' = [err |-> FALSE, out |-> out, num |-> num]
Done     == Ok({}, 0)
\* aden returned null: the call gives up and leaves the table as it is.
OutOfMemory == todo' = <<>> /\ ret' = [ret EXCEPT !.err = TRUE] /\ UNCHANGED <<t, move>>

\* The entries a call may bring: those of a set have no value of their own.
NoVal == CHOOSE v \in Val : TRUE
Given == IF ismap THEN Entry ELSE {e \in Entry : e.val = NoVal}

With(k) == IF Found(t, k) THEN {t.slot[Probe(t, k)]} ELSE {}

\* insert, adds, and cram over several entries.
BeginAdd(batch) ==
  /\ Idle /\ Mutable
  /\ todo' = batch
  /\ Done /\ UNCHANGED <<ismap, t, move>>

\* swop_setlike, swop_maplike: the first live entry leaves before the new
\* one is added; with none, swop is a plain add.
BeginSwop(e) ==
  /\ Idle /\ Mutable
  /\ todo' = <<e>>
  /\ IF Live(t.slot) = {}
       THEN Done /\ UNCHANGED t
       ELSE t' = Kill(t, FirstLive(t)) /\ Ok({t.slot[FirstLive(t)]}, 0)
  /\ UNCHANGED <<ismap, move>>

BeginRevamp(e) ==
  /\ Idle /\ Mutable
  /\ ismap
  /\ todo' = IF Found(t, e.key) THEN <<e>> ELSE <<>>
  /\ Done /\ UNCHANGED <<ismap, t, move>>

\* htab_maybe_grow, when it grows: the new table is allocated.
BeginGrow ==
  /\ todo # <<>> /\ move = Still
  /\ NeedsGrow(t)
  /\ \/ /\ GrownCap(t) <= MaxCap
        /\ move' = [moving |-> TRUE, cap |-> GrownCap(t), slot |-> Blank(GrownCap(t)), next |-> 0]
        /\ UNCHANGED <<t, todo, ret>>
     \/ OutOfMemory
  /\ UNCHANGED ismap

\* compact and tamp: the same move, to a table of the same size.
BeginCompact ==
  /\ Idle /\ Mutable
  /\ IF t.cap = 0 \/ t.len = 0
       THEN Done /\ UNCHANGED <<t, todo, move>>
       ELSE \/ /\ move' = [moving |-> TRUE, cap |-> t.cap, slot |-> Blank(t.cap), next |-> 0]
               /\ Done /\ UNCHANGED <<t, todo>>
            \/ OutOfMemory
  /\ UNCHANGED ismap

\* One turn of the loop over the old slots.
MoveSlot ==
  /\ move # Still
  /\ move.next < t.cap
  /\ move' = [move EXCEPT
       !.next = @ + 1,
       !.slot = IF IsLive(t.slot[move.next])
                  THEN Place(move.slot, move.cap, t.slot[move.next])
                  ELSE @]
  /\ UNCHANGED <<ismap, t, todo, ret>>

\* A faulty variant: the last slot is not moved.
EndMoveEarly ==
  /\ move # Still
  /\ move.next >= t.cap - 1
  /\ t' = Moved(t, move.slot, move.cap)
  /\ move' = Still
  /\ UNCHANGED <<ismap, todo, ret>>

EndMove ==
  /\ move # Still
  /\ move.next = t.cap
  /\ t' = Moved(t, move.slot, move.cap)
  /\ move' = Still
  /\ UNCHANGED <<ismap, todo, ret>>

\* A faulty variant: the loop does not get past an entry the set has.
AddNextStuck ==
  /\ todo # <<>> /\ move = Still
  /\ ~NeedsGrow(t)
  /\ IF Found(t, Head(todo).key) /\ ~ismap THEN UNCHANGED <<t, todo>>
     ELSE t' = Put(t, Head(todo)) /\ todo' = Tail(todo)
  /\ UNCHANGED <<ismap, move, ret>>

\* The add itself.  A set keeps the entry it has; a map always copies the
\* new bytes, and may find no memory for them.
AddNext ==
  /\ todo # <<>> /\ move = Still
  /\ ~NeedsGrow(t)
  /\ \/ /\ t' = IF Found(t, Head(todo).key) /\ ~ismap THEN t ELSE Put(t, Head(todo))
        /\ todo' = Tail(todo)
        /\ UNCHANGED <<move, ret>>
     \/ (ismap \/ ~Found(t, Head(todo).key)) /\ OutOfMemory
  /\ UNCHANGED ismap

\* lookup and mems.
Lookup(k) == Called /\ Ok(With(k), 0) /\ UNCHANGED t

\* oblit and dels.
Remove(k) ==
  /\ Called /\ Mutable
  /\ IF Found(t, k) THEN t' = Kill(t, Probe(t, k)) /\ Ok({}, 1)
     ELSE UNCHANGED t /\ Done

\* spew: the first n live slots lose their entries, one touch for each.
Spew(n) ==
  /\ Called /\ Mutable
  /\ LET out == {i \in Live(t.slot) : Cardinality({j \in Live(t.slot) : j < i}) < n}
     IN  /\ t' = [t EXCEPT !.slot = [i \in DOMAIN @ |-> IF i \in out THEN Tomb ELSE @[i]],
                           !.len = @ - Cardinality(out),
                           !.tombs = @ + Cardinality(out),
                           !.gen = @ + Cardinality(out)]
         /\ Ok({t.slot[i] : i \in out}, Cardinality(out))

Clear == Called /\ Mutable /\ t' = Teem(t) /\ Done

\* carten.
Count == Called /\ Ok({}, t.len) /\ UNCHANGED t

Init ==
  /\ ismap \in BOOLEAN
  /\ t = NewTable /\ todo = <<>> /\ move = Still
  /\ ret = [err |-> FALSE, out |-> {}, num |-> 0]

Batches == UNION {[1..n -> Given] : n \in 1..MaxBatch}

Running == BeginGrow \/ MoveSlot \/ EndMove \/ AddNext

Next ==
  \/ Running \/ BeginCompact \/ Clear \/ Count
  \/ \E batch \in Batches : BeginAdd(batch)
  \/ \E e \in Given : BeginSwop(e) \/ BeginRevamp(e)
  \/ \E k \in Key : Lookup(k) \/ Remove(k)
  \/ \E n \in 1..MaxBatch : Spew(n)

Spec == Init /\ [][Next]_vars

\* A call, once made, runs to its end.
FairSpec == Spec /\ WF_vars(Running)

-----------------------------------------------------------------------------
(* Properties *)

\* The table keeps its shape, and its two counters count what they say: the
\* load test, and with it every probe, relies on them.
TypeOK ==
  /\ ismap \in BOOLEAN
  /\ t \in [cap : Nat, slot : [0..(t.cap - 1) -> Entry \cup {Empty, Tomb}],
            len : Nat, tombs : Nat, gen : Nat]
  /\ t.len = Cardinality(Live(t.slot)) /\ t.tombs = Cardinality(Dead(t.slot))
  /\ todo \in Seq(Entry)
  /\ move = Still \/ move \in [moving : {TRUE}, cap : Nat, next : 0..t.cap,
                               slot : [0..(move.cap - 1) -> Entry \cup {Empty}]]

\* A table always has an empty slot, whatever mixture of adds, deletions,
\* moves and failures it went through: the loop of htab_probe, which has no
\* other bound, ends, and so does that of htab_slot_for.
ProbeEnds ==
  /\ t.cap > 0 => \E i \in DOMAIN t.slot : t.slot[i] = Empty
  /\ move # Still => \E i \in DOMAIN move.slot : move.slot[i] = Empty

\* A search for the key of any entry arrives at that entry: no tombstone,
\* empty slot or second entry of the key comes first, although entries are
\* deleted and slots reused in every order.
EveryEntryFound ==
  \A i \in Live(t.slot) : Found(t, t.slot[i].key) /\ Probe(t, t.slot[i].key) = i

\* No slot changes under an unchanged generation, which is all an iterator
\* looks at.
MutationTouches == [][t'.slot # t.slot => t'.gen > t.gen]_t

\* Call by call the table is a set of entries with distinct keys.
Abstract == INSTANCE KeyStore WITH store <- Entries(t.slot)
ImplementsStore == Abstract!Spec

\* Every call returns, however often it has to grow the table.
CallsEnd == todo # <<>> \/ move # Still ~> Idle
=============================================================================
