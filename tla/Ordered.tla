------------------------------ MODULE Ordered ------------------------------
(***************************************************************************)
(* What the ordered structures of nexus.h promise (skiplist, indeltree,    *)
(* retrxtree): a sequence of entries in the order of their keys, equals in *)
(* the order they came.  An entry's id is not given out again.             *)
(***************************************************************************)
EXTENDS Naturals, SequencesExt

CONSTANT Key

VARIABLES entries,  \* records of an id and a key
          used      \* the ids given out so far

\* Entries below a key, or not above it.
Below(k) == SelectSeq(entries, LAMBDA e : e.key < k)
UpTo(k) == SelectSeq(entries, LAMBDA e : e.key <= k)
From(k) == SelectSeq(entries, LAMBDA e : e.key >= k)
Beyond(k) == SelectSeq(entries, LAMBDA e : e.key > k)
Equal(k) == SelectSeq(entries, LAMBDA e : e.key = k)

Drop(ids) == entries' = SelectSeq(entries, LAMBDA e : e.id \notin ids)
IdsOf(es) == {es[i].id : i \in DOMAIN es}

Init == entries = <<>> /\ used = {}

Put(id, k) == /\ id \notin used
              /\ entries' = UpTo(k) \o <<[id |-> id, key |-> k]>> \o Beyond(k)
              /\ used' = used \cup {id}

Del(id) == id \in IdsOf(entries) /\ Drop({id}) /\ UNCHANGED used

\* The run of equals from the i-th entry on goes; or all equals but the
\* first n.
DelRun(i) == LET e == entries[i]
                 run == SubSeq(entries, i, Len(UpTo(e.key)))
             IN  Drop(IdsOf(run)) /\ UNCHANGED used

DelEquals(k, n) == LET run == SubSeq(Equal(k), n + 1, Len(Equal(k)))
                   IN  Drop(IdsOf(run)) /\ UNCHANGED used

Clear == entries' = <<>> /\ used' = {}

Next == \/ \E id \in used' \ used, k \in Key : Put(id, k)
        \/ \E id \in used : Del(id)
        \/ \E i \in DOMAIN entries : DelRun(i)
        \/ \E k \in Key : \E n \in 0..Len(Equal(k)) : DelEquals(k, n)
        \/ Clear

Spec == Init /\ [][Next]_<<entries, used>>
=============================================================================
