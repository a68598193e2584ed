--------------------------- MODULE HashTableProofs ---------------------------
(***************************************************************************)
(* Proofs about HashTable for every set of keys and values, every hash     *)
(* function, initial size and load limit below one, and every bound.       *)
(***************************************************************************)
EXTENDS HashTable, HashOpsProofs

-----------------------------------------------------------------------------
(* The inductive invariant *)

MoveOk == move # Still => MoveGood(t, move)
IInv   == ismap \in BOOLEAN /\ GoodTable(t) /\ todo \in Seq(Entry) /\ MoveOk

\* A table before any call is in order.
LEMMA InitGood == Init => IInv
  BY NewGood DEF Init, IInv, MoveOk

\* What every step does to the table: it stays in order, and its slots only
\* change under a new generation.
Advance == GoodTable(t') /\ (t'.slot # t.slot => t'.gen > t.gen)

\* A step to a table in order whose generation is one more advances.
LEMMA OneMore ==
  ASSUME GoodTable(t), GoodTable(t'), t'.gen = t.gen + 1
  PROVE  Advance
  <1>1. t.gen \in Nat
    BY DEF GoodTable, IsTable
  <1> QED BY <1>1 DEF Advance

\* Every step keeps the table in order, and changed slots have a new generation.
LEMMA NextAdvance == IInv /\ [Next]_vars => Advance
  <1> SUFFICES ASSUME IInv, [Next]_vars PROVE Advance
    OBVIOUS
  <1>1. GoodTable(t) /\ t.cap \in Nat /\ t.slot \in SlotsOf(t.cap) /\ t.gen \in Nat
    BY DEF IInv, GoodTable, IsTable
  <1>2. CASE UNCHANGED t
    BY <1>1, <1>2 DEF Advance
  <1>3. ASSUME NEW batch \in Batches, BeginAdd(batch) PROVE Advance
    BY <1>2, <1>3 DEF BeginAdd
  <1>4. ASSUME NEW e \in Given, BeginSwop(e) PROVE Advance
    <2>1. CASE Live(t.slot) = {}
      BY <1>2, <1>4, <2>1 DEF BeginSwop
    <2>2. CASE Live(t.slot) # {}
      <3>1. Live(t.slot) \subseteq Nat
        BY <1>1 DEF Live, SlotsOf
      <3>2. PICK i \in Live(t.slot) : \A j \in Live(t.slot) : i <= j
        BY <2>2, <3>1, LeastOf
      <3>3. FirstLive(t) \in Live(t.slot)
        BY <3>2 DEF FirstLive
      <3>4. t' = Kill(t, FirstLive(t))
        BY <1>4, <2>2 DEF BeginSwop
      <3> QED BY <1>1, <3>3, <3>4, KillGood, OneMore
    <2> QED BY <2>1, <2>2
  <1>5. ASSUME NEW e \in Given, BeginRevamp(e) PROVE Advance
    BY <1>2, <1>5 DEF BeginRevamp
  <1>6. CASE BeginGrow \/ BeginCompact \/ MoveSlot \/ Count
    BY <1>2, <1>6 DEF BeginGrow, BeginCompact, MoveSlot, Count, OutOfMemory
  <1>7. CASE EndMove
    <2>1. /\ MoveGood(t, move) /\ move.next = t.cap
          /\ t' = Moved(t, move.slot, move.cap)
      BY <1>7 DEF EndMove, IInv, MoveOk
    <2> QED BY <1>1, <2>1, EndGood, OneMore
  <1>8. CASE AddNext
    <2>1. CASE t' = t
      BY <1>2, <2>1
    <2>2. CASE t' # t
      <3>1. todo # <<>> /\ ~NeedsGrow(t) /\ t' = Put(t, Head(todo))
        BY <1>8, <2>2 DEF AddNext, OutOfMemory
      <3>2. Head(todo) \in Entry
        BY <3>1 DEF IInv
      <3> QED BY <1>1, <3>1, <3>2, PutGood, OneMore
    <2> QED BY <2>1, <2>2
  <1>9. ASSUME NEW k \in Key, Lookup(k) PROVE Advance
    BY <1>2, <1>9 DEF Lookup
  <1>10. ASSUME NEW k \in Key, Remove(k) PROVE Advance
    <2>1. CASE ~Found(t, k)
      BY <1>2, <1>10, <2>1 DEF Remove
    <2>2. CASE Found(t, k)
      <3>1. t.cap > 0
        BY <2>2 DEF Found
      <3>2. \E i \in 0..(t.cap - 1) : t.slot[i] = Empty
        BY <1>1, <3>1, RoomForProbe DEF GoodTable
      <3>3. Probe(t, k) \in 0..(t.cap - 1) /\ IsLive(t.slot[Probe(t, k)])
        BY <1>1, <2>2, <3>2, ProbeAnswers
      <3>4. Probe(t, k) \in Live(t.slot)
        BY <1>1, <3>3 DEF Live, SlotsOf
      <3>5. t' = Kill(t, Probe(t, k))
        BY <1>10, <2>2 DEF Remove
      <3> QED BY <1>1, <3>4, <3>5, KillGood, OneMore
    <2> QED BY <2>1, <2>2
  <1>11. ASSUME NEW n \in 1..MaxBatch, Spew(n) PROVE Advance
    <2> DEFINE out == {i \in Live(t.slot) : Cardinality({j \in Live(t.slot) : j < i}) < n}
    <2>1. /\ out \subseteq Live(t.slot)
          /\ t' = [t EXCEPT !.slot = [i \in DOMAIN @ |-> IF i \in out THEN Tomb ELSE @[i]],
                            !.len = @ - Cardinality(out),
                            !.tombs = @ + Cardinality(out),
                            !.gen = @ + Cardinality(out)]
      BY <1>11 DEF Spew
    <2> HIDE DEF out
    <2>2. GoodTable(t') /\ Cardinality(out) \in Nat /\ t'.gen = t.gen + Cardinality(out)
      BY <1>1, <2>1, SpewGood
    <2>3. CASE out = {}
      <3>1. t \in [cap : Nat, slot : SlotsOf(t.cap), len : Nat, tombs : Nat, gen : Nat]
        BY <1>1 DEF GoodTable, IsTable
      <3>2. t'.slot = [i \in DOMAIN t.slot |-> IF i \in out THEN Tomb ELSE t.slot[i]]
        BY <2>1, <3>1
      <3>3. t'.slot = t.slot
        BY <1>1, <2>3, <3>2 DEF SlotsOf
      <3> QED BY <2>2, <3>3 DEF Advance
    <2>4. CASE out # {}
      <3>1. IsFiniteSet(out)
        BY <1>1, <2>1, SlotsCounted, FS_Subset
      <3>2. Cardinality(out) # 0
        BY <2>4, <3>1, FS_EmptySet
      <3> QED BY <1>1, <2>2, <3>2 DEF Advance
    <2> QED BY <2>3, <2>4
  <1>12. CASE Clear
    <2>1. t' = Teem(t)
      BY <1>12 DEF Clear
    <2> QED BY <1>1, <2>1, TeemGood, OneMore
  <1> QED
    BY <1>2, <1>3, <1>4, <1>5, <1>6, <1>7, <1>8, <1>9, <1>10, <1>11, <1>12
    DEF Next, Running, vars

\* A table stays the set or the map it was made as.
LEMMA NextKind == [Next]_vars => ismap' = ismap
  BY DEF Next, Running, vars, Called, BeginAdd, BeginSwop, BeginRevamp, BeginGrow,
     BeginCompact, MoveSlot, EndMove, AddNext, Lookup, Remove, Spew, Clear, Count

\* The entries still to add are entries.
LEMMA NextTodo == IInv /\ [Next]_vars => (todo \in Seq(Entry))'
  <1> SUFFICES ASSUME IInv, [Next]_vars PROVE todo' \in Seq(Entry)
    OBVIOUS
  <1>1. todo \in Seq(Entry) /\ <<>> \in Seq(Entry)
    BY DEF IInv
  <1>2. CASE UNCHANGED todo
    BY <1>1, <1>2
  <1>3. ASSUME NEW batch \in Batches, BeginAdd(batch) PROVE todo' \in Seq(Entry)
    <2>1. batch \in Seq(Entry)
      BY BoundAssumption DEF Batches, Given
    <2> QED BY <1>3, <2>1 DEF BeginAdd
  <1>4. ASSUME NEW e \in Given, BeginSwop(e) \/ BeginRevamp(e) PROVE todo' \in Seq(Entry)
    <2>1. <<e>> \in Seq(Entry)
      BY DEF Given
    <2> QED BY <1>1, <1>4, <2>1 DEF BeginSwop, BeginRevamp
  <1>5. CASE BeginGrow \/ BeginCompact
    BY <1>1, <1>5 DEF BeginGrow, BeginCompact, OutOfMemory
  <1>6. CASE AddNext
    <2>1. todo # <<>> => Tail(todo) \in Seq(Entry)
      BY <1>1
    <2> QED BY <1>1, <1>6, <2>1 DEF AddNext, OutOfMemory
  <1> QED
    BY <1>2, <1>3, <1>4, <1>5, <1>6
    DEF Next, Running, vars, Called, MoveSlot, EndMove, Lookup, Remove, Spew, Clear, Count

\* A move in progress stays faithful to the table it copies.
LEMMA NextMove == IInv /\ [Next]_vars => MoveOk'
  <1> SUFFICES ASSUME IInv, [Next]_vars PROVE MoveOk'
    OBVIOUS
  <1>1. /\ GoodTable(t) /\ MoveOk /\ t.cap \in Nat /\ t.slot \in SlotsOf(t.cap) /\ t.len \in Nat
        /\ t.tombs \in Nat /\ t.len = Cardinality(Live(t.slot))
    BY DEF IInv, GoodTable, IsTable, Counted
  <1>2. CASE UNCHANGED <<t, move>>
    BY <1>1, <1>2 DEF MoveOk
  <1>3. CASE move' = Still
    BY <1>3 DEF MoveOk
  <1>4. CASE BeginGrow
    <2>1. CASE UNCHANGED <<t, move>>
      BY <1>2, <2>1
    <2>2. CASE ~UNCHANGED <<t, move>>
      <3> DEFINE c == GrownCap(t)
      <3>1. /\ t' = t
            /\ move' = [moving |-> TRUE, cap |-> c, slot |-> Blank(c), next |-> 0]
        BY <1>4, <2>2 DEF BeginGrow, OutOfMemory
      <3>2. c \in Nat /\ Slack(c) /\ t.len < c
        <4>1. CASE t.cap = 0
          <5>1. c = InitCap /\ Slack(InitCap) /\ InitCap \in Nat
            BY <4>1, LoadAssumption DEF GrownCap, Slack
          <5>2. InitCap > 0
            BY LoadAssumption
          <5>3. t.len <= t.cap
            BY <1>1, SlotsCounted
          <5> QED BY <1>1, <4>1, <5>1, <5>2, <5>3
        <4>2. CASE t.cap # 0
          <5>1. c = 2 * t.cap /\ Slack(t.cap) /\ t.len + t.tombs < t.cap
            BY <1>1, <4>2 DEF GrownCap, GoodTable, Roomy
          <5>2. LoadD - LoadN \in Nat /\ LoadD \in Nat
            BY LoadAssumption
          <5>3. Slack(2 * t.cap)
            BY <1>1, <5>1, <5>2, DoubleRoom DEF Slack
          <5> QED BY <1>1, <5>1, <5>3
        <4> QED BY <4>1, <4>2
      <3> HIDE DEF c
      <3>3. MoveGood(t, move')
        BY <1>1, <3>1, <3>2, OpenGood
      <3> QED BY <3>1, <3>3 DEF MoveOk
    <2> QED BY <2>1, <2>2
  <1>5. CASE BeginCompact
    <2>1. CASE UNCHANGED <<t, move>>
      BY <1>2, <2>1
    <2>2. CASE ~UNCHANGED <<t, move>>
      <3>1. /\ t' = t /\ t.cap # 0
            /\ move' = [moving |-> TRUE, cap |-> t.cap, slot |-> Blank(t.cap), next |-> 0]
        BY <1>5, <2>2 DEF BeginCompact, OutOfMemory
      <3>2. Slack(t.cap) /\ t.len < t.cap
        BY <1>1, <3>1 DEF GoodTable, Roomy
      <3>3. MoveGood(t, move')
        BY <1>1, <3>1, <3>2, OpenGood
      <3> QED BY <3>1, <3>3 DEF MoveOk
    <2> QED BY <2>1, <2>2
  <1>6. CASE MoveSlot
    <2>1. /\ t' = t /\ MoveGood(t, move) /\ move.next < t.cap
          /\ move' = [move EXCEPT
               !.next = @ + 1,
               !.slot = IF IsLive(t.slot[move.next])
                          THEN Place(move.slot, move.cap, t.slot[move.next])
                          ELSE @]
      BY <1>1, <1>6 DEF MoveSlot, MoveOk
    <2>2. MoveGood(t, move')
      BY <1>1, <2>1, StepGood
    <2> QED BY <2>1, <2>2 DEF MoveOk
  <1>7. CASE Idle /\ UNCHANGED move
    BY <1>3, <1>7 DEF Idle
  <1>8. CASE AddNext
    BY <1>3, <1>8 DEF AddNext, OutOfMemory
  <1> QED
    BY <1>2, <1>3, <1>4, <1>5, <1>6, <1>7, <1>8
    DEF Next, Running, vars, Called, EndMove, BeginAdd, BeginSwop, BeginRevamp,
        Lookup, Remove, Spew, Clear, Count

\* The invariant holds in every state.
LEMMA InvariantHolds == Spec => []IInv
  <1>1. IInv /\ [Next]_vars => IInv'
    BY NextKind, NextAdvance, NextTodo, NextMove DEF IInv, Advance
  <1> QED BY <1>1, InitGood, PTL DEF Spec

-----------------------------------------------------------------------------
(* Theorems *)

\* For every hash function, load limit below one and sequence of calls, the
\* table keeps its shape and its two counters count its entries and
\* tombstones, in the middle of a move too.
THEOREM TypeCorrect == Spec => []TypeOK
  <1>1. IInv => TypeOK
    BY DEF IInv, GoodTable, IsTable, Counted, SlotsOf, MoveOk, MoveGood, TypeOK
  <1> QED BY <1>1, InvariantHolds, PTL

\* A table with storage, and a new one being filled, has an empty slot, so
\* the unbounded loops of htab_probe and htab_slot_for end.
THEOREM ProbingTerminates == Spec => []ProbeEnds
  <1>1. IInv => ProbeEnds
    <2> SUFFICES ASSUME IInv PROVE ProbeEnds
      OBVIOUS
    <2>1. GoodTable(t) /\ t.slot \in SlotsOf(t.cap) /\ DOMAIN t.slot = 0..(t.cap - 1)
      BY DEF IInv, GoodTable, IsTable, SlotsOf
    <2>2. t.cap > 0 => \E i \in DOMAIN t.slot : t.slot[i] = Empty
      BY <2>1, RoomForProbe DEF GoodTable
    <2>3. ASSUME move # Still PROVE \E i \in DOMAIN move.slot : move.slot[i] = Empty
      <3>1. MoveGood(t, move)
        BY <2>3 DEF IInv, MoveOk
      <3> QED BY <2>1, <3>1, MoveRoom DEF SlotsOf
    <2> QED BY <2>2, <2>3 DEF ProbeEnds
  <1> QED BY <1>1, InvariantHolds, PTL

\* A search for the key of any entry arrives at that entry, whatever was
\* added, deleted and moved before.
THEOREM EntriesFound == Spec => []EveryEntryFound
  <1>1. IInv => EveryEntryFound
    <2> SUFFICES ASSUME IInv PROVE EveryEntryFound
      OBVIOUS
    <2>1. t.cap \in Nat /\ t.slot \in SlotsOf(t.cap) /\ Sound(t.cap, t.slot)
      BY DEF IInv, GoodTable, IsTable
    <2> QED BY <2>1, SoundFinds DEF EveryEntryFound
  <1> QED BY <1>1, InvariantHolds, PTL

\* No slot changes under an unchanged generation.
THEOREM ChangesCounted == Spec => MutationTouches
  <1>1. IInv /\ [Next]_vars => [t'.slot # t.slot => t'.gen > t.gen]_t
    BY NextAdvance DEF Advance
  <1> QED BY <1>1, InvariantHolds, PTL DEF Spec, MutationTouches
-----------------------------------------------------------------------------
(* The table implements the plain store of KeyStore. *)

\* What a call returns says whether the call failed.
RetOk == "err" \in DOMAIN ret

\* A result that reports a failure says so.
LEMMA RetFails ==
  RetOk => /\ "err" \in DOMAIN [ret EXCEPT !.err = TRUE]
           /\ [ret EXCEPT !.err = TRUE].err \in BOOLEAN
  <1> SUFFICES ASSUME RetOk
               PROVE  /\ "err" \in DOMAIN [ret EXCEPT !.err = TRUE]
                      /\ [ret EXCEPT !.err = TRUE].err \in BOOLEAN
    OBVIOUS
  <1>1. DOMAIN [ret EXCEPT !.err = TRUE] = DOMAIN ret
    OBVIOUS
  <1>2. [ret EXCEPT !.err = TRUE].err = TRUE
    BY Zenon DEF RetOk
  <1> QED BY <1>1, <1>2 DEF RetOk

\* So does that of a call that went through.
LEMMA RetGives ==
  ASSUME NEW r, NEW out, NEW num, r = [err |-> FALSE, out |-> out, num |-> num]
  PROVE  "err" \in DOMAIN r /\ r.err \in BOOLEAN
  <1>1. "err" \in DOMAIN r
    OBVIOUS
  <1>2. r.err = FALSE
    BY Zenon
  <1> QED BY <1>1, <1>2

\* The number of elements is what KeyStore, too, means by it.
LEMMA SameCardinality == \A S : Abstract!Cardinality(S) = Cardinality(S)
  BY DEF Abstract!Cardinality, Cardinality

\* Every step leaves such a result.
LEMMA NextRet == RetOk /\ [Next]_vars => RetOk'
  <1> SUFFICES ASSUME RetOk, [Next]_vars PROVE RetOk'
    OBVIOUS
  <1>1. CASE UNCHANGED ret
    BY <1>1 DEF RetOk
  <1>2. CASE OutOfMemory
    BY <1>2, RetFails DEF OutOfMemory, RetOk
  <1>3. CASE \E out, num : Ok(out, num)
    BY <1>3, RetGives DEF Ok, RetOk
  <1> QED
    BY <1>1, <1>2, <1>3
    DEF Next, Running, vars, BeginAdd, BeginSwop, BeginRevamp, BeginGrow, BeginCompact, MoveSlot,
        EndMove, AddNext, Lookup, Remove, Spew, Clear, Count, Done

\* A new table is an empty store.
LEMMA InitImplements == Init => Abstract!Init
  <1> SUFFICES ASSUME Init PROVE Abstract!Init
    OBVIOUS
  <1>1. t = NewTable
    BY DEF Init
  <1>2. Live(t.slot) = {}
    BY <1>1 DEF NewTable, Live
  <1>3. Entries(t.slot) = {}
    BY <1>2 DEF Entries
  <1> QED BY <1>3 DEF Init, Abstract!Init

\* Every step is a step of the plain store, or none.
LEMMA NextImplements == IInv /\ RetOk /\ [Next]_vars => [Abstract!Next]_(Abstract!vars)
  <1> SUFFICES ASSUME IInv, RetOk, [Next]_vars PROVE [Abstract!Next]_(Abstract!vars)
    OBVIOUS
  <1> DEFINE S == Entries(t.slot)
  <1>k. ismap' = ismap
    BY NextKind
  <1>g. GoodTable(t) /\ t.cap \in Nat /\ t.slot \in SlotsOf(t.cap) /\ todo \in Seq(Entry)
    BY DEF IInv, GoodTable, IsTable
  <1>p. S' = Entries(t'.slot)
    BY DEF Entries, Live, IsLive
  <1>c. IsFiniteSet(S) /\ Cardinality(S) = t.len /\ t.len \in Nat
    BY <1>g, StoreCount DEF GoodTable, IsTable
  <1>w. \A k \in Key : Abstract!With(k) = With(k) /\ (With(k) # {} <=> Found(t, k))
    BY <1>g, SearchExact DEF Abstract!With, With
  <1>i. Given \subseteq Entry /\ Abstract!Entry = Entry
    BY DEF Given, Abstract!Entry, Entry
  <1>e. \A e \in Entry : e.key \in Key
    BY DEF Entry
  <1>o. ASSUME Abstract!Operation PROVE [Abstract!Next]_(Abstract!vars)
    BY <1>o, <1>k DEF Abstract!Next
  <1>u. t' = t => S' = S
    BY <1>p
  <1>s. S' = S /\ UNCHANGED <<todo, ret>> => UNCHANGED Abstract!vars
    BY <1>k DEF Abstract!vars
  <1>m. ret' = [ret EXCEPT !.err = TRUE] => ret'.err \in BOOLEAN
    BY RetFails
  <1> USE DEF Idle, Called, Done, Ok, Abstract!Called, Abstract!Done, Abstract!Ok
  <1>f. ASSUME OutOfMemory, todo # <<>> PROVE Abstract!AddNext
    BY <1>f, <1>u DEF OutOfMemory, Abstract!AddNext
  <1>1. ASSUME NEW batch \in Batches, BeginAdd(batch) PROVE Abstract!BeginAdd
    <2>1. batch \in Seq(Abstract!Entry)
      BY <1>i, BoundAssumption DEF Batches
    <2> QED BY <1>1, <1>u, <2>1 DEF BeginAdd, Abstract!BeginAdd
  <1>2. ASSUME NEW e \in Given, BeginSwop(e) PROVE Abstract!Operation
    <2>1. CASE Live(t.slot) = {}
      <3>1. <<e>> \in Seq(Abstract!Entry)
        BY <1>i
      <3>2. Abstract!BeginAdd
        BY <1>2, <1>u, <2>1, <3>1 DEF BeginSwop, Abstract!BeginAdd
      <3> QED BY <3>2 DEF Abstract!Operation
    <2>2. CASE Live(t.slot) # {}
      <3>1. PICK i : i = FirstLive(t)
        OBVIOUS
      <3>2. i \in Live(t.slot)
        <4>1. Live(t.slot) \subseteq Nat
          BY <1>g, EntriesAre
        <4>2. PICK j \in Live(t.slot) : \A h \in Live(t.slot) : j <= h
          BY <2>2, <4>1, LeastOf
        <4> QED BY <3>1, <4>2 DEF FirstLive
      <3>3. t' = Kill(t, i) /\ ret' = [err |-> FALSE, out |-> {t.slot[i]}, num |-> 0]
            /\ todo = <<>> /\ todo' = <<e>>
        BY <1>2, <2>2, <3>1 DEF BeginSwop
      <3>4. S' = S \ {t.slot[i]} /\ t.slot[i] \in S
        BY <1>g, <1>p, <3>2, <3>3, KillEntries, EntriesAre
      <3>5. Abstract!BeginSwop(e)
        BY <3>3, <3>4 DEF Abstract!BeginSwop
      <3> QED BY <1>i, <3>5 DEF Abstract!Operation
    <2> QED BY <2>1, <2>2
  <1>3. ASSUME NEW e \in Given, BeginRevamp(e) PROVE Abstract!BeginRevamp(e)
    <2>1. e.key \in Key
      BY <1>e, <1>i
    <2> QED BY <1>3, <1>u, <1>w, <2>1 DEF BeginRevamp, Abstract!BeginRevamp
  <1>4. ASSUME BeginGrow PROVE [Abstract!Next]_(Abstract!vars)
    <2>1. CASE UNCHANGED <<t, todo, ret>>
      BY <2>1, <1>u, <1>s
    <2>2. CASE OutOfMemory
      BY <2>2, <1>4, <1>f, <1>o DEF BeginGrow, Abstract!Operation
    <2> QED BY <1>4, <2>1, <2>2 DEF BeginGrow
  <1>5. ASSUME BeginCompact PROVE Abstract!Compact
    <2>1. todo = <<>> /\ todo' = todo /\ t' = t
      BY <1>5 DEF BeginCompact, OutOfMemory
    <2>2. ret'.err \in BOOLEAN
      <3>1. CASE OutOfMemory
        BY <3>1, <1>m DEF OutOfMemory
      <3>2. CASE Ok({}, 0)
        BY <3>2, RetGives
      <3> QED BY <1>5, <3>1, <3>2 DEF BeginCompact
    <2> QED BY <1>u, <2>1, <2>2 DEF Abstract!Compact
  <1>6. ASSUME MoveSlot PROVE [Abstract!Next]_(Abstract!vars)
    BY <1>6, <1>u, <1>s DEF MoveSlot
  <1>7. ASSUME EndMove PROVE [Abstract!Next]_(Abstract!vars)
    <2>1. /\ MoveGood(t, move) /\ move.next = t.cap /\ UNCHANGED <<todo, ret>>
          /\ t' = Moved(t, move.slot, move.cap)
      BY <1>7 DEF EndMove, IInv, MoveOk
    <2>2. t'.slot = move.slot
      BY <1>g, <2>1 DEF Moved, GoodTable, IsTable
    <2>3. S' = S
      BY <1>g, <1>p, <2>1, <2>2, MovedEntries
    <2> QED BY <1>s, <2>1, <2>3
  <1>8. ASSUME AddNext PROVE Abstract!AddNext
    <2>1. CASE OutOfMemory
      BY <2>1, <1>8, <1>f DEF AddNext
    <2>2. CASE ~OutOfMemory
      <3>1. PICK e : e = Head(todo)
        OBVIOUS
      <3>2. /\ todo # <<>> /\ ~NeedsGrow(t) /\ todo' = Tail(todo) /\ UNCHANGED ret
            /\ t' = IF Found(t, e.key) /\ ~ismap THEN t ELSE Put(t, e)
        BY <1>8, <2>2, <3>1 DEF AddNext
      <3>3. e \in Entry /\ e.key \in Key
        BY <1>g, <1>e, <3>1, <3>2
      <3>4. Abstract!With(e.key) # {} <=> Found(t, e.key)
        BY <1>w, <3>3
      <3>5. S' = IF Abstract!With(e.key) # {} /\ ~ismap THEN S
                 ELSE (S \ Abstract!With(e.key)) \cup {e}
        BY <1>g, <1>p, <3>2, <3>3, <3>4, PutEntries DEF Abstract!With
      <3> QED BY <3>1, <3>2, <3>5 DEF Abstract!AddNext
    <2> QED BY <2>1, <2>2
  <1>9. ASSUME NEW k \in Key, Lookup(k) PROVE Abstract!Lookup(k)
    BY <1>9, <1>u, <1>w DEF Lookup, Abstract!Lookup
  <1>10. ASSUME NEW k \in Key, Remove(k) PROVE Abstract!Remove(k)
    <2>1. CASE ~Found(t, k)
      BY <2>1, <1>10, <1>u, <1>w DEF Remove, Abstract!Remove
    <2>2. CASE Found(t, k)
      <3>1. PICK i : i = Probe(t, k)
        OBVIOUS
      <3>2. i \in Live(t.slot) /\ With(k) = {t.slot[i]} /\ Abstract!With(k) = With(k)
        BY <1>g, <1>w, <2>2, <3>1, SearchExact DEF With
      <3>3. /\ t' = Kill(t, i) /\ ret' = [err |-> FALSE, out |-> {}, num |-> 1]
            /\ todo = <<>> /\ todo' = todo
        BY <1>10, <2>2, <3>1 DEF Remove
      <3>4. S' = S \ With(k)
        BY <1>g, <1>p, <3>2, <3>3, KillEntries
      <3> QED BY <3>2, <3>3, <3>4 DEF Abstract!Remove
    <2> QED BY <2>1, <2>2
  <1>11. ASSUME NEW n \in 1..MaxBatch, Spew(n) PROVE Abstract!Operation
    <2>1. PICK out : /\ out = {i \in Live(t.slot) : Cardinality({j \in Live(t.slot) : j < i}) < n}
      OBVIOUS
    <2>2. out \in SUBSET Live(t.slot)
      BY <2>1
    <2>3. /\ t' = [t EXCEPT !.slot = [i \in DOMAIN @ |-> IF i \in out THEN Tomb ELSE @[i]],
                            !.len = @ - Cardinality(out),
                            !.tombs = @ + Cardinality(out),
                            !.gen = @ + Cardinality(out)]
          /\ ret' = [err |-> FALSE, out |-> {t.slot[i] : i \in out}, num |-> Cardinality(out)]
          /\ todo = <<>> /\ todo' = todo
      BY <1>11, <2>1 DEF Spew
    <2>0. Uniq(t.slot)
      BY <1>g DEF GoodTable, Sound
    <2>4. PICK gone : gone = {t.slot[i] : i \in out}
      OBVIOUS
    <2>5. t'.slot = [i \in DOMAIN t.slot |-> IF i \in out THEN Tomb ELSE t.slot[i]]
      BY <1>g, <2>3 DEF GoodTable, IsTable
    <2>6. DOMAIN t.slot = 0..(t.cap - 1)
      BY <1>g DEF SlotsOf
    <2>7. /\ t'.slot \in SlotsOf(t.cap)
          /\ \A j \in 0..(t.cap - 1) : t'.slot[j] = IF j \in out THEN Tomb ELSE t.slot[j]
      BY <1>g, <2>5, <2>6 DEF SlotsOf
    <2>8. S' = S \ gone
      BY <1>g, <1>p, <2>2, <2>4, <2>7, BuriedEntries
    <2>9. gone \in SUBSET S
      BY <1>g, <2>2, <2>4, EntriesAre
    <2>10. IsFiniteSet(gone) /\ Cardinality(gone) = Cardinality(out)
      BY <1>g, <2>0, <2>2, <2>4, EntriesCount
    <2>11. Cardinality(gone) \in 0..Cardinality(S)
      BY <1>c, <2>9, <2>10, FS_Subset, FS_CardinalityType
    <2>12. Abstract!Spew(Cardinality(gone))
      BY <2>3, <2>4, <2>8, <2>9, <2>10, SameCardinality DEF Abstract!Spew
    <2> QED BY <2>11, <2>12, SameCardinality DEF Abstract!Operation
  <1>12. ASSUME Clear PROVE Abstract!Clear
    <2>1. t' = Teem(t)
      BY <1>12 DEF Clear
    <2>2. t'.slot = Blank(t.cap)
      BY <1>g, <2>1 DEF Teem, GoodTable, IsTable
    <2>3. Live(t'.slot) = {}
      BY <2>2 DEF Live, Blank, IsLive
    <2>4. S' = {}
      BY <1>p, <2>3 DEF Entries
    <2> QED BY <1>12, <2>4 DEF Clear, Abstract!Clear
  <1>13. ASSUME Count PROVE Abstract!Count
    BY <1>13, <1>c, <1>u, SameCardinality DEF Count, Abstract!Count
  <1>14. CASE UNCHANGED vars
    BY <1>14, <1>u, <1>s DEF vars
  <1>15. Abstract!BeginAdd \/ Abstract!AddNext \/ Abstract!Clear \/ Abstract!Count \/ Abstract!Compact
           => Abstract!Operation
    BY DEF Abstract!Operation
  <1>16. ASSUME NEW e \in Given, Abstract!BeginRevamp(e) PROVE Abstract!Operation
    BY <1>16, <1>i DEF Abstract!Operation
  <1>17. ASSUME NEW k \in Key, Abstract!Lookup(k) \/ Abstract!Remove(k) PROVE Abstract!Operation
    BY <1>17 DEF Abstract!Operation
  <1> QED
    BY <1>1, <1>2, <1>3, <1>4, <1>5, <1>6, <1>7, <1>8, <1>9, <1>10, <1>11, <1>12, <1>13,
       <1>14, <1>15, <1>16, <1>17, <1>o DEF Next, Running

\* For every hash function, load limit and sequence of calls, a set or map
\* behaves, call by call and result by result, as a plain set of entries with
\* at most one for each key, whatever slots, tombstones and moves lie behind.
THEOREM StoreImplemented == Spec => ImplementsStore
  <1>1. Init => RetOk
    BY DEF Init, RetOk
  <1> QED BY <1>1, InitImplements, NextRet, NextImplements, InvariantHolds, PTL
             DEF Spec, ImplementsStore, Abstract!Spec
=============================================================================
