------------------------------- MODULE HashOps -------------------------------
(***************************************************************************)
(* The open-addressing table htab_t that sets, maps and multisets share    *)
(* (src/silo_hash.c, src/silo_set.c, src/silo_map.c): linear probing from  *)
(* the key's home slot, a tombstone where an entry was deleted.  A slot    *)
(* holds the entry itself: the key and value bytes, copied to byte areas   *)
(* of the arena, and the tag byte that shortcuts their comparison, are     *)
(* what the entry's key and val stand for.                                 *)
(***************************************************************************)
EXTENDS Integers, FiniteSets

CONSTANTS
  Key, Val,      (* the byte strings a client uses as keys and values     *)
  Hash,          (* xxhash64                                              *)
  InitCap,       (* slots of a table's first allocation (16)              *)
  LoadN, LoadD,  (* HASH_LOAD_FACTOR_N, HASH_LOAD_FACTOR_D (7/8)          *)
  Empty, Tomb    (* HASH_META_EMPTY, HASH_META_TOMBSTONE                  *)

Entry == [key : Key, val : Val]

ASSUME HashAssumption == Hash \in [Key -> Nat]
ASSUME SlotAssumption == Empty \notin Entry /\ Tomb \notin Entry /\ Empty # Tomb

\* What makes the load limit a limit: one more entry than it allows still
\* leaves a slot empty, and a doubled table is below it again.
ASSUME LoadAssumption ==
  /\ InitCap \in Nat /\ LoadN \in Nat /\ LoadD \in Nat
  /\ LoadN < LoadD /\ LoadD <= 2 * LoadN
  /\ InitCap * (LoadD - LoadN) >= LoadD

NewTable == [cap |-> 0, slot |-> [i \in 0..-1 |-> Empty], len |-> 0, tombs |-> 0, gen |-> 1]

Blank(cap) == [i \in 0..(cap - 1) |-> Empty]

IsLive(x) == x # Empty /\ x # Tomb
Live(slot) == {i \in DOMAIN slot : IsLive(slot[i])}
Dead(slot) == {i \in DOMAIN slot : slot[i] = Tomb}

\* What a table contains, whatever slots it keeps it in.
Entries(slot) == {slot[i] : i \in Live(slot)}

Touch(t) == [t EXCEPT !.gen = @ + 1]

\* The d-th slot that is probed for k.
ProbeAt(cap, k, d) == ((Hash[k] % cap) + d) % cap

\* The first slot of S in the order they are probed for k.
FirstOf(cap, k, S) ==
  LET d == CHOOSE n \in 0..(cap - 1) :
             ProbeAt(cap, k, n) \in S /\ \A m \in 0..(n - 1) : ProbeAt(cap, k, m) \notin S
  IN  ProbeAt(cap, k, d)

\* htab_probe: where the search for k stops, and the slot it answers with -
\* the one that holds k, or else the first one free for it.
Free(slot)     == {i \in DOMAIN slot : ~IsLive(slot[i])}
Stops(slot, k) == {i \in DOMAIN slot : slot[i] = Empty \/ (IsLive(slot[i]) /\ slot[i].key = k)}
Stop(t, k)     == FirstOf(t.cap, k, Stops(t.slot, k))
Found(t, k)    == t.cap > 0 /\ t.slot[Stop(t, k)] # Empty
Probe(t, k)    == IF Found(t, k) THEN Stop(t, k) ELSE FirstOf(t.cap, k, Free(t.slot))

\* A faulty variant: tombstones are not counted.
NeedsGrowLive(t) == t.cap = 0 \/ t.len * LoadD >= t.cap * LoadN
\* htab_maybe_grow's test and the size htab_grow gives the new table.
NeedsGrow(t) == t.cap = 0 \/ (t.len + t.tombs) * LoadD >= t.cap * LoadN
GrownCap(t)  == IF t.cap = 0 THEN InitCap ELSE 2 * t.cap

\* htab_slot_for and the relocation of one entry into a table being filled.
Place(slot, cap, e) ==
  [slot EXCEPT ![FirstOf(cap, e.key, Free(slot))] = e]

\* The table once htab_grow or htab_compact has moved its entries to slot.
Moved(t, slot, cap) ==
  [t EXCEPT !.slot = slot, !.cap = cap, !.tombs = 0, !.gen = @ + 1]

\* Faulty variants: a tombstone used again is still counted; no new
\* generation.
PutStillDead(t, e) ==
  LET i == Probe(t, e.key)
  IN  [t EXCEPT !.slot = [@ EXCEPT ![i] = e],
                !.len  = IF Found(t, e.key) THEN @ ELSE @ + 1,
                !.gen  = @ + 1]
PutQuiet(t, e) ==
  LET i == Probe(t, e.key)
  IN  [t EXCEPT !.slot  = [@ EXCEPT ![i] = e],
                !.len   = IF Found(t, e.key) THEN @ ELSE @ + 1,
                !.tombs = IF t.slot[i] = Tomb THEN @ - 1 ELSE @]

\* set_add_slot, and map_write_pair as insert calls it: an entry goes to a
\* free slot, maybe a tombstone, or replaces the one with its key.
Put(t, e) ==
  LET i == Probe(t, e.key)
  IN  [t EXCEPT !.slot  = [@ EXCEPT ![i] = e],
                !.len   = IF Found(t, e.key) THEN @ ELSE @ + 1,
                !.tombs = IF t.slot[i] = Tomb THEN @ - 1 ELSE @,
                !.gen   = @ + 1]

\* A faulty variant: the slot becomes empty.
KillEmpty(t, i) == [t EXCEPT !.slot = [@ EXCEPT ![i] = Empty], !.len = @ - 1, !.gen = @ + 1]

\* htab_slot_kill and the touch of its callers.
Kill(t, i) ==
  [t EXCEPT !.slot = [@ EXCEPT ![i] = Tomb], !.tombs = @ + 1, !.len = @ - 1, !.gen = @ + 1]

Teem(t) == [t EXCEPT !.slot = Blank(t.cap), !.len = 0, !.tombs = 0, !.gen = @ + 1]

\* first_live_slot.
FirstLive(t) == CHOOSE i \in Live(t.slot) : \A j \in Live(t.slot) : i <= j
-----------------------------------------------------------------------------
\* The moves of a whole table that HashTable takes slot by slot, as single
\* operators, for the modules where nothing can happen in between.  First
\* the loop of htab_grow over the old slots.
Filled(t, cap) ==
  LET Upto[n \in 0..t.cap] ==
        IF n = 0 THEN Blank(cap)
        ELSE IF IsLive(t.slot[n - 1]) THEN Place(Upto[n - 1], cap, t.slot[n - 1])
        ELSE Upto[n - 1]
  IN  Upto[t.cap]

Grown(t) ==
  IF NeedsGrow(t) THEN Moved(t, Filled(t, GrownCap(t)), GrownCap(t)) ELSE t

\* htab_compact.
Compacted(t) ==
  IF t.cap = 0 \/ t.len = 0 THEN t ELSE Moved(t, Filled(t, t.cap), t.cap)

LiveFrom(t, pos) == {i \in Live(t.slot) : i >= pos}
FirstFrom(t, pos) ==
  IF LiveFrom(t, pos) = {} THEN t.cap
  ELSE CHOOSE i \in LiveFrom(t, pos) : \A j \in LiveFrom(t, pos) : i <= j

\* A faulty variant: the search starts one slot late.
SeekPast(t, pos) == FirstFrom(t, pos + 1)

\* iter_seek_hash_live: the first live slot from pos on, or the end.
SeekLive(t, pos) == FirstFrom(t, pos)
=============================================================================
