-------------------------------- MODULE Silos --------------------------------
(***************************************************************************)
(* One of the two descriptor tables of src/silo.c - linear silos or hash   *)
(* tables - and the iterators of src/silo_iter.c over its silos.  Silos    *)
(* and iterators are created, changed and destroyed in any order, their    *)
(* slots are reused, and the client may keep descriptors of silos that are *)
(* gone.  The table itself is reallocated when it is full.                 *)
(***************************************************************************)
EXTENDS HashOps, SequencesExt

CONSTANTS
  Value, Junk, Chunk,  (* of LinearOps                                    *)
  Tables,     (* the kinds of silo that share a table: a set of sets      *)
  Seed,       (* COETUA_SILO_TABLE_SEED: slots of the first table         *)
  MaxSlots,   (* bound: calloc cannot give a larger table                 *)
  MaxLive,    (* bound: silos and iterators alive at once                 *)
  MaxCap,     (* bound: the arena cannot hold more cells or slots a silo  *)
  MaxReuse,   (* bound: no slot is used again from this generation on     *)
  MaxGen      (* bound: no silo changes once the generations of all slots
                 add up to this                                           *)

L == INSTANCE LinearOps

ASSUME TablesAssumption ==
  \A ts \in Tables : ts \subseteq L!LinearTypes \/ ts \subseteq {"set", "map"}
ASSUME BoundAssumption == {Chunk, Seed, MaxSlots, MaxLive, MaxCap, MaxReuse, MaxGen} \subseteq Nat \ {0}

VARIABLES
  types,    (* the kinds of silo in this table                            *)
  slots,    (* the table: the type of each silo ("free" for none) and its
               record x                                                   *)
  tabcap,   (* slots the table has room for                               *)
  iters,    (* the table of iterators                                     *)
  ret       (* what the last call returned                                *)

vars == <<types, slots, tabcap, iters, ret>>

Linear(type) == type \in L!LinearTypes
Slots == DOMAIN slots
Silent == ret' = [op |-> "quiet"]

\* The live slots of a table, in the order every loop over one meets them.
InOrder(x) ==
  LET at[n \in 1..Cardinality(Live(x.slot))] == FirstFrom(x, IF n = 1 THEN 0 ELSE at[n - 1] + 1)
  IN  at

\* What a silo contains, in the order an iterator meets it.
Contents(type, x) ==
  IF Linear(type) THEN L!Elems(x)
  ELSE LET at == InOrder(x) IN [n \in DOMAIN at |-> x.slot[at[n]]]

\* silo_get and htab_get: the slot a descriptor names, if its silo is of the
\* kind the descriptor says.
Valid(desc) == desc.idx \in Slots /\ slots[desc.idx].type = desc.type
Descs == [idx : Slots, type : types]

-----------------------------------------------------------------------------
(* Descriptors *)

\* A faulty variant: every silo starts at the first generation.
NewObjFirst(type, gen) == IF Linear(type) THEN L!NewSilo(type) ELSE NewTable

\* silo_init_slot and htab_init: no storage, one generation on from the
\* slot's last silo.
NewObj(type, gen) ==
  IF Linear(type) THEN [L!NewSilo(type) EXCEPT !.gen = gen] ELSE [NewTable EXCEPT !.gen = gen]

\* The first free slot, or one behind the last.
FreeSlots == {i \in Slots : slots[i].type = "free"}
NewIdx == IF FreeSlots = {} THEN Len(slots) + 1
          ELSE CHOOSE i \in FreeSlots : \A j \in FreeSlots : i <= j

\* silo_desc_ensure: the size of the table once it has a slot of that index.
TabCap(idx) == IF idx <= tabcap THEN tabcap ELSE IF tabcap = 0 THEN Seed ELSE 2 * tabcap
HasSlot == TabCap(NewIdx) <= MaxSlots

\* Bounds, not in the code.
Young == FoldLeft(LAMBDA n, slot : n + slot.x.gen, 0, slots) < MaxGen
Fresh == NewIdx \in Slots => slots[NewIdx].x.gen < MaxReuse
Fewer == Cardinality({i \in Slots : slots[i].type # "free"})
         + Cardinality({n \in DOMAIN iters : iters[n].live}) < MaxLive

\* The table with a new silo in it, holding what build makes of it.
Created(type, build(_)) ==
  LET i   == NewIdx
      gen == IF i \in Slots THEN slots[i].x.gen + 1 ELSE 1
      new == [type |-> type, x |-> build(NewObj(type, gen))]
  IN  IF i \in Slots THEN [slots EXCEPT ![i] = new] ELSE Append(slots, new)

\* mkstack, mkqueue, mkseq, mkset and mkmap.
Make(type) ==
  /\ \/ /\ HasSlot /\ Fresh /\ Fewer
        /\ slots' = Created(type, LAMBDA x : x)
        /\ tabcap' = TabCap(NewIdx)
     \/ NewIdx > tabcap /\ UNCHANGED <<slots, tabcap>>
  /\ Silent /\ UNCHANGED <<types, iters>>

\* Whether an iterator was made over the silo that has the descriptor now.
Over(n, desc) == iters[n].live /\ iters[n].desc = desc /\ iters[n].mine

\* rmlinear and htab_clear.  Iterators are not told; that the silo they were
\* made over is gone is history.
Destroy(desc) ==
  /\ Valid(desc)
  /\ slots' = [slots EXCEPT
       ![desc.idx].type = "free",
       ![desc.idx].x = NewObj(desc.type, @.gen + 1)]
  /\ iters' = [n \in DOMAIN iters |->
       IF Over(n, desc) THEN [iters[n] EXCEPT !.mine = FALSE] ELSE iters[n]]
  /\ Silent /\ UNCHANGED <<types, tabcap>>

\* A faulty variant: the cells of a queue are not unwrapped.
CopyCells(src, x) ==
  LET g == L!Grow(x, src.len)
  IN  [g EXCEPT !.len = src.len, !.head = 0,
                !.data = [i \in DOMAIN @ |-> IF i < src.len THEN src.data[i] ELSE @[i]]]

\* A copy of the source in a new silo: a grown linear silo, or a table that
\* was filled entry by entry.
CopyLinear(src, x) ==
  LET g == L!Grow(x, src.len)
  IN  [g EXCEPT !.len = src.len, !.head = 0,
                !.data = [i \in DOMAIN @ |-> IF i < src.len THEN L!Elems(src)[i + 1] ELSE @[i]]]
CopyHash(src, x) ==
  LET at == InOrder(src)
      Upto[n \in 0..Cardinality(Live(src.slot))] ==
        IF n = 0 THEN x ELSE Put(Grown(Upto[n - 1]), src.slot[at[n]])
  IN  Upto[Cardinality(Live(src.slot))]

\* What is found at the address of a record after the table that held it has
\* been freed: the old bytes, or those of some other record.
Freed(type, x) ==
  {x} \cup {IF Linear(type) THEN L!AppendOne(NewObj(type, 1), Junk)
            ELSE NewObj(type, 1)}

\* replica.  The source is looked up before the new silo is made: when that
\* reallocates the table, the copy is made from freed memory.  When memory
\* runs out in the copy, the new silo stays behind.
Replica(desc) ==
  /\ Valid(desc)
  /\ HasSlot /\ Fresh /\ Fewer
  /\ \E src \in IF NewIdx <= tabcap THEN {slots[desc.idx].x}
                ELSE Freed(desc.type, slots[desc.idx].x) :
       \/ /\ slots' = Created(desc.type, LAMBDA x :
                        IF Linear(desc.type) THEN CopyLinear(src, x) ELSE CopyHash(src, x))
          /\ ret' = [op |-> "replica", of |-> desc.idx, at |-> NewIdx, moved |-> NewIdx > tabcap]
       \/ slots' = Created(desc.type, LAMBDA x : x) /\ src.len > 0 /\ Silent
  /\ tabcap' = TabCap(NewIdx)
  /\ UNCHANGED <<types, iters>>

-----------------------------------------------------------------------------
(* Mutation by any call on the silo itself; see LinearSilo and HashTable. *)

\* Appends, removals at either end, swop, teem, tamp and efflate.
LinearMutants(x) ==
  {L!AppendOne(x, v) : v \in Value} \cup {L!Teem(x), L!Grow(x, x.len + 1)}
  \cup {L!Swop(x, v) : v \in Value}
  \cup (IF x.len = 0 THEN {} ELSE {L!SpewOne(x), L!Tamp(x)})
  \cup (IF x.len = 0 \/ x.type = "queue" THEN {} ELSE {L!Pop(x)})

\* insert or adds of a key, oblit or dels, teem, compact.
HashMutants(type, x) ==
  {IF type = "set" /\ Found(Grown(x), e.key) THEN Grown(x) ELSE Put(Grown(x), e) : e \in Entry}
  \cup {Kill(x, i) : i \in Live(x.slot)} \cup {Teem(x), Compacted(x)}

\* Whether a mutation only takes entries out.
Shrinks(type, x, y) ==
  Linear(type) \/ (y.cap = x.cap /\ Live(y.slot) \subseteq Live(x.slot))

\* An iterator over the silo is told, as history, of calls that add to it or
\* rebuild it.
Mutate(desc) ==
  /\ Valid(desc)
  /\ LET x == slots[desc.idx].x
     IN  /\ Young
         /\ \E y \in IF Linear(desc.type) THEN LinearMutants(x) ELSE HashMutants(desc.type, x) :
              /\ y.cap <= MaxCap
              /\ slots' = [slots EXCEPT ![desc.idx].x = y]
              /\ iters' = [n \in DOMAIN iters |->
                   IF Over(n, desc) /\ ~Shrinks(desc.type, x, y)
                     THEN [iters[n] EXCEPT !.calm = FALSE] ELSE iters[n]]
  /\ Silent /\ UNCHANGED <<types, tabcap>>

-----------------------------------------------------------------------------
(* Iterators *)

\* iter_new: the first dead iterator's place, or a new one.
DeadIters == {n \in DOMAIN iters : ~iters[n].live}
NewIter(it) ==
  IF DeadIters = {} THEN iters' = Append(iters, it)
  ELSE iters' = [iters EXCEPT ![CHOOSE n \in DeadIters : \A m \in DeadIters : n <= m] = it]

\* mkiter and mkoter.  made, got, mine and calm are history: what the silo
\* held, what the iterator has handed out, whether its silo still exists, and
\* whether nothing was added to it.
MakeIter(desc, obliterate) ==
  /\ Valid(desc)
  /\ Fewer
  /\ LET x == slots[desc.idx].x
     IN  NewIter([desc |-> desc, gen |-> x.gen, obliterate |-> obliterate, live |-> TRUE,
                  pos |-> IF Linear(desc.type) THEN 0 ELSE SeekLive(x, 0),
                  mine |-> TRUE, calm |-> TRUE,
                  made |-> Contents(desc.type, x), got |-> <<>>])
  /\ Silent /\ UNCHANGED <<types, slots, tabcap>>

\* Where next finds its element: only an ordinary iterator compares
\* generations.
Current(it, x) == it.obliterate \/ it.gen = x.gen
Here(it, x)    == IF Linear(it.desc.type) THEN it.pos ELSE SeekLive(x, it.pos)
AtEnd(it, x)   == Here(it, x) >= IF Linear(it.desc.type) THEN x.len ELSE x.cap
Yielded(it, x) ==
  IF Linear(it.desc.type) THEN x.data[L!Cell(x, it.pos)] ELSE x.slot[Here(it, x)]

\* An obliterating iterator takes the element it yields out of the silo.
Taken(it, x) == IF Linear(it.desc.type) THEN L!TakeFirst(x) ELSE Kill(x, Here(it, x))

\* A faulty variant: the position moves although the element is gone.
AheadSkips(it, x, y) ==
  IF ~Linear(it.desc.type) THEN SeekLive(y, Here(it, x) + 1) ELSE it.pos + 1

\* The position after a yield, when the silo has become y.
Ahead(it, x, y) ==
  IF ~Linear(it.desc.type) THEN SeekLive(y, Here(it, x) + 1)
  ELSE IF it.obliterate THEN it.pos ELSE it.pos + 1

NextYields(n) ==
  /\ iters[n].live /\ Valid(iters[n].desc)
  /\ LET it == iters[n]
         x  == slots[it.desc.idx].x
         y  == IF it.obliterate THEN Taken(it, x) ELSE x
     IN  /\ Current(it, x) /\ ~AtEnd(it, x)
         /\ it.obliterate => Young
         /\ slots' = [slots EXCEPT ![it.desc.idx].x = y]
         /\ iters' = [iters EXCEPT ![n] =
              [it EXCEPT !.pos = Ahead(it, x, y),
                         !.gen = IF it.obliterate THEN y.gen ELSE @,
                         !.got = Append(@, Yielded(it, x))]]
  /\ Silent /\ UNCHANGED <<types, tabcap>>

\* next without an element: the silo is gone or has changed, or the
\* iterator, moved on past what has been deleted, is at its end.
NextEnds(n) ==
  /\ iters[n].live
  /\ LET it == iters[n]
         x  == slots[it.desc.idx].x
     IN  IF Valid(it.desc) /\ Current(it, x)
           THEN AtEnd(it, x) /\ iters' = [iters EXCEPT ![n].pos = Here(it, x)]
           ELSE UNCHANGED iters
  /\ ret' = [op |-> "ended", iter |-> n]
  /\ UNCHANGED <<types, slots, tabcap>>

RemoveIter(n) ==
  /\ iters[n].live
  /\ iters' = [iters EXCEPT ![n] = [live |-> FALSE]]
  /\ Silent /\ UNCHANGED <<types, slots, tabcap>>

\* silotype_of, cize or carten of any descriptor, of a silo that is gone too.
Query(desc) ==
  /\ ret' = IF Valid(desc) THEN [op |-> "size", len |-> slots[desc.idx].x.len]
            ELSE [op |-> "error"]
  /\ UNCHANGED <<types, slots, tabcap, iters>>

-----------------------------------------------------------------------------
Init ==
  /\ types \in Tables
  /\ slots = <<>> /\ tabcap = 0 /\ iters = <<>>
  /\ ret = [op |-> "quiet"]

Next ==
  \/ \E type \in types : Make(type)
  \/ \E desc \in Descs : Destroy(desc) \/ Replica(desc) \/ Mutate(desc) \/ Query(desc)
                         \/ MakeIter(desc, TRUE) \/ MakeIter(desc, FALSE)
  \/ \E n \in DOMAIN iters : NextYields(n) \/ NextEnds(n) \/ RemoveIter(n)

Spec == Init /\ [][Next]_vars

-----------------------------------------------------------------------------
(* Properties *)

\* Whatever happened to the silo, its slot or its table since, what an
\* ordinary iterator has handed out is what the silo held, in order, when
\* the iterator was made: one generation never stands for two contents,
\* not even of two silos that had the same descriptor.
OrdinaryFaithful ==
  \A n \in DOMAIN iters :
    iters[n].live /\ ~iters[n].obliterate => IsPrefix(iters[n].got, iters[n].made)

\* An ordinary iterator that ends at an unchanged silo has handed out all of
\* it.
OrdinaryComplete ==
  ret.op = "ended" =>
    LET it == iters[ret.iter]
    IN  ~it.obliterate /\ it.mine /\ slots[it.desc.idx].x.gen = it.gen
        => it.got = it.made

\* An obliterating iterator that ends has emptied its silo, although others
\* took entries out meanwhile, unless somebody added to a hash silo or
\* rebuilt its table.
ObliteratorEmpties ==
  ret.op = "ended" =>
    LET it == iters[ret.iter]
    IN  it.obliterate /\ it.calm /\ it.mine => slots[it.desc.idx].x.len = 0

\* What replica copied holds what its source does.
Copied ==
  LET of == slots[ret.of]
      at == slots[ret.at]
  IN  IF Linear(of.type) THEN L!Elems(at.x) = L!Elems(of.x)
      ELSE Entries(at.x.slot) = Entries(of.x.slot)

\* A replica holds what its source does, in the same order however the
\* source's storage was wrapped or its slots were used, as long as the new
\* silo finds room in the table as it is.
ReplicaFaithful == ret.op = "replica" /\ ~ret.moved => Copied

\* silo.h says of replica "Create a shallow copy of the silo": the new silo
\* holds what the old one does.
ReplicaCopies == ret.op = "replica" => Copied
=============================================================================
