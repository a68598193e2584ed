-------------------------------- MODULE Arena --------------------------------
(***************************************************************************)
(* The region allocator of src/arena.c.  An arena is a list of blocks from *)
(* malloc; an allocation takes the next suitably aligned bytes of the last *)
(* block, or of a new one, and lives until its arena is removed.  Arena 0  *)
(* always exists.  A block is known by the address of its data, of which   *)
(* only the alignment matters here: that two blocks do not overlap is      *)
(* malloc's promise.  An allocation takes a step for each turn of the loop *)
(* of arena_alloc.                                                         *)
(***************************************************************************)
EXTENDS Integers, Sequences, FiniteSets

CONSTANTS
  Word,        (* 2^64: sizes and addresses are below it                  *)
  Header,      (* sizeof(block)                                           *)
  BlockSize,   (* COETUA_ARENA_BLOCK_SIZE                                 *)
  Seed,        (* COETUA_ARENA_TABLE_SEED                                 *)
  Bases,       (* the addresses malloc may give the data of a block       *)
  Pow2,        (* the powers of two of an int                             *)
  Sizes,       (* the sizes and element counts a client asks for          *)
  Aligns,      (* the alignments it asks for                              *)
  MaxArenas,   (* bound: realloc cannot give a larger table               *)
  MaxGiven     (* bound: no allocation begins when so many are in use     *)

ASSUME SizeAssumption ==
  /\ {Word, BlockSize, Seed} \subseteq Nat \ {0}
  /\ {Header, MaxArenas, MaxGiven} \subseteq Nat
  /\ Bases \subseteq Nat /\ Sizes \subseteq Nat /\ Aligns \subseteq Int
  /\ Pow2 \subseteq Nat \ {0} /\ 1 \in Pow2

VARIABLES
  arenas,   (* the table, from 0; empty before the first call of all      *)
  tabcap,   (* entries the table has room for                             *)
  call,     (* the allocation in progress                                 *)
  given,    (* history: the allocations a client may still use            *)
  faults    (* errors the last call raised                                *)

arenaVars == <<arenas, tabcap, call, given, faults>>

NoRequest == [busy |-> FALSE]
AddOk(a, b) == a + b < Word
MulOk(a, b) == a * b < Word

NoBlocks == [live |-> TRUE, blocks |-> <<>>]

\* An error while the client has not yet collected the last one ends the
\* program (err.c); within one call two errors are enough.
Exited == faults > 1
Ready  == call = NoRequest /\ ~Exited
Fail(n) == faults' = n /\ call' = NoRequest /\ UNCHANGED given
Ids == DOMAIN arenas

\* arena_table_init: arena 0 exists once there is a table.
Opened  == IF arenas = <<>> THEN [i \in {0} |-> NoBlocks] ELSE arenas
OpenCap == IF arenas = <<>> THEN Seed ELSE tabcap
Live(table, id) == id \in DOMAIN table /\ (id = 0 \/ table[id].live)

-----------------------------------------------------------------------------
(* Arenas *)

\* arena_reuse_slot, for the first dead arena or a new one.
Dead == {i \in DOMAIN Opened : i > 0 /\ ~Opened[i].live}
NewId == IF Dead = {} THEN Cardinality(DOMAIN Opened)
         ELSE CHOOSE i \in Dead : \A j \in Dead : i <= j
Needed == IF NewId < OpenCap THEN OpenCap ELSE 2 * OpenCap

mkarena ==
  /\ Ready
  /\ \/ /\ Needed <= MaxArenas
        /\ arenas' = [i \in DOMAIN Opened \cup {NewId} |->
                        IF i = NewId THEN NoBlocks ELSE Opened[i]]
        /\ tabcap' = Needed
        /\ faults' = 0 /\ UNCHANGED <<call, given>>
     \* calloc or realloc found no memory for the table
     \/ arenas = <<>> /\ Fail(1) /\ UNCHANGED <<arenas, tabcap>>
     \/ Needed > OpenCap /\ Fail(1) /\ arenas' = Opened /\ tabcap' = OpenCap

\* rmarena: anything but a live arena other than the default is left alone.
rmarena(id) ==
  /\ Ready
  /\ \/ /\ IF id \in DOMAIN Opened \ {0} /\ Opened[id].live
             THEN /\ arenas' = [Opened EXCEPT ![id] = [live |-> FALSE, blocks |-> <<>>]]
                  /\ given' = {g \in given : g.arena # id}
             ELSE arenas' = Opened /\ UNCHANGED given
        /\ tabcap' = OpenCap /\ faults' = 0 /\ UNCHANGED call
     \/ arenas = <<>> /\ Fail(1) /\ UNCHANGED <<arenas, tabcap>>

-----------------------------------------------------------------------------
(* Allocation *)

\* arena_alloc up to its loop: an alignment below 1 is 1, nothing is given
\* for size 0, and a size that overflows with its padding is refused.
Begin(id, size, align) ==
  LET a == IF align < 1 THEN 1 ELSE align
  IN  IF a \notin Pow2 THEN Fail(1)
      ELSE IF size = 0 THEN Fail(0)
      ELSE IF ~AddOk(size, a - 1) THEN Fail(1)
      ELSE /\ call' = [busy |-> TRUE, arena |-> id, size |-> size, align |-> a, fresh |-> FALSE]
           /\ faults' = 0 /\ UNCHANGED given

\* acarrel and, aligned to 1, aden.  The first call of all may find no memory
\* for the table: then both arena_table_init and its caller raise an error.
acarrel(id, size, align) ==
  /\ Ready /\ Cardinality(given) < MaxGiven
  /\ \/ /\ arenas' = Opened /\ tabcap' = OpenCap
        /\ IF Live(Opened, id) THEN Begin(id, size, align) ELSE Fail(1)
     \/ arenas = <<>> /\ Fail(2) /\ UNCHANGED <<arenas, tabcap>>

\* asala.
asala(id, count, elmsize) ==
  /\ Ready /\ Cardinality(given) < MaxGiven
  /\ \/ /\ arenas' = Opened /\ tabcap' = OpenCap
        /\ IF Live(Opened, id) /\ MulOk(count, elmsize)
             THEN Begin(id, count * elmsize, 1) ELSE Fail(1)
     \/ arenas = <<>> /\ Fail(2) /\ UNCHANGED <<arenas, tabcap>>

Blocks == arenas[call.arena].blocks
Newest == Blocks[Len(Blocks)]

\* Faulty variants: the offset is aligned, not the address; the address is
\* rounded down.
AdjOffset(b, align)  == LET mis == b.used % align IN IF mis = 0 THEN 0 ELSE align - mis
OffsetDown(b, align) == b.used - ((b.base + b.used) % align)

\* block_aligned_offset, and whether it can be computed without overflow.
Adj(b, align) == LET mis == (b.base + b.used) % align IN IF mis = 0 THEN 0 ELSE align - mis
Offset(b, align)   == b.used + Adj(b, align)
OffsetOk(b, align) == AddOk(b.base, b.used) /\ AddOk(b.used, Adj(b, align))

\* A faulty variant: the end of the allocation is computed in a word.
HasRoomSum(b, offset, size) == (offset + size) % Word <= b.cap

\* block_has_room.
HasRoom(b, offset, size) == offset <= b.cap /\ size <= b.cap - offset

\* A faulty variant: no bytes for the padding.
NeedBare == call.size

\* block_new: a block of the usual size, or one for this allocation alone.
Need == call.size + (call.align - 1)
BlockCap == IF Need > BlockSize THEN Need ELSE BlockSize

\* The turn of the loop that finds room in the last block.
Serve ==
  /\ call # NoRequest /\ Blocks # <<>>
  /\ LET off == Offset(Newest, call.align)
     IN  IF ~OffsetOk(Newest, call.align) THEN Fail(1) /\ UNCHANGED arenas
         ELSE /\ HasRoom(Newest, off, call.size)
              /\ arenas' = [arenas EXCEPT ![call.arena].blocks[Len(Blocks)].used = off + call.size]
              /\ given' = given \cup {[arena |-> call.arena, block |-> Len(Blocks), off |-> off,
                                       size |-> call.size, align |-> call.align]}
              /\ call' = NoRequest /\ faults' = 0
  /\ UNCHANGED tabcap

\* A faulty variant: block_new raises an error as well.
NoBlockTwice == Fail(2)

\* No memory for a block: arena_alloc raises the one error.
NoBlock == Fail(1)

\* The turn that does not, or finds no block at all, and adds one.
AddBlock ==
  /\ call # NoRequest
  /\ Blocks # <<>> => /\ OffsetOk(Newest, call.align)
                      /\ ~HasRoom(Newest, Offset(Newest, call.align), call.size)
  /\ \/ /\ AddOk(Header, BlockCap)
        /\ \E base \in Bases :
             /\ AddOk(base, BlockCap)
             /\ arenas' = [arenas EXCEPT ![call.arena].blocks =
                             Append(@, [base |-> base, cap |-> BlockCap, used |-> 0])]
        /\ call' = [call EXCEPT !.fresh = TRUE]
        /\ UNCHANGED <<given, faults>>
     \/ NoBlock /\ UNCHANGED arenas
  /\ UNCHANGED tabcap

InitArena == arenas = <<>> /\ tabcap = 0 /\ call = NoRequest /\ given = {} /\ faults = 0

NextArena ==
  \/ mkarena \/ Serve \/ AddBlock
  \/ \E id \in 0..MaxArenas :
       \/ rmarena(id)
       \/ \E size \in Sizes :
            \/ \E align \in Aligns : acarrel(id, size, align)
            \/ \E count \in Sizes : asala(id, count, size)

SpecArena == InitArena /\ [][NextArena]_arenaVars

-----------------------------------------------------------------------------
(* Properties *)

BlockOf(g) == arenas[g.arena].blocks[g.block]

\* Everything given out and not yet removed lies inside a block its arena
\* still has, however close to the limits of a word the sizes were.
InBounds ==
  \A g \in given :
    /\ Live(arenas, g.arena) /\ g.block \in DOMAIN arenas[g.arena].blocks
    /\ g.off + g.size <= BlockOf(g).cap

\* No two allocations share a byte.
Disjoint ==
  \A g, h \in given :
    g # h /\ g.arena = h.arena /\ g.block = h.block =>
      g.off + g.size <= h.off \/ h.off + h.size <= g.off

\* Every allocation starts at a multiple of its alignment, whatever address
\* its block happens to have.
Aligned == \A g \in given : (BlockOf(g).base + g.off) % g.align = 0

\* One new block is enough for any allocation: the loop of arena_alloc has
\* no other bound.
OneBlockEnough ==
  call # NoRequest /\ call.fresh =>
    OffsetOk(Newest, call.align) /\ HasRoom(Newest, Offset(Newest, call.align), call.size)

\* arena.h says of den "alloc; null on OOM": a request that cannot be met
\* returns, with one error to collect.  The very first call is different:
\* when it finds no memory for the table of arenas the program ends.
NullOnOom == Exited => arenas = <<>>
=============================================================================
