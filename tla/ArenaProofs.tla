---------------------------- MODULE ArenaProofs ----------------------------
(***************************************************************************)
(* For any word, block size, addresses and requests: what the arenas of    *)
(* src/arena.c give out lies in their blocks, aligned and apart, and no    *)
(* call of the allocator raises a second error.                            *)
(***************************************************************************)
EXTENDS Arena, TLAPS, FiniteSetTheorems, SequenceTheorems, WellFoundedInduction

Block ==
  {b \in [base : Nat, cap : Nat, used : Nat] : b.used <= b.cap /\ AddOk(b.base, b.cap)}

Entry == [live : BOOLEAN, blocks : Seq(Block)]

\* A table never has more entries than room.
Table(t, cap) == cap \in Nat /\ \E n \in 0..(cap - 1) : t \in [0..n -> Entry]

Allocation == [arena : Nat, block : Nat, off : Nat, size : Nat, align : Pow2]

Placed(t, g) ==
  /\ Live(t, g.arena)
  /\ g.block \in DOMAIN t[g.arena].blocks
  /\ LET b == t[g.arena].blocks[g.block]
     IN  g.off + g.size <= b.used /\ (b.base + g.off) % g.align = 0

Apart(g, h) ==
  g # h /\ g.arena = h.arena /\ g.block = h.block =>
    g.off + g.size <= h.off \/ h.off + h.size <= g.off

Request == [busy : {TRUE}, arena : Nat, size : Nat \ {0}, align : Pow2, fresh : BOOLEAN]

\* The block made for a request is empty and large enough.
Prepared(c, blocks) ==
  /\ blocks # <<>>
  /\ blocks[Len(blocks)].used = 0
  /\ c.size + (c.align - 1) <= blocks[Len(blocks)].cap

Admitted(c, t) ==
  /\ c \in Request /\ Live(t, c.arena) /\ AddOk(c.size, c.align - 1)
  /\ c.fresh => Prepared(c, t[c.arena].blocks)

TypeInv ==
  /\ \/ arenas = <<>> /\ given = {} /\ call = NoRequest
     \/ Table(arenas, tabcap) /\ faults <= 1
  /\ faults \in Nat /\ given \subseteq Allocation

\* The inductive invariant: what InBounds, Aligned and OneBlockEnough say,
\* with the bytes of a block in use counted and the request in progress.
IInv ==
  /\ TypeInv
  /\ call = NoRequest \/ Admitted(call, arenas)
  /\ \A g \in given : Placed(arenas, g)
  /\ \A g, h \in given : Apart(g, h)

-----------------------------------------------------------------------------
(* Arithmetic *)

LEMMA Multiple ==
  ASSUME NEW q \in Nat, NEW a \in Nat \ {0}
  PROVE  (a * q) % a = 0
  BY Z3

LEMMA Quotient ==
  ASSUME NEW x \in Nat, NEW a \in Nat \ {0}
  PROVE  \E q \in Nat, r \in 0..(a - 1) : x = a * q + r /\ x % a = r
  <1>1. x = a * (x \div a) + (x % a) /\ x % a \in 0..(a - 1) /\ x \div a \in Nat
    BY Z3
  <1> QED BY <1>1

\* A number and what it lacks to the next multiple.
LEMMA NextMultiple ==
  ASSUME NEW x \in Nat, NEW a \in Nat \ {0}, x % a # 0
  PROVE  (x + (a - (x % a))) % a = 0
  <1>1. PICK q \in Nat, r \in 0..(a - 1) : x = a * q + r /\ x % a = r
    BY Quotient
  <1>2. a * (q + 1) = a * q + a
    BY Z3
  <1>3. a * q \in Int
    OBVIOUS
  <1>4. x + (a - r) = a * (q + 1)
    BY <1>1, <1>2, <1>3
  <1> QED BY <1>1, <1>4, Multiple

\* The padding is below the alignment and makes the address a multiple.
LEMMA Padding ==
  ASSUME NEW b \in Block, NEW align \in Pow2
  PROVE  /\ align \in Nat \ {0} /\ Adj(b, align) \in 0..(align - 1)
         /\ Offset(b, align) \in Nat /\ b.used <= Offset(b, align)
         /\ (b.base + Offset(b, align)) % align = 0
  <1> DEFINE x == b.base + b.used
  <1>1. x \in Nat /\ align \in Nat \ {0} /\ b.used \in Nat /\ b.base \in Nat
    BY SizeAssumption DEF Block
  <1>2. Adj(b, align) = IF x % align = 0 THEN 0 ELSE align - (x % align)
    BY DEF Adj
  <1>3. b.base + Offset(b, align) = x + Adj(b, align)
    <2>1. Adj(b, align) \in Int
      <3>1. PICK q \in Nat, r \in 0..(align - 1) : x % align = r
        BY <1>1, Quotient
      <3> HIDE DEF x
      <3> QED BY <1>1, <1>2, <3>1
    <2> QED BY <1>1, <2>1 DEF Offset
  <1> HIDE DEF x
  <1>4. PICK q \in Nat, r \in 0..(align - 1) : x % align = r
    BY <1>1, Quotient
  <1>5. Adj(b, align) \in 0..(align - 1)
    BY <1>1, <1>2, <1>4
  <1>6. (x + Adj(b, align)) % align = 0
    <2>1. CASE x % align = 0
      BY <1>1, <1>2, <2>1
    <2>2. CASE x % align # 0
      BY <1>1, <1>2, <2>2, NextMultiple
    <2> QED BY <2>1, <2>2
  <1> QED BY <1>1, <1>3, <1>5, <1>6 DEF Offset

\* An empty block takes any request no larger than it with the padding.
LEMMA FreshBlock ==
  ASSUME NEW b \in Block, NEW c \in Request, AddOk(c.size, c.align - 1),
         b.used = 0, c.size + (c.align - 1) <= b.cap
  PROVE  OffsetOk(b, c.align) /\ HasRoom(b, Offset(b, c.align), c.size)
  <1>1. c.size \in Nat /\ c.align \in Pow2
    BY DEF Request
  <1>2. b.base \in Nat /\ b.cap \in Nat /\ b.base + b.cap < Word /\ Word \in Nat
    BY SizeAssumption DEF Block, AddOk
  <1>3. c.align \in Nat \ {0} /\ Adj(b, c.align) \in 0..(c.align - 1)
    BY <1>1, Padding
  <1>4. b.base + b.used < Word /\ b.used + Adj(b, c.align) < Word
    BY <1>1, <1>2, <1>3 DEF AddOk
  <1> QED BY <1>1, <1>2, <1>3, <1>4 DEF OffsetOk, HasRoom, Offset, AddOk

\* A set of numbers has a least one.
LEMMA LeastNumber ==
  ASSUME NEW S, S \subseteq Nat, S # {}
  PROVE  \E x \in S : \A y \in S : x <= y
  <1>1. \E x \in S : \A y \in S : <<y, x>> \notin OpToRel(<, Nat)
    BY NatLessThanWellFounded, WFMin
  <1>2. \A x, y \in S : <<y, x>> \notin OpToRel(<, Nat) => x <= y
    BY DEF OpToRel
  <1> QED BY <1>1, <1>2

-----------------------------------------------------------------------------
(* Tables *)

\* The list of one arena is replaced: nothing else of the table changes.
LEMMA TableWith ==
  ASSUME NEW t, NEW cap, Table(t, cap), NEW i \in DOMAIN t, NEW s \in Seq(Block)
  PROVE  LET u == [t EXCEPT ![i].blocks = s]
         IN  /\ Table(u, cap) /\ DOMAIN u = DOMAIN t
             /\ \A j : Live(u, j) <=> Live(t, j)
             /\ u[i].blocks = s /\ \A j \in DOMAIN t \ {i} : u[j] = t[j]
  <1> DEFINE u == [t EXCEPT ![i].blocks = s]
  <1>1. PICK n \in 0..(cap - 1) : t \in [0..n -> Entry]
    BY DEF Table
  <1>2. t[i] \in Entry
    BY <1>1
  <1>3. /\ [t[i] EXCEPT !.blocks = s] \in Entry
        /\ [t[i] EXCEPT !.blocks = s].live = t[i].live
        /\ [t[i] EXCEPT !.blocks = s].blocks = s
    BY <1>2 DEF Entry
  <1>4. u = [t EXCEPT ![i] = [t[i] EXCEPT !.blocks = s]]
    OBVIOUS
  <1> HIDE DEF u
  <1>5. u \in [0..n -> Entry] /\ DOMAIN u = DOMAIN t
    BY <1>1, <1>3, <1>4
  <1>6. u[i].blocks = s /\ u[i].live = t[i].live /\ \A j \in DOMAIN t \ {i} : u[j] = t[j]
    BY <1>1, <1>3, <1>4
  <1>7. Table(u, cap)
    BY <1>1, <1>5 DEF Table
  <1>8. ASSUME NEW j PROVE Live(u, j) <=> Live(t, j)
    BY <1>5, <1>6 DEF Live
  <1> QED BY <1>5, <1>6, <1>7, <1>8 DEF u

\* A live arena is an entry of the table, and its blocks are blocks.
LEMMA TableEntry ==
  ASSUME NEW t, NEW cap, Table(t, cap), NEW i, Live(t, i)
  PROVE  i \in DOMAIN t /\ i \in Nat /\ t[i] \in Entry /\ t[i].blocks \in Seq(Block)
  <1>1. PICK n \in 0..(cap - 1) : t \in [0..n -> Entry]
    BY DEF Table
  <1>2. i \in 0..n /\ t[i] \in Entry
    BY <1>1 DEF Live
  <1> QED BY <1>1, <1>2 DEF Entry

\* An allocation stays where it is when its block stays, with no fewer bytes
\* in use.
LEMMA PlacedKept ==
  ASSUME NEW t, NEW u, NEW g, Placed(t, g), Live(u, g.arena),
         g.block \in DOMAIN u[g.arena].blocks,
         NEW b \in Block, b = t[g.arena].blocks[g.block],
         NEW c \in Block, c = u[g.arena].blocks[g.block],
         c.base = b.base, b.used <= c.used, g.off + g.size \in Nat
  PROVE  Placed(u, g)
  BY DEF Placed, Block

\* Two allocations of which one ends before the other starts.
LEMMA ApartAtEnd ==
  ASSUME NEW t, NEW g \in Allocation, Placed(t, g), NEW h \in Allocation,
         NEW b \in Block,
         g.arena = h.arena /\ g.block = h.block => b = t[g.arena].blocks[g.block],
         b.used <= h.off
  PROVE  Apart(g, h) /\ Apart(h, g)
  <1> SUFFICES ASSUME g.arena = h.arena, g.block = h.block
               PROVE  g.off + g.size <= h.off
    BY DEF Apart
  <1>1. g.off + g.size <= b.used
    BY DEF Placed
  <1> QED BY <1>1 DEF Block, Allocation

-----------------------------------------------------------------------------
(* Opening the table *)

\* Every operation but a turn of the loop works on a table that is there.
LEMMA OpenedTable ==
  ASSUME IInv
  PROVE  /\ Table(Opened, OpenCap) /\ 0 \in DOMAIN Opened
         /\ \A g \in given : Placed(Opened, g)
  <1>1. CASE arenas = <<>>
    <2>1. NoBlocks \in Entry
      BY EmptySeq DEF NoBlocks, Entry
    <2>2. Opened = [i \in 0..0 |-> NoBlocks] /\ OpenCap = Seed
      BY <1>1 DEF Opened, OpenCap
    <2>3. Opened \in [0..0 -> Entry] /\ 0 \in 0..(OpenCap - 1) /\ OpenCap \in Nat
      BY <2>1, <2>2, SizeAssumption
    <2>4. given = {}
      <3>1. ~Table(arenas, tabcap)
        BY <1>1, EmptySeq DEF Table
      <3> QED BY <3>1 DEF IInv, TypeInv
    <2> QED BY <2>3, <2>4 DEF Table
  <1>2. CASE arenas # <<>>
    <2>1. Opened = arenas /\ OpenCap = tabcap /\ Table(arenas, tabcap)
      BY <1>2 DEF Opened, OpenCap, IInv, TypeInv
    <2>2. 0 \in DOMAIN arenas
      BY <2>1 DEF Table
    <2> QED BY <2>1, <2>2 DEF IInv
  <1> QED BY <1>1, <1>2

\* The identity of a new arena is the one after the last or a dead one's, and
\* its entry fits the table.
LEMMA NewIdFits ==
  ASSUME Table(Opened, OpenCap)
  PROVE  /\ NewId # 0 /\ ~Live(Opened, NewId)
         /\ Needed \in Nat
         /\ \E m \in 0..(Needed - 1) : DOMAIN Opened \cup {NewId} = 0..m
  <1>1. PICK n \in 0..(OpenCap - 1) : Opened \in [0..n -> Entry]
    BY DEF Table
  <1>2. OpenCap \in Nat /\ n \in Nat /\ DOMAIN Opened = 0..n
    BY <1>1 DEF Table
  <1>3. CASE Dead = {}
    <2>1. NewId = n + 1
      BY <1>2, <1>3, FS_Interval DEF NewId
    <2>2. Needed \in Nat /\ n + 1 \in 0..(Needed - 1)
      BY <1>1, <1>2, <2>1 DEF Needed
    <2>3. 0..n \cup {n + 1} = 0..(n + 1)
      BY <1>2
    <2> QED BY <1>2, <2>1, <2>2, <2>3 DEF Live
  <1>4. CASE Dead # {}
    <2>1. Dead \subseteq Nat
      BY <1>2 DEF Dead
    <2>2. NewId \in Dead
      <3>1. \E i \in Dead : \A j \in Dead : i <= j
        BY <1>4, <2>1, LeastNumber
      <3> QED BY <1>4, <3>1 DEF NewId
    <2>3. NewId \in 0..n /\ NewId > 0 /\ ~Opened[NewId].live
      BY <1>2, <2>2 DEF Dead
    <2>4. Needed = OpenCap
      BY <1>1, <1>2, <2>3 DEF Needed
    <2>5. 0..n \cup {NewId} = 0..n
      BY <2>3
    <2> QED BY <1>1, <1>2, <2>3, <2>4, <2>5 DEF Live
  <1> QED BY <1>3, <1>4

-----------------------------------------------------------------------------
(* The actions *)

\* A call that leaves a sound table and takes allocations away at most.
LEMMA Settled ==
  ASSUME IInv, Table(arenas', tabcap'), faults' \in 0..1,
         call' = NoRequest \/ Admitted(call', arenas'),
         given' \subseteq given, \A g \in given' : Placed(arenas', g)
  PROVE  IInv'
  BY DEF IInv, TypeInv

\* An error for the first call of all leaves nothing behind.
LEMMA FailedFirst ==
  ASSUME IInv, Ready, arenas = <<>>, NEW n \in Nat, Fail(n), UNCHANGED <<arenas, tabcap>>
  PROVE  IInv'
  <1>1. ~Table(arenas, tabcap)
    BY EmptySeq DEF Table
  <1>2. given = {}
    BY <1>1 DEF IInv, TypeInv
  <1> QED BY <1>2 DEF IInv, TypeInv, Fail

LEMMA MkarenaKeeps == ASSUME IInv, mkarena PROVE IInv'
  <1> DEFINE u == [i \in DOMAIN Opened \cup {NewId} |-> IF i = NewId THEN NoBlocks ELSE Opened[i]]
  <1>1. CASE /\ Ready /\ Needed <= MaxArenas /\ arenas' = u /\ tabcap' = Needed
             /\ faults' = 0 /\ UNCHANGED <<call, given>>
    <2>1. PICK n \in 0..(OpenCap - 1) : Opened \in [0..n -> Entry]
      BY OpenedTable DEF Table
    <2>2. NewId # 0 /\ ~Live(Opened, NewId) /\ Needed \in Nat
      BY OpenedTable, NewIdFits
    <2>3. PICK m \in 0..(Needed - 1) : DOMAIN Opened \cup {NewId} = 0..m
      BY OpenedTable, NewIdFits
    <2>4. NoBlocks \in Entry
      BY EmptySeq DEF NoBlocks, Entry
    <2>5. u \in [0..m -> Entry]
      BY <2>1, <2>3, <2>4
    <2>6. Table(u, Needed)
      BY <2>2, <2>3, <2>5 DEF Table
    <2>7. ASSUME NEW g \in given PROVE Placed(u, g)
      <3>1. Placed(Opened, g) /\ Live(Opened, g.arena)
        BY OpenedTable DEF Placed
      <3>2. u[g.arena] = Opened[g.arena] /\ g.arena \in DOMAIN u
        BY <2>2, <3>1 DEF Live
      <3> HIDE DEF u
      <3> QED BY <3>1, <3>2 DEF Placed, Live
    <2> HIDE DEF u
    <2>8. call' = NoRequest /\ given' = given
      BY <1>1 DEF Ready
    <2> QED BY <1>1, <2>6, <2>7, <2>8, Settled
  <1>2. CASE Ready /\ arenas = <<>> /\ Fail(1) /\ UNCHANGED <<arenas, tabcap>>
    BY <1>2, FailedFirst
  <1>3. CASE Ready /\ Fail(1) /\ arenas' = Opened /\ tabcap' = OpenCap
    BY <1>3, OpenedTable, Settled DEF Fail
  <1> QED BY <1>1, <1>2, <1>3 DEF mkarena

LEMMA RmarenaKeeps == ASSUME IInv, NEW id, rmarena(id) PROVE IInv'
  <1>1. CASE /\ Ready /\ id \in DOMAIN Opened \ {0}
             /\ arenas' = [Opened EXCEPT ![id] = [live |-> FALSE, blocks |-> <<>>]]
             /\ given' = {g \in given : g.arena # id}
             /\ tabcap' = OpenCap /\ faults' = 0 /\ UNCHANGED call
    <2>1. PICK n \in 0..(OpenCap - 1) : Opened \in [0..n -> Entry]
      BY OpenedTable DEF Table
    <2>2. [live |-> FALSE, blocks |-> <<>>] \in Entry
      BY EmptySeq DEF Entry
    <2>3. arenas' \in [0..n -> Entry] /\ DOMAIN arenas' = DOMAIN Opened
      BY <1>1, <2>1, <2>2
    <2>4. Table(arenas', tabcap')
      BY <1>1, <2>3, OpenedTable DEF Table
    <2>5. ASSUME NEW g \in given' PROVE Placed(arenas', g)
      <3>1. Placed(Opened, g) /\ g.arena # id
        BY <1>1, OpenedTable
      <3>2. g.arena \in DOMAIN Opened
        BY <3>1 DEF Placed, Live
      <3>3. arenas'[g.arena] = Opened[g.arena]
        BY <1>1, <2>1, <3>1, <3>2
      <3> QED BY <2>3, <3>1, <3>3 DEF Placed, Live
    <2>6. call' = NoRequest /\ faults' \in 0..1 /\ given' \subseteq given
      BY <1>1 DEF Ready
    <2> QED BY <2>4, <2>5, <2>6, Settled
  <1>2. CASE Ready /\ arenas' = Opened /\ UNCHANGED given /\ tabcap' = OpenCap
             /\ faults' = 0 /\ UNCHANGED call
    BY <1>2, OpenedTable, Settled DEF Ready
  <1>3. CASE Ready /\ arenas = <<>> /\ Fail(1) /\ UNCHANGED <<arenas, tabcap>>
    BY <1>3, FailedFirst
  <1> QED BY <1>1, <1>2, <1>3 DEF rmarena

\* A request is admitted, granted as nothing, or refused with one error.
LEMMA BeginKeeps ==
  ASSUME IInv, arenas' = Opened, tabcap' = OpenCap,
         NEW id, Live(Opened, id), NEW size \in Nat, NEW align \in Int,
         Begin(id, size, align)
  PROVE  IInv'
  <1> DEFINE a == IF align < 1 THEN 1 ELSE align
  <1>1. CASE Fail(0) \/ Fail(1)
    BY <1>1, OpenedTable, Settled DEF Fail
  <1>2. CASE /\ a \in Pow2 /\ size # 0 /\ AddOk(size, a - 1)
             /\ call' = [busy |-> TRUE, arena |-> id, size |-> size, align |-> a, fresh |-> FALSE]
             /\ faults' = 0 /\ UNCHANGED given
    <2>1. id \in Nat
      BY OpenedTable, TableEntry
    <2> HIDE DEF a
    <2>2. Admitted(call', arenas')
      BY <1>2, <2>1 DEF Admitted, Request
    <2> QED BY <1>2, <2>2, OpenedTable, Settled
  <1> QED BY <1>1, <1>2 DEF Begin

LEMMA AcarrelKeeps ==
  ASSUME IInv, NEW id, NEW size \in Nat, NEW align \in Int, acarrel(id, size, align)
  PROVE  IInv'
  <1>1. CASE arenas' = Opened /\ tabcap' = OpenCap /\ Live(Opened, id) /\ Begin(id, size, align)
    BY <1>1, BeginKeeps
  <1>2. CASE arenas' = Opened /\ tabcap' = OpenCap /\ Fail(1)
    BY <1>2, OpenedTable, Settled DEF Fail
  <1>3. CASE Ready /\ arenas = <<>> /\ Fail(2) /\ UNCHANGED <<arenas, tabcap>>
    BY <1>3, FailedFirst
  <1> QED BY <1>1, <1>2, <1>3 DEF acarrel

LEMMA AsalaKeeps ==
  ASSUME IInv, NEW id, NEW count \in Nat, NEW elmsize \in Nat, asala(id, count, elmsize)
  PROVE  IInv'
  <1>1. CASE /\ arenas' = Opened /\ tabcap' = OpenCap /\ Live(Opened, id)
             /\ Begin(id, count * elmsize, 1)
    <2>1. count * elmsize \in Nat
      OBVIOUS
    <2> QED BY <1>1, <2>1, BeginKeeps
  <1>2. CASE arenas' = Opened /\ tabcap' = OpenCap /\ Fail(1)
    BY <1>2, OpenedTable, Settled DEF Fail
  <1>3. CASE Ready /\ arenas = <<>> /\ Fail(2) /\ UNCHANGED <<arenas, tabcap>>
    BY <1>3, FailedFirst
  <1> QED BY <1>1, <1>2, <1>3 DEF asala

\* While a request is in progress its arena is there.
LEMMA Requested ==
  ASSUME IInv, call # NoRequest
  PROVE  /\ call \in Request /\ Admitted(call, arenas)
         /\ Table(arenas, tabcap) /\ faults \in 0..1
         /\ Live(arenas, call.arena) /\ call.arena \in DOMAIN arenas
         /\ Blocks \in Seq(Block)
  <1>1. call \in Request /\ Admitted(call, arenas) /\ Table(arenas, tabcap) /\ faults \in 0..1
    BY DEF IInv, TypeInv, Admitted
  <1>2. Live(arenas, call.arena)
    BY <1>1 DEF Admitted
  <1> QED BY <1>1, <1>2, TableEntry DEF Blocks

\* What is placed is in a block of its arena.
LEMMA PlacedBlock ==
  ASSUME NEW t, NEW cap, Table(t, cap), NEW g \in Allocation, Placed(t, g)
  PROVE  /\ g.arena \in DOMAIN t /\ t[g.arena].blocks \in Seq(Block)
         /\ g.block \in 1..Len(t[g.arena].blocks)
         /\ t[g.arena].blocks[g.block] \in Block
         /\ g.off + g.size \in Nat
  <1>1. g.arena \in DOMAIN t /\ t[g.arena].blocks \in Seq(Block)
    BY TableEntry DEF Placed
  <1>2. g.block \in 1..Len(t[g.arena].blocks)
    BY <1>1, LenProperties DEF Placed
  <1> QED BY <1>1, <1>2, ElementOfSeq DEF Allocation

LEMMA ServeKeeps == ASSUME IInv, Serve PROVE IInv'
  <1> DEFINE k == Len(Blocks)
             off == Offset(Newest, call.align)
             new == [arena |-> call.arena, block |-> k, off |-> off,
                     size |-> call.size, align |-> call.align]
             b2 == [Newest EXCEPT !.used = off + call.size]
             s == [Blocks EXCEPT ![k] = b2]
  <1>1. /\ call # NoRequest /\ Blocks # <<>> /\ call \in Request /\ Table(arenas, tabcap)
        /\ call.arena \in DOMAIN arenas /\ Blocks \in Seq(Block)
        /\ Live(arenas, call.arena)
    BY Requested DEF Serve
  <1>2. CASE Fail(1) /\ UNCHANGED <<arenas, tabcap>>
    <2>1. \A g \in given : Placed(arenas, g)
      BY DEF IInv
    <2> QED BY <1>1, <1>2, <2>1, Settled DEF Fail
  <1>3. CASE /\ HasRoom(Newest, off, call.size)
             /\ arenas' = [arenas EXCEPT ![call.arena].blocks[k].used = off + call.size]
             /\ given' = given \cup {new}
             /\ call' = NoRequest /\ faults' = 0 /\ UNCHANGED tabcap
    <2>1. k \in 1..Len(Blocks) /\ k \in Nat /\ Newest \in Block /\ Newest = Blocks[k]
      <3>1. k \in 1..Len(Blocks) /\ k \in Nat
        BY <1>1, EmptySeq, LenProperties
      <3> QED BY <1>1, <3>1, ElementOfSeq DEF Newest
    <2>2. call.size \in Nat \ {0} /\ call.align \in Pow2 /\ call.arena \in Nat
      BY <1>1 DEF Request
    <2>3. /\ call.align \in Nat \ {0} /\ off \in Nat /\ Newest.used <= off
          /\ (Newest.base + off) % call.align = 0
      BY <2>1, <2>2, Padding
    <2>4. Newest.cap \in Nat /\ off + call.size <= Newest.cap
      BY <1>3, <2>1, <2>2, <2>3 DEF HasRoom, Block
    <2> HIDE DEF off
    <2>5. /\ b2 \in Block /\ b2.base = Newest.base /\ b2.used = off + call.size
          /\ Newest.used <= b2.used
      BY <2>1, <2>2, <2>3, <2>4 DEF Block
    <2> HIDE DEF b2
    <2>6. /\ s \in Seq(Block) /\ Len(s) = k /\ s[k] = b2
          /\ \A i \in 1..k \ {k} : s[i] = Blocks[i]
      BY <1>1, <2>1, <2>5, ExceptSeq
    <2>7. arenas' = [arenas EXCEPT ![call.arena].blocks = s]
      BY <1>3 DEF b2, Newest, Blocks
    <2> HIDE DEF s
    <2>8. /\ Table(arenas', tabcap') /\ \A j : Live(arenas', j) <=> Live(arenas, j)
          /\ arenas'[call.arena].blocks = s
          /\ \A j \in DOMAIN arenas \ {call.arena} : arenas'[j] = arenas[j]
      <3>1. tabcap' = tabcap
        BY <1>3
      <3> QED BY <1>1, <2>6, <2>7, <3>1, TableWith
    <2>9. ASSUME NEW g \in given PROVE Placed(arenas', g) /\ Apart(g, new) /\ Apart(new, g)
      <3>1. g \in Allocation /\ Placed(arenas, g)
        BY DEF IInv, TypeInv
      <3>2. /\ g.arena \in DOMAIN arenas /\ g.block \in 1..Len(arenas[g.arena].blocks)
            /\ arenas[g.arena].blocks[g.block] \in Block /\ g.off + g.size \in Nat
            /\ Live(arenas', g.arena)
        BY <1>1, <2>8, <3>1, PlacedBlock DEF Placed
      <3>3. CASE g.arena # call.arena
        <4>1. arenas'[g.arena] = arenas[g.arena]
          BY <2>8, <3>2, <3>3
        <4>2. Placed(arenas', g)
          BY <3>1, <3>2, <4>1 DEF Placed
        <4> QED BY <3>3, <4>2 DEF Apart
      <3>4. CASE g.arena = call.arena
        <4>1. arenas[g.arena].blocks = Blocks /\ arenas'[g.arena].blocks = s
          BY <2>8, <3>4 DEF Blocks
        <4>2. g.block \in 1..k /\ DOMAIN s = 1..k
          BY <2>6, <3>2, <4>1, LenProperties
        <4>3. /\ s[g.block] \in Block /\ s[g.block].base = Blocks[g.block].base
              /\ Blocks[g.block].used <= s[g.block].used /\ Blocks[g.block] \in Block
          <5>1. CASE g.block = k
            BY <2>1, <2>5, <2>6, <5>1
          <5>2. CASE g.block # k
            <6>1. s[g.block] = Blocks[g.block]
              BY <2>6, <4>2, <5>2
            <6> QED BY <3>2, <4>1, <6>1 DEF Block
          <5> QED BY <5>1, <5>2
        <4>4. Placed(arenas', g)
          BY <3>1, <3>2, <4>1, <4>2, <4>3, PlacedKept
        <4>5. new \in Allocation /\ new.arena = call.arena /\ new.block = k /\ new.off = off
          BY <2>1, <2>2, <2>3 DEF Allocation
        <4> HIDE DEF new, k
        <4>6. Apart(g, new) /\ Apart(new, g)
          <5>1. g.arena = new.arena /\ g.block = new.block =>
                  Newest = arenas[g.arena].blocks[g.block]
            BY <2>1, <4>1, <4>5
          <5> QED BY <2>1, <2>3, <3>1, <4>5, <5>1, ApartAtEnd
        <4> QED BY <4>4, <4>6
      <3> QED BY <3>3, <3>4
    <2>10. new \in Allocation /\ Placed(arenas', new) /\ Apart(new, new)
      <3>1. new \in Allocation
        BY <2>1, <2>2, <2>3 DEF Allocation
      <3>2. Live(arenas', call.arena) /\ k \in DOMAIN s
        BY <1>1, <2>1, <2>6, <2>8, LenProperties
      <3>3. off + call.size <= s[k].used /\ (s[k].base + off) % call.align = 0
        BY <2>2, <2>3, <2>5, <2>6
      <3> QED BY <2>8, <3>1, <3>2, <3>3 DEF Placed, Apart
    <2> HIDE DEF new
    <2>11. given' \subseteq Allocation /\ \A g \in given' : Placed(arenas', g)
      BY <1>3, <2>9, <2>10 DEF IInv, TypeInv
    <2>12. \A g, h \in given' : Apart(g, h)
      BY <1>3, <2>9, <2>10 DEF IInv
    <2>13. call' = NoRequest /\ faults' = 0
      BY <1>3
    <2> QED BY <2>8, <2>11, <2>12, <2>13 DEF IInv, TypeInv
  <1> QED BY <1>2, <1>3 DEF Serve

LEMMA AddBlockKeeps == ASSUME IInv, AddBlock PROVE IInv'
  <1>1. /\ call # NoRequest /\ call \in Request /\ Admitted(call, arenas)
        /\ Table(arenas, tabcap) /\ faults \in 0..1 /\ tabcap' = tabcap
        /\ call.arena \in DOMAIN arenas /\ Blocks \in Seq(Block)
        /\ Live(arenas, call.arena)
    BY Requested DEF AddBlock
  <1>2. CASE Fail(1) /\ UNCHANGED arenas
    <2>1. \A g \in given : Placed(arenas, g)
      BY DEF IInv
    <2> QED BY <1>1, <1>2, <2>1, Settled DEF Fail
  <1>3. ASSUME NEW base \in Bases, AddOk(base, BlockCap),
               arenas' = [arenas EXCEPT ![call.arena].blocks =
                            Append(@, [base |-> base, cap |-> BlockCap, used |-> 0])],
               call' = [call EXCEPT !.fresh = TRUE], UNCHANGED <<given, faults>>
        PROVE  IInv'
    <2> DEFINE b == [base |-> base, cap |-> BlockCap, used |-> 0]
               s == Append(Blocks, b)
    <2>1. call.size \in Nat /\ call.align \in Nat \ {0} /\ BlockSize \in Nat
      BY <1>1, SizeAssumption DEF Request
    <2>2. BlockCap \in Nat /\ call.size + (call.align - 1) <= BlockCap
      BY <2>1 DEF BlockCap, Need
    <2>3. b \in Block /\ b.used = 0 /\ b.cap = BlockCap
      BY <1>3, <2>2, SizeAssumption DEF Block
    <2>4. arenas' = [arenas EXCEPT ![call.arena].blocks = s]
      BY <1>3 DEF Blocks
    <2> HIDE DEF b
    <2>5. /\ s \in Seq(Block) /\ Len(s) = Len(Blocks) + 1 /\ s[Len(s)] = b
          /\ \A i \in 1..Len(Blocks) : s[i] = Blocks[i]
          /\ Len(Blocks) \in Nat /\ s # <<>>
      BY <1>1, <2>3, AppendProperties, EmptySeq, LenProperties
    <2> HIDE DEF s
    <2>6. /\ Table(arenas', tabcap') /\ \A j : Live(arenas', j) <=> Live(arenas, j)
          /\ arenas'[call.arena].blocks = s
          /\ \A j \in DOMAIN arenas \ {call.arena} : arenas'[j] = arenas[j]
      <3>1. tabcap' = tabcap
        BY <1>1
      <3>2. PICK i \in DOMAIN arenas : i = call.arena
        BY <1>1
      <3>3. PICK u : u = [arenas EXCEPT ![i].blocks = s]
        OBVIOUS
      <3>4. /\ Table(u, tabcap) /\ \A j : Live(u, j) <=> Live(arenas, j)
            /\ u[i].blocks = s /\ \A j \in DOMAIN arenas \ {i} : u[j] = arenas[j]
        BY <1>1, <2>5, <3>3, TableWith
      <3>5. arenas' = u
        BY <2>4, <3>2, <3>3
      <3> QED BY <3>1, <3>2, <3>4, <3>5
    <2>7. ASSUME NEW g \in given PROVE Placed(arenas', g)
      <3>1. g \in Allocation /\ Placed(arenas, g)
        BY DEF IInv, TypeInv
      <3>2. /\ g.arena \in DOMAIN arenas /\ g.block \in 1..Len(arenas[g.arena].blocks)
            /\ Live(arenas', g.arena)
        BY <1>1, <2>6, <3>1, PlacedBlock DEF Placed
      <3>3. CASE g.arena # call.arena
        <4>1. arenas'[g.arena] = arenas[g.arena]
          BY <2>6, <3>2, <3>3
        <4> QED BY <3>1, <3>2, <4>1 DEF Placed
      <3>4. CASE g.arena = call.arena
        <4>1. arenas[g.arena].blocks = Blocks /\ arenas'[g.arena].blocks = s
          BY <2>6, <3>4 DEF Blocks
        <4>2. s[g.block] = Blocks[g.block] /\ g.block \in DOMAIN s
          BY <2>5, <3>2, <4>1, LenProperties
        <4> QED BY <3>1, <3>2, <4>1, <4>2 DEF Placed
      <3> QED BY <3>3, <3>4
    <2>8. Admitted(call', arenas')
      <3>1. /\ call' \in Request /\ call'.arena = call.arena /\ call'.size = call.size
            /\ call'.align = call.align
        BY <1>1, <1>3 DEF Request
      <3>2. Prepared(call', s)
        BY <2>2, <2>3, <2>5, <3>1 DEF Prepared
      <3> QED BY <1>1, <2>6, <3>1, <3>2 DEF Admitted
    <2>9. given' = given /\ faults' \in 0..1
      BY <1>1, <1>3
    <2> QED BY <2>6, <2>7, <2>8, <2>9, Settled
  <1> QED BY <1>2, <1>3 DEF AddBlock, NoBlock

-----------------------------------------------------------------------------
(* The invariant *)

LEMMA InitHolds == InitArena => IInv
  BY DEF InitArena, IInv, TypeInv

LEMMA StepKeeps == IInv /\ [NextArena]_arenaVars => IInv'
  <1> SUFFICES ASSUME IInv, [NextArena]_arenaVars PROVE IInv'
    OBVIOUS
  <1>1. CASE mkarena
    BY <1>1, MkarenaKeeps
  <1>2. CASE Serve
    BY <1>2, ServeKeeps
  <1>3. CASE AddBlock
    BY <1>3, AddBlockKeeps
  <1>4. ASSUME NEW id \in 0..MaxArenas, rmarena(id) PROVE IInv'
    BY <1>4, RmarenaKeeps
  <1>5. ASSUME NEW id \in 0..MaxArenas, NEW size \in Sizes, NEW align \in Aligns,
               acarrel(id, size, align)
        PROVE  IInv'
    BY <1>5, AcarrelKeeps, SizeAssumption
  <1>6. ASSUME NEW id \in 0..MaxArenas, NEW size \in Sizes, NEW count \in Sizes,
               asala(id, count, size)
        PROVE  IInv'
    BY <1>6, AsalaKeeps, SizeAssumption
  <1>7. CASE UNCHANGED arenaVars
    BY <1>7 DEF arenaVars, IInv, TypeInv
  <1> QED BY <1>1, <1>2, <1>3, <1>4, <1>5, <1>6, <1>7 DEF NextArena

\* No table outgrows its room; every block ends inside the word and is filled
\* no further than it reaches; every allocation handed out is aligned and
\* lies in the filled part of one block of a live arena, where no other
\* shares a byte with it; the request in progress still has the room it was
\* admitted with.  That blocks do not overlap each other is malloc's promise.
THEOREM ArenaInvariant == SpecArena => []IInv
  BY InitHolds, StepKeeps, PTL DEF SpecArena

\* What a client holds, what the request in progress finds and what a call
\* raises, in every sound state.
LEMMA SoundStates == IInv => InBounds /\ Disjoint /\ Aligned /\ OneBlockEnough /\ NullOnOom
  <1> SUFFICES ASSUME IInv PROVE InBounds /\ Disjoint /\ Aligned /\ OneBlockEnough /\ NullOnOom
    OBVIOUS
  <1>1. ASSUME NEW g \in given
        PROVE  /\ Placed(arenas, g) /\ g \in Allocation /\ g.block \in DOMAIN arenas[g.arena].blocks
               /\ BlockOf(g) \in Block /\ g.off + g.size \in Nat
    <2>1. Placed(arenas, g) /\ g \in Allocation
      BY DEF IInv, TypeInv
    <2>2. Table(arenas, tabcap)
      BY <1>1 DEF IInv, TypeInv
    <2> QED BY <2>1, <2>2, PlacedBlock DEF BlockOf, Placed
  <1>2. InBounds
    BY <1>1 DEF InBounds, Placed, BlockOf, Block
  <1>3. Disjoint
    BY DEF IInv, Apart, Disjoint
  <1>4. Aligned
    BY <1>1 DEF Aligned, Placed, BlockOf
  <1>5. OneBlockEnough
    <2> SUFFICES ASSUME call # NoRequest, call.fresh
                 PROVE  /\ OffsetOk(Newest, call.align)
                        /\ HasRoom(Newest, Offset(Newest, call.align), call.size)
      BY DEF OneBlockEnough
    <2>1. call \in Request /\ Admitted(call, arenas) /\ Blocks \in Seq(Block)
      BY Requested
    <2>2. AddOk(call.size, call.align - 1) /\ Prepared(call, Blocks)
      BY <2>1 DEF Admitted, Blocks
    <2>3. Newest \in Block
      <3>1. Len(Blocks) \in 1..Len(Blocks)
        BY <2>1, <2>2, EmptySeq, LenProperties DEF Prepared
      <3> QED BY <2>1, <3>1, ElementOfSeq DEF Newest
    <2> QED BY <2>1, <2>2, <2>3, FreshBlock DEF Prepared, Newest
  <1>6. NullOnOom
    BY DEF NullOnOom, Exited, IInv, TypeInv
  <1> QED BY <1>2, <1>3, <1>4, <1>5, <1>6

\* What a client was given and has not removed lies in a block of its arena,
\* for every word size and every request, however near to overflowing.
THEOREM AllocationsInBounds == SpecArena => []InBounds
  BY ArenaInvariant, SoundStates, PTL

\* No two allocations share a byte.
THEOREM AllocationsDisjoint == SpecArena => []Disjoint
  BY ArenaInvariant, SoundStates, PTL

\* Every allocation has the alignment it was asked for, whatever addresses
\* malloc gives the blocks.
THEOREM AllocationsAligned == SpecArena => []Aligned
  BY ArenaInvariant, SoundStates, PTL

\* The loop of arena_alloc turns once more at most: a new block is enough.
THEOREM OneNewBlockEnough == SpecArena => []OneBlockEnough
  BY ArenaInvariant, SoundStates, PTL

\* No call but the first raises two errors, so none ends the program.
THEOREM OneErrorAtMost == SpecArena => []NullOnOom
  BY ArenaInvariant, SoundStates, PTL
=============================================================================
