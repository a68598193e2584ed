----------------------------- MODULE HashAlgebra -----------------------------
(***************************************************************************)
(* The operations on whole sets, maps or multisets (src/silo_set.c,        *)
(* conjoin of src/silo_map.c, src/silo_multiset.c, replica of              *)
(* src/silo_common.c).  Each is a loop over the slots of one table that    *)
(* changes another, or the one it walks, entry by entry: a step here is    *)
(* one turn of such a loop.  A table may grow in the middle of a turn, and *)
(* memory may run out there.  Where an operation makes a table of its own, *)
(* the table of descriptors may have to be enlarged, which frees the       *)
(* records the operation has looked up before and goes on to walk.         *)
(* Generations play no role and are left at 0.                             *)
(***************************************************************************)
EXTENDS HashOps

CONSTANTS
  MaxCount,   (* the largest count (2^64 - 1); Val is 1..MaxCount, and a
                 count also stands for a set's only value, a map's values *)
  MaxCap,     (* bound: the arena cannot hold a larger table              *)
  MaxCalls    (* bound: calls that fill the tables before the operation   *)

\* Counts are positive, and every one up to the largest is there.
ASSUME CountAssumption == MaxCount \in Nat /\ MaxCount > 0 /\ Val = 1..MaxCount

Kinds == {"set", "map", "multiset"}

VARIABLES
  kind,       (* what both tables are                                     *)
  d, s, tmp,  (* dst, src, and the scratch table of a symmetric difference
                 or the copy replica makes of dst                         *)
  job,        (* the operation called last: the loop it is in ("none" once
                 it has returned), the next slot, what dst held before
                 it, and whether the table of descriptors moved under it  *)
  faults,     (* errors raised since the client last collected one        *)
  calls

algebraVars == <<kind, d, s, tmp, job, faults, calls>>

NoJob == [op |-> "none", loop |-> "none", i |-> 0, old |-> [k \in Key |-> 0], moved |-> FALSE]

-----------------------------------------------------------------------------
(* One table, one key *)

Still(t) == [t EXCEPT !.gen = 0]

\* insert and adds: every way they can end - done, or given up with the
\* table grown or as it was.  htab_grow asks for several blocks before it
\* looks whether it got them, so it may raise more than one error.
Wrote(t, e) ==
  LET g    == Grown(t)
      fits == NeedsGrow(t) => GrownCap(t) <= MaxCap
      kept == kind = "set" /\ Found(g, e.key)
  IN  (IF fits THEN {[t |-> Still(IF kept THEN g ELSE Put(g, e)), faults |-> 0]} ELSE {})
      \cup (IF fits /\ ~kept THEN {[t |-> Still(g), faults |-> 1]} ELSE {})
      \cup (IF NeedsGrow(t) THEN {[t |-> t, faults |-> n] : n \in 1..2} ELSE {})

Without(t, k) == IF Found(t, k) THEN Still(Kill(t, Probe(t, k))) ELSE t

\* cntms: the count of a key, none when it is absent.
Count(t, k) == IF Found(t, k) THEN t.slot[Probe(t, k)].val ELSE 0

\* mset_set_count.
SetCount(t, k, n) ==
  IF n = 0 THEN {[t |-> Without(t, k), faults |-> 0]}
  ELSE Wrote(t, [key |-> k, val |-> n])

\* A faulty variant: the sum wraps.
AddCountWraps(t, k, n)   == SetCount(t, k, (Count(t, k) + n) % (MaxCount + 1))

\* addms and mset_add_count: the sum, unless it overflows.
AddCount(t, k, n) ==
  IF Count(t, k) + n > MaxCount THEN {[t |-> t, faults |-> 1]}
  ELSE SetCount(t, k, Count(t, k) + n)

Lesser(a, b) == IF a < b THEN a ELSE b
Minus(a, b)  == IF a > b THEN a - b ELSE 0
Apart(a, b)  == IF a > b THEN a - b ELSE b - a

-----------------------------------------------------------------------------
(* Loops *)

Done(t) == {[t |-> t, faults |-> 0]}

\* A faulty variant: the common elements are looked for in the wrong table.
WalkedScratch(loop) ==
  IF loop \in {"intxns", "copy", "replica", "inner", "intxnms", "apart"} THEN d
  ELSE IF loop \in {"refill", "remove"} THEN tmp ELSE s

\* The table each loop walks.
Walked(loop) ==
  IF loop \in {"intxns", "copy", "replica", "inner", "intxnms", "apart"} THEN d
  ELSE IF loop = "refill" THEN tmp ELSE s

\* What a turn of each loop does at entry e to the table it changes.
Body(loop, e) ==
  CASE loop = "unions" -> Wrote(d, e)
    [] loop = "intxns" -> Done(IF Found(s, e.key) THEN d ELSE Without(d, e.key))
    [] loop \in {"diffs", "remove"} -> Done(Without(d, e.key))
    [] loop \in {"copy", "replica"} -> Wrote(tmp, e)
    [] loop = "addback" -> IF Found(tmp, e.key) THEN Done(d) ELSE Wrote(d, e)
    [] loop = "inner"   -> Done(IF Found(s, e.key) THEN d ELSE Without(d, e.key))
    [] loop = "take"    -> IF job.op = "outer" \/ Found(d, e.key) THEN Wrote(d, e) ELSE Done(d)
    [] loop \in {"addtums", "refill"} -> AddCount(d, e.key, e.val)
    [] loop = "unionms" -> IF e.val > Count(d, e.key) THEN SetCount(d, e.key, e.val) ELSE Done(d)
    [] loop = "intxnms" -> SetCount(d, e.key, Lesser(e.val, Count(s, e.key)))
    [] loop = "diffms"  -> SetCount(d, e.key, Minus(Count(d, e.key), e.val))
    [] loop = "apart"   -> SetCount(tmp, e.key, Apart(Count(d, e.key), Count(s, e.key)))
    [] loop = "rest"    -> IF Count(d, e.key) = 0 THEN SetCount(tmp, e.key, Count(s, e.key))
                           ELSE Done(tmp)

\* The loops of each operation, in order.
First(op) ==
  CASE op = "symmdiffs" -> "copy" [] op = "inner" -> "inner"
    [] op \in {"outer", "left"} -> "take" [] op = "symmdiffms" -> "apart" [] OTHER -> op
Following(loop) ==
  CASE loop = "copy" -> "remove" [] loop = "remove" -> "addback" [] loop = "inner" -> "take"
    [] loop = "apart" -> "rest" [] loop = "rest" -> "refill" [] OTHER -> "none"

Operations ==
  {"replica"} \cup
  CASE kind = "set" -> {"unions", "intxns", "diffs", "symmdiffs"}
    [] kind = "map" -> {"inner", "outer", "left"}
    [] kind = "multiset" -> {"addtums", "unionms", "intxnms", "diffms", "symmdiffms"}

Running == job.loop \notin {"none", "exited"}

\* The record that a loop finds where it keeps the address of the one it
\* walks.  Once the table of descriptors has moved that is freed memory: the
\* old bytes, or those of some other record.  addtums, which symmdiffms ends
\* with, looks its tables up again.
Astray == job.moved /\ job.loop # "refill"
Seen   == IF Astray THEN {d, s, tmp, Still(NewTable)} ELSE {Walked(job.loop)}

Reach(t)   == {i \in Live(t.slot) : i >= job.i}
NextOne(t) == CHOOSE i \in Reach(t) : \A j \in Reach(t) : i <= j

\* What a table holds for each key, found by looking at every slot.
Held(t) == [k \in Key |->
  LET at == {i \in DOMAIN t.slot : IsLive(t.slot[i]) /\ t.slot[i].key = k}
  IN  IF at = {} THEN 0 ELSE t.slot[CHOOSE i \in at : TRUE].val]

\* The operations that make a table: replica, symmdiffs and symmdiffms.
Makes(op) == op \in {"replica", "symmdiffs", "symmdiffms"}

\* The operation is called; the client has collected any earlier error.  The
\* addresses of dst and src are taken before mkset, mkmap or mkmultiset makes
\* the table, for which there may be no memory, or no room where the
\* descriptors are.
Call(op) ==
  /\ job.loop = "none"
  /\ \E made \in BOOLEAN, moved \in BOOLEAN :
       /\ ~Makes(op) => made /\ ~moved
       /\ ~made => ~moved
       /\ job' = [op |-> op, loop |-> IF made THEN First(op) ELSE "none", i |-> 0,
                  old |-> Held(d), moved |-> moved]
       /\ faults' = IF made THEN 0 ELSE 1
  /\ tmp' = Still(NewTable)
  /\ UNCHANGED <<kind, d, s, calls>>

\* One turn of a loop.  An error raised while another is pending ends the
\* program (err.c); the loops of the multisets and of replica return at an
\* error, leaving the table they were filling behind, the others go on.
Turn ==
  /\ Running
  /\ \E w \in {t \in Seen : Reach(t) # {}} : \E o \in Body(job.loop, w.slot[NextOne(w)]) :
       /\ IF job.loop \in {"copy", "replica", "apart", "rest"}
            THEN tmp' = o.t /\ UNCHANGED d ELSE d' = o.t /\ UNCHANGED tmp
       /\ faults' = faults + o.faults
       /\ job' = IF faults' > 1 THEN [job EXCEPT !.loop = "exited"]
                 ELSE IF (kind = "multiset" \/ job.op = "replica") /\ faults' > 0 THEN [job EXCEPT !.loop = "none"]
                 ELSE [job EXCEPT !.i = NextOne(w) + 1]
  /\ UNCHANGED <<kind, s, calls>>

\* A loop is done.  Between its second and third loop symmdiffms empties dst.
EndLoop ==
  /\ Running /\ \E w \in Seen : Reach(w) = {}
  /\ job' = [job EXCEPT !.loop = Following(@), !.i = 0]
  /\ d' = IF job.loop = "rest" THEN Still(Teem(d)) ELSE d
  /\ UNCHANGED <<kind, s, tmp, faults, calls>>

\* What is found in freed memory may also lead nowhere, and end the program.
Crash ==
  /\ Running /\ Astray
  /\ job' = [job EXCEPT !.loop = "exited"]
  /\ UNCHANGED <<kind, d, s, tmp, faults, calls>>

\* A set has no counts.
Counts == IF kind = "set" THEN {1} ELSE 1..MaxCount

\* The calls that fill dst and src: adds, insert, or addms as often as the
\* count says; dels, oblit or prgms.
FillTables ==
  /\ job.loop = "none" /\ calls < MaxCalls
  /\ calls' = calls + 1 /\ faults' = 0
  /\ \E k \in Key :
       \/ \E n \in Counts : \E o \in Wrote(d, [key |-> k, val |-> n]) :
            o.faults = 0 /\ d' = o.t /\ UNCHANGED s
       \/ \E n \in Counts : \E o \in Wrote(s, [key |-> k, val |-> n]) :
            o.faults = 0 /\ s' = o.t /\ UNCHANGED d
       \/ Found(d, k) /\ d' = Without(d, k) /\ UNCHANGED s
  /\ job' = NoJob /\ tmp' = Still(NewTable) /\ UNCHANGED kind

InitAlgebra ==
  /\ kind \in Kinds
  /\ d = Still(NewTable) /\ s = Still(NewTable) /\ tmp = Still(NewTable)
  /\ job = NoJob /\ faults = 0 /\ calls = 0

NextAlgebra == FillTables \/ Turn \/ EndLoop \/ Crash \/ \E op \in Operations : Call(op)

SpecAlgebra == InitAlgebra /\ [][NextAlgebra]_algebraVars

-----------------------------------------------------------------------------
(* Properties *)

\* What each operation is for, key by key: a is what dst held, b what src
\* holds (the comments of src/silo.h).  replica leaves dst as it is.
Wanted(op, a, b) ==
  CASE op \in {"unions", "unionms"} -> IF a > b THEN a ELSE b
    [] op = "replica" -> a
    [] op = "intxns"  -> IF b > 0 THEN a ELSE 0
    [] op = "diffs"   -> IF b > 0 THEN 0 ELSE a
    [] op = "symmdiffs" -> IF a > 0 /\ b > 0 THEN 0 ELSE a + b
    [] op = "inner"   -> IF a > 0 THEN b ELSE 0
    [] op = "outer"   -> IF b > 0 THEN b ELSE a
    [] op = "left"    -> IF a > 0 /\ b > 0 THEN b ELSE a
    [] op = "addtums" -> a + b
    [] op = "intxnms" -> Lesser(a, b)
    [] op = "diffms"  -> Minus(a, b)
    [] op = "symmdiffms" -> Apart(a, b)

\* An operation that returned without an error has given every key what it
\* promises, wherever in the table the keys lay and however the tables grew
\* on the way - as long as the table of descriptors did not move under it
\* (SymmetricExact is about that case).
Exact ==
  job.loop = "none" /\ faults = 0 /\ ~job.moved /\ job.op \notin {"none", "intxnms"} =>
    \A k \in Key : Held(IF job.op = "replica" THEN tmp ELSE d)[k]
                     = Wanted(job.op, job.old[k], Held(s)[k])

\* At any point of an operation, and when it gives up for want of memory -
\* for its own table, or for an entry -, a key of dst has what it had or what
\* it is to have: what is left behind is a half-done operation, not garbage.
\* symmdiffms alone drops what dst had before it puts in the result.
HalfDone ==
  job.op # "none" /\ ~job.moved =>
    \A k \in Key : \/ Held(d)[k] \in {job.old[k], Wanted(job.op, job.old[k], Held(s)[k])}
                   \/ job.op = "symmdiffms" /\ Held(d)[k] = 0

\* silo.h says of symmdiffs "dst = (dst \ src) union (src \ dst)" and of
\* symmdiffms "absolute multiplicity difference", whatever room there is for
\* the descriptor of their scratch table.
SymmetricExact ==
  job.loop = "none" /\ faults = 0 /\ job.op \in {"symmdiffs", "symmdiffms"} =>
    \A k \in Key : Held(d)[k] = Wanted(job.op, job.old[k], Held(s)[k])

\* silo.h says of intxnms "min multiplicity".
IntersectionExact ==
  job.loop = "none" /\ faults = 0 /\ job.op = "intxnms" =>
    \A k \in Key : Held(d)[k] = Lesser(job.old[k], Held(s)[k])
=============================================================================
