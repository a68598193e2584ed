------------------------- MODULE HashAlgebraProofs -------------------------
(***************************************************************************)
(* The operations on whole tables are exact for every hash function, set   *)
(* of keys, largest count, initial size, load limit below one, and bound,  *)
(* as long as the table of descriptors does not move while one of them     *)
(* makes a table.                                                          *)
(***************************************************************************)
EXTENDS HashAlgebra, HashOpsProofs

-----------------------------------------------------------------------------
(* What a table in order holds *)

\* The entries alone say what is held for a key.
LEMMA HeldIs ==
  ASSUME NEW x, GoodTable(x), NEW k \in Key
  PROVE  /\ Held(x)[k] \in 0..MaxCount
         /\ Found(x, k) <=> Held(x)[k] > 0
         /\ Found(x, k) => x.slot[Probe(x, k)].val = Held(x)[k]
         /\ Held(x)[k] > 0 => \E e \in Entries(x.slot) : e.key = k
         /\ \A e \in Entries(x.slot) : e.key = k => e.val = Held(x)[k] /\ Held(x)[k] > 0
  <1> DEFINE at == {i \in DOMAIN x.slot : IsLive(x.slot[i]) /\ x.slot[i].key = k}
  <1>1. x.cap \in Nat /\ x.slot \in SlotsOf(x.cap) /\ Uniq(x.slot)
    BY DEF GoodTable, IsTable, Sound
  <1>2. Held(x)[k] = IF at = {} THEN 0 ELSE x.slot[CHOOSE i \in at : TRUE].val
    BY DEF Held
  <1>3. \A i \in Live(x.slot) : /\ x.slot[i] \in Entries(x.slot) /\ x.slot[i] \in Entry
                                /\ x.slot[i].val \in 1..MaxCount
    BY <1>1, EntriesAre, CountAssumption DEF Entry
  <1>4. \A i : i \in at <=> i \in Live(x.slot) /\ x.slot[i].key = k
    BY DEF Live
  <1>5. \A i, j \in at : i = j
    BY <1>1, <1>4 DEF Uniq
  <1>6. /\ Found(x, k) => Probe(x, k) \in Live(x.slot) /\ x.slot[Probe(x, k)].key = k
        /\ {e \in Entries(x.slot) : e.key = k} = IF Found(x, k) THEN {x.slot[Probe(x, k)]} ELSE {}
    BY SearchExact
  <1> HIDE DEF at
  <1>7. CASE at = {}
    <2>1. Held(x)[k] = 0
      BY <1>2, <1>7
    <2>2. ~Found(x, k)
      BY <1>4, <1>6, <1>7
    <2>3. \A e \in Entries(x.slot) : e.key # k
      BY <1>6, <2>2
    <2> QED BY <2>1, <2>2, <2>3, CountAssumption
  <1>8. CASE at # {}
    <2>1. PICK i \in at : i = CHOOSE j \in at : TRUE
      BY <1>8
    <2>2. Held(x)[k] = x.slot[i].val
      BY <1>2, <1>8, <2>1
    <2>3. i \in Live(x.slot) /\ x.slot[i].key = k /\ x.slot[i].val \in 1..MaxCount
          /\ x.slot[i] \in Entries(x.slot)
      BY <1>3, <1>4, <2>1
    <2>4. Found(x, k)
      BY <1>6, <2>3
    <2>5. Probe(x, k) = i
      BY <1>4, <1>5, <1>6, <2>1, <2>4
    <2>6. \A e \in Entries(x.slot) : e.key = k => e = x.slot[i]
      BY <1>6, <2>4, <2>5
    <2> QED BY <2>2, <2>3, <2>4, <2>5, <2>6, CountAssumption
  <1> QED BY <1>7, <1>8

\* Tables with the same entries hold the same.
LEMMA HeldAlike ==
  ASSUME NEW x, GoodTable(x), NEW y, GoodTable(y), NEW k \in Key,
         {e \in Entries(x.slot) : e.key = k} = {e \in Entries(y.slot) : e.key = k}
  PROVE  Held(x)[k] = Held(y)[k]
  <1>1. /\ Held(x)[k] \in 0..MaxCount
        /\ Held(x)[k] > 0 => \E e \in Entries(x.slot) : e.key = k
        /\ \A e \in Entries(x.slot) : e.key = k => e.val = Held(x)[k] /\ Held(x)[k] > 0
    BY HeldIs
  <1>2. /\ Held(y)[k] \in 0..MaxCount
        /\ Held(y)[k] > 0 => \E e \in Entries(y.slot) : e.key = k
        /\ \A e \in Entries(y.slot) : e.key = k => e.val = Held(y)[k] /\ Held(y)[k] > 0
    BY HeldIs
  <1>3. \A e : e \in Entries(x.slot) /\ e.key = k <=> e \in Entries(y.slot) /\ e.key = k
    OBVIOUS
  <1>4. CASE Held(x)[k] > 0
    BY <1>1, <1>2, <1>3, <1>4
  <1>5. CASE ~(Held(x)[k] > 0)
    <2>1. ~(Held(y)[k] > 0)
      BY <1>1, <1>2, <1>3, <1>5
    <2> QED BY <1>1, <1>2, <1>5, <2>1, CountAssumption
  <1> QED BY <1>4, <1>5

\* The generation says nothing about a table.
LEMMA StillGood ==
  ASSUME NEW x, GoodTable(x)
  PROVE  GoodTable(Still(x)) /\ Still(x).slot = x.slot /\ Held(Still(x)) = Held(x)
  <1>1. x \in [cap : Nat, slot : SlotsOf(x.cap), len : Nat, tombs : Nat, gen : Nat]
    BY DEF GoodTable, IsTable
  <1>2. PICK y : y = Still(x)
    OBVIOUS
  <1>3. y.cap = x.cap /\ y.slot = x.slot /\ y.len = x.len /\ y.tombs = x.tombs
    BY <1>1, <1>2 DEF Still
  <1>4. y \in [cap : Nat, slot : SlotsOf(x.cap), len : Nat, tombs : Nat, gen : Nat]
    BY <1>1, <1>2 DEF Still
  <1>5. IsTable(y) /\ Counted(y) /\ Roomy(y) /\ Sound(y.cap, y.slot)
    BY <1>3, <1>4 DEF GoodTable, IsTable, Counted, Roomy
  <1>6. Held(y) = Held(x)
    BY <1>3 DEF Held
  <1> QED BY <1>2, <1>3, <1>5, <1>6 DEF GoodTable

\* A table without entries holds nothing.
LEMMA HeldNothing ==
  ASSUME NEW x, GoodTable(x), Live(x.slot) = {}, NEW k \in Key
  PROVE  Held(x)[k] = 0
  <1>1. Entries(x.slot) = {}
    BY DEF Entries
  <1> QED BY <1>1, HeldIs, CountAssumption

\* A new table, and an emptied one.
LEMMA NoneHeld ==
  ASSUME NEW k \in Key
  PROVE  /\ GoodTable(Still(NewTable)) /\ Held(Still(NewTable))[k] = 0
         /\ \A x : GoodTable(x) => GoodTable(Still(Teem(x))) /\ Held(Still(Teem(x)))[k] = 0
  <1>1. Live(NewTable.slot) = {}
    BY DEF NewTable, Live
  <1>2. GoodTable(Still(NewTable)) /\ Held(Still(NewTable))[k] = 0
    BY <1>1, NewGood, StillGood, HeldNothing
  <1>3. ASSUME NEW x, GoodTable(x)
        PROVE  GoodTable(Still(Teem(x))) /\ Held(Still(Teem(x)))[k] = 0
    <2>1. GoodTable(Teem(x))
      BY <1>3, TeemGood
    <2>2. Teem(x).slot = Blank(x.cap)
      BY <1>3 DEF GoodTable, IsTable, Teem
    <2>3. Live(Teem(x).slot) = {}
      BY <2>2 DEF Live, Blank, IsLive
    <2> QED BY <2>1, <2>3, StillGood, HeldNothing
  <1> QED BY <1>2, <1>3

\* Growth changes nothing of what is held.
LEMMA GrownHeld ==
  ASSUME NEW x, GoodTable(x), NEW k \in Key
  PROVE  /\ GoodTable(Grown(x)) /\ ~NeedsGrow(Grown(x))
         /\ Held(Grown(x))[k] = Held(x)[k] /\ (Found(Grown(x), k) <=> Found(x, k))
  <1>1. /\ GoodTable(Grown(x)) /\ ~NeedsGrow(Grown(x))
        /\ Entries(Grown(x).slot) = Entries(x.slot)
    BY GrownGood
  <1>2. PICK y : y = Grown(x)
    OBVIOUS
  <1>3. Held(y)[k] = Held(x)[k]
    BY <1>1, <1>2, HeldAlike
  <1> QED BY <1>1, <1>2, <1>3, HeldIs

\* An entry that is put replaces what its key had, and nothing else.
LEMMA PutHeld ==
  ASSUME NEW x, GoodTable(x), NEW e \in Entry, ~NeedsGrow(x), NEW k \in Key
  PROVE  /\ GoodTable(Put(x, e))
         /\ Held(Put(x, e))[k] = IF k = e.key THEN e.val ELSE Held(x)[k]
  <1>1. GoodTable(Put(x, e))
    BY PutGood
  <1>2. Entries(Put(x, e).slot) = (Entries(x.slot) \ {f \in Entries(x.slot) : f.key = e.key}) \cup {e}
    BY PutEntries
  <1>3. PICK y : y = Put(x, e)
    OBVIOUS
  <1>4. CASE k = e.key
    <2>1. e \in Entries(y.slot)
      BY <1>2, <1>3
    <2> QED BY <1>1, <1>3, <1>4, <2>1, HeldIs
  <1>5. CASE k # e.key
    <2>1. {f \in Entries(x.slot) : f.key = k} = {f \in Entries(y.slot) : f.key = k}
      BY <1>2, <1>3, <1>5
    <2> QED BY <1>1, <1>3, <1>5, <2>1, HeldAlike
  <1> QED BY <1>1, <1>4, <1>5

\* An entry that is killed is gone, and nothing else.
LEMMA KillHeld ==
  ASSUME NEW x, GoodTable(x), NEW i \in Live(x.slot), NEW k \in Key
  PROVE  /\ GoodTable(Kill(x, i))
         /\ Held(Kill(x, i))[k] = IF k = x.slot[i].key THEN 0 ELSE Held(x)[k]
  <1>1. GoodTable(Kill(x, i))
    BY KillGood
  <1>2. Entries(Kill(x, i).slot) = Entries(x.slot) \ {x.slot[i]}
    BY KillEntries
  <1>3. PICK y, e : y = Kill(x, i) /\ e = x.slot[i]
    OBVIOUS
  <1>4. e \in Entries(x.slot)
    BY <1>3 DEF Entries
  <1>5. CASE k = e.key
    <2>1. \A f \in Entries(x.slot) : f.key = k => f = e
      <3>1. {f \in Entries(x.slot) : f.key = k} = IF Found(x, k) THEN {x.slot[Probe(x, k)]} ELSE {}
        BY SearchExact
      <3> QED BY <1>4, <1>5, <3>1
    <2>2. \A f \in Entries(y.slot) : f.key # k
      BY <1>2, <1>3, <2>1
    <2>3. Held(y)[k] = 0
      BY <1>1, <1>3, <2>2, HeldIs, CountAssumption
    <2> QED BY <1>1, <1>3, <1>5, <2>3
  <1>6. CASE k # e.key
    <2>1. {f \in Entries(x.slot) : f.key = k} = {f \in Entries(y.slot) : f.key = k}
      BY <1>2, <1>3, <1>6
    <2> QED BY <1>1, <1>3, <1>6, <2>1, HeldAlike
  <1> QED BY <1>1, <1>5, <1>6

-----------------------------------------------------------------------------
(* What the body of a loop does to a table *)

\* What may come out when k is to get v in table x: it has got it, or an
\* error was raised and the table holds what it held.
Result(x, o, k, v) ==
  /\ GoodTable(o.t) /\ o.faults \in 0..2
  /\ \A j \in Key : Held(o.t)[j] = IF j = k /\ o.faults = 0 THEN v ELSE Held(x)[j]

\* cntms counts what is held.
LEMMA CountIs ==
  ASSUME NEW x, GoodTable(x), NEW k \in Key
  PROVE  Count(x, k) = Held(x)[k] /\ Held(x)[k] \in 0..MaxCount
  <1>1. /\ Held(x)[k] \in 0..MaxCount /\ (Found(x, k) <=> Held(x)[k] > 0)
        /\ Found(x, k) => x.slot[Probe(x, k)].val = Held(x)[k]
    BY HeldIs
  <1> QED BY <1>1, CountAssumption DEF Count

LEMMA DoneIs ==
  ASSUME NEW x, GoodTable(x), NEW k \in Key, NEW o \in Done(x)
  PROVE  Result(x, o, k, Held(x)[k]) /\ o.faults = 0 /\ o.t = x
  BY DEF Done, Result

LEMMA WroteIs ==
  ASSUME NEW x, GoodTable(x), NEW e \in Entry,
         kind = "set" => e.val = 1 /\ Held(x)[e.key] <= 1,
         NEW o \in Wrote(x, e)
  PROVE  Result(x, o, e.key, e.val)
  <1>1. e.key \in Key
    BY DEF Entry
  <1>2. PICK y : y = Grown(x)
    OBVIOUS
  <1>3. /\ GoodTable(y) /\ ~NeedsGrow(y)
        /\ \A j \in Key : Held(y)[j] = Held(x)[j] /\ (Found(y, j) <=> Found(x, j))
    BY <1>1, <1>2, GrownHeld
  <1>4. /\ GoodTable(Still(y)) /\ \A j \in Key : Held(Still(y))[j] = Held(x)[j]
    BY <1>3, StillGood
  <1>5. /\ GoodTable(Still(Put(y, e)))
        /\ \A j \in Key : Held(Still(Put(y, e)))[j] = IF j = e.key THEN e.val ELSE Held(x)[j]
    <2>1. GoodTable(Put(y, e))
      BY <1>1, <1>3, PutHeld
    <2>2. \A j \in Key : Held(Put(y, e))[j] = IF j = e.key THEN e.val ELSE Held(x)[j]
      BY <1>3, PutHeld
    <2> QED BY <2>1, <2>2, StillGood
  <1>6. kind = "set" /\ Found(y, e.key) => Held(x)[e.key] = e.val
    <2>1. Found(y, e.key) => Held(x)[e.key] > 0 /\ Held(x)[e.key] \in 0..MaxCount
      BY <1>1, <1>3, HeldIs
    <2> QED BY <2>1, CountAssumption
  <1>7. \/ /\ o.faults = 0 /\ o.t = Still(IF kind = "set" /\ Found(y, e.key) THEN y ELSE Put(y, e))
        \/ /\ o.faults = 1 /\ o.t = Still(y)
        \/ /\ o.faults \in 1..2 /\ o.t = x
    BY <1>2 DEF Wrote
  <1>8. CASE o.faults = 0 /\ o.t = Still(IF kind = "set" /\ Found(y, e.key) THEN y ELSE Put(y, e))
    <2>1. CASE kind = "set" /\ Found(y, e.key)
      BY <1>4, <1>6, <1>8, <2>1 DEF Result
    <2>2. CASE ~(kind = "set" /\ Found(y, e.key))
      BY <1>5, <1>8, <2>2 DEF Result
    <2> QED BY <2>1, <2>2
  <1>9. CASE o.faults = 1 /\ o.t = Still(y)
    BY <1>4, <1>9 DEF Result
  <1>10. CASE o.faults \in 1..2 /\ o.t = x
    BY <1>10 DEF Result
  <1> QED BY <1>7, <1>8, <1>9, <1>10

LEMMA WithoutIs ==
  ASSUME NEW x, GoodTable(x), NEW k \in Key
  PROVE  /\ GoodTable(Without(x, k))
         /\ \A j \in Key : Held(Without(x, k))[j] = IF j = k THEN 0 ELSE Held(x)[j]
  <1>1. Found(x, k) => Probe(x, k) \in Live(x.slot) /\ x.slot[Probe(x, k)].key = k
    BY SearchExact
  <1>2. CASE ~Found(x, k)
    <2>1. Without(x, k) = x
      BY <1>2 DEF Without
    <2>2. Held(x)[k] = 0
      BY <1>2, HeldIs, CountAssumption
    <2> QED BY <2>1, <2>2
  <1>3. CASE Found(x, k)
    <2>1. PICK i \in Live(x.slot) : i = Probe(x, k) /\ x.slot[i].key = k
      BY <1>1, <1>3
    <2>2. Without(x, k) = Still(Kill(x, i))
      BY <1>3, <2>1 DEF Without
    <2>3. GoodTable(Kill(x, i))
      BY KillGood
    <2>4. \A j \in Key : Held(Kill(x, i))[j] = IF j = k THEN 0 ELSE Held(x)[j]
      BY <2>1, KillHeld
    <2>5. /\ GoodTable(Without(x, k)) /\ Without(x, k).slot = Kill(x, i).slot
          /\ Held(Without(x, k)) = Held(Kill(x, i))
      BY <2>2, <2>3, StillGood
    <2> QED BY <2>4, <2>5
  <1> QED BY <1>2, <1>3

\* Only the slot of the key is touched.
LEMMA WithoutSlot ==
  ASSUME NEW x, GoodTable(x), NEW i \in Live(x.slot)
  PROVE  Without(x, x.slot[i].key).slot = [x.slot EXCEPT ![i] = Tomb]
  <1>1. x.cap \in Nat /\ x.slot \in SlotsOf(x.cap) /\ Sound(x.cap, x.slot)
    BY DEF GoodTable, IsTable
  <1>2. PICK k \in Key : k = x.slot[i].key
    BY <1>1, EntriesAre
  <1>3. Found(x, k)
    BY <1>1, <1>2, SoundFinds
  <1>4. Probe(x, k) = i
    <2>1. Probe(x, k) \in Live(x.slot) /\ x.slot[Probe(x, k)].key = k
      BY <1>3, SearchExact
    <2> QED BY <1>1, <1>2, <2>1 DEF Sound, Uniq
  <1>5. PICK y : y = Kill(x, i)
    OBVIOUS
  <1>6. Without(x, k) = Still(y) /\ GoodTable(y)
    BY <1>3, <1>4, <1>5, KillGood DEF Without
  <1>7. Without(x, k).slot = y.slot
    BY <1>6, StillGood
  <1>8. y.slot = [x.slot EXCEPT ![i] = Tomb]
    BY <1>5, KillCounts DEF GoodTable
  <1> QED BY <1>2, <1>7, <1>8

LEMMA SetCountIs ==
  ASSUME NEW x, GoodTable(x), kind # "set", NEW k \in Key, NEW n \in 0..MaxCount,
         NEW o \in SetCount(x, k, n)
  PROVE  Result(x, o, k, n)
  <1>1. CASE n = 0
    <2>1. o.t = Without(x, k) /\ o.faults = 0
      BY <1>1 DEF SetCount
    <2> QED BY <1>1, <2>1, WithoutIs DEF Result
  <1>2. CASE n # 0
    <2>1. PICK e : e = [key |-> k, val |-> n]
      OBVIOUS
    <2>2. e \in Entry /\ e.key = k /\ e.val = n
      BY <1>2, <2>1, CountAssumption DEF Entry
    <2>3. o \in Wrote(x, e)
      BY <1>2, <2>1 DEF SetCount
    <2> QED BY <2>2, <2>3, WroteIs
  <1> QED BY <1>1, <1>2

LEMMA AddCountIs ==
  ASSUME NEW x, GoodTable(x), kind # "set", NEW k \in Key, NEW n \in 0..MaxCount,
         NEW o \in AddCount(x, k, n)
  PROVE  /\ Result(x, o, k, Held(x)[k] + n)
         /\ o.faults = 0 => Held(x)[k] + n <= MaxCount
  <1>1. PICK c \in 0..MaxCount : c = Held(x)[k] /\ c = Count(x, k)
    BY CountIs
  <1>2. CASE c + n > MaxCount
    <2>1. o.t = x /\ o.faults = 1
      BY <1>1, <1>2 DEF AddCount
    <2> QED BY <1>1, <2>1 DEF Result
  <1>3. CASE ~(c + n > MaxCount)
    <2>1. PICK m \in 0..MaxCount : m = c + n
      BY <1>3, CountAssumption
    <2>2. o \in SetCount(x, k, m)
      BY <1>1, <1>3, <2>1 DEF AddCount
    <2>3. Result(x, o, k, m)
      BY <2>2, SetCountIs
    <2> QED BY <1>1, <2>1, <2>3, CountAssumption
  <1> QED BY <1>2, <1>3

-----------------------------------------------------------------------------
(* What a loop does to one key *)

\* Each kind has its operations, and each operation its loops.
Fits(knd, op, loop) ==
  \/ op = "replica" /\ loop = "replica"
  \/ knd = "set" /\ op \in {"unions", "intxns", "diffs"} /\ loop = op
  \/ knd = "set" /\ op = "symmdiffs" /\ loop \in {"copy", "remove", "addback"}
  \/ knd = "map" /\ op = "inner" /\ loop \in {"inner", "take"}
  \/ knd = "map" /\ op \in {"outer", "left"} /\ loop = "take"
  \/ knd = "multiset" /\ op \in {"addtums", "unionms", "intxnms", "diffms"} /\ loop = op
  \/ knd = "multiset" /\ op = "symmdiffms" /\ loop \in {"apart", "rest", "refill"}

InTmp(loop) == loop \in {"copy", "replica", "apart", "rest"}

\* What the walked table holds for a key, of what dst, src and the scratch
\* table hold for it.
WalkedVal(loop, x, b, y) ==
  IF loop \in {"intxns", "copy", "replica", "inner", "intxnms", "apart"} THEN x
  ELSE IF loop = "refill" THEN y ELSE b

\* What the turn at an entry of value v gives its key.
Given(loop, op, x, b, y, v) ==
  CASE loop \in {"unions", "copy", "replica"} -> v
    [] loop \in {"intxns", "inner"} -> IF b > 0 THEN x ELSE 0
    [] loop \in {"diffs", "remove"} -> 0
    [] loop = "addback" -> IF y > 0 THEN x ELSE v
    [] loop = "take"    -> IF op = "outer" \/ x > 0 THEN v ELSE x
    [] loop \in {"addtums", "refill"} -> x + v
    [] loop = "unionms" -> IF v > x THEN v ELSE x
    [] loop = "intxnms" -> Lesser(v, b)
    [] loop = "diffms"  -> Minus(x, v)
    [] loop = "apart"   -> Apart(x, b)
    [] loop = "rest"    -> IF x = 0 THEN b ELSE y

\* HalfDone, for one key of which dst held a and holds x, and src holds b.
Half(op, a, b, x) ==
  op # "none" => x \in {a, Wanted(op, a, b)} \/ (op = "symmdiffms" /\ x = 0)

\* Where a key stands as long as no error was raised: x in dst, y in the
\* scratch table, by whether the loop has still to come to it.
Stage(loop, op, a, b, x, y, ahead) ==
  CASE loop = "none" ->
         op \notin {"none", "intxnms"} => (IF op = "replica" THEN y ELSE x) = Wanted(op, a, b)
    [] loop \in {"unions", "intxns", "diffs", "take", "addtums", "unionms", "diffms"} ->
         x = IF ahead THEN a ELSE Wanted(op, a, b)
    [] loop \in {"copy", "replica"} -> x = a /\ y = IF ahead THEN 0 ELSE a
    [] loop = "remove"  -> y = a /\ x = IF ~ahead /\ b > 0 THEN 0 ELSE a
    [] loop = "addback" -> y = a /\ x = IF ahead THEN 0 ELSE Wanted(op, a, b)
    [] loop = "inner"   -> x = IF ~ahead /\ b = 0 THEN 0 ELSE a
    [] loop = "apart"   -> x = a /\ y = IF ahead \/ a = 0 THEN 0 ELSE Apart(a, b)
    [] loop = "rest"    -> x = a /\ y = IF a > 0 THEN Apart(a, b) ELSE IF ahead THEN 0 ELSE b
    [] loop = "refill"  -> y = Wanted(op, a, b) /\ x = IF ahead THEN 0 ELSE y
    [] OTHER -> TRUE

\* A key that the loop has still to come to.
Due(knd, op, loop, a, b, x, y, clean) ==
  /\ Fits(knd, op, loop) /\ Half(op, a, b, x)
  /\ clean => Stage(loop, op, a, b, x, y, TRUE)
  /\ knd = "multiset" \/ op = "replica" => clean
  /\ knd = "set" => a <= 1 /\ b <= 1 /\ x <= 1 /\ y <= 1
  /\ WalkedVal(loop, x, b, y) > 0

\* A key that it has come to.
Served(knd, op, loop, a, b, x, y, clean) ==
  /\ Half(op, a, b, x)
  /\ clean => Stage(loop, op, a, b, x, y, FALSE)
  /\ knd = "set" => x <= 1 /\ y <= 1

\* The turn that comes to a key.
LEMMA StageTurn ==
  ASSUME NEW knd, NEW op, NEW loop, NEW a \in Nat, NEW b \in Nat, NEW x \in Nat, NEW y \in Nat,
         NEW clean \in BOOLEAN, Due(knd, op, loop, a, b, x, y, clean),
         NEW v, v = Given(loop, op, x, b, y, WalkedVal(loop, x, b, y))
  PROVE  Served(knd, op, loop, a, b, IF InTmp(loop) THEN x ELSE v, IF InTmp(loop) THEN v ELSE y, clean)
  <1> USE DEF Due, Served, WalkedVal, Given, InTmp, Half, Stage, Wanted
  <1>1. CASE op = "replica" /\ loop = "replica"
    BY <1>1
  <1>2. CASE knd = "set" /\ op = "unions" /\ loop = "unions"
    BY <1>2
  <1>3. CASE knd = "set" /\ op = "intxns" /\ loop = "intxns"
    BY <1>3
  <1>4. CASE knd = "set" /\ op = "diffs" /\ loop = "diffs"
    BY <1>4
  <1>5. CASE knd = "set" /\ op = "symmdiffs" /\ loop = "copy"
    BY <1>5
  <1>6. CASE knd = "set" /\ op = "symmdiffs" /\ loop = "remove"
    BY <1>6
  <1>7. CASE knd = "set" /\ op = "symmdiffs" /\ loop = "addback"
    BY <1>7
  <1>8. CASE knd = "map" /\ op = "inner" /\ loop = "inner"
    BY <1>8
  <1>9. CASE knd = "map" /\ op \in {"inner", "outer", "left"} /\ loop = "take"
    BY <1>9
  <1>10. CASE knd = "multiset" /\ op = "addtums" /\ loop = "addtums"
    BY <1>10
  <1>11. CASE knd = "multiset" /\ op = "unionms" /\ loop = "unionms"
    BY <1>11
  <1>12. CASE knd = "multiset" /\ op = "intxnms" /\ loop = "intxnms"
    BY <1>12 DEF Lesser
  <1>13. CASE knd = "multiset" /\ op = "diffms" /\ loop = "diffms"
    BY <1>13 DEF Minus
  <1>14. CASE knd = "multiset" /\ op = "symmdiffms" /\ loop = "apart"
    BY <1>14 DEF Apart
  <1>15. CASE knd = "multiset" /\ op = "symmdiffms" /\ loop = "rest"
    BY <1>15 DEF Apart
  <1>16. CASE knd = "multiset" /\ op = "symmdiffms" /\ loop = "refill"
    BY <1>16 DEF Apart
  <1> HIDE DEF Served, WalkedVal, Given, InTmp, Half, Stage, Wanted
  <1> QED BY <1>1, <1>2, <1>3, <1>4, <1>5, <1>6, <1>7, <1>8, <1>9, <1>10, <1>11, <1>12,
             <1>13, <1>14, <1>15, <1>16 DEF Fits

\* A key at the end of a loop; ahead says whether the next loop, if there is
\* one, is to come to it, rest having emptied dst.
Crossed(knd, op, loop, a, b, x, y, clean, ahead) ==
  /\ Fits(knd, op, loop) /\ Half(op, a, b, x)
  /\ clean => Stage(loop, op, a, b, x, y, FALSE)
  /\ Following(loop) # "none" =>
       (ahead <=> WalkedVal(Following(loop), IF loop = "rest" THEN 0 ELSE x, b, y) > 0)

\* A key where the next loop begins, or the operation has returned.
Begun(op, loop, a, b, x, y, clean, ahead) ==
  /\ Half(op, a, b, x)
  /\ clean => Stage(loop, op, a, b, x, y, ahead)

LEMMA StageEnd ==
  ASSUME NEW knd, NEW op, NEW loop, NEW a \in Nat, NEW b \in Nat, NEW x \in Nat, NEW y \in Nat,
         NEW clean \in BOOLEAN, NEW ahead \in BOOLEAN,
         Crossed(knd, op, loop, a, b, x, y, clean, ahead)
  PROVE  Begun(op, Following(loop), a, b, IF loop = "rest" THEN 0 ELSE x, y, clean, ahead)
  <1> USE DEF Crossed, Begun, Following, WalkedVal, Half, Stage, Wanted, Fits
  <1>1. CASE op = "replica" /\ loop = "replica"
    BY <1>1
  <1>2. CASE knd = "set" /\ op \in {"unions", "intxns", "diffs"} /\ loop = op
    BY <1>2
  <1>3. CASE knd = "set" /\ op = "symmdiffs" /\ loop = "copy"
    BY <1>3
  <1>4. CASE knd = "set" /\ op = "symmdiffs" /\ loop = "remove"
    BY <1>4
  <1>5. CASE knd = "set" /\ op = "symmdiffs" /\ loop = "addback"
    BY <1>5
  <1>6. CASE knd = "map" /\ op = "inner" /\ loop = "inner"
    BY <1>6
  <1>7. CASE knd = "map" /\ op \in {"inner", "outer", "left"} /\ loop = "take"
    BY <1>7
  <1>8. CASE knd = "multiset" /\ op \in {"addtums", "unionms", "intxnms", "diffms"} /\ loop = op
    BY <1>8
  <1>9. CASE knd = "multiset" /\ op = "symmdiffms" /\ loop = "apart"
    BY <1>9 DEF Apart
  <1>10. CASE knd = "multiset" /\ op = "symmdiffms" /\ loop = "rest"
    BY <1>10 DEF Apart
  <1>11. CASE knd = "multiset" /\ op = "symmdiffms" /\ loop = "refill"
    BY <1>11 DEF Apart
  <1> HIDE DEF Begun, Following, WalkedVal, Half, Stage, Wanted
  <1> QED BY <1>1, <1>2, <1>3, <1>4, <1>5, <1>6, <1>7, <1>8, <1>9, <1>10, <1>11

\* The call: dst is as it was, the scratch table is empty.
LEMMA StageCall ==
  ASSUME NEW op \in Operations, kind \in Kinds, NEW a \in Nat, NEW b \in Nat,
         NEW loop, loop = First(op),
         NEW ahead \in BOOLEAN, ahead <=> WalkedVal(loop, a, b, 0) > 0
  PROVE  Half(op, a, b, a) /\ Stage(loop, op, a, b, a, 0, ahead) /\ Fits(kind, op, loop)
  <1> USE DEF First, WalkedVal, Half, Stage, Wanted, Fits
  <1>1. CASE op = "replica"
    BY <1>1
  <1>2. CASE kind = "set" /\ op = "unions"
    BY <1>2
  <1>3. CASE kind = "set" /\ op = "intxns"
    BY <1>3
  <1>4. CASE kind = "set" /\ op = "diffs"
    BY <1>4
  <1>5. CASE kind = "set" /\ op = "symmdiffs"
    BY <1>5
  <1>6. CASE kind = "map" /\ op \in {"inner", "outer", "left"}
    BY <1>6
  <1>7. CASE kind = "multiset" /\ op \in {"addtums", "unionms", "intxnms", "diffms"}
    BY <1>7 DEF Lesser, Minus
  <1>8. CASE kind = "multiset" /\ op = "symmdiffms"
    BY <1>8 DEF Apart
  <1> HIDE DEF First, WalkedVal, Half, Stage, Wanted, Fits
  <1> QED BY <1>1, <1>2, <1>3, <1>4, <1>5, <1>6, <1>7, <1>8 DEF Operations, Kinds

-----------------------------------------------------------------------------
(* The walk over a table *)

\* A walk that is at slot n has still to come to key k.
Ahead(x, n, k) == \E j \in Live(x.slot) : j >= n /\ x.slot[j].key = k

\* The live slots of a table in order.
LEMMA LiveSlots ==
  ASSUME NEW x, GoodTable(x), NEW i \in Live(x.slot)
  PROVE  /\ i \in Nat /\ x.slot[i] \in Entry /\ x.slot[i].key \in Key
         /\ x.slot[i].val = Held(x)[x.slot[i].key] /\ Held(x)[x.slot[i].key] > 0
         /\ \A j \in Live(x.slot) : x.slot[j].key = x.slot[i].key => j = i
  <1>1. x.cap \in Nat /\ x.slot \in SlotsOf(x.cap) /\ Uniq(x.slot)
    BY DEF GoodTable, IsTable, Sound
  <1>2. i \in Nat /\ x.slot[i] \in Entry /\ x.slot[i].key \in Key /\ x.slot[i] \in Entries(x.slot)
    BY <1>1, EntriesAre
  <1>3. x.slot[i].val = Held(x)[x.slot[i].key] /\ Held(x)[x.slot[i].key] > 0
    BY <1>2, HeldIs
  <1> QED BY <1>1, <1>2, <1>3 DEF Uniq

\* At first a walk has still to come to all that is held; later to no more.
LEMMA AheadHeld ==
  ASSUME NEW x, GoodTable(x), NEW k \in Key
  PROVE  /\ Ahead(x, 0, k) <=> Held(x)[k] > 0
         /\ \A n \in Nat : Ahead(x, n, k) => Held(x)[k] > 0
  <1>1. \A j \in Live(x.slot) : j >= 0 /\ (x.slot[j].key = k => Held(x)[k] > 0)
    BY LiveSlots
  <1>2. ASSUME Held(x)[k] > 0 PROVE \E j \in Live(x.slot) : x.slot[j].key = k
    BY <1>2, HeldIs DEF Entries
  <1> QED BY <1>1, <1>2 DEF Ahead

\* The turn at the next live slot.
LEMMA AheadNext ==
  ASSUME NEW x, GoodTable(x), NEW m \in Nat, NEW n \in Live(x.slot), n >= m,
         \A j \in Live(x.slot) : j >= m => n <= j
  PROVE  /\ Ahead(x, m, x.slot[n].key) /\ ~Ahead(x, n + 1, x.slot[n].key)
         /\ \A k \in Key : k # x.slot[n].key => (Ahead(x, n + 1, k) <=> Ahead(x, m, k))
  <1>1. n \in Nat /\ \A j \in Live(x.slot) : j \in Nat /\ (x.slot[j].key = x.slot[n].key => j = n)
    BY LiveSlots
  <1>2. \A j \in Live(x.slot) : x.slot[j].key # x.slot[n].key => (j >= n + 1 <=> j >= m)
    <2> TAKE j \in Live(x.slot)
    <2>1. ASSUME x.slot[j].key # x.slot[n].key, j >= m PROVE j >= n + 1
      <3>1. n <= j /\ n # j /\ j \in Nat
        BY <1>1, <2>1
      <3> QED BY <1>1, <3>1
    <2>2. ASSUME j >= n + 1 PROVE j >= m
      BY <1>1, <2>2
    <2> QED BY <2>1, <2>2
  <1>3. \A j \in Live(x.slot) : j >= n + 1 => x.slot[j].key # x.slot[n].key
    BY <1>1
  <1> QED BY <1>2, <1>3 DEF Ahead

\* A slot that was passed and is buried makes no difference to the walk.
LEMMA AheadBuried ==
  ASSUME NEW x, GoodTable(x), NEW n \in Live(x.slot),
         NEW y, y.slot = [x.slot EXCEPT ![n] = Tomb], NEW k \in Key
  PROVE  Ahead(y, n + 1, k) <=> Ahead(x, n + 1, k)
  <1>1. n \in Nat /\ DOMAIN y.slot = DOMAIN x.slot
    BY LiveSlots
  <1>2. \A j \in DOMAIN x.slot : j # n => y.slot[j] = x.slot[j]
    BY <1>1
  <1>3. ~(n >= n + 1)
    BY <1>1
  <1>4. \A j : j >= n + 1 => (j \in Live(y.slot) <=> j \in Live(x.slot))
    BY <1>1, <1>2, <1>3 DEF Live
  <1>5. \A j \in Live(x.slot) : j >= n + 1 => y.slot[j] = x.slot[j]
    BY <1>2, <1>3 DEF Live
  <1> QED BY <1>4, <1>5 DEF Ahead

LEMMA AheadWithout ==
  ASSUME NEW x, GoodTable(x), NEW k \in Key, NEW n \in Live(x.slot), x.slot[n].key = k, NEW j \in Key
  PROVE  Ahead(Without(x, k), n + 1, j) <=> Ahead(x, n + 1, j)
  <1>1. PICK y : y = Without(x, x.slot[n].key)
    OBVIOUS
  <1>2. y.slot = [x.slot EXCEPT ![n] = Tomb]
    BY <1>1, WithoutSlot
  <1>3. Ahead(y, n + 1, j) <=> Ahead(x, n + 1, j)
    BY <1>2, AheadBuried
  <1> QED BY <1>1, <1>3

-----------------------------------------------------------------------------
(* The inductive invariant *)

AnyOp ==
  {"none", "replica", "unions", "intxns", "diffs", "symmdiffs", "inner", "outer", "left",
   "addtums", "unionms", "intxnms", "diffms", "symmdiffms"}
AnyLoop ==
  {"none", "exited", "replica", "unions", "intxns", "diffs", "copy", "remove", "addback",
   "inner", "take", "addtums", "unionms", "intxnms", "diffms", "apart", "rest", "refill"}

Jobs ==
  [op : AnyOp, loop : AnyLoop, i : Nat, old : [Key -> 0..MaxCount], moved : BOOLEAN]

TypeInv ==
  /\ kind \in Kinds
  /\ GoodTable(d) /\ GoodTable(s) /\ GoodTable(tmp)
  /\ job \in Jobs
  /\ faults \in Nat

\* Elements of a set have no count but one.
Ones ==
  kind = "set" => \A k \in Key : /\ Held(d)[k] <= 1 /\ Held(s)[k] <= 1 /\ Held(tmp)[k] <= 1
                                 /\ job.old[k] <= 1

\* The loops of the multisets and of replica do not go on after an error.
Clean == faults = 0
Loops ==
  Running => /\ Fits(kind, job.op, job.loop)
             /\ kind = "multiset" \/ job.op = "replica" => Clean

Keys ==
  ~job.moved => \A k \in Key :
    /\ Half(job.op, job.old[k], Held(s)[k], Held(d)[k])
    /\ Clean => Stage(job.loop, job.op, job.old[k], Held(s)[k], Held(d)[k], Held(tmp)[k],
                      Ahead(Walked(job.loop), job.i, k))

IInv == TypeInv /\ Ones /\ Loops /\ Keys

\* What the body of each loop gives to the key of the entry it is at.
LEMMA BodyIs ==
  ASSUME GoodTable(d), GoodTable(tmp), GoodTable(s), Fits(kind, job.op, job.loop),
         NEW e \in Entry,
         kind = "set" => e.val = 1 /\ Held(d)[e.key] <= 1 /\ Held(tmp)[e.key] <= 1,
         NEW o \in Body(job.loop, e)
  PROVE  /\ Result(IF InTmp(job.loop) THEN tmp ELSE d, o, e.key,
                   Given(job.loop, job.op, Held(d)[e.key], Held(s)[e.key], Held(tmp)[e.key], e.val))
         /\ job.loop \in {"intxns", "inner"} => o.t \in {d, Without(d, e.key)}
  <1> DEFINE k == e.key  v == e.val  x == Held(d)[e.key]  b == Held(s)[e.key]  y == Held(tmp)[e.key]
  <1>1. k \in Key /\ v \in 0..MaxCount /\ v > 0
    BY CountAssumption DEF Entry
  <1>2. /\ x \in 0..MaxCount /\ b \in 0..MaxCount /\ y \in 0..MaxCount
        /\ Found(d, k) <=> x > 0
        /\ Found(s, k) <=> b > 0
        /\ Found(tmp, k) <=> y > 0
        /\ Count(d, k) = x /\ Count(s, k) = b /\ Count(tmp, k) = y
    BY <1>1, HeldIs, CountIs
  <1>3. \A z \in {d, tmp} : \A r \in Done(z) : Result(z, r, k, Held(z)[k]) /\ r.t = z
    BY <1>1, DoneIs
  <1>4. \A z \in {d, tmp} : \A r \in Wrote(z, e) : Result(z, r, k, v)
    BY WroteIs
  <1>5. \A r \in Done(Without(d, k)) : Result(d, r, k, 0) /\ r.t = Without(d, k)
    BY <1>1, WithoutIs DEF Done, Result
  <1>6. ASSUME kind # "set"
        PROVE  \A z \in {d, tmp}, n \in 0..MaxCount : \A r \in SetCount(z, k, n) : Result(z, r, k, n)
    BY <1>1, <1>6, SetCountIs
  <1>7. ASSUME kind # "set" PROVE \A r \in AddCount(d, k, v) : Result(d, r, k, x + v)
    BY <1>1, <1>7, AddCountIs
  <1> USE DEF Body, Given, InTmp
  <1>8. CASE job.loop \in {"replica", "copy"}
    BY <1>4, <1>8
  <1>9. CASE job.loop = "unions"
    BY <1>4, <1>9
  <1>10. CASE job.loop \in {"intxns", "inner"}
    <2>1. CASE b > 0
      BY <1>2, <1>3, <1>10, <2>1
    <2>2. CASE ~(b > 0)
      BY <1>2, <1>5, <1>10, <2>2
    <2> QED BY <2>1, <2>2
  <1>11. CASE job.loop \in {"diffs", "remove"}
    BY <1>5, <1>11
  <1>12. CASE job.loop = "addback"
    BY <1>2, <1>3, <1>4, <1>12
  <1>13. CASE job.loop = "take"
    BY <1>2, <1>3, <1>4, <1>13
  <1>14. CASE kind # "set" /\ job.loop \in {"addtums", "refill"}
    BY <1>7, <1>14
  <1>15. CASE kind # "set" /\ job.loop = "unionms"
    BY <1>1, <1>2, <1>3, <1>6, <1>15
  <1>16. CASE kind # "set" /\ job.loop = "intxnms"
    <2>1. Lesser(v, b) \in 0..MaxCount
      BY <1>1, <1>2 DEF Lesser
    <2> QED BY <1>2, <1>6, <1>16, <2>1
  <1>17. CASE kind # "set" /\ job.loop = "diffms"
    <2>1. Minus(x, v) \in 0..MaxCount
      BY <1>1, <1>2, CountAssumption DEF Minus
    <2> QED BY <1>2, <1>6, <1>17, <2>1
  <1>18. CASE kind # "set" /\ job.loop = "apart"
    <2>1. Apart(x, b) \in 0..MaxCount
      BY <1>2, CountAssumption DEF Apart
    <2> QED BY <1>2, <1>6, <1>18, <2>1
  <1>19. CASE kind # "set" /\ job.loop = "rest"
    BY <1>1, <1>2, <1>3, <1>6, <1>19
  <1> HIDE DEF Body, Given, InTmp
  <1> QED BY <1>8, <1>9, <1>10, <1>11, <1>12, <1>13, <1>14, <1>15, <1>16, <1>17, <1>18, <1>19
          DEF Fits

\* The step of a loop that walks freed memory: the tables stay in order.
LEMMA AstrayHolds == IInv /\ Turn /\ job.moved => IInv'
  <1> SUFFICES ASSUME IInv, Turn, job.moved PROVE IInv'
    OBVIOUS
  <1>1. /\ GoodTable(d) /\ GoodTable(s) /\ GoodTable(tmp) /\ faults \in Nat /\ job \in Jobs
        /\ Fits(kind, job.op, job.loop) /\ job.loop \notin {"none", "exited"}
        /\ kind = "multiset" \/ job.op = "replica" => Clean
    BY DEF IInv, TypeInv, Loops, Turn, Running
  <1>2. PICK w \in Seen : /\ Reach(w) # {}
          /\ \E o \in Body(job.loop, w.slot[NextOne(w)]) :
               /\ IF InTmp(job.loop) THEN tmp' = o.t /\ UNCHANGED d ELSE d' = o.t /\ UNCHANGED tmp
               /\ faults' = faults + o.faults
               /\ job' = IF faults' > 1 THEN [job EXCEPT !.loop = "exited"]
                         ELSE IF (kind = "multiset" \/ job.op = "replica") /\ faults' > 0
                           THEN [job EXCEPT !.loop = "none"]
                         ELSE [job EXCEPT !.i = NextOne(w) + 1]
    BY DEF Turn, InTmp
  <1>3. kind' = kind /\ s' = s
    BY DEF Turn
  <1>4. GoodTable(w) /\ (kind = "set" => \A k \in Key : Held(w)[k] <= 1)
    <2>1. w \in {d, s, tmp, Still(NewTable)}
      BY <1>2 DEF Seen, Walked
    <2>2. GoodTable(Still(NewTable)) /\ \A k \in Key : Held(Still(NewTable))[k] = 0
      BY NoneHeld, NewGood, StillGood
    <2> QED BY <1>1, <2>1, <2>2 DEF IInv, Ones
  <1>5. PICK n \in Live(w.slot) : n = NextOne(w)
    <2>1. \A j \in Reach(w) : j \in Nat
      BY <1>4, LiveSlots DEF Reach
    <2>2. \E i \in Reach(w) : \A j \in Reach(w) : i <= j
      BY <1>2, <2>1, LeastOf
    <2> QED BY <2>2 DEF NextOne, Reach
  <1>6. PICK e : e = w.slot[n]
    OBVIOUS
  <1>7. n \in Nat /\ e \in Entry /\ e.key \in Key /\ e.val = Held(w)[e.key] /\ Held(w)[e.key] > 0
    BY <1>4, <1>6, LiveSlots
  <1>8. kind = "set" => \A k \in Key : Held(d)[k] <= 1 /\ Held(s)[k] <= 1 /\ Held(tmp)[k] <= 1
                                       /\ job.old[k] <= 1
    BY DEF IInv, Ones
  <1>9. kind = "set" => e.val = 1 /\ Held(d)[e.key] <= 1 /\ Held(tmp)[e.key] <= 1
    <2>1. Held(w)[e.key] \in 0..MaxCount
      BY <1>4, <1>7, HeldIs
    <2> QED BY <1>4, <1>7, <1>8, <2>1, CountAssumption
  <1>10. PICK o \in Body(job.loop, e) :
           /\ IF InTmp(job.loop) THEN tmp' = o.t /\ UNCHANGED d ELSE d' = o.t /\ UNCHANGED tmp
           /\ faults' = faults + o.faults
           /\ job' = IF faults' > 1 THEN [job EXCEPT !.loop = "exited"]
                     ELSE IF (kind = "multiset" \/ job.op = "replica") /\ faults' > 0
                       THEN [job EXCEPT !.loop = "none"]
                     ELSE [job EXCEPT !.i = n + 1]
    BY <1>2, <1>5, <1>6
  <1>11. PICK v : v = Given(job.loop, job.op, Held(d)[e.key], Held(s)[e.key], Held(tmp)[e.key], e.val)
    OBVIOUS
  <1>12. Result(IF InTmp(job.loop) THEN tmp ELSE d, o, e.key, v)
    BY <1>1, <1>7, <1>9, <1>11, BodyIs
  <1>13. kind = "set" => v <= 1
    BY <1>1, <1>7, <1>8, <1>9, <1>11 DEF Given, Fits
  <1>14. /\ o.faults \in 0..2 /\ GoodTable(d') /\ GoodTable(tmp')
         /\ kind = "set" => \A k \in Key : Held(d')[k] <= 1 /\ Held(tmp')[k] <= 1
    <2>1. CASE InTmp(job.loop)
      BY <1>1, <1>8, <1>10, <1>12, <1>13, <2>1 DEF Result
    <2>2. CASE ~InTmp(job.loop)
      BY <1>1, <1>8, <1>10, <1>12, <1>13, <2>2 DEF Result
    <2> QED BY <2>1, <2>2
  <1>15. /\ job' \in Jobs /\ job'.op = job.op /\ job'.old = job.old /\ job'.moved
         /\ \/ job'.loop \in {"exited", "none"}
            \/ /\ job'.loop = job.loop
               /\ kind = "multiset" \/ job.op = "replica" => faults' = 0
    <2>1. faults' \in Nat /\ n + 1 \in Nat
      BY <1>1, <1>7, <1>10, <1>14
    <2> QED BY <1>1, <1>10, <2>1 DEF Jobs, AnyLoop
  <1>16. TypeInv'
    <2>1. faults' \in Nat
      BY <1>1, <1>10, <1>14
    <2> QED BY <1>1, <1>3, <1>14, <1>15, <2>1 DEF TypeInv, IInv
  <1>17. Ones'
    BY <1>3, <1>8, <1>14, <1>15 DEF Ones
  <1>18. Loops'
    BY <1>1, <1>3, <1>15 DEF Loops, Running, Clean
  <1>19. Keys'
    BY <1>15 DEF Keys
  <1> QED BY <1>16, <1>17, <1>18, <1>19 DEF IInv

\* The step of a loop: what it does to each key, whichever it comes to.
LEMMA TurnHolds == IInv /\ Turn /\ ~job.moved => IInv'
  <1> SUFFICES ASSUME IInv, Turn, ~job.moved PROVE IInv'
    OBVIOUS
  <1>1. /\ GoodTable(d) /\ GoodTable(s) /\ GoodTable(tmp) /\ faults \in Nat /\ job.i \in Nat
        /\ job \in Jobs
        /\ Fits(kind, job.op, job.loop) /\ job.loop \notin {"none", "exited"}
        /\ kind = "multiset" \/ job.op = "replica" => Clean
    BY DEF IInv, TypeInv, Jobs, Loops, Turn, Running
  <1>2. PICK w : w = Walked(job.loop)
    OBVIOUS
  <1>3. GoodTable(w)
    BY <1>1, <1>2 DEF Walked
  <1>4. PICK n \in Live(w.slot) : n = NextOne(w) /\ n >= job.i /\ \A j \in Live(w.slot) : j >= job.i => n <= j
    <2>1. \A j \in Live(w.slot) : j \in Nat
      BY <1>3, LiveSlots
    <2>2. Reach(w) = {i \in Live(w.slot) : i >= job.i} /\ Reach(w) # {}
      BY <1>2 DEF Reach, Turn, Seen, Astray
    <2>3. Reach(w) \subseteq Nat
      BY <2>1, <2>2
    <2>4. \E i \in Reach(w) : \A j \in Reach(w) : i <= j
      BY <2>2, <2>3, LeastOf
    <2>5. NextOne(w) \in Reach(w) /\ \A j \in Reach(w) : NextOne(w) <= j
      BY <2>4 DEF NextOne
    <2> QED BY <2>2, <2>5
  <1>5. PICK e : e = w.slot[n]
    OBVIOUS
  <1>6. n \in Nat /\ e \in Entry /\ e.key \in Key /\ e.val = Held(w)[e.key] /\ Held(w)[e.key] > 0
    BY <1>3, <1>5, LiveSlots
  <1>7. PICK o \in Body(job.loop, e) :
          /\ IF InTmp(job.loop) THEN tmp' = o.t /\ UNCHANGED d ELSE d' = o.t /\ UNCHANGED tmp
          /\ faults' = faults + o.faults
          /\ job' = IF faults' > 1 THEN [job EXCEPT !.loop = "exited"]
                    ELSE IF (kind = "multiset" \/ job.op = "replica") /\ faults' > 0
                      THEN [job EXCEPT !.loop = "none"]
                    ELSE [job EXCEPT !.i = n + 1]
    BY <1>2, <1>4, <1>5 DEF Turn, InTmp, Seen, Astray
  <1>8. kind' = kind /\ s' = s
    BY DEF Turn
  <1>9. \A k \in Key :
          /\ job.old[k] \in 0..MaxCount
          /\ Held(d)[k] \in 0..MaxCount /\ Held(s)[k] \in 0..MaxCount /\ Held(tmp)[k] \in 0..MaxCount
          /\ Held(w)[k] = WalkedVal(job.loop, Held(d)[k], Held(s)[k], Held(tmp)[k])
    BY <1>1, <1>2, HeldIs DEF Walked, WalkedVal, Jobs
  <1>10. kind = "set" => \A k \in Key : /\ Held(d)[k] <= 1 /\ Held(s)[k] <= 1 /\ Held(tmp)[k] <= 1
                                        /\ Held(w)[k] <= 1 /\ job.old[k] <= 1
    BY <1>2 DEF IInv, Ones, Walked
  <1>11. kind = "set" => e.val = 1 /\ Held(d)[e.key] <= 1 /\ Held(tmp)[e.key] <= 1
    BY <1>3, <1>6, <1>10, HeldIs, CountAssumption
  <1>12. PICK k, a, b, x, y, v :
           /\ k = e.key /\ a = job.old[k] /\ b = Held(s)[k] /\ x = Held(d)[k] /\ y = Held(tmp)[k]
           /\ v = Given(job.loop, job.op, x, b, y, e.val)
    OBVIOUS
  <1>13. /\ Result(IF InTmp(job.loop) THEN tmp ELSE d, o, k, v)
         /\ job.loop \in {"intxns", "inner"} => o.t \in {d, Without(d, k)}
    BY <1>1, <1>6, <1>11, <1>12, BodyIs
  <1>14. /\ o.faults \in 0..2 /\ GoodTable(d') /\ GoodTable(tmp')
         /\ \A j \in Key :
              /\ Held(d')[j] = IF ~InTmp(job.loop) /\ j = k /\ o.faults = 0 THEN v ELSE Held(d)[j]
              /\ Held(tmp')[j] = IF InTmp(job.loop) /\ j = k /\ o.faults = 0 THEN v ELSE Held(tmp)[j]
    <2>1. CASE InTmp(job.loop)
      BY <1>1, <1>7, <1>13, <2>1 DEF Result
    <2>2. CASE ~InTmp(job.loop)
      BY <1>1, <1>7, <1>13, <2>2 DEF Result
    <2> QED BY <2>1, <2>2
  <1>15. /\ Ahead(w, job.i, k) /\ ~Ahead(w, n + 1, k)
         /\ \A j \in Key : j # k => (Ahead(w, n + 1, j) <=> Ahead(w, job.i, j))
    BY <1>1, <1>3, <1>4, <1>5, <1>12, AheadNext
  <1>16. /\ job' \in Jobs
         /\ job'.op = job.op /\ job'.old = job.old /\ ~job'.moved
         /\ \/ job'.loop = "exited" /\ faults' > 1
            \/ job'.loop = "none" /\ faults' > 0
            \/ /\ job'.loop = job.loop /\ job'.i = n + 1
               /\ kind = "multiset" \/ job.op = "replica" => faults' = 0
    <2>1. faults' \in Nat /\ n + 1 \in Nat
      BY <1>1, <1>6, <1>7, <1>14
    <2> QED BY <1>1, <1>7, <2>1 DEF Jobs, AnyLoop
  <1>17. PICK loop : loop = job.loop
    OBVIOUS
  <1>18. ASSUME loop # "intxnms", NEW j \in Key
         PROVE  Ahead(Walked(loop)', n + 1, j) <=> Ahead(w, n + 1, j)
    <2>1. CASE loop \in {"intxns", "inner"}
      <3>1. Walked(loop)' = d' /\ w = d /\ d' = o.t
        BY <1>2, <1>7, <1>17, <2>1 DEF Walked, InTmp
      <3>2. CASE o.t = d
        BY <3>1, <3>2
      <3>3. CASE o.t = Without(d, k)
        <4>1. n \in Live(d.slot) /\ d.slot[n].key = k /\ k \in Key
          BY <1>4, <1>5, <1>6, <1>12, <3>1
        <4>2. PICK new, h : new = Without(h, k) /\ h = d
          OBVIOUS
        <4>3. GoodTable(h) /\ n \in Live(h.slot) /\ h.slot[n].key = k
          BY <1>1, <4>1, <4>2
        <4>4. Ahead(new, n + 1, j) <=> Ahead(h, n + 1, j)
          BY <4>1, <4>2, <4>3, AheadWithout
        <4> QED BY <3>1, <3>3, <4>2, <4>4
      <3> QED BY <1>13, <1>17, <2>1, <3>2, <3>3
    <2>2. CASE loop \notin {"intxns", "inner"}
      <3>1. Walked(loop)' = w
        BY <1>2, <1>7, <1>8, <1>17, <1>18, <2>2 DEF Walked, InTmp
      <3> QED BY <3>1
    <2> QED BY <2>1, <2>2
  <1> DEFINE x2 == IF InTmp(job.loop) THEN x ELSE v
             y2 == IF InTmp(job.loop) THEN v ELSE y
  <1>19. /\ Half(job.op, a, b, x2)
         /\ Clean => Stage(job.loop, job.op, a, b, x2, y2, FALSE)
         /\ kind = "set" => x2 <= 1 /\ y2 <= 1
    <2>1. /\ a \in Nat /\ b \in Nat /\ x \in Nat /\ y \in Nat
          /\ kind = "set" => a <= 1 /\ b <= 1 /\ x <= 1 /\ y <= 1
          /\ e.val = WalkedVal(job.loop, x, b, y) /\ WalkedVal(job.loop, x, b, y) > 0
      BY <1>6, <1>9, <1>10, <1>12, CountAssumption
    <2>2. /\ Half(job.op, a, b, x)
          /\ Clean => Stage(job.loop, job.op, a, b, x, y, Ahead(w, job.i, k))
      BY <1>2, <1>6, <1>12 DEF IInv, Keys
    <2>3. Clean => Stage(job.loop, job.op, a, b, x, y, TRUE)
      BY <1>15, <2>2 DEF Stage
    <2>4. PICK clean : clean \in BOOLEAN /\ (clean <=> Clean)
      BY DEF Clean
    <2>5. v = Given(job.loop, job.op, x, b, y, WalkedVal(job.loop, x, b, y))
      BY <1>12, <2>1
    <2>6. PICK knd, op, p, q :
            /\ knd = kind /\ op = job.op
            /\ p = (IF InTmp(loop) THEN x ELSE v) /\ q = (IF InTmp(loop) THEN v ELSE y)
      OBVIOUS
    <2>7. Due(knd, op, loop, a, b, x, y, clean)
      BY <1>1, <1>17, <2>1, <2>2, <2>3, <2>4, <2>6 DEF Due
    <2>8. Served(knd, op, loop, a, b, p, q, clean)
      BY <1>17, <2>1, <2>4, <2>5, <2>6, <2>7, StageTurn
    <2>9. p = x2 /\ q = y2
      BY <1>17, <2>6
    <2> QED BY <1>17, <2>4, <2>6, <2>8, <2>9 DEF Served
  <1>20. ASSUME NEW j \in Key
         PROVE  /\ Half(job.op, job.old[j], Held(s)[j], Held(d')[j])
                /\ kind = "set" => Held(d')[j] <= 1 /\ Held(tmp')[j] <= 1
                /\ faults' = 0 => Stage(job.loop, job.op, job.old[j], Held(s)[j], Held(d')[j],
                                        Held(tmp')[j], Ahead(w, n + 1, j))
    <2>1. faults' = 0 <=> Clean /\ o.faults = 0
      BY <1>1, <1>7, <1>14 DEF Clean
    <2>2. /\ Half(job.op, job.old[j], Held(s)[j], Held(d)[j])
          /\ Clean => Stage(job.loop, job.op, job.old[j], Held(s)[j], Held(d)[j], Held(tmp)[j],
                            Ahead(w, job.i, j))
      BY <1>2 DEF IInv, Keys
    <2>3. CASE j = k /\ o.faults = 0
      <3>1. Held(d')[j] = x2 /\ Held(tmp')[j] = y2
        BY <1>6, <1>12, <1>14, <2>3
      <3>2. Ahead(w, n + 1, j) <=> FALSE
        BY <1>15, <2>3
      <3>3. faults' = 0 => Stage(job.loop, job.op, a, b, x2, y2, Ahead(w, n + 1, j))
        BY <1>19, <2>1, <3>2 DEF Stage
      <3> HIDE DEF x2, y2
      <3> QED BY <1>12, <1>19, <2>3, <3>1, <3>3
    <2>4. CASE j # k \/ o.faults # 0
      <3>1. Held(d')[j] = Held(d)[j] /\ Held(tmp')[j] = Held(tmp)[j]
        BY <1>14, <2>4
      <3>2. faults' = 0 => (Ahead(w, n + 1, j) <=> Ahead(w, job.i, j))
        BY <1>15, <2>1, <2>4
      <3>3. faults' = 0 => Stage(job.loop, job.op, job.old[j], Held(s)[j], Held(d)[j], Held(tmp)[j],
                                 Ahead(w, n + 1, j))
        BY <2>1, <2>2, <3>2 DEF Stage
      <3> QED BY <1>10, <2>2, <3>1, <3>3
    <2> QED BY <2>3, <2>4
  <1>21. TypeInv'
    <2>1. faults' \in Nat
      BY <1>1, <1>7, <1>14
    <2> QED BY <1>1, <1>8, <1>14, <1>16, <2>1 DEF TypeInv, IInv
  <1>22. Ones'
    BY <1>8, <1>10, <1>16, <1>20 DEF Ones
  <1>23. Loops'
    BY <1>1, <1>8, <1>16 DEF Loops, Running, Clean
  <1>24. Keys'
    <2>1. ASSUME NEW j \in Key
          PROVE  /\ Half(job'.op, job'.old[j], Held(s')[j], Held(d')[j])
                 /\ faults' = 0 => Stage(job'.loop, job'.op, job'.old[j], Held(s')[j], Held(d')[j],
                                         Held(tmp')[j], Ahead(Walked(job.loop)', job'.i, j))
      <3>1. Half(job'.op, job'.old[j], Held(s')[j], Held(d')[j])
        BY <1>8, <1>16, <1>20
      <3>2. ASSUME faults' = 0
            PROVE  Stage(job'.loop, job'.op, job'.old[j], Held(s')[j], Held(d')[j], Held(tmp')[j],
                         Ahead(Walked(job.loop)', job'.i, j))
        <4>1. job'.loop = loop /\ job'.i = n + 1
          BY <1>16, <1>17, <3>2
        <4>2. Walked(job.loop)' = Walked(loop)'
          BY <4>1 DEF Walked
        <4>3. Stage(loop, job.op, job.old[j], Held(s)[j], Held(d')[j], Held(tmp')[j],
                    Ahead(w, n + 1, j))
          BY <1>17, <1>20, <3>2
        <4>4. CASE loop = "intxnms"
          BY <1>8, <1>16, <4>1, <4>4 DEF Stage
        <4>5. CASE loop # "intxnms"
          <5>1. Ahead(Walked(job.loop)', job'.i, j) <=> Ahead(w, n + 1, j)
            BY <1>18, <4>1, <4>2, <4>5
          <5> QED BY <1>8, <1>16, <4>1, <4>3, <5>1 DEF Stage
        <4> QED BY <4>4, <4>5
      <3> QED BY <3>1, <3>2
    <2> QED BY <2>1 DEF Keys, Clean
  <1> QED BY <1>21, <1>22, <1>23, <1>24 DEF IInv

\* The end of a loop, where freed memory says so.
LEMMA StrayEndHolds == IInv /\ EndLoop /\ job.moved => IInv'
  <1> SUFFICES ASSUME IInv, EndLoop, job.moved PROVE IInv'
    OBVIOUS
  <1>1. /\ GoodTable(d) /\ GoodTable(s) /\ GoodTable(tmp) /\ faults \in Nat /\ job \in Jobs
        /\ Fits(kind, job.op, job.loop) /\ job.loop \notin {"none", "exited"}
        /\ kind = "multiset" \/ job.op = "replica" => Clean
        /\ kind = "set" => \A k \in Key : Held(d)[k] <= 1 /\ Held(s)[k] <= 1 /\ Held(tmp)[k] <= 1
                                           /\ job.old[k] <= 1
    BY DEF IInv, TypeInv, Ones, Loops, EndLoop, Running
  <1>2. PICK next : next = Following(job.loop)
    OBVIOUS
  <1>3. /\ kind' = kind /\ s' = s /\ tmp' = tmp /\ faults' = faults
        /\ job' \in Jobs /\ job'.op = job.op /\ job'.old = job.old /\ job'.loop = next /\ job'.moved
    <2>1. next \in AnyLoop
      BY <1>2 DEF Following, AnyLoop
    <2> QED BY <1>1, <1>2, <2>1 DEF EndLoop, Jobs
  <1>4. /\ GoodTable(d')
        /\ kind = "set" => \A k \in Key : Held(d')[k] <= 1
    <2>1. CASE job.loop = "rest"
      <3>1. d' = Still(Teem(d))
        BY <2>1 DEF EndLoop
      <3>2. GoodTable(Still(Teem(d))) /\ \A k \in Key : Held(Still(Teem(d)))[k] = 0
        BY <1>1, TeemGood, StillGood, NoneHeld
      <3> QED BY <3>1, <3>2
    <2>2. CASE job.loop # "rest"
      BY <1>1, <2>2 DEF EndLoop
    <2> QED BY <2>1, <2>2
  <1>5. next = "none" \/ Fits(kind, job.op, next)
    BY <1>1, <1>2 DEF Fits, Following
  <1> QED BY <1>1, <1>3, <1>4, <1>5 DEF IInv, TypeInv, Ones, Loops, Keys, Running, Clean

\* What is found in freed memory ends the program.
LEMMA CrashHolds == IInv /\ Crash => IInv'
  <1> SUFFICES ASSUME IInv, Crash PROVE IInv'
    OBVIOUS
  <1>1. job' \in Jobs /\ job'.old = job.old /\ job'.loop = "exited" /\ job'.moved
    BY DEF IInv, TypeInv, Jobs, AnyLoop, Crash, Astray
  <1> QED BY <1>1 DEF IInv, TypeInv, Ones, Loops, Keys, Running, Crash

\* The end of a loop: it has come to every key, and the next one, if there is
\* one, has still to come to all that its table holds.
LEMMA EndLoopHolds == IInv /\ EndLoop /\ ~job.moved => IInv'
  <1> SUFFICES ASSUME IInv, EndLoop, ~job.moved PROVE IInv'
    OBVIOUS
  <1>1. /\ GoodTable(d) /\ GoodTable(s) /\ GoodTable(tmp) /\ faults \in Nat
        /\ job \in Jobs
        /\ Fits(kind, job.op, job.loop) /\ job.loop \notin {"none", "exited"}
        /\ kind = "multiset" \/ job.op = "replica" => Clean
    BY DEF IInv, TypeInv, Loops, EndLoop, Running
  <1> USE DEF Jobs
  <1>2. PICK loop, next : loop = job.loop /\ next = Following(loop)
    OBVIOUS
  <1>3. next \in AnyLoop
    BY <1>2 DEF Following, AnyLoop
  <1>4. /\ job' \in Jobs
        /\ job'.op = job.op /\ job'.old = job.old /\ job'.loop = next /\ job'.i = 0
        /\ ~job'.moved
    BY <1>1, <1>2, <1>3 DEF EndLoop
  <1>5. kind' = kind /\ s' = s /\ tmp' = tmp /\ faults' = faults
    BY DEF EndLoop
  <1>6. /\ GoodTable(d')
        /\ \A k \in Key : Held(d')[k] = IF loop = "rest" THEN 0 ELSE Held(d)[k]
    <2>1. CASE loop = "rest"
      <3>1. d' = Still(Teem(d))
        BY <1>2, <2>1 DEF EndLoop
      <3>2. GoodTable(Still(Teem(d)))
        BY <1>1, TeemGood, StillGood
      <3>3. \A k \in Key : Held(Still(Teem(d)))[k] = 0
        BY <1>1, NoneHeld
      <3> QED BY <2>1, <3>1, <3>2, <3>3
    <2>2. CASE loop # "rest"
      <3>1. d' = d
        BY <1>2, <2>2 DEF EndLoop
      <3> QED BY <1>1, <2>2, <3>1
    <2> QED BY <2>1, <2>2
  <1>7. PICK new, z : new = d' /\ z = Walked(next)'
    OBVIOUS
  <1>8. /\ GoodTable(z)
        /\ \A k \in Key : Held(z)[k] = WalkedVal(next, Held(new)[k], Held(s)[k], Held(tmp)[k])
    <2>1. z = IF next \in {"intxns", "copy", "replica", "inner", "intxnms", "apart"} THEN new
              ELSE IF next = "refill" THEN tmp ELSE s
      BY <1>5, <1>7 DEF Walked
    <2> QED BY <1>1, <1>6, <1>7, <2>1 DEF WalkedVal
  <1>9. \A k \in Key : /\ job.old[k] \in Nat /\ Held(s)[k] \in Nat
                       /\ Held(d)[k] \in Nat /\ Held(tmp)[k] \in Nat
    <2>1. \A k \in Key : job.old[k] \in 0..MaxCount /\ Held(s)[k] \in 0..MaxCount
                         /\ Held(d)[k] \in 0..MaxCount /\ Held(tmp)[k] \in 0..MaxCount
      BY <1>1, HeldIs
    <2> QED BY <2>1, CountAssumption
  <1>10. PICK clean, op : clean \in BOOLEAN /\ (clean <=> Clean) /\ op = job.op
    BY DEF Clean
  <1>11. ASSUME NEW k \in Key
         PROVE  /\ Half(op, job.old[k], Held(s)[k], Held(new)[k])
                /\ clean => Stage(next, op, job.old[k], Held(s)[k], Held(new)[k], Held(tmp)[k],
                                  Ahead(z, 0, k))
    <2>1. ~Ahead(Walked(job.loop), job.i, k)
      BY DEF EndLoop, Reach, Ahead, Seen, Astray
    <2>2. PICK a, b, x, y : a = job.old[k] /\ b = Held(s)[k] /\ x = Held(d)[k] /\ y = Held(tmp)[k]
      OBVIOUS
    <2>3. /\ Half(op, a, b, x)
          /\ Clean => Stage(loop, op, a, b, x, y, Ahead(Walked(job.loop), job.i, k))
      BY <1>2, <1>10, <2>2 DEF IInv, Keys
    <2>4. clean => Stage(loop, op, a, b, x, y, FALSE)
      BY <1>10, <2>1, <2>3 DEF Stage
    <2>5. PICK x2 : x2 = (IF loop = "rest" THEN 0 ELSE x) /\ x2 = Held(new)[k]
      BY <1>6, <1>7, <2>2
    <2>6. PICK ahead : ahead \in BOOLEAN /\ (ahead <=> Ahead(z, 0, k))
                       /\ (ahead <=> WalkedVal(next, x2, b, y) > 0)
      <3>1. Ahead(z, 0, k) <=> Held(z)[k] > 0
        BY <1>8, AheadHeld
      <3>2. Held(z)[k] = WalkedVal(next, x2, b, y)
        BY <1>8, <2>2, <2>5
      <3> QED BY <3>1, <3>2 DEF Ahead
    <2>7. a \in Nat /\ b \in Nat /\ x \in Nat /\ y \in Nat /\ Fits(kind, op, loop)
      BY <1>1, <1>2, <1>9, <1>10, <2>2
    <2>8. Begun(op, next, a, b, x2, y, clean, ahead)
      <3>1. Crossed(kind, op, loop, a, b, x, y, clean, ahead)
        BY <1>2, <2>3, <2>4, <2>5, <2>6, <2>7 DEF Crossed
      <3> QED BY <1>2, <1>10, <2>5, <2>6, <2>7, <3>1, StageEnd
    <2>9. clean => Stage(next, op, a, b, x2, y, Ahead(z, 0, k))
      BY <2>6, <2>8 DEF Begun, Stage
    <2> QED BY <2>2, <2>5, <2>8, <2>9 DEF Begun
  <1>12. next = "none" \/ Fits(kind, op, next)
    BY <1>1, <1>2, <1>10 DEF Fits, Following
  <1>13. TypeInv'
    BY <1>1, <1>4, <1>5, <1>6 DEF TypeInv, IInv
  <1>14. Ones'
    BY <1>4, <1>5, <1>6 DEF IInv, Ones
  <1>15. Loops'
    BY <1>1, <1>4, <1>5, <1>10, <1>12 DEF Loops, Running, Clean
  <1>16. Keys'
    <2>1. ASSUME NEW k \in Key
          PROVE  /\ Half(job'.op, job'.old[k], Held(s')[k], Held(d')[k])
                 /\ faults' = 0 => Stage(job'.loop, job'.op, job'.old[k], Held(s')[k], Held(d')[k],
                                         Held(tmp')[k], Ahead(Walked(job.loop)', job'.i, k))
      <3>1. Walked(job.loop)' = z /\ job'.i = 0
        BY <1>4, <1>7 DEF Walked
      <3>2. Ahead(Walked(job.loop)', job'.i, k) <=> Ahead(z, 0, k)
        BY <3>1
      <3>3. faults' = 0 => clean
        BY <1>5, <1>10 DEF Clean
      <3>4. faults' = 0 => Stage(job'.loop, job'.op, job'.old[k], Held(s')[k], Held(d')[k],
                                 Held(tmp')[k], Ahead(z, 0, k))
        BY <1>4, <1>5, <1>7, <1>10, <1>11, <3>3
      <3>5. faults' = 0 => Stage(job'.loop, job'.op, job'.old[k], Held(s')[k], Held(d')[k],
                                 Held(tmp')[k], Ahead(Walked(job.loop)', job'.i, k))
        BY <3>2, <3>4 DEF Stage
      <3> QED BY <1>4, <1>5, <1>7, <1>10, <1>11, <3>5
    <2> QED BY <2>1 DEF Keys, Clean
  <1> QED BY <1>13, <1>14, <1>15, <1>16 DEF IInv

\* The call of an operation: how it begins, its table made or not.
LEMMA CallHolds == IInv /\ (\E op \in Operations : Call(op)) => IInv'
  <1> SUFFICES ASSUME IInv, NEW op \in Operations, Call(op) PROVE IInv'
    OBVIOUS
  <1> USE DEF Jobs
  <1>0. PICK made \in BOOLEAN, moved \in BOOLEAN :
          /\ ~made => ~moved
          /\ job' = [op |-> op, loop |-> IF made THEN First(op) ELSE "none", i |-> 0,
                     old |-> Held(d), moved |-> moved]
          /\ faults' = IF made THEN 0 ELSE 1
    BY DEF Call
  <1>1. /\ GoodTable(d) /\ GoodTable(s) /\ kind \in Kinds
        /\ \A k \in Key : Held(d)[k] \in 0..MaxCount /\ Held(s)[k] \in 0..MaxCount
    BY HeldIs DEF IInv, TypeInv
  <1>2. PICK loop, old : loop = First(op) /\ old = Held(d)
    OBVIOUS
  <1>3. /\ job' = [op |-> op, loop |-> IF made THEN loop ELSE "none", i |-> 0, old |-> old,
                   moved |-> moved]
        /\ tmp' = Still(NewTable) /\ kind' = kind /\ d' = d /\ s' = s
        /\ faults' = IF made THEN 0 ELSE 1
    BY <1>0, <1>2 DEF Call
  <1>4. GoodTable(tmp') /\ \A k \in Key : Held(tmp')[k] = 0
    <2>1. GoodTable(Still(NewTable)) /\ \A k \in Key : Held(Still(NewTable))[k] = 0
      BY NoneHeld, NewGood, StillGood
    <2> QED BY <1>3, <2>1
  <1>5. PICK z, t : z = Walked(loop)' /\ t = tmp'
    OBVIOUS
  <1>6. /\ GoodTable(z)
        /\ \A k \in Key : Held(z)[k] = WalkedVal(loop, Held(d)[k], Held(s)[k], 0)
    <2>1. z = IF loop \in {"intxns", "copy", "replica", "inner", "intxnms", "apart"} THEN d
              ELSE IF loop = "refill" THEN t ELSE s
      BY <1>3, <1>5 DEF Walked
    <2> QED BY <1>1, <1>4, <1>5, <2>1 DEF WalkedVal
  <1>7. ASSUME NEW k \in Key
        PROVE  /\ Half(op, old[k], Held(s)[k], Held(d)[k])
               /\ Stage(loop, op, old[k], Held(s)[k], Held(d)[k], 0, Ahead(z, 0, k))
               /\ Fits(kind, op, loop)
    <2>1. PICK a, b : a = Held(d)[k] /\ b = Held(s)[k] /\ a \in Nat /\ b \in Nat /\ a = old[k]
      BY <1>1, <1>2, CountAssumption
    <2>2. PICK ahead : ahead \in BOOLEAN /\ (ahead <=> Ahead(z, 0, k))
                       /\ (ahead <=> WalkedVal(loop, a, b, 0) > 0)
      <3>1. Ahead(z, 0, k) <=> Held(z)[k] > 0
        BY <1>6, AheadHeld
      <3>2. Held(z)[k] = WalkedVal(loop, a, b, 0)
        BY <1>6, <2>1
      <3> QED BY <3>1, <3>2 DEF Ahead
    <2>3. Half(op, a, b, a) /\ Stage(loop, op, a, b, a, 0, ahead) /\ Fits(kind, op, loop)
      BY <1>1, <1>2, <2>1, <2>2, StageCall
    <2>4. Stage(loop, op, a, b, a, 0, Ahead(z, 0, k))
      BY <2>2, <2>3 DEF Stage
    <2> QED BY <2>1, <2>3, <2>4
  <1>8. Fits(kind, op, loop)
    BY <1>1, <1>2 DEF Fits, First, Operations, Kinds
  <1>9. job' \in Jobs
    <2>1. old \in [Key -> 0..MaxCount]
      BY <1>1, <1>2 DEF Held
    <2>2. op \in AnyOp /\ loop \in AnyLoop /\ "none" \in AnyLoop
      BY <1>8 DEF Fits, AnyOp, AnyLoop
    <2> QED BY <1>3, <2>1, <2>2
  <1>10. TypeInv'
    BY <1>1, <1>3, <1>4, <1>9 DEF TypeInv
  <1>11. Ones'
    <2>1. kind = "set" => \A k \in Key : Held(d)[k] <= 1 /\ Held(s)[k] <= 1 /\ old[k] <= 1
      BY <1>2 DEF IInv, Ones
    <2>2. \A k \in Key : Held(tmp')[k] <= 1
      BY <1>4
    <2> QED BY <1>3, <2>1, <2>2 DEF Ones
  <1>12. Loops'
    BY <1>3, <1>8 DEF Loops, Running, Clean
  <1>13. ASSUME ~made PROVE Keys'
    <2>1. job'.op = op /\ job'.old = old /\ ~Clean'
      BY <1>3, <1>13 DEF Clean
    <2>2. \A k \in Key : Half(job'.op, job'.old[k], Held(s')[k], Held(d')[k])
      BY <1>3, <1>7, <2>1
    <2> QED BY <2>1, <2>2 DEF Keys
  <1>14. ASSUME moved PROVE Keys'
    BY <1>3, <1>14 DEF Keys
  <1>15. ASSUME made, ~moved PROVE Keys'
    <2>1. job'.op = op /\ job'.old = old /\ job'.loop = loop /\ job'.i = 0
      BY <1>3, <1>15
    <2>2. ASSUME NEW k \in Key
          PROVE  /\ Half(job'.op, job'.old[k], Held(s')[k], Held(d')[k])
                 /\ Stage(job'.loop, job'.op, job'.old[k], Held(s')[k], Held(d')[k],
                          Held(tmp')[k], Ahead(Walked(job.loop)', job'.i, k))
      <3>1. Walked(job.loop)' = z
        BY <1>5, <2>1 DEF Walked
      <3>2. Ahead(Walked(job.loop)', job'.i, k) <=> Ahead(z, 0, k)
        BY <2>1, <3>1
      <3>3. Stage(job'.loop, job'.op, job'.old[k], Held(s')[k], Held(d')[k], Held(tmp')[k],
                  Ahead(z, 0, k))
        BY <1>3, <1>4, <1>7, <2>1
      <3>4. Stage(job'.loop, job'.op, job'.old[k], Held(s')[k], Held(d')[k], Held(tmp')[k],
                  Ahead(Walked(job.loop)', job'.i, k))
        BY <3>2, <3>3 DEF Stage
      <3> QED BY <1>3, <1>7, <2>1, <3>4
    <2> QED BY <2>2 DEF Keys
  <1> QED BY <1>10, <1>11, <1>12, <1>13, <1>14, <1>15 DEF IInv

\* When no operation was called, nothing is asked of one.
LEMMA Idle ==
  ASSUME GoodTable(d'), GoodTable(s'), job' = NoJob, tmp' = Still(NewTable), faults' = 0,
         kind' \in Kinds,
         kind' = "set" => \A k \in Key : Held(d')[k] <= 1 /\ Held(s')[k] <= 1
  PROVE  IInv'
  <1>1. GoodTable(tmp') /\ \A k \in Key : Held(tmp')[k] = 0
    <2>1. GoodTable(Still(NewTable)) /\ \A k \in Key : Held(Still(NewTable))[k] = 0
      BY NoneHeld, NewGood, StillGood
    <2> QED BY <2>1
  <1>2. /\ job' \in Jobs
        /\ job'.op = "none" /\ job'.loop = "none" /\ \A k \in Key : job'.old[k] = 0
    BY CountAssumption DEF NoJob, Jobs, AnyOp, AnyLoop
  <1>3. TypeInv'
    BY <1>1, <1>2 DEF TypeInv
  <1>4. Ones'
    BY <1>1, <1>2 DEF Ones
  <1>5. Loops'
    BY <1>2 DEF Loops, Running
  <1>6. Keys'
    BY <1>2 DEF Keys, Half, Stage
  <1> QED BY <1>3, <1>4, <1>5, <1>6 DEF IInv

LEMMA FillHolds == IInv /\ FillTables => IInv'
  <1> SUFFICES ASSUME IInv, FillTables PROVE IInv'
    OBVIOUS
  <1>1. /\ GoodTable(d) /\ GoodTable(s) /\ kind \in Kinds
        /\ kind = "set" => \A k \in Key : Held(d)[k] <= 1 /\ Held(s)[k] <= 1
    BY DEF IInv, TypeInv, Ones
  <1>2. ASSUME NEW x, GoodTable(x), kind = "set" => \A j \in Key : Held(x)[j] <= 1,
               NEW k \in Key, NEW n \in Counts, NEW o \in Wrote(x, [key |-> k, val |-> n])
        PROVE  GoodTable(o.t) /\ (kind = "set" => \A j \in Key : Held(o.t)[j] <= 1)
    <2>1. PICK e : e = [key |-> k, val |-> n]
      OBVIOUS
    <2>2. e \in Entry /\ e.key = k /\ e.val = n /\ (kind = "set" => n = 1)
      BY <2>1, CountAssumption DEF Entry, Counts
    <2>3. Result(x, o, e.key, e.val)
      BY <1>2, <2>1, <2>2, WroteIs
    <2>4. GoodTable(o.t) /\ \A j \in Key : Held(o.t)[j] \in {n, Held(x)[j]}
      BY <2>2, <2>3 DEF Result
    <2> QED BY <1>2, <2>2, <2>4
  <1>3. ASSUME NEW k \in Key
        PROVE  /\ GoodTable(Without(d, k))
               /\ kind = "set" => \A j \in Key : Held(Without(d, k))[j] <= 1
    BY <1>1, WithoutIs
  <1>4. /\ job' = NoJob /\ tmp' = Still(NewTable) /\ faults' = 0 /\ kind' = kind
        /\ \E k \in Key :
             \/ \E n \in Counts : \E o \in Wrote(d, [key |-> k, val |-> n]) : d' = o.t /\ s' = s
             \/ \E n \in Counts : \E o \in Wrote(s, [key |-> k, val |-> n]) : s' = o.t /\ d' = d
             \/ d' = Without(d, k) /\ s' = s
    BY DEF FillTables
  <1>5. /\ GoodTable(d') /\ GoodTable(s')
        /\ kind' = "set" => \A j \in Key : Held(d')[j] <= 1 /\ Held(s')[j] <= 1
    <2>1. PICK k \in Key :
             \/ \E n \in Counts : \E o \in Wrote(d, [key |-> k, val |-> n]) : d' = o.t /\ s' = s
             \/ \E n \in Counts : \E o \in Wrote(s, [key |-> k, val |-> n]) : s' = o.t /\ d' = d
             \/ d' = Without(d, k) /\ s' = s
      BY <1>4
    <2>2. CASE \E n \in Counts : \E o \in Wrote(d, [key |-> k, val |-> n]) : d' = o.t /\ s' = s
      BY <1>1, <1>2, <1>4, <2>2
    <2>3. CASE \E n \in Counts : \E o \in Wrote(s, [key |-> k, val |-> n]) : s' = o.t /\ d' = d
      BY <1>1, <1>2, <1>4, <2>3
    <2>4. CASE d' = Without(d, k) /\ s' = s
      BY <1>1, <1>3, <1>4, <2>4
    <2> QED BY <2>1, <2>2, <2>3, <2>4
  <1> QED BY <1>1, <1>4, <1>5, Idle

-----------------------------------------------------------------------------
(* The theorems *)

LEMMA InitHolds == InitAlgebra => IInv
  <1> SUFFICES ASSUME InitAlgebra PROVE IInv
    OBVIOUS
  <1>1. /\ GoodTable(Still(NewTable)) /\ \A k \in Key : Held(Still(NewTable))[k] = 0
    BY NoneHeld, NewGood, StillGood
  <1>2. /\ job \in Jobs
        /\ job.op = "none" /\ job.loop = "none" /\ \A k \in Key : job.old[k] = 0
    BY CountAssumption DEF InitAlgebra, NoJob, Jobs, AnyOp, AnyLoop
  <1>3. TypeInv
    BY <1>1, <1>2 DEF InitAlgebra, TypeInv
  <1>4. Ones
    BY <1>1, <1>2 DEF InitAlgebra, Ones
  <1>5. Loops
    BY <1>2 DEF Loops, Running
  <1>6. Keys
    BY <1>2 DEF Keys, Half, Stage
  <1> QED BY <1>3, <1>4, <1>5, <1>6 DEF IInv

LEMMA NextHolds == IInv /\ [NextAlgebra]_algebraVars => IInv'
  <1>1. IInv /\ UNCHANGED algebraVars => IInv'
    BY DEF IInv, TypeInv, Ones, Loops, Running, Clean, Keys, Walked, algebraVars
  <1>2. IInv /\ Turn => IInv'
    BY AstrayHolds, TurnHolds
  <1>3. IInv /\ EndLoop => IInv'
    BY StrayEndHolds, EndLoopHolds
  <1> QED BY <1>1, <1>2, <1>3, CrashHolds, CallHolds, FillHolds DEF NextAlgebra

\* Every state of a whole-table operation - between two turns of its loops, at
\* the end of one, after an error - is described by IInv: the three tables are
\* in order, and each key stands where the loop has brought it, or, once the
\* table of descriptors has moved under the operation, anywhere.
THEOREM InvariantHolds == SpecAlgebra => []IInv
  <1> QED BY InitHolds, NextHolds, PTL DEF SpecAlgebra

\* unions, intxns, diffs, symmdiffs, conjoin, addtums, unionms, diffms,
\* symmdiffms and replica, when they return without an error and the table of
\* descriptors did not move under them, have given every key what they
\* promise, whatever the hash function, the layout of the tables and the growth
\* in the middle of a loop.
THEOREM OperationsExact == SpecAlgebra => []Exact
  <1>1. IInv => Exact
    <2> SUFFICES ASSUME IInv, job.loop = "none", faults = 0, ~job.moved, job.op \notin {"none", "intxnms"},
                        NEW k \in Key
                 PROVE  Held(IF job.op = "replica" THEN tmp ELSE d)[k]
                          = Wanted(job.op, job.old[k], Held(s)[k])
      BY DEF Exact
    <2>1. Stage(job.loop, job.op, job.old[k], Held(s)[k], Held(d)[k], Held(tmp)[k],
                Ahead(Walked(job.loop), job.i, k))
      BY DEF IInv, Keys, Clean
    <2>2. (IF job.op = "replica" THEN Held(tmp)[k] ELSE Held(d)[k])
            = Wanted(job.op, job.old[k], Held(s)[k])
      BY <2>1 DEF Stage
    <2> QED BY <2>2
  <1> QED BY <1>1, InvariantHolds, PTL

\* At every turn of such an operation, and when it gives up for want of memory -
\* for an entry, or for the table that replica and the symmetric differences
\* make -, each key of dst has what it had before the call or what it is to
\* have in the end; only symmdiffms empties dst before it puts in the result.
\* The table of descriptors is taken not to have moved under the operation.
THEOREM NothingLost == SpecAlgebra => []HalfDone
  <1>1. IInv => HalfDone
    BY DEF IInv, Keys, Half, HalfDone
  <1> QED BY <1>1, InvariantHolds, PTL
=============================================================================
