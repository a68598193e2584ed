----------------------------- MODULE SilosProofs -----------------------------
(***************************************************************************)
(* Proofs about Silos: iterators over silos that change, go and come again *)
(* in the same slot, and replicas, for every hash function, every number   *)
(* of silos and iterators and every bound.                                 *)
(***************************************************************************)
EXTENDS Silos, HashOpsProofs, SequenceTheorems

-----------------------------------------------------------------------------
(* Lists *)

\* A sequence of whatever it holds.
IsList(s) == s \in Seq({s[i] : i \in DOMAIN s})

\* A list has its members at 1, 2, 3, ...
LEMMA ListShape ==
  ASSUME NEW s, IsList(s)
  PROVE  Len(s) \in Nat /\ DOMAIN s = 1..Len(s)
  BY DEF IsList

\* A list with one more member.
LEMMA ListAppended ==
  ASSUME NEW s, IsList(s), NEW e
  PROVE  /\ IsList(Append(s, e)) /\ Len(Append(s, e)) = Len(s) + 1
         /\ DOMAIN Append(s, e) = DOMAIN s \cup {Len(s) + 1}
         /\ Append(s, e)[Len(s) + 1] = e
         /\ \A i \in DOMAIN s : Append(s, e)[i] = s[i]
  <1> DEFINE S == {s[i] : i \in DOMAIN s}
             a == Append(s, e)
             T == {a[i] : i \in DOMAIN a}
  <1>1. s \in Seq(S) /\ Len(s) \in Nat /\ DOMAIN s = 1..Len(s)
    BY DEF IsList
  <1>2. s \in Seq(S \cup {e})
    BY <1>1
  <1>3. /\ a \in Seq(S \cup {e}) /\ Len(a) = Len(s) + 1 /\ a[Len(s) + 1] = e
        /\ \A i \in 1..Len(s) : a[i] = s[i]
    BY <1>2, AppendProperties
  <1> HIDE DEF a
  <1>4. a \in [1..(Len(s) + 1) -> S \cup {e}] /\ DOMAIN a = 1..(Len(s) + 1)
    BY <1>1, <1>3, LenProperties
  <1>5. a \in [1..(Len(s) + 1) -> T]
    BY <1>4
  <1>6. a \in Seq(T)
    <2>1. Len(s) + 1 \in Nat
      BY <1>1
    <2> QED BY <1>5, <2>1, SeqDef
  <1> QED BY <1>1, <1>3, <1>4, <1>6 DEF IsList, a

\* A list with other members in the same places.
LEMMA ListChanged ==
  ASSUME NEW s, IsList(s), NEW t, DOMAIN t = DOMAIN s, t = [i \in DOMAIN s |-> t[i]]
  PROVE  IsList(t)
  <1>1. Len(s) \in Nat /\ DOMAIN s = 1..Len(s)
    BY ListShape
  <1>2. t \in [1..Len(s) -> {t[i] : i \in DOMAIN t}]
    BY <1>1
  <1> QED BY <1>1, <1>2, SeqDef DEF IsList

-----------------------------------------------------------------------------
(* Linear silos: shape, type, generation, whatever the cells hold *)

\* A linear silo in order, what its cells may hold, and the fields of its
\* record, one by one.
GoodLinear(s) == L!IsSilo(s) /\ L!Straight(s)
Cells(cap) == [0..(cap - 1) -> Value \cup {Junk}]
HasFields(s) ==
  s \in [type : {s.type}, data : {s.data}, cap : {s.cap}, len : {s.len}, head : {s.head},
         gen : {s.gen}]

\* What the fields of a linear silo in order are.
LEMMA LinearShape ==
  ASSUME NEW s, GoodLinear(s)
  PROVE  /\ s.type \in L!LinearTypes /\ s.cap \in Nat /\ s.len \in Nat /\ s.len <= s.cap
         /\ s.head \in Nat /\ (s.head < s.cap \/ s.head = 0) /\ s.gen \in Nat
         /\ s.data \in Cells(s.cap) /\ (s.type # "queue" => s.head = 0)
         /\ HasFields(s)
  BY DEF GoodLinear, Cells, HasFields, L!IsSilo, L!Straight

\* A record with these fields is a silo in order.
LEMMA LinearMade ==
  ASSUME NEW r, HasFields(r), r.type \in L!LinearTypes, r.cap \in Nat, r.data \in Cells(r.cap),
         r.len \in 0..r.cap, r.head \in Nat, r.head < r.cap \/ r.head = 0,
         r.type # "queue" => r.head = 0, r.gen \in Nat
  PROVE  GoodLinear(r)
  BY DEF HasFields, GoodLinear, Cells, L!IsSilo, L!Straight

\* An element is in a cell of the storage.
LEMMA CellThere ==
  ASSUME NEW s, GoodLinear(s), NEW i \in 0..(s.cap - 1)
  PROVE  /\ L!Cell(s, i) \in 0..(s.cap - 1) /\ s.data[L!Cell(s, i)] \in Value \cup {Junk}
         /\ s.head = 0 => L!Cell(s, i) = i
  <1>1. /\ s.head \in Nat /\ s.cap \in Nat /\ s.data \in Cells(s.cap)
        /\ (s.head < s.cap \/ s.head = 0) /\ i \in Nat /\ i < s.cap
    BY LinearShape
  <1>0. s.head \in Nat /\ s.cap \in Nat /\ s.head + i \in Nat /\ s.head + i < 2 * s.cap
    BY ONLY <1>1
  <1>3. (s.head + i) % s.cap = IF s.head + i < s.cap THEN s.head + i ELSE s.head + i - s.cap
    <2>1. PICK a, c : a = s.head + i /\ c = s.cap
      OBVIOUS
    <2>2. a \in Nat /\ c \in Nat /\ a < 2 * c
      BY ONLY <1>0, <2>1
    <2>3. a % c = IF a < c THEN a ELSE a - c
      BY ONLY <2>2, ModOnce
    <2> QED BY ONLY <1>0, <2>1, <2>2, <2>3
  <1>4. L!Cell(s, i) \in 0..(s.cap - 1) /\ (s.head = 0 => L!Cell(s, i) = i)
    BY <1>1, <1>3 DEF L!Cell
  <1> QED BY <1>1, <1>4 DEF Cells

\* The elements are a sequence of what is in the cells.
LEMMA ElemsAre ==
  ASSUME NEW s, GoodLinear(s)
  PROVE  /\ L!Elems(s) \in Seq(Value \cup {Junk}) /\ Len(L!Elems(s)) = s.len
         /\ \A i \in 1..s.len : L!Elems(s)[i] = s.data[L!Cell(s, i - 1)]
  <1>1. s.len \in Nat /\ \A i \in 1..s.len : i - 1 \in 0..(s.cap - 1)
    BY LinearShape
  <1>2. L!Elems(s) \in [1..s.len -> Value \cup {Junk}]
    BY <1>1, CellThere DEF L!Elems
  <1>3. L!Elems(s) \in Seq(Value \cup {Junk}) /\ Len(L!Elems(s)) = s.len
    BY <1>1, <1>2, SeqDef, LenProperties
  <1> QED BY <1>3 DEF L!Elems

\* Growth keeps the elements and the generation.
LEMMA GrowKept ==
  ASSUME NEW s, GoodLinear(s), NEW n \in Nat
  PROVE  /\ GoodLinear(L!Grow(s, n)) /\ L!Grow(s, n).cap >= n
         /\ L!Grow(s, n).type = s.type /\ L!Grow(s, n).len = s.len /\ L!Grow(s, n).gen = s.gen
         /\ L!Elems(L!Grow(s, n)) = L!Elems(s)
  <1>1. CASE ~L!NeedsRoom(s, n)
    BY <1>1, LinearShape DEF L!Grow, L!NeedsRoom
  <1>2. CASE L!NeedsRoom(s, n)
    <2> DEFINE c == L!NewCap(s, n)
               h == IF s.type = "queue" /\ s.len > 0 THEN 0 ELSE s.head
               d == [i \in 0..(c - 1) |-> IF i >= s.len THEN Junk
                                          ELSE IF s.type = "queue" THEN s.data[L!Cell(s, i)]
                                          ELSE s.data[i]]
               g == L!Grow(s, n)
    <2>0. Chunk \in Nat /\ Chunk > 0
      BY BoundAssumption
    <2>1. c \in Nat /\ c >= n /\ c > s.cap
      BY <1>2, <2>0, LinearShape DEF L!NewCap, L!NeedsRoom
    <2>2. g = [s EXCEPT !.cap = c, !.head = h, !.data = d]
      BY <1>2 DEF L!Grow
    <2>3. \A i \in 0..(s.len - 1) : i \in 0..(s.cap - 1)
      BY LinearShape
    <2>4. \A i \in 0..(s.cap - 1) : s.data[L!Cell(s, i)] \in Value \cup {Junk} /\ s.data[i] \in Value \cup {Junk}
      BY CellThere, LinearShape DEF Cells
    <2>5. \A i \in 0..(c - 1) : d[i] \in Value \cup {Junk}
      <3> TAKE i \in 0..(c - 1)
      <3>1. i < s.len => i \in 0..(s.cap - 1)
        BY LinearShape
      <3> QED BY <3>1, <2>1, <2>4, LinearShape
    <2>6. d \in Cells(c)
      BY <2>5 DEF Cells
    <2>7. \A i \in 0..(s.len - 1) : d[i] = s.data[L!Cell(s, i)]
      <3> TAKE i \in 0..(s.len - 1)
      <3>1. i \in 0..(s.cap - 1) /\ i \in 0..(c - 1) /\ i < s.len
        BY <2>1, LinearShape
      <3>2. s.type # "queue" => L!Cell(s, i) = i
        BY <3>1, CellThere, LinearShape
      <3>3. s.len \in Nat /\ i \in Nat /\ ~(i >= s.len)
        BY <3>1, LinearShape
      <3>4. d[i] = IF s.type = "queue" THEN s.data[L!Cell(s, i)] ELSE s.data[i]
        BY <3>1, <3>3
      <3> HIDE DEF d
      <3> QED BY <3>2, <3>4
    <2>8. h \in Nat /\ (h < c \/ h = 0) /\ (s.type # "queue" => h = 0) /\ (s.len > 0 => h = 0)
      BY <2>1, LinearShape
    <2> HIDE DEF c, h, d, g
    <2>9. /\ g.cap = c /\ g.type = s.type /\ g.len = s.len /\ g.gen = s.gen /\ g.data = d
          /\ g.head = h /\ HasFields(g)
      <3>1. HasFields(s)
        BY LinearShape
      <3> QED BY ONLY <2>2, <3>1 DEF HasFields
    <2>10. s.type \in L!LinearTypes /\ s.len \in 0..c /\ s.gen \in Nat
      BY <2>1, LinearShape
    <2>11. GoodLinear(g)
      BY ONLY <2>1, <2>6, <2>8, <2>9, <2>10, LinearMade
    <2>13. \A i \in 1..s.len : g.data[L!Cell(g, i - 1)] = s.data[L!Cell(s, i - 1)]
      <3> TAKE i \in 1..s.len
      <3>1. i - 1 \in 0..(g.cap - 1) /\ i - 1 \in 0..(s.len - 1) /\ g.head = 0
        BY <2>1, <2>8, <2>9, LinearShape
      <3>2. L!Cell(g, i - 1) = i - 1
        BY <2>11, <3>1, CellThere
      <3> QED BY <2>7, <2>9, <3>1, <3>2
    <2>14. L!Elems(g) = L!Elems(s)
      BY <2>9, <2>13 DEF L!Elems
    <2> QED BY <2>1, <2>11, <2>9, <2>14 DEF g
  <1> QED BY <1>1, <1>2

\* A call that changed a silo leaves it in order, one generation on.
Advanced(s, r) == GoodLinear(r) /\ r.type = s.type /\ r.gen = s.gen + 1

\* A call that changed a silo's fields and then touched it.
LEMMA TouchMade ==
  ASSUME NEW s, GoodLinear(s), NEW u, HasFields(u), u.type = s.type, u.cap \in Nat,
         u.data \in Cells(u.cap), u.len \in 0..u.cap, u.head \in Nat,
         u.head < u.cap \/ u.head = 0, s.type # "queue" => u.head = 0, u.gen = s.gen
  PROVE  Advanced(s, L!Touch(u))
  <1> DEFINE r == L!Touch(u)
  <1>1. /\ HasFields(r) /\ r.type = s.type /\ r.cap = u.cap /\ r.data = u.data /\ r.len = u.len
        /\ r.head = u.head /\ r.gen = s.gen + 1
    BY DEF L!Touch, HasFields
  <1>2. s.type \in L!LinearTypes /\ s.gen + 1 \in Nat
    BY LinearShape
  <1> HIDE DEF r
  <1>3. GoodLinear(r)
    BY <1>1, <1>2, LinearMade
  <1> QED BY <1>1, <1>3 DEF Advanced, r

\* Every call that changes a linear silo.
LEMMA AppendAdvances ==
  ASSUME NEW s, GoodLinear(s), NEW v \in Value \cup {Junk}
  PROVE  Advanced(s, L!AppendOne(s, v))
  <1> DEFINE g == L!Grow(s, s.len + 1)
             i == IF s.type = "queue" THEN L!Cell(g, g.len) ELSE g.len
             u == [g EXCEPT !.data = [@ EXCEPT ![i] = v], !.len = @ + 1]
  <1>1. s.len + 1 \in Nat
    BY LinearShape
  <1>2. GoodLinear(g) /\ g.cap >= s.len + 1 /\ g.type = s.type /\ g.len = s.len /\ g.gen = s.gen
    BY <1>1, GrowKept
  <1>3. L!AppendOne(s, v) = L!Touch(u)
    BY DEF L!AppendOne, L!Enqueue, L!AppendLinear
  <1> HIDE DEF g, i
  <1>4. /\ HasFields(g) /\ g.cap \in Nat /\ g.data \in Cells(g.cap) /\ g.len \in Nat
        /\ g.head \in Nat /\ (g.head < g.cap \/ g.head = 0) /\ (g.type # "queue" => g.head = 0)
    BY <1>2, LinearShape
  <1>5. /\ HasFields(u) /\ u.type = g.type /\ u.cap = g.cap /\ u.len = g.len + 1
        /\ u.head = g.head /\ u.gen = g.gen /\ u.data = [g.data EXCEPT ![i] = v]
    BY ONLY <1>4 DEF HasFields
  <1> HIDE DEF u
  <1>6. u.data \in Cells(u.cap)
    BY ONLY <1>4, <1>5, v \in Value \cup {Junk} DEF Cells
  <1>7. u.len \in 0..u.cap
    BY ONLY <1>2, <1>4, <1>5
  <1>8. Advanced(s, L!Touch(u))
    BY <1>2, <1>4, <1>5, <1>6, <1>7, TouchMade
  <1> QED BY <1>3, <1>8

\* teem, tamp, pop, spew and swop leave a silo in order, one generation on.
LEMMA TeemAdvances ==
  ASSUME NEW s, GoodLinear(s)
  PROVE  Advanced(s, L!Teem(s)) /\ L!Teem(s).len = 0
  <1> DEFINE u == [s EXCEPT !.len = 0, !.head = 0]
  <1>1. /\ HasFields(s) /\ s.cap \in Nat /\ s.data \in Cells(s.cap)
    BY LinearShape
  <1>2. /\ HasFields(u) /\ u.type = s.type /\ u.cap = s.cap /\ u.len = 0 /\ u.head = 0
        /\ u.gen = s.gen /\ u.data = s.data
    BY ONLY <1>1 DEF HasFields
  <1> HIDE DEF u
  <1>3. Advanced(s, L!Touch(u))
    BY <1>1, <1>2, TouchMade
  <1>4. L!Touch(u).len = 0
    BY <1>2 DEF HasFields, L!Touch
  <1> QED BY <1>3, <1>4 DEF L!Teem, u

LEMMA TampAdvances ==
  ASSUME NEW s, GoodLinear(s)
  PROVE  Advanced(s, L!Tamp(s))
  <1> DEFINE d == [i \in 0..(s.len - 1) |->
                     IF s.type = "queue" THEN s.data[L!Cell(s, i)] ELSE s.data[i]]
             u == [s EXCEPT !.data = d, !.cap = s.len, !.head = 0]
  <1>1. HasFields(s) /\ s.len \in Nat /\ s.data \in Cells(s.cap)
    BY LinearShape
  <1>2. \A i \in 0..(s.len - 1) : i \in 0..(s.cap - 1)
    BY LinearShape
  <1>3. \A i \in 0..(s.cap - 1) : s.data[L!Cell(s, i)] \in Value \cup {Junk} /\ s.data[i] \in Value \cup {Junk}
    BY CellThere, LinearShape DEF Cells
  <1>4. d \in Cells(s.len)
    BY <1>2, <1>3 DEF Cells
  <1> HIDE DEF d
  <1>5. /\ HasFields(u) /\ u.type = s.type /\ u.cap = s.len /\ u.len = s.len /\ u.head = 0
        /\ u.gen = s.gen /\ u.data = d
    BY ONLY <1>1 DEF HasFields
  <1> HIDE DEF u
  <1>6. Advanced(s, L!Touch(u))
    BY <1>1, <1>4, <1>5, TouchMade
  <1> QED BY <1>6 DEF L!Tamp, u, d

LEMMA PopAdvances ==
  ASSUME NEW s, GoodLinear(s), s.len > 0
  PROVE  Advanced(s, L!Pop(s))
  <1> DEFINE u == [s EXCEPT !.len = @ - 1]
  <1>1. /\ HasFields(s) /\ s.cap \in Nat /\ s.data \in Cells(s.cap) /\ s.len \in Nat /\ s.len <= s.cap
        /\ s.head \in Nat /\ (s.head < s.cap \/ s.head = 0) /\ (s.type # "queue" => s.head = 0)
    BY LinearShape
  <1>2. /\ HasFields(u) /\ u.type = s.type /\ u.cap = s.cap /\ u.len = s.len - 1 /\ u.head = s.head
        /\ u.gen = s.gen /\ u.data = s.data
    BY ONLY <1>1 DEF HasFields
  <1> HIDE DEF u
  <1>3. u.len \in 0..u.cap
    BY ONLY <1>1, <1>2, s.len > 0
  <1>4. Advanced(s, L!Touch(u))
    BY <1>1, <1>2, <1>3, TouchMade
  <1> QED BY <1>4 DEF L!Pop, u

LEMMA SpewOneAdvances ==
  ASSUME NEW s, GoodLinear(s), s.len > 0
  PROVE  Advanced(s, L!SpewOne(s))
  <1>1. /\ HasFields(s) /\ s.cap \in Nat /\ s.data \in Cells(s.cap) /\ s.len \in Nat /\ s.len <= s.cap
        /\ s.head \in Nat /\ (s.head < s.cap \/ s.head = 0) /\ (s.type # "queue" => s.head = 0)
    BY LinearShape
  <1>2. CASE s.type = "queue"
    <2> DEFINE u == [s EXCEPT !.head = (@ + 1) % s.cap, !.len = @ - 1]
    <2>1. (s.head + 1) % s.cap \in 0..(s.cap - 1)
      <3>1. PICK a, c : a = s.head + 1 /\ c = s.cap
        OBVIOUS
      <3>2. a \in Nat /\ c \in Nat /\ c > 0
        BY <1>1, <3>1
      <3> QED BY ONLY <3>1, <3>2, ModBound
    <2>2. /\ HasFields(u) /\ u.type = s.type /\ u.cap = s.cap /\ u.len = s.len - 1
          /\ u.head = (s.head + 1) % s.cap /\ u.gen = s.gen /\ u.data = s.data
      BY ONLY <1>1 DEF HasFields
    <2> HIDE DEF u
    <2>3. u.len \in 0..u.cap
      BY ONLY <1>1, <2>2, s.len > 0
    <2>4. u.head \in Nat /\ u.head < u.cap
      BY ONLY <1>1, <2>1, <2>2
    <2>5. Advanced(s, L!Touch(u))
      BY <1>1, <1>2, <2>2, <2>3, <2>4, TouchMade
    <2> QED BY <1>2, <2>5 DEF L!SpewOne, L!Dequeue, u
  <1>3. CASE s.type # "queue"
    <2> DEFINE d == [i \in DOMAIN s.data |->
                       IF 0 <= i /\ i < s.len - 1 THEN s.data[i + 1] ELSE s.data[i]]
               u == [[s EXCEPT !.data = d] EXCEPT !.len = @ - 1]
    <2>1. DOMAIN s.data = 0..(s.cap - 1) /\ \A i \in 0..(s.cap - 1) : s.data[i] \in Value \cup {Junk}
      BY <1>1 DEF Cells
    <2>2. \A i \in 0..(s.cap - 1) : i < s.len - 1 => i + 1 \in 0..(s.cap - 1)
      BY <1>1
    <2>3. d \in Cells(s.cap)
      BY <2>1, <2>2 DEF Cells
    <2>4. L!SpewOne(s) = L!Touch(u)
      BY <1>3 DEF L!SpewOne, L!DropAt, L!ShiftLeft
    <2> HIDE DEF d
    <2>5. /\ HasFields(u) /\ u.type = s.type /\ u.cap = s.cap /\ u.len = s.len - 1
          /\ u.head = s.head /\ u.gen = s.gen /\ u.data = d
      BY ONLY <1>1 DEF HasFields
    <2> HIDE DEF u
    <2>6. u.len \in 0..u.cap
      BY ONLY <1>1, <2>5, s.len > 0
    <2>7. Advanced(s, L!Touch(u))
      BY <1>1, <1>3, <2>3, <2>5, <2>6, TouchMade
    <2> QED BY <2>4, <2>7
  <1> QED BY <1>2, <1>3

LEMMA SwopAdvances ==
  ASSUME NEW s, GoodLinear(s), NEW v \in Value \cup {Junk}
  PROVE  Advanced(s, L!Swop(s, v))
  <1>1. /\ HasFields(s) /\ s.cap \in Nat /\ s.data \in Cells(s.cap) /\ s.len \in Nat /\ s.len <= s.cap
        /\ s.head \in Nat /\ (s.head < s.cap \/ s.head = 0) /\ (s.type # "queue" => s.head = 0)
    BY LinearShape
  <1>2. CASE s.len # 0
    <2> DEFINE i == L!SwopCell(s)
               u == [s EXCEPT !.data = [@ EXCEPT ![i] = v]]
    <2> HIDE DEF i
    <2>1. /\ HasFields(u) /\ u.type = s.type /\ u.cap = s.cap /\ u.len = s.len
          /\ u.head = s.head /\ u.gen = s.gen /\ u.data = [s.data EXCEPT ![i] = v]
      BY ONLY <1>1 DEF HasFields
    <2> HIDE DEF u
    <2>2. u.data \in Cells(u.cap)
      BY ONLY <1>1, <2>1, v \in Value \cup {Junk} DEF Cells
    <2>3. u.len \in 0..u.cap
      BY ONLY <1>1, <2>1
    <2>4. Advanced(s, L!Touch(u))
      BY <1>1, <2>1, <2>2, <2>3, TouchMade
    <2> QED BY <1>2, <2>4 DEF L!Swop, u, i
  <1>3. CASE s.len = 0
    <2> DEFINE g == L!Grow(s, 1)
               u == [g EXCEPT !.data = [@ EXCEPT ![0] = v], !.head = 0, !.len = 1]
    <2>1. GoodLinear(g) /\ g.cap >= 1 /\ g.type = s.type /\ g.len = s.len /\ g.gen = s.gen
      BY GrowKept
    <2> HIDE DEF g
    <2>2. HasFields(g) /\ g.cap \in Nat /\ g.data \in Cells(g.cap)
      BY <2>1, LinearShape
    <2>3. /\ HasFields(u) /\ u.type = g.type /\ u.cap = g.cap /\ u.len = 1
          /\ u.head = 0 /\ u.gen = g.gen /\ u.data = [g.data EXCEPT ![0] = v]
      BY ONLY <2>2 DEF HasFields
    <2> HIDE DEF u
    <2>4. u.data \in Cells(u.cap)
      BY ONLY <2>2, <2>3, v \in Value \cup {Junk} DEF Cells
    <2>5. u.len \in 0..u.cap
      BY ONLY <2>1, <2>2, <2>3
    <2>6. Advanced(s, L!Touch(u))
      BY <2>1, <2>2, <2>3, <2>4, <2>5, TouchMade
    <2> QED BY <1>3, <2>6 DEF L!Swop, u, g
  <1> QED BY <1>2, <1>3

\* A new silo holds nothing.
LEMMA NewLinear ==
  ASSUME NEW type \in L!LinearTypes, NEW gen \in Nat
  PROVE  /\ GoodLinear(NewObj(type, gen)) /\ NewObj(type, gen).type = type
         /\ NewObj(type, gen).gen = gen /\ NewObj(type, gen).len = 0
  <1> DEFINE x == NewObj(type, gen)
  <1>1. /\ HasFields(x) /\ x.type = type /\ x.cap = 0 /\ x.data = [i \in 0..-1 |-> Junk] /\ x.len = 0
        /\ x.head = 0 /\ x.gen = gen
    BY DEF NewObj, Linear, L!NewSilo, HasFields
  <1> HIDE DEF x
  <1>2. x.data \in Cells(0)
    BY <1>1 DEF Cells
  <1>3. GoodLinear(x)
    BY <1>1, <1>2, LinearMade
  <1> QED BY <1>1, <1>3 DEF x

\* A copy holds what its source does.
LEMMA CopyLinearKept ==
  ASSUME NEW src, GoodLinear(src), NEW x, GoodLinear(x), x.type = src.type
  PROVE  /\ GoodLinear(CopyLinear(src, x)) /\ CopyLinear(src, x).type = src.type
         /\ CopyLinear(src, x).gen = x.gen
         /\ L!Elems(CopyLinear(src, x)) = L!Elems(src)
  <1> DEFINE g == L!Grow(x, src.len)
             d == [i \in DOMAIN g.data |-> IF i < src.len THEN L!Elems(src)[i + 1] ELSE g.data[i]]
             c == CopyLinear(src, x)
  <1>1. src.len \in Nat
    BY LinearShape
  <1>2. GoodLinear(g) /\ g.cap >= src.len /\ g.type = x.type /\ g.gen = x.gen
    BY <1>1, GrowKept
  <1>3. c = [g EXCEPT !.len = src.len, !.head = 0, !.data = d]
    BY DEF CopyLinear
  <1> HIDE DEF g, c
  <1>4. /\ HasFields(g) /\ g.cap \in Nat /\ g.data \in Cells(g.cap) /\ g.type \in L!LinearTypes
        /\ g.gen \in Nat
    BY <1>2, LinearShape
  <1>5. DOMAIN g.data = 0..(g.cap - 1) /\ \A i \in 0..(g.cap - 1) : g.data[i] \in Value \cup {Junk}
    BY <1>4 DEF Cells
  <1>6. \A i \in 1..src.len : L!Elems(src)[i] \in Value \cup {Junk}
    BY <1>1, ElemsAre
  <1>7. \A i \in 0..(g.cap - 1) : i < src.len => i + 1 \in 1..src.len
    BY <1>1, <1>4
  <1>8. d \in Cells(g.cap) /\ \A i \in 0..(g.cap - 1) : i < src.len => d[i] = L!Elems(src)[i + 1]
    BY <1>5, <1>6, <1>7 DEF Cells
  <1> HIDE DEF d
  <1>9. /\ HasFields(c) /\ c.type = g.type /\ c.cap = g.cap /\ c.len = src.len /\ c.head = 0
        /\ c.gen = g.gen /\ c.data = d
    BY ONLY <1>3, <1>4 DEF HasFields
  <1>10. c.len \in 0..c.cap
    BY ONLY <1>1, <1>2, <1>4, <1>9
  <1>11. GoodLinear(c)
    BY ONLY <1>4, <1>8, <1>9, <1>10, LinearMade
  <1>12. \A i \in 1..src.len : c.data[L!Cell(c, i - 1)] = L!Elems(src)[i]
    <2> TAKE i \in 1..src.len
    <2>1. i - 1 \in 0..(c.cap - 1) /\ i - 1 < src.len /\ (i - 1) + 1 = i
      BY <1>1, <1>2, <1>4, <1>9
    <2>2. L!Cell(c, i - 1) = i - 1
      BY <1>9, <1>11, <2>1, CellThere
    <2> QED BY <1>8, <1>9, <2>1, <2>2
  <1>13. /\ L!Elems(c) \in Seq(Value \cup {Junk}) /\ Len(L!Elems(c)) = src.len
         /\ L!Elems(src) \in Seq(Value \cup {Junk}) /\ Len(L!Elems(src)) = src.len
         /\ \A i \in 1..src.len : L!Elems(c)[i] = L!Elems(src)[i]
    BY <1>9, <1>11, <1>12, ElemsAre
  <1>14. L!Elems(c) = L!Elems(src)
    <2>1. PICK S, e, f : S = Value \cup {Junk} /\ e = L!Elems(c) /\ f = L!Elems(src)
      OBVIOUS
    <2>2. /\ e \in Seq(S) /\ f \in Seq(S) /\ Len(e) = Len(f)
          /\ \A i \in 1..Len(e) : e[i] = f[i]
      BY <1>13, <2>1
    <2>3. e = f
      BY ONLY <2>2, SeqEqual
    <2> QED BY <2>1, <2>3
  <1> QED BY <1>2, <1>9, <1>11, <1>14 DEF c

-----------------------------------------------------------------------------
(* Hash tables: what one call does to the generation *)

\* A new table holds nothing, whatever generation it starts at.
LEMMA NewHash ==
  ASSUME NEW type, ~Linear(type), NEW gen \in Nat
  PROVE  /\ GoodTable(NewObj(type, gen)) /\ NewObj(type, gen).gen = gen
         /\ Live(NewObj(type, gen).slot) = {}
  <1> DEFINE x == NewObj(type, gen)
  <1>0. x = [NewTable EXCEPT !.gen = gen]
    BY DEF NewObj
  <1> HIDE DEF x
  <1>1. /\ x.cap = 0 /\ x.len = 0 /\ x.tombs = 0 /\ x.gen = gen
        /\ x.slot = [i \in 0..-1 |-> Empty] /\ IsTable(x)
    <2>1. NewTable \in [cap : {0}, slot : {[i \in 0..-1 |-> Empty]}, len : {0}, tombs : {0}, gen : {1}]
      BY DEF NewTable
    <2>2. x \in [cap : {0}, slot : {[i \in 0..-1 |-> Empty]}, len : {0}, tombs : {0}, gen : {gen}]
      BY ONLY <1>0, <2>1
    <2>3. [i \in 0..-1 |-> Empty] \in SlotsOf(0)
      BY DEF SlotsOf
    <2>4. /\ x.cap = 0 /\ x.len = 0 /\ x.tombs = 0 /\ x.gen = gen
          /\ x.slot = [i \in 0..-1 |-> Empty]
      BY ONLY <2>2
    <2>5. x \in [cap : Nat, slot : SlotsOf(0), len : Nat, tombs : Nat, gen : Nat]
      BY ONLY <2>2, <2>3, gen \in Nat
    <2> QED BY ONLY <2>4, <2>5 DEF IsTable
  <1>2. Live(x.slot) = {} /\ Dead(x.slot) = {}
    BY <1>1 DEF Live, Dead
  <1>3. Cardinality(Live(x.slot)) = 0 /\ Cardinality(Dead(x.slot)) = 0
    BY <1>2, FS_EmptySet
  <1>4. Counted(x) /\ Roomy(x)
    BY <1>1, <1>3 DEF Counted, Roomy
  <1>5. Sound(x.cap, x.slot)
    BY <1>2 DEF Sound, Uniq, Reachable
  <1> QED BY <1>1, <1>2, <1>4, <1>5 DEF GoodTable, x

\* An entry put into a table that grew for it.
LEMMA GrownPut ==
  ASSUME NEW x, GoodTable(x), NEW e \in Entry
  PROVE  /\ GoodTable(Put(Grown(x), e)) /\ Put(Grown(x), e).gen > x.gen
         /\ Entries(Put(Grown(x), e).slot) = {f \in Entries(x.slot) : f.key # e.key} \cup {e}
  <1>1. PICK g : g = Grown(x)
    OBVIOUS
  <1>2. /\ GoodTable(g) /\ ~NeedsGrow(g) /\ Entries(g.slot) = Entries(x.slot)
        /\ (g = x \/ g.gen = x.gen + 1)
    BY <1>1, GrownGood
  <1>3. x.gen \in Nat /\ g.gen \in Nat
    BY <1>2 DEF GoodTable, IsTable
  <1>4. GoodTable(Put(g, e)) /\ Put(g, e).gen = g.gen + 1
    BY ONLY <1>2, PutGood, e \in Entry
  <1>5. Entries(Put(g, e).slot) = (Entries(g.slot) \ {f \in Entries(g.slot) : f.key = e.key}) \cup {e}
    BY ONLY <1>2, PutEntries, e \in Entry
  <1>6. PICK p : p = Put(g, e)
    OBVIOUS
  <1>7. p.gen > x.gen
    <2>1. p.gen = g.gen + 1
      BY <1>4, <1>6
    <2> QED BY ONLY <1>2, <1>3, <2>1
  <1> QED BY <1>1, <1>2, <1>4, <1>5, <1>6, <1>7

\* Any call on a table leaves it in order, and as it was or in a later
\* generation.
LEMMA HashAdvances ==
  ASSUME NEW type, NEW x, GoodTable(x), NEW y \in HashMutants(type, x)
  PROVE  GoodTable(y) /\ (y = x \/ y.gen > x.gen)
  <1>0. x.gen \in Nat
    BY DEF GoodTable, IsTable
  <1>1. CASE \E e \in Entry : y = Grown(x) \/ y = Put(Grown(x), e)
    BY <1>0, <1>1, GrownGood, GrownPut
  <1>2. CASE \E i \in Live(x.slot) : y = Kill(x, i)
    BY <1>0, <1>2, KillGood
  <1>3. CASE y = Teem(x)
    BY <1>0, <1>3, TeemGood
  <1>4. CASE y = Compacted(x)
    BY <1>0, <1>4, CompactedGood
  <1> QED BY <1>1, <1>2, <1>3, <1>4 DEF HashMutants

-----------------------------------------------------------------------------
(* The order of a table *)

\* The live slots of a table are finitely many naturals, as many as it counts.
LEMMA LiveShape ==
  ASSUME NEW x, GoodTable(x)
  PROVE  /\ x.cap \in Nat /\ Live(x.slot) \subseteq 0..(x.cap - 1) /\ Live(x.slot) \subseteq Nat
         /\ IsFiniteSet(Live(x.slot)) /\ Cardinality(Live(x.slot)) = x.len /\ x.len \in Nat
         /\ \A i \in Live(x.slot) : x.slot[i] \in Entry
  <1>1. /\ x.cap \in Nat /\ x.len \in Nat /\ x.len = Cardinality(Live(x.slot))
        /\ x.slot \in SlotsOf(x.cap)
    BY DEF GoodTable, IsTable, Counted
  <1>2. Live(x.slot) \subseteq 0..(x.cap - 1) /\ IsFiniteSet(Live(x.slot))
    BY <1>1, SlotsCounted
  <1>3. \A i \in Live(x.slot) : x.slot[i] \in Entry
    BY <1>1, EntriesAre
  <1> QED BY <1>1, <1>2, <1>3

\* The search for a live slot stops at the first there is, or at the end.
LEMMA SeekIs ==
  ASSUME NEW x, GoodTable(x), NEW pos \in Nat
  PROVE  /\ FirstFrom(x, pos) \in Nat /\ FirstFrom(x, pos) <= x.cap
         /\ FirstFrom(x, pos) < x.cap =>
              FirstFrom(x, pos) \in Live(x.slot) /\ FirstFrom(x, pos) >= pos
         /\ \A i \in Live(x.slot) : i >= pos => FirstFrom(x, pos) <= i /\ FirstFrom(x, pos) < x.cap
  <1>1. x.cap \in Nat /\ \A i \in Live(x.slot) : i \in Nat /\ i < x.cap
    BY LiveShape
  <1>2. CASE LiveFrom(x, pos) = {}
    BY <1>1, <1>2 DEF FirstFrom, LiveFrom
  <1>3. CASE LiveFrom(x, pos) # {}
    <2>1. LiveFrom(x, pos) \subseteq Nat
      BY <1>1 DEF LiveFrom
    <2>2. \E i \in LiveFrom(x, pos) : \A j \in LiveFrom(x, pos) : i <= j
      BY <1>3, <2>1, LeastOf
    <2>3. /\ FirstFrom(x, pos) \in LiveFrom(x, pos)
          /\ \A j \in LiveFrom(x, pos) : FirstFrom(x, pos) <= j
      BY <1>3, <2>2 DEF FirstFrom
    <2>4. FirstFrom(x, pos) \in Live(x.slot) /\ FirstFrom(x, pos) >= pos
      BY <2>3 DEF LiveFrom
    <2>5. \A i \in Live(x.slot) : i >= pos => FirstFrom(x, pos) <= i
      BY <2>3 DEF LiveFrom
    <2> QED BY <1>1, <2>4, <2>5
  <1> QED BY <1>2, <1>3

\* The first m slots of the order of a table.
Ordering(x, m, f) ==
  f = [n \in 1..m |-> FirstFrom(x, IF n = 1 THEN 0 ELSE f[n - 1] + 1)]

\* There is such a function for every number of steps.
LEMMA OrderingOnce ==
  ASSUME NEW x, NEW c \in Nat
  PROVE  \E f : Ordering(x, c, f)
  <1> DEFINE S == {m \in 0..c : ~ \E f : Ordering(x, m, f)}
  <1>1. SUFFICES ASSUME S # {} PROVE FALSE
    OBVIOUS
  <1>2. S \subseteq Nat
    OBVIOUS
  <1>3. PICK m \in S : \A n \in S : m <= n
    BY <1>1, <1>2, LeastOf
  <1>4. m \in 0..c /\ ~ \E f : Ordering(x, m, f)
    BY <1>3
  <1>5. CASE m = 0
    <2>1. Ordering(x, 0, [n \in 1..0 |-> 0])
      BY DEF Ordering
    <2> QED BY <1>4, <1>5, <2>1
  <1>6. CASE m # 0
    <2>1. m - 1 \in 0..c /\ m - 1 < m
      BY <1>4, <1>6
    <2>2. m - 1 \notin S
      BY <1>2, <1>3, <2>1
    <2>3. PICK f : Ordering(x, m - 1, f)
      BY <2>1, <2>2
    <2> DEFINE next == FirstFrom(x, IF m = 1 THEN 0 ELSE f[m - 1] + 1)
               g == [n \in 1..m |-> IF n = m THEN next ELSE f[n]]
    <2>4. g[m] = next /\ \A n \in 1..(m - 1) : g[n] = f[n]
      BY <1>4, <1>6
    <2>5. \A i \in 1..(m - 1) : f[i] = FirstFrom(x, IF i = 1 THEN 0 ELSE f[i - 1] + 1)
      BY <2>3 DEF Ordering
    <2>6. DOMAIN g = 1..m /\ g = [n \in 1..m |-> g[n]]
      OBVIOUS
    <2> HIDE DEF g
    <2>7. \A n \in 1..m : g[n] = FirstFrom(x, IF n = 1 THEN 0 ELSE g[n - 1] + 1)
      <3> TAKE n \in 1..m
      <3>1. CASE n = 1
        BY <1>4, <2>4, <2>5, <3>1
      <3>2. CASE n # 1
        <4>1. n - 1 \in 1..(m - 1) /\ g[n - 1] = f[n - 1]
          BY <1>4, <2>4, <3>2
        <4>2. CASE n = m
          BY <2>4, <3>2, <4>1, <4>2
        <4>3. CASE n # m
          <5>1. n \in 1..(m - 1)
            BY <1>4, <4>3
          <5> QED BY <2>4, <2>5, <3>2, <4>1, <5>1
        <4> QED BY <4>2, <4>3
      <3> QED BY <3>1, <3>2
    <2>8. Ordering(x, m, g)
      BY <2>6, <2>7 DEF Ordering
    <2> QED BY <1>4, <2>8
  <1> QED BY <1>5, <1>6

\* The members of a set of naturals below a bound, when it rises past one.
Under(V, n) == {j \in V : j < n}

\* a is the n-th member of V.
Rank(V, a, n) == Cardinality(Under(V, a + 1)) = n

\* What lies under a number: one more behind the next member, and all of the
\* set once no member is left above.
LEMMA UnderNext ==
  ASSUME NEW V, V \subseteq Nat, NEW from \in Nat, NEW a \in V, a >= from,
         \A i \in V : i >= from => a <= i
  PROVE  Under(V, a + 1) = Under(V, from) \cup {a} /\ a \notin Under(V, from)
  <1>1. \A j \in V : j \in Nat
    OBVIOUS
  <1>2. a \in Nat /\ \A j \in V : j < a + 1 <=> (j < from \/ j = a)
    BY <1>1
  <1>3. a \notin Under(V, from)
    BY DEF Under
  <1>4. \A j : j \in Under(V, a + 1) <=> j \in Under(V, from) \cup {a}
    BY <1>2 DEF Under
  <1> QED BY <1>3, <1>4

LEMMA UnderAll ==
  ASSUME NEW V, V \subseteq Nat, NEW from \in Nat
  PROVE  /\ Under(V, from) \subseteq V /\ Under(V, 0) = {}
         /\ Under(V, from) # V => \E i \in V : i >= from
         /\ Under(V, from) = V => \A i \in V : i < from
  <1>1. \A j \in V : j \in Nat /\ ~(j < 0) /\ (~(j >= from) <=> j < from)
    OBVIOUS
  <1>2. Under(V, 0) = {}
    BY <1>1 DEF Under
  <1>3. Under(V, from) # V => \E i \in V : i >= from
    BY <1>1 DEF Under
  <1>4. Under(V, from) = V => \A i \in V : i < from
    <2> SUFFICES ASSUME Under(V, from) = V, NEW i \in V PROVE i < from
      OBVIOUS
    <2>1. i \in Under(V, from)
      OBVIOUS
    <2> QED BY <2>1 DEF Under
  <1> QED BY <1>2, <1>3, <1>4 DEF Under

\* What loops over the live slots rely on: each comes once, in order.
InOrderOnce(x, at) ==
  /\ at \in [1..x.len -> Live(x.slot)]
  /\ \A j, k \in 1..x.len : j < k => at[j] < at[k]
  /\ \A i \in Live(x.slot) : \E k \in 1..x.len : at[k] = i

\* The recursive function InOrder visits every live slot once, upwards.
LEMMA InOrderIs ==
  ASSUME NEW x, GoodTable(x)
  PROVE  InOrderOnce(x, InOrder(x))
  <1> DEFINE c == x.len
             at == InOrder(x)
             V == Live(x.slot)
  <1>1. /\ c \in Nat /\ c = Cardinality(V) /\ IsFiniteSet(V) /\ V \subseteq Nat
        /\ x.cap \in Nat /\ \A i \in V : i < x.cap
    BY LiveShape
  <1>2. at = CHOOSE f : Ordering(x, c, f)
    BY <1>1 DEF InOrder, Ordering
  <1>3. Ordering(x, c, at)
    BY <1>1, <1>2, OrderingOnce
  <1> HIDE DEF c, at
  <1>4. DOMAIN at = 1..c /\ \A n \in 1..c : at[n] = FirstFrom(x, IF n = 1 THEN 0 ELSE at[n - 1] + 1)
    BY <1>3 DEF Ordering
  <1> HIDE DEF V
  <1>5. \A n \in 1..c : /\ at[n] \in V /\ Rank(V, at[n], n)
                        /\ n > 1 => at[n - 1] < at[n]
    <2> DEFINE S == {n \in 1..c : ~(/\ at[n] \in V /\ Rank(V, at[n], n)
                                   /\ (n > 1 => at[n - 1] < at[n]))}
    <2>1. SUFFICES ASSUME S # {} PROVE FALSE
      OBVIOUS
    <2>2. S \subseteq Nat
      OBVIOUS
    <2>3. PICK n \in S : \A m \in S : n <= m
      BY <2>1, <2>2, LeastOf
    <2>4. n \in 1..c /\ n \in Nat
      BY <1>1
    <2>5. PICK from : from = IF n = 1 THEN 0 ELSE at[n - 1] + 1
      OBVIOUS
    <2>6. from \in Nat /\ Cardinality(Under(V, from)) = n - 1
          /\ (n > 1 => at[n - 1] \in Nat /\ at[n - 1] < from)
      <3>1. CASE n = 1
        <4>1. from = 0
          BY <2>5, <3>1
        <4>2. Under(V, from) = {}
          BY <1>1, <4>1, UnderAll
        <4> QED BY <3>1, <4>1, <4>2, FS_EmptySet
      <3>2. CASE n # 1
        <4>1. n - 1 \in 1..c /\ n - 1 \in Nat /\ ~(n <= n - 1)
          BY <2>4, <3>2, <1>1
        <4>2. n - 1 \notin S
          BY <2>3, <4>1
        <4>6. at[n - 1] \in V /\ Rank(V, at[n - 1], n - 1)
          BY <4>1, <4>2
        <4>3. at[n - 1] \in V /\ Cardinality(Under(V, at[n - 1] + 1)) = n - 1
          BY ONLY <4>6 DEF Rank
        <4>4. from = at[n - 1] + 1 /\ at[n - 1] \in Nat
          BY <1>1, <2>5, <3>2, <4>3
        <4> HIDE DEF S
        <4>5. Cardinality(Under(V, from)) = n - 1
          BY ONLY <4>3, <4>4
        <4> QED BY ONLY <4>4, <4>5
      <3> QED BY <3>1, <3>2
    <2>7. \E j \in V : j >= from
      <3>1. Under(V, from) # V
        BY ONLY <1>1, <2>4, <2>6
      <3> QED BY ONLY <1>1, <2>6, <3>1, UnderAll
    <2>8. at[n] = FirstFrom(x, from)
      BY <1>4, <2>4, <2>5
    <2>9. /\ at[n] \in V /\ at[n] \in Nat /\ at[n] >= from
          /\ \A i \in V : i >= from => at[n] <= i
      BY <1>1, <2>6, <2>7, <2>8, SeekIs DEF V
    <2>10. Under(V, at[n] + 1) = Under(V, from) \cup {at[n]} /\ at[n] \notin Under(V, from)
      BY <1>1, <2>6, <2>9, UnderNext
    <2>11. IsFiniteSet(Under(V, from))
      BY <1>1, <2>6, UnderAll, FS_Subset
    <2>12. Cardinality(Under(V, at[n] + 1)) = n
      <3>1. Cardinality(Under(V, from) \cup {at[n]}) = Cardinality(Under(V, from)) + 1
        BY <2>10, <2>11, FS_AddElement
      <3>2. Cardinality(Under(V, at[n] + 1)) = (n - 1) + 1
        BY ONLY <2>6, <2>10, <3>1
      <3> QED BY ONLY <2>4, <3>2
    <2>13. n > 1 => at[n - 1] < at[n]
      BY <2>6, <2>9
    <2>14. Rank(V, at[n], n)
      BY <2>12 DEF Rank
    <2> QED BY <2>3, <2>9, <2>13, <2>14
  <1>10. \A n \in 1..c : at[n] \in V /\ at[n] \in Nat
    BY ONLY <1>1, <1>5
  <1>11. \A n \in 1..c : n > 1 => at[n - 1] < at[n]
    BY ONLY <1>5
  <1>6. \A j, k \in 1..c : j < k => at[j] < at[k]
    <2> DEFINE S == {k \in 1..c : \E j \in 1..c : j < k /\ ~(at[j] < at[k])}
    <2>1. SUFFICES ASSUME S # {} PROVE FALSE
      OBVIOUS
    <2>2. S \subseteq Nat
      OBVIOUS
    <2>3. PICK k \in S : \A m \in S : k <= m
      BY <2>1, <2>2, LeastOf
    <2>4. PICK j \in 1..c : j < k /\ ~(at[j] < at[k])
      BY <2>3
    <2>5. k \in 1..c /\ k > 1 /\ k - 1 \in 1..c /\ k \in Nat
      BY <1>1, <2>3, <2>4
    <2>6. at[k - 1] < at[k] /\ at[k] \in Nat /\ at[k - 1] \in Nat /\ at[j] \in Nat
      BY ONLY <1>10, <1>11, <2>4, <2>5
    <2>7. k - 1 \notin S
      BY <2>3, <2>5
    <2>8. j = k - 1 \/ at[j] < at[k - 1]
      BY <2>4, <2>5, <2>7
    <2> QED BY <2>4, <2>6, <2>8
  <1>7. ASSUME NEW i \in V PROVE \E k \in 1..c : at[k] = i
    <2>1. c > 0
      <3>1. V # {}
        OBVIOUS
      <3>2. Cardinality(V) # 0
        BY <1>1, <3>1, FS_EmptySet
      <3> QED BY <1>1, <3>2
    <2>2. i \in Nat /\ at[c] \in Nat /\ i <= at[c]
      <3>1. at[c] \in V /\ Cardinality(Under(V, at[c] + 1)) = c /\ at[c] + 1 \in Nat
        <4>1. c \in 1..c
          BY ONLY <1>1, <2>1
        <4>2. at[c] \in V /\ at[c] \in Nat /\ Rank(V, at[c], c)
          BY ONLY <1>5, <1>10, <4>1
        <4> QED BY ONLY <4>2 DEF Rank
      <3>2. Under(V, at[c] + 1) \subseteq V
        BY <1>1, <3>1, UnderAll
      <3>3. Under(V, at[c] + 1) = V
        BY <1>1, <3>1, <3>2, FS_Subset
      <3>4. i < at[c] + 1
        BY <1>1, <3>1, <3>3, UnderAll
      <3>5. at[c] \in Nat /\ i \in Nat
        BY ONLY <1>1, <3>1, i \in V
      <3> QED BY ONLY <3>4, <3>5
    <2> DEFINE S == {k \in 1..c : i <= at[k]}
    <2>3. c \in S /\ S \subseteq Nat
      BY <1>1, <2>1, <2>2
    <2>4. PICK k \in S : \A m \in S : k <= m
      BY <2>3, LeastOf
    <2>5. k \in 1..c /\ i <= at[k] /\ k \in Nat /\ i \in Nat /\ at[k] \in Nat
      <3>1. k \in 1..c /\ i <= at[k]
        BY <2>4
      <3>2. at[k] \in V
        BY ONLY <3>1, <1>10
      <3> QED BY ONLY <1>1, <1>10, <2>2, <3>1, <3>2
    <2>6. PICK from : from = IF k = 1 THEN 0 ELSE at[k - 1] + 1
      OBVIOUS
    <2>7. from \in Nat /\ i >= from
      <3>1. CASE k = 1
        BY <2>5, <2>6, <3>1
      <3>2. CASE k # 1
        <4>1. k - 1 \in 1..c /\ ~(k <= k - 1)
          BY <1>1, <2>5, <3>2
        <4>2. k - 1 \notin S
          BY <2>4, <4>1
        <4>3. at[k - 1] \in Nat
          BY ONLY <1>10, <4>1
        <4> QED BY <2>5, <2>6, <3>2, <4>1, <4>2, <4>3
      <3> QED BY <3>1, <3>2
    <2>8. at[k] = FirstFrom(x, from)
      BY <1>4, <2>5, <2>6
    <2>9. at[k] <= i
      BY <2>7, <2>8, SeekIs DEF V
    <2>10. at[k] = i
      BY <2>5, <2>9
    <2> QED BY <2>5, <2>10
  <1>8. at \in [1..c -> V]
    <2>1. at = [n \in 1..c |-> FirstFrom(x, IF n = 1 THEN 0 ELSE at[n - 1] + 1)]
      BY <1>3 DEF Ordering
    <2>2. at = [n \in 1..c |-> at[n]]
      BY ONLY <1>4, <2>1
    <2> QED BY ONLY <1>10, <2>2
  <1>9. \A i \in V : \E k \in 1..c : at[k] = i
    BY <1>7
  <1> QED BY ONLY <1>6, <1>8, <1>9 DEF InOrderOnce, at, c, V

-----------------------------------------------------------------------------
(* Copies of tables *)

\* A table after each of the first m entries that replica put into it.
Copying(src, x, at, m, f) ==
  f = [n \in 0..m |-> IF n = 0 THEN x ELSE Put(Grown(f[n - 1]), src.slot[at[n]])]

\* There is such a function for every number of entries.
LEMMA CopyingOnce ==
  ASSUME NEW src, NEW x, NEW at, NEW c \in Nat
  PROVE  \E f : Copying(src, x, at, c, f)
  <1> DEFINE S == {m \in 0..c : ~ \E f : Copying(src, x, at, m, f)}
  <1>1. SUFFICES ASSUME S # {} PROVE FALSE
    OBVIOUS
  <1>2. S \subseteq Nat
    OBVIOUS
  <1>3. PICK m \in S : \A n \in S : m <= n
    BY <1>1, <1>2, LeastOf
  <1>4. m \in 0..c /\ ~ \E f : Copying(src, x, at, m, f)
    BY <1>3
  <1>5. CASE m = 0
    <2>1. Copying(src, x, at, 0, [n \in 0..0 |-> x])
      BY DEF Copying
    <2> QED BY <1>4, <1>5, <2>1
  <1>6. CASE m # 0
    <2>1. m - 1 \in 0..c /\ m - 1 < m
      BY <1>4, <1>6
    <2>2. m - 1 \notin S
      BY <1>2, <1>3, <2>1
    <2>3. PICK f : Copying(src, x, at, m - 1, f)
      BY <2>1, <2>2
    <2> DEFINE next == Put(Grown(f[m - 1]), src.slot[at[m]])
               g == [n \in 0..m |-> IF n = m THEN next ELSE f[n]]
    <2>4. g[m] = next /\ \A n \in 0..(m - 1) : g[n] = f[n]
      BY <1>4, <1>6
    <2>5. \A i \in 0..(m - 1) : f[i] = IF i = 0 THEN x ELSE Put(Grown(f[i - 1]), src.slot[at[i]])
      BY <2>3 DEF Copying
    <2>6. DOMAIN g = 0..m /\ g = [n \in 0..m |-> g[n]]
      OBVIOUS
    <2> HIDE DEF g
    <2>7. \A n \in 0..m : g[n] = IF n = 0 THEN x ELSE Put(Grown(g[n - 1]), src.slot[at[n]])
      <3> TAKE n \in 0..m
      <3>1. CASE n = 0
        <4>1. 0 \in 0..(m - 1)
          BY <1>4, <1>6
        <4> QED BY <2>4, <2>5, <3>1, <4>1
      <3>2. CASE n # 0
        <4>1. n - 1 \in 0..(m - 1)
          BY <1>4, <3>2
        <4>2. g[n - 1] = f[n - 1]
          BY <2>4, <4>1
        <4>3. CASE n = m
          BY <2>4, <3>2, <4>2, <4>3
        <4>4. CASE n # m
          <5>1. n \in 0..(m - 1)
            BY <1>4, <4>4
          <5> QED BY <2>4, <2>5, <3>2, <4>2, <5>1
        <4> QED BY <4>3, <4>4
      <3> QED BY <3>1, <3>2
    <2>8. Copying(src, x, at, m, g)
      BY <2>6, <2>7 DEF Copying
    <2> QED BY <1>4, <2>8
  <1> QED BY <1>5, <1>6

\* The recursive function in CopyHash is one.
LEMMA CopyHashIs ==
  ASSUME NEW src, GoodTable(src), NEW x
  PROVE  \E f : Copying(src, x, InOrder(src), src.len, f) /\ CopyHash(src, x) = f[src.len]
  <1> DEFINE at == InOrder(src)
             f == CHOOSE f : Copying(src, x, at, src.len, f)
  <1>1. src.len \in Nat /\ Cardinality(Live(src.slot)) = src.len
    BY LiveShape
  <1> HIDE DEF at
  <1>2. Copying(src, x, at, src.len, f)
    BY <1>1, CopyingOnce
  <1>3. CopyHash(src, x) = f[src.len]
    BY <1>1 DEF CopyHash, Copying, at
  <1> QED BY <1>2, <1>3 DEF at

\* The entries in the first n live slots.
FirstEntries(src, at, n) == {src.slot[at[k]] : k \in 1..n}

\* A copy holds, entry by entry, what was put into it.
LEMMA CopyHashKept ==
  ASSUME NEW src, GoodTable(src), NEW x, GoodTable(x), Live(x.slot) = {}
  PROVE  /\ GoodTable(CopyHash(src, x)) /\ CopyHash(src, x).gen >= x.gen
         /\ Entries(CopyHash(src, x).slot) = Entries(src.slot)
  <1> DEFINE at == InOrder(src)
             c == src.len
  <1>1. c \in Nat /\ InOrderOnce(src, at) /\ \A i \in Live(src.slot) : src.slot[i] \in Entry
    BY LiveShape, InOrderIs
  <1>2. PICK f : Copying(src, x, at, c, f) /\ CopyHash(src, x) = f[c]
    BY CopyHashIs
  <1> HIDE DEF at, c
  <1>3. \A n \in 0..c : f[n] = IF n = 0 THEN x ELSE Put(Grown(f[n - 1]), src.slot[at[n]])
    BY <1>2 DEF Copying
  <1>4. /\ \A k \in 1..c : at[k] \in Live(src.slot)
        /\ \A j, k \in 1..c : j < k => at[j] < at[k]
        /\ \A i \in Live(src.slot) : \E k \in 1..c : at[k] = i
    BY <1>1 DEF InOrderOnce, c
  <1>5. \A j, k \in 1..c : j < k => src.slot[at[j]].key # src.slot[at[k]].key
    <2> TAKE j, k \in 1..c
    <2>1. at[j] \in Live(src.slot) /\ at[k] \in Live(src.slot)
      BY <1>4
    <2>2. at[j] \in Nat /\ at[k] \in Nat
      BY <2>1, LiveShape
    <2>3. j < k => at[j] # at[k]
      BY <1>4, <2>2
    <2>4. Uniq(src.slot)
      BY DEF GoodTable, Sound
    <2> QED BY <2>1, <2>3, <2>4 DEF Uniq
  <1> DEFINE Fine(n) == /\ GoodTable(f[n]) /\ f[n].gen >= x.gen
                         /\ Entries(f[n].slot) = FirstEntries(src, at, n)
             S == {n \in 0..c : ~Fine(n)}
  <1>6. S = {}
    <2>1. SUFFICES ASSUME S # {} PROVE FALSE
      OBVIOUS
    <2>2. S \subseteq Nat
      OBVIOUS
    <2>3. PICK n \in S : \A m \in S : n <= m
      BY <2>1, <2>2, LeastOf
    <2>4. n \in 0..c /\ n \in Nat /\ ~Fine(n)
      BY <2>3
    <2>5. n # 0
      <3>1. f[0] = x
        BY <1>1, <1>3
      <3>2. Entries(x.slot) = {} /\ FirstEntries(src, at, 0) = {}
        BY DEF Entries, FirstEntries
      <3>3. x.gen \in Nat
        BY DEF GoodTable, IsTable
      <3> QED BY <2>4, <3>1, <3>2, <3>3
    <2>6. n - 1 \in 0..c /\ ~(n <= n - 1) /\ n \in 1..c
      BY <1>1, <2>4, <2>5
    <2>7. Fine(n - 1)
      BY <2>3, <2>6
    <2>8. PICK u, e : u = f[n - 1] /\ e = src.slot[at[n]]
      OBVIOUS
    <2>9. GoodTable(u) /\ u.gen >= x.gen /\ Entries(u.slot) = FirstEntries(src, at, n - 1)
      BY <2>7, <2>8
    <2>10. e \in Entry /\ f[n] = Put(Grown(u), e)
      BY <1>1, <1>3, <1>4, <2>5, <2>6, <2>8
    <2> HIDE DEF Fine, S
    <2>11. /\ GoodTable(f[n]) /\ f[n].gen > u.gen
           /\ Entries(f[n].slot) = {g \in Entries(u.slot) : g.key # e.key} \cup {e}
      <3>1. PICK v : v = Put(Grown(u), e)
        OBVIOUS
      <3>2. /\ GoodTable(v) /\ v.gen > u.gen
            /\ Entries(v.slot) = {g \in Entries(u.slot) : g.key # e.key} \cup {e}
        BY ONLY <2>9, <2>10, <3>1, GrownPut
      <3> QED BY <2>10, <3>1, <3>2
    <2>12. \A g \in FirstEntries(src, at, n - 1) : g.key # e.key
      <3> SUFFICES ASSUME NEW k \in 1..(n - 1) PROVE src.slot[at[k]].key # e.key
        BY DEF FirstEntries
      <3>1. k \in 1..c /\ k < n
        BY <1>1, <2>6
      <3> QED BY <1>5, <2>6, <2>8, <3>1
    <2>13. FirstEntries(src, at, n) = FirstEntries(src, at, n - 1) \cup {e}
      <3>1. \A k \in 1..n : k \in 1..(n - 1) \/ k = n
        BY <2>6
      <3>2. 1..(n - 1) \subseteq 1..n /\ n \in 1..n
        BY <2>6
      <3> QED BY <2>8, <3>1, <3>2 DEF FirstEntries
    <2>14. Entries(f[n].slot) = FirstEntries(src, at, n)
      BY <2>9, <2>11, <2>12, <2>13
    <2>15. f[n].gen >= x.gen
      <3>1. f[n].gen \in Nat /\ u.gen \in Nat /\ x.gen \in Nat
        BY <2>9, <2>11 DEF GoodTable, IsTable
      <3> QED BY <2>9, <2>11, <3>1
    <2> QED BY <2>4, <2>11, <2>14, <2>15 DEF Fine
  <1>7. Fine(c)
    BY <1>1, <1>6
  <1>8. FirstEntries(src, at, c) = Entries(src.slot)
    BY <1>4 DEF FirstEntries, Entries
  <1> QED BY <1>2, <1>7, <1>8

-----------------------------------------------------------------------------
(* What a silo contains *)

\* What silos hold.
Item == Entry \cup Value \cup {Junk}

\* The storage of a silo is in order.
GoodSilo(type, x) ==
  IF Linear(type) THEN GoodLinear(x) /\ x.type = type ELSE GoodTable(x)

\* Every silo in order has a generation and a length.
LEMMA SiloGen ==
  ASSUME NEW type, NEW x, GoodSilo(type, x)
  PROVE  x.gen \in Nat /\ x.len \in Nat
  BY LinearShape DEF GoodSilo, GoodTable, IsTable

\* The n-th element of a silo, and how many there are.
LEMMA ContentsAre ==
  ASSUME NEW type, NEW x, GoodSilo(type, x)
  PROVE  /\ Contents(type, x) \in Seq(Item) /\ Len(Contents(type, x)) = x.len
         /\ DOMAIN Contents(type, x) = 1..x.len
         /\ Linear(type) => \A k \in 1..x.len : Contents(type, x)[k] = x.data[L!Cell(x, k - 1)]
         /\ ~Linear(type) => \A k \in 1..x.len : Contents(type, x)[k] = x.slot[InOrder(x)[k]]
  <1> DEFINE e == Contents(type, x)
  <1>1. CASE Linear(type)
    <2>1. GoodLinear(x) /\ e = L!Elems(x)
      BY <1>1 DEF GoodSilo, Contents
    <2>2. /\ e \in Seq(Value \cup {Junk}) /\ Len(e) = x.len
          /\ \A i \in 1..x.len : e[i] = x.data[L!Cell(x, i - 1)]
      BY <2>1, ElemsAre
    <2> HIDE DEF e
    <2>3. e \in Seq(Item) /\ DOMAIN e = 1..x.len
      BY <2>2 DEF Item
    <2> QED BY <1>1, <2>2, <2>3 DEF e
  <1>2. CASE ~Linear(type)
    <2> DEFINE at == InOrder(x)
    <2>1. GoodTable(x) /\ e = [n \in DOMAIN at |-> x.slot[at[n]]]
      BY <1>2 DEF GoodSilo, Contents
    <2>2. /\ InOrderOnce(x, at) /\ x.len \in Nat
          /\ \A i \in Live(x.slot) : x.slot[i] \in Entry
      BY <2>1, InOrderIs, LiveShape
    <2>3. DOMAIN at = 1..x.len /\ \A n \in 1..x.len : at[n] \in Live(x.slot)
      BY <2>2 DEF InOrderOnce
    <2> HIDE DEF e, at
    <2>4. e \in [1..x.len -> Item] /\ \A n \in 1..x.len : e[n] = x.slot[at[n]]
      BY <2>1, <2>2, <2>3 DEF Item
    <2>5. e \in Seq(Item) /\ Len(e) = x.len /\ DOMAIN e = 1..x.len
      BY <2>2, <2>4, SeqDef, LenProperties
    <2> QED BY <1>2, <2>4, <2>5 DEF e, at
  <1> QED BY <1>1, <1>2

\* How far into an unchanged silo a position is: behind its first m elements.
Reached(type, x, pos, m) ==
  IF Linear(type) THEN pos = m
  ELSE \A k \in 1..x.len : k <= m <=> InOrder(x)[k] < pos

\* Where next looks, and what it finds.
Spot(type, x, pos)    == IF Linear(type) THEN pos ELSE SeekLive(x, pos)
EndOf(type, x)        == IF Linear(type) THEN x.len ELSE x.cap
ElementAt(type, x, p) == IF Linear(type) THEN x.data[L!Cell(x, p)] ELSE x.slot[p]
After(type, x, p)     == IF Linear(type) THEN p + 1 ELSE SeekLive(x, p + 1)

\* A new iterator is before the first element.
LEMMA ReachedFirst ==
  ASSUME NEW type, NEW x, GoodSilo(type, x),
         NEW pos, pos = IF Linear(type) THEN 0 ELSE SeekLive(x, 0)
  PROVE  pos \in Nat /\ Reached(type, x, pos, 0)
  <1>1. CASE Linear(type)
    BY <1>1 DEF Reached
  <1>2. CASE ~Linear(type)
    <2>1. GoodTable(x) /\ pos = FirstFrom(x, 0)
      BY <1>2 DEF GoodSilo, SeekLive
    <2>2. /\ pos \in Nat /\ InOrderOnce(x, InOrder(x)) /\ Live(x.slot) \subseteq Nat
          /\ \A i \in Live(x.slot) : i >= 0 => pos <= i
      BY <2>1, SeekIs, InOrderIs, LiveShape
    <2>3. \A k \in 1..x.len : InOrder(x)[k] \in Live(x.slot)
      BY <2>2 DEF InOrderOnce
    <2>4. \A i \in Live(x.slot) : i \in Nat /\ ~(i < pos)
      BY <2>2
    <2>5. \A k \in 1..x.len : ~(k <= 0) /\ ~(InOrder(x)[k] < pos)
      BY <2>3, <2>4
    <2> QED BY <1>2, <2>2, <2>5 DEF Reached
  <1> QED BY <1>1, <1>2

\* A position that is not at the end is at the next element, and one further
\* is behind it.
LEMMA ReachedNext ==
  ASSUME NEW type, NEW x, GoodSilo(type, x), NEW pos \in Nat, NEW m \in Nat, m <= x.len,
         Reached(type, x, pos, m),
         NEW p, p = Spot(type, x, pos), ~(p >= EndOf(type, x))
  PROVE  /\ p \in Nat /\ After(type, x, p) \in Nat /\ m + 1 <= x.len
         /\ ElementAt(type, x, p) = Contents(type, x)[m + 1]
         /\ Reached(type, x, After(type, x, p), m + 1)
  <1>0. x.len \in Nat
    BY SiloGen
  <1>1. CASE Linear(type)
    <2>1. p = pos /\ pos = m /\ p \in Nat /\ m < x.len
      BY <1>0, <1>1 DEF Spot, EndOf, Reached
    <2>2. m + 1 \in 1..x.len /\ (m + 1) - 1 = m
      BY <1>0, <2>1
    <2>3. Contents(type, x)[m + 1] = x.data[L!Cell(x, m)]
      <3>1. \A k \in 1..x.len : Contents(type, x)[k] = x.data[L!Cell(x, k - 1)]
        BY <1>1, ContentsAre
      <3> QED BY <2>2, <3>1
    <2> QED BY <1>0, <1>1, <2>1, <2>2, <2>3 DEF After, ElementAt, Reached
  <1>2. CASE ~Linear(type)
    <2> DEFINE at == InOrder(x)
               V == Live(x.slot)
    <2>1. GoodTable(x) /\ p = FirstFrom(x, pos) /\ After(type, x, p) = FirstFrom(x, p + 1)
      BY <1>2 DEF GoodSilo, SeekLive, Spot, After
    <2>2. InOrderOnce(x, at) /\ x.cap \in Nat /\ \A i \in V : i \in Nat
      BY <2>1, InOrderIs, LiveShape
    <2>3. /\ p \in Nat /\ p <= x.cap /\ p \in V /\ p >= pos
          /\ \A i \in V : i >= pos => p <= i
      <3>1. p \in Nat /\ p <= x.cap
        BY <2>1, SeekIs
      <3>2. p < x.cap
        BY <1>2, <2>2, <3>1 DEF EndOf
      <3> QED BY <2>1, <3>1, <3>2, SeekIs
    <2>4. \A k \in 1..x.len : at[k] \in V /\ at[k] \in Nat
      BY <2>2 DEF InOrderOnce
    <2>5. PICK k \in 1..x.len : at[k] = p
      BY <2>2, <2>3 DEF InOrderOnce
    <2>6. \A j \in 1..x.len : j <= m <=> at[j] < pos
      BY <1>2 DEF Reached
    <2>7. \A j, l \in 1..x.len : j < l => at[j] < at[l]
      BY <2>2 DEF InOrderOnce
    <2> HIDE DEF at
    <2>8. k = m + 1
      <3>1. ~(k <= m)
        BY <2>3, <2>5, <2>6
      <3>2. ASSUME k > m + 1 PROVE FALSE
        <4>1. m + 1 \in 1..x.len /\ m + 1 < k /\ ~(m + 1 <= m)
          BY <1>0, <2>5, <3>2
        <4>2. at[m + 1] < at[k] /\ ~(at[m + 1] < pos) /\ at[m + 1] \in V /\ at[m + 1] \in Nat
          BY <2>4, <2>6, <2>7, <4>1
        <4>3. p <= at[m + 1]
          BY <2>3, <4>2
        <4> QED BY <2>3, <2>5, <4>2, <4>3
      <3> QED BY <1>0, <2>5, <3>1, <3>2
    <2>9. ElementAt(type, x, p) = Contents(type, x)[m + 1]
      <3>1. \A j \in 1..x.len : Contents(type, x)[j] = x.slot[InOrder(x)[j]]
        BY <1>2, ContentsAre
      <3> QED BY <1>2, <2>5, <2>8, <3>1 DEF ElementAt, at
    <2>10. PICK q : q = FirstFrom(x, p + 1)
      OBVIOUS
    <2>11. /\ q \in Nat /\ q <= x.cap
           /\ q < x.cap => q >= p + 1
           /\ \A i \in V : i >= p + 1 => q <= i
      BY <2>1, <2>3, <2>10, SeekIs
    <2>12. p < x.cap /\ p < q
      <3>1. p < x.cap
        BY <1>2, <2>2, <2>3 DEF EndOf
      <3> QED BY <2>2, <2>3, <2>11, <3>1
    <2>13. \A j \in 1..x.len : j <= m + 1 <=> at[j] < q
      <3> TAKE j \in 1..x.len
      <3>1. CASE j <= m + 1
        <4>1. j = k \/ j < k
          BY <2>8, <3>1
        <4>2. at[j] \in Nat /\ (at[j] = p \/ at[j] < p)
          BY <2>4, <2>5, <2>7, <4>1
        <4> QED BY <2>3, <2>11, <2>12, <3>1, <4>2
      <3>2. CASE ~(j <= m + 1)
        <4>1. k < j
          BY <2>8, <3>2
        <4>2. at[j] \in Nat /\ at[j] \in V /\ at[j] > p
          BY <2>3, <2>4, <2>5, <2>7, <4>1
        <4>3. q <= at[j]
          BY <2>3, <2>11, <4>2
        <4> QED BY <2>11, <3>2, <4>2, <4>3
      <3> QED BY <3>1, <3>2
    <2> QED BY <1>0, <1>2, <2>1, <2>3, <2>5, <2>8, <2>9, <2>10, <2>11, <2>13 DEF Reached, at
  <1> QED BY <1>1, <1>2

\* At the end everything is behind.
LEMMA ReachedLast ==
  ASSUME NEW type, NEW x, GoodSilo(type, x), NEW pos \in Nat, NEW m \in Nat, m <= x.len,
         Reached(type, x, pos, m),
         NEW p, p = Spot(type, x, pos), p >= EndOf(type, x)
  PROVE  p \in Nat /\ m = x.len /\ Reached(type, x, p, m)
  <1>0. x.len \in Nat
    BY SiloGen
  <1>1. CASE Linear(type)
    BY <1>0, <1>1 DEF Spot, EndOf, Reached
  <1>2. CASE ~Linear(type)
    <2> DEFINE at == InOrder(x)
               V == Live(x.slot)
    <2>1. GoodTable(x) /\ p = FirstFrom(x, pos)
      BY <1>2 DEF GoodSilo, SeekLive, Spot
    <2>2. InOrderOnce(x, at) /\ x.cap \in Nat /\ \A i \in V : i \in Nat /\ i < x.cap
      BY <2>1, InOrderIs, LiveShape
    <2>3. p \in Nat /\ p >= x.cap /\ \A i \in V : i >= pos => p < x.cap
      <3>1. p >= x.cap
        BY <1>2 DEF EndOf
      <3> QED BY <2>1, <3>1, SeekIs
    <2>4. \A i \in V : i < pos /\ i < p
      BY <2>2, <2>3
    <2>5. \A k \in 1..x.len : at[k] \in V
      BY <2>2 DEF InOrderOnce
    <2>6. \A j \in 1..x.len : j <= m <=> at[j] < pos
      BY <1>2 DEF Reached
    <2> HIDE DEF at, V
    <2>7. \A k \in 1..x.len : at[k] < pos /\ at[k] < p
      BY <2>4, <2>5
    <2>8. m = x.len
      <3>1. ASSUME m < x.len PROVE FALSE
        <4>1. x.len \in 1..x.len /\ ~(x.len <= m)
          BY <1>0, <3>1
        <4> QED BY <2>6, <2>7, <4>1
      <3> QED BY <1>0, <3>1
    <2>9. \A k \in 1..x.len : k <= m
      BY <1>0, <2>8
    <2> QED BY <1>2, <2>3, <2>7, <2>8, <2>9 DEF Reached, at
  <1> QED BY <1>1, <1>2

-----------------------------------------------------------------------------
(* The table and its iterators *)

\* A slot of the table; one that is free still has a generation.
GoodSlot(ts, slot) ==
  /\ slot = [type |-> slot.type, x |-> slot.x]
  /\ slot.type \in ts \cup {"free"}
  /\ slot.x.gen \in Nat
  /\ slot.type # "free" => GoodSilo(slot.type, slot.x)
\* The table: a list of such slots.
GoodSlots(ts, sl) == IsList(sl) /\ \A i \in DOMAIN sl : GoodSlot(ts, sl[i])

\* Iterators with descriptors in D, and the places of those that were removed.
LiveIter(D) ==
  [desc : D, gen : Nat, obliterate : BOOLEAN, live : {TRUE}, pos : Nat, mine : BOOLEAN,
   calm : BOOLEAN, made : Seq(Item), got : Seq(Item)]
AnyIter(D) == LiveIter(D) \cup [live : {FALSE}]

\* What one list begins with.
Begins(got, made) ==
  Len(got) <= Len(made) /\ \A k \in 1..Len(got) : got[k] = made[k]

\* An ordinary iterator and its slot: as long as the generation is the one it
\* knows, the silo holds what it held, and the position parts what was handed
\* out from the rest.
OrdinaryAt(it, slot) ==
  /\ it.gen <= slot.x.gen
  /\ Begins(it.got, it.made)
  /\ it.gen = slot.x.gen =>
       /\ slot.type = it.desc.type
       /\ it.made = Contents(slot.type, slot.x)
       /\ Reached(slot.type, slot.x, it.pos, Len(it.got))

\* An obliterating one: as long as nothing was added, nothing lies before it.
ObliteratorAt(it, slot) ==
  /\ Linear(it.desc.type) => it.pos = 0
  /\ it.mine => slot.type = it.desc.type
  /\ it.mine /\ it.calm /\ ~Linear(it.desc.type) => \A i \in Live(slot.x.slot) : it.pos <= i

\* An iterator and the slot its descriptor names.
Fits(it, slot) == IF it.obliterate THEN ObliteratorAt(it, slot) ELSE OrdinaryAt(it, slot)
GoodIters(ts, sl, its) ==
  /\ its \in Seq(AnyIter([idx : DOMAIN sl, type : ts]))
  /\ \A n \in DOMAIN its : its[n].live => Fits(its[n], sl[its[n].desc.idx])

\* What a call may do to a silo that stays: it moves on to a later
\* generation, or nothing an iterator can see has changed.
Changed(slot, new) ==
  /\ new.type = slot.type
  /\ \/ new.x.gen > slot.x.gen
     \/ new.x = slot.x
     \/ /\ Linear(slot.type) /\ new.x.gen = slot.x.gen
        /\ Contents(slot.type, new.x) = Contents(slot.type, slot.x)

\* An iterator goes on to fit its slot when a call changes the silo in it.
LEMMA FitsChanged ==
  ASSUME NEW D, NEW it \in LiveIter(D), NEW slot, NEW new, slot.x.gen \in Nat, new.x.gen \in Nat,
         Fits(it, slot), Changed(slot, new),
         it.obliterate /\ it.mine /\ it.calm /\ ~Linear(it.desc.type)
           => Live(new.x.slot) \subseteq Live(slot.x.slot)
  PROVE  Fits(it, new)
  <1>1. it.gen \in Nat /\ it.obliterate \in BOOLEAN
    BY DEF LiveIter
  <1>2. CASE it.obliterate
    BY <1>2 DEF Fits, ObliteratorAt, Changed
  <1>3. CASE ~it.obliterate
    <2>1. OrdinaryAt(it, slot)
      BY <1>3 DEF Fits
    <2>2. CASE new.x.gen > slot.x.gen
      BY <1>1, <1>3, <2>1, <2>2 DEF Fits, OrdinaryAt
    <2>3. CASE new.x = slot.x
      BY <1>3, <2>1, <2>3 DEF Fits, OrdinaryAt, Changed
    <2>4. CASE /\ Linear(slot.type) /\ new.x.gen = slot.x.gen
               /\ Contents(slot.type, new.x) = Contents(slot.type, slot.x)
      BY <1>3, <2>1, <2>4 DEF Fits, OrdinaryAt, Changed, Reached
    <2> QED BY <2>2, <2>3, <2>4 DEF Changed
  <1> QED BY <1>2, <1>3

\* An iterator whose silo has gone has a slot of a later generation.
LEMMA FitsGone ==
  ASSUME NEW D, NEW it \in LiveIter(D), NEW slot, NEW new, slot.x.gen \in Nat, new.x.gen \in Nat,
         Fits(it, slot), new.x.gen > slot.x.gen, it.obliterate => ~it.mine
  PROVE  Fits(it, new)
  <1>1. it.gen \in Nat /\ it.obliterate \in BOOLEAN
    BY DEF LiveIter
  <1> QED BY <1>1 DEF Fits, OrdinaryAt, ObliteratorAt

\* What an iterator is told about its silo.
LEMMA FitsTold ==
  ASSUME NEW D, NEW it \in LiveIter(D), NEW slot, Fits(it, slot)
  PROVE  /\ [it EXCEPT !.mine = FALSE] \in LiveIter(D) /\ Fits([it EXCEPT !.mine = FALSE], slot)
         /\ [it EXCEPT !.calm = FALSE] \in LiveIter(D) /\ Fits([it EXCEPT !.calm = FALSE], slot)
  <1>1. PICK a, b : a = [it EXCEPT !.mine = FALSE] /\ b = [it EXCEPT !.calm = FALSE]
    OBVIOUS
  <1>2. /\ a \in LiveIter(D) /\ a.desc = it.desc /\ a.gen = it.gen /\ a.obliterate = it.obliterate
        /\ a.pos = it.pos /\ a.mine = FALSE /\ a.calm = it.calm /\ a.made = it.made /\ a.got = it.got
    BY <1>1 DEF LiveIter
  <1>3. /\ b \in LiveIter(D) /\ b.desc = it.desc /\ b.gen = it.gen /\ b.obliterate = it.obliterate
        /\ b.pos = it.pos /\ b.mine = it.mine /\ b.calm = FALSE /\ b.made = it.made /\ b.got = it.got
    BY <1>1 DEF LiveIter
  <1>4. Fits(a, slot)
    BY <1>2 DEF Fits, OrdinaryAt, ObliteratorAt
  <1>5. Fits(b, slot)
    BY <1>3 DEF Fits, OrdinaryAt, ObliteratorAt
  <1> QED BY <1>1, <1>2, <1>3, <1>4, <1>5

\* Sequences of a wider set, and with some members replaced.
LEMMA SeqWider ==
  ASSUME NEW S, NEW T, S \subseteq T, NEW q \in Seq(S)
  PROVE  q \in Seq(T) /\ Len(q) \in Nat /\ DOMAIN q = 1..Len(q) /\ \A n \in DOMAIN q : q[n] \in S
  OBVIOUS

LEMMA SeqMapped ==
  ASSUME NEW S, NEW T, NEW q \in Seq(S), NEW r, r = [n \in DOMAIN q |-> r[n]],
         \A n \in DOMAIN q : r[n] \in T
  PROVE  r \in Seq(T) /\ DOMAIN r = DOMAIN q
  <1>1. Len(q) \in Nat /\ DOMAIN q = 1..Len(q)
    OBVIOUS
  <1>2. r \in [1..Len(q) -> T]
    BY <1>1
  <1> QED BY <1>1, <1>2, SeqDef

\* The shape of a table in order and of its iterators.
LEMMA SlotShape ==
  ASSUME NEW ts, NEW sl, GoodSlots(ts, sl), NEW i \in DOMAIN sl
  PROVE  /\ sl[i] = [type |-> sl[i].type, x |-> sl[i].x] /\ sl[i].type \in ts \cup {"free"}
         /\ sl[i].x.gen \in Nat /\ (sl[i].type # "free" => GoodSilo(sl[i].type, sl[i].x))
  BY DEF GoodSlots, GoodSlot

\* A live iterator of the table.
LEMMA IterShape ==
  ASSUME NEW ts, NEW sl, NEW its, GoodIters(ts, sl, its), NEW n \in DOMAIN its, its[n].live
  PROVE  /\ its[n] \in LiveIter([idx : DOMAIN sl, type : ts])
         /\ its[n].desc.idx \in DOMAIN sl /\ its[n].desc.type \in ts
         /\ its[n].desc = [idx |-> its[n].desc.idx, type |-> its[n].desc.type]
         /\ Fits(its[n], sl[its[n].desc.idx])
  <1>1. its[n] \in AnyIter([idx : DOMAIN sl, type : ts])
    BY DEF GoodIters
  <1>2. its[n] \in LiveIter([idx : DOMAIN sl, type : ts])
    BY <1>1 DEF AnyIter
  <1>3. its[n].desc \in [idx : DOMAIN sl, type : ts]
    BY <1>2 DEF LiveIter
  <1> QED BY <1>2, <1>3 DEF GoodIters

\* Iterators that were changed one by one.
LEMMA ItersMapped ==
  ASSUME NEW ts, NEW sl, NEW sl2, NEW its, GoodIters(ts, sl, its),
         NEW its2, its2 = [n \in DOMAIN its |-> its2[n]],
         \A n \in DOMAIN its : /\ its2[n] \in AnyIter([idx : DOMAIN sl2, type : ts])
                               /\ its2[n].live => Fits(its2[n], sl2[its2[n].desc.idx])
  PROVE  GoodIters(ts, sl2, its2)
  <1>1. its \in Seq(AnyIter([idx : DOMAIN sl, type : ts]))
    BY DEF GoodIters
  <1>2. \A n \in DOMAIN its : its2[n] \in AnyIter([idx : DOMAIN sl2, type : ts])
    OBVIOUS
  <1>3. its2 \in Seq(AnyIter([idx : DOMAIN sl2, type : ts])) /\ DOMAIN its2 = DOMAIN its
    <2>1. PICK S, T : S = AnyIter([idx : DOMAIN sl, type : ts]) /\ T = AnyIter([idx : DOMAIN sl2, type : ts])
      OBVIOUS
    <2>2. its \in Seq(S) /\ its2 = [n \in DOMAIN its |-> its2[n]] /\ \A n \in DOMAIN its : its2[n] \in T
      BY <1>1, <1>2, <2>1
    <2>3. its2 \in Seq(T) /\ DOMAIN its2 = DOMAIN its
      BY ONLY <2>2, SeqMapped
    <2> QED BY <2>1, <2>3
  <1> QED BY <1>3 DEF GoodIters

\* A slot that was written, or added behind the last.
Placed(sl, i, new) == IF i \in DOMAIN sl THEN [sl EXCEPT ![i] = new] ELSE Append(sl, new)

\* Such a write of a slot in order, and the table it leaves.
Placing(ts, sl, i, new, sl2) ==
  /\ GoodSlots(ts, sl) /\ GoodSlot(ts, new) /\ sl2 = Placed(sl, i, new)
  /\ i \in DOMAIN sl \/ i = Len(sl) + 1

NowPlaced(ts, sl, i, new, sl2) ==
  /\ GoodSlots(ts, sl2) /\ DOMAIN sl2 = DOMAIN sl \cup {i} /\ sl2[i] = new
  /\ \A j \in DOMAIN sl : j # i => sl2[j] = sl[j]

\* One is the other.
LEMMA SlotPlaced ==
  ASSUME NEW ts, NEW sl, NEW i, NEW new, NEW sl2, Placing(ts, sl, i, new, sl2)
  PROVE  NowPlaced(ts, sl, i, new, sl2)
  <1> USE DEF Placing, NowPlaced
  <1>0. IsList(sl) /\ Len(sl) \in Nat /\ DOMAIN sl = 1..Len(sl)
    BY ListShape DEF GoodSlots
  <1>1. CASE i \in DOMAIN sl
    <2>1. /\ DOMAIN sl2 = DOMAIN sl /\ sl2 = [j \in DOMAIN sl |-> sl2[j]] /\ sl2[i] = new
          /\ \A j \in DOMAIN sl : j # i => sl2[j] = sl[j]
      BY <1>1 DEF Placed
    <2>2. IsList(sl2)
      BY <1>0, <2>1, ListChanged
    <2> QED BY <1>1, <2>1, <2>2 DEF GoodSlots
  <1>2. CASE i \notin DOMAIN sl
    <2>1. i = Len(sl) + 1 /\ sl2 = Append(sl, new)
      BY <1>2 DEF Placed
    <2>2. /\ IsList(sl2) /\ DOMAIN sl2 = DOMAIN sl \cup {i} /\ sl2[i] = new
          /\ \A j \in DOMAIN sl : sl2[j] = sl[j]
      <3>1. /\ IsList(Append(sl, new)) /\ DOMAIN Append(sl, new) = DOMAIN sl \cup {Len(sl) + 1}
            /\ Append(sl, new)[Len(sl) + 1] = new
            /\ \A j \in DOMAIN sl : Append(sl, new)[j] = sl[j]
        BY ONLY <1>0, ListAppended
      <3> QED BY ONLY <2>1, <3>1
    <2> QED BY <2>2 DEF GoodSlots
  <1> QED BY <1>1, <1>2

\* A wider table leaves the iterators what they are.
LEMMA IterWider ==
  ASSUME NEW ts, NEW dom, NEW dom2, dom \subseteq dom2
  PROVE  AnyIter([idx : dom, type : ts]) \subseteq AnyIter([idx : dom2, type : ts])
  <1>1. [idx : dom, type : ts] \subseteq [idx : dom2, type : ts]
    OBVIOUS
  <1> QED BY <1>1 DEF AnyIter, LiveIter

\* A new silo, in a free slot or behind the last: no iterator is of it.
Creating(ts, sl, its, i, new, sl2) ==
  /\ "free" \notin ts /\ GoodSlots(ts, sl) /\ GoodIters(ts, sl, its)
  /\ GoodSlot(ts, new) /\ sl2 = Placed(sl, i, new)
  /\ \/ i \in DOMAIN sl /\ sl[i].type = "free" /\ new.x.gen > sl[i].x.gen
     \/ i \notin DOMAIN sl /\ i = Len(sl) + 1

\* Every iterator goes on to fit its slot.
LEMMA CreatedKeeps ==
  ASSUME NEW ts, NEW sl, NEW its, NEW i, NEW new, NEW sl2, Creating(ts, sl, its, i, new, sl2)
  PROVE  NowPlaced(ts, sl, i, new, sl2) /\ GoodIters(ts, sl2, its)
  <1>0. /\ "free" \notin ts /\ GoodSlots(ts, sl) /\ GoodIters(ts, sl, its)
        /\ GoodSlot(ts, new) /\ sl2 = Placed(sl, i, new)
        /\ \/ i \in DOMAIN sl /\ sl[i].type = "free" /\ new.x.gen > sl[i].x.gen
           \/ i \notin DOMAIN sl /\ i = Len(sl) + 1
    BY DEF Creating
  <1>1. /\ GoodSlots(ts, sl2) /\ DOMAIN sl2 = DOMAIN sl \cup {i} /\ sl2[i] = new
        /\ \A j \in DOMAIN sl : j # i => sl2[j] = sl[j]
    <2>1. Placing(ts, sl, i, new, sl2)
      BY <1>0 DEF Placing
    <2>2. NowPlaced(ts, sl, i, new, sl2)
      BY ONLY <2>1, SlotPlaced
    <2> QED BY <2>2 DEF NowPlaced
  <1>2. ASSUME NEW n \in DOMAIN its
        PROVE  /\ its[n] \in AnyIter([idx : DOMAIN sl2, type : ts])
               /\ its[n].live => Fits(its[n], sl2[its[n].desc.idx])
    <2>1. its[n] \in AnyIter([idx : DOMAIN sl, type : ts])
      BY <1>0, <1>2, SeqWider DEF GoodIters
    <2>2. its[n] \in AnyIter([idx : DOMAIN sl2, type : ts])
      BY <1>1, <2>1, IterWider
    <2>3. ASSUME its[n].live PROVE Fits(its[n], sl2[its[n].desc.idx])
      <3>1. PICK it, j, D : it = its[n] /\ j = it.desc.idx /\ D = [idx : DOMAIN sl, type : ts]
        OBVIOUS
      <3>2. /\ it \in LiveIter(D) /\ j \in DOMAIN sl /\ it.desc.type \in ts /\ Fits(it, sl[j])
        BY <1>0, <1>2, <2>3, <3>1, IterShape
      <3>3. CASE j # i
        BY <1>1, <3>1, <3>2, <3>3
      <3>4. CASE j = i
        <4>1. sl[j].type = "free" /\ new.x.gen > sl[j].x.gen /\ sl2[j] = new
          BY <1>0, <1>1, <3>2, <3>4
        <4>2. it.obliterate => ~it.mine
          BY <1>0, <3>2, <4>1 DEF Fits, ObliteratorAt
        <4>3. sl[j].x.gen \in Nat /\ new.x.gen \in Nat
          BY <1>0, <3>2, SlotShape DEF GoodSlot
        <4>4. Fits(it, new)
          BY ONLY <3>2, <4>1, <4>2, <4>3, FitsGone
        <4> QED BY <3>1, <4>1, <4>4
      <3> QED BY <3>3, <3>4
    <2> QED BY <2>2, <2>3
  <1>3. its = [n \in DOMAIN its |-> its[n]]
    BY <1>0 DEF GoodIters
  <1>4. GoodIters(ts, sl2, its)
    BY <1>0, <1>2, <1>3, ItersMapped
  <1>5. NowPlaced(ts, sl, i, new, sl2)
    BY <1>1 DEF NowPlaced
  <1> QED BY <1>4, <1>5

-----------------------------------------------------------------------------
(* What calls do to a silo that stays *)

\* A call on a linear silo: later, or grown, with the same elements.
LEMMA LinearChanges ==
  ASSUME NEW type, Linear(type), NEW x, GoodSilo(type, x), NEW y \in LinearMutants(x)
  PROVE  /\ GoodSilo(type, y)
         /\ \/ y.gen > x.gen
            \/ y.gen = x.gen /\ Contents(type, y) = Contents(type, x)
  <1>1. GoodLinear(x) /\ x.type = type
    BY DEF GoodSilo
  <1>2. x.len \in Nat /\ x.gen \in Nat
    BY <1>1, LinearShape
  <1>3. CASE Advanced(x, y)
    <2>1. GoodLinear(y) /\ y.type = type /\ y.gen = x.gen + 1
      BY <1>1, <1>3 DEF Advanced
    <2> QED BY <1>2, <2>1 DEF GoodSilo
  <1>4. CASE y = L!Grow(x, x.len + 1)
    <2>1. x.len + 1 \in Nat
      BY <1>2
    <2>2. GoodLinear(y) /\ y.type = x.type /\ y.gen = x.gen /\ L!Elems(y) = L!Elems(x)
      BY <1>1, <1>4, <2>1, GrowKept
    <2> QED BY <1>1, <2>2 DEF GoodSilo, Contents
  <1>5. Advanced(x, y) \/ y = L!Grow(x, x.len + 1)
    <2>1. CASE \E v \in Value : y = L!AppendOne(x, v)
      BY <1>1, <2>1, AppendAdvances
    <2>2. CASE y = L!Teem(x)
      BY <1>1, <2>2, TeemAdvances
    <2>3. CASE \E v \in Value : y = L!Swop(x, v)
      BY <1>1, <2>3, SwopAdvances
    <2>4. CASE x.len # 0 /\ y = L!SpewOne(x)
      BY <1>1, <1>2, <2>4, SpewOneAdvances
    <2>5. CASE x.len # 0 /\ y = L!Tamp(x)
      BY <1>1, <2>5, TampAdvances
    <2>6. CASE x.len # 0 /\ y = L!Pop(x)
      BY <1>1, <1>2, <2>6, PopAdvances
    <2> QED BY <2>1, <2>2, <2>3, <2>4, <2>5, <2>6 DEF LinearMutants
  <1> QED BY <1>3, <1>4, <1>5

\* A call on any silo.
LEMMA MutantChanges ==
  ASSUME NEW type, type # "free", NEW slot, slot.type = type, GoodSilo(type, slot.x),
         NEW y, y \in IF Linear(type) THEN LinearMutants(slot.x) ELSE HashMutants(type, slot.x),
         NEW new, new = [type |-> type, x |-> y]
  PROVE  GoodSilo(type, y) /\ Changed(slot, new)
  <1>1. CASE Linear(type)
    <2>1. /\ GoodSilo(type, y)
          /\ \/ y.gen > slot.x.gen
             \/ y.gen = slot.x.gen /\ Contents(type, y) = Contents(type, slot.x)
      BY <1>1, LinearChanges
    <2> QED BY <1>1, <2>1 DEF Changed
  <1>2. CASE ~Linear(type)
    <2>1. GoodTable(y) /\ (y = slot.x \/ y.gen > slot.x.gen)
      BY <1>2, HashAdvances DEF GoodSilo
    <2> QED BY <1>2, <2>1 DEF Changed, GoodSilo
  <1> QED BY <1>1, <1>2

\* An obliterating iterator takes what it is at.
LEMMA TakenChanges ==
  ASSUME NEW it, NEW type, type # "free", it.desc.type = type, it.pos \in Nat,
         NEW slot, slot.type = type, GoodSilo(type, slot.x),
         Linear(type) => it.pos = 0, ~AtEnd(it, slot.x),
         NEW y, y = Taken(it, slot.x), NEW new, new = [type |-> type, x |-> y]
  PROVE  /\ GoodSilo(type, y) /\ y.gen > slot.x.gen /\ Changed(slot, new)
         /\ ~Linear(type) =>
              /\ Here(it, slot.x) \in Live(slot.x.slot) /\ Here(it, slot.x) \in Nat
              /\ Live(y.slot) = Live(slot.x.slot) \ {Here(it, slot.x)}
              /\ \A i \in Live(slot.x.slot) : it.pos <= i => Here(it, slot.x) <= i
  <1>1. CASE Linear(type)
    <2>1. GoodLinear(slot.x) /\ slot.x.type = type /\ slot.x.len > 0 /\ slot.x.gen \in Nat
      BY <1>1, LinearShape DEF GoodSilo, AtEnd, Here
    <2>2. Advanced(slot.x, y)
      BY <1>1, <2>1, SpewOneAdvances DEF Taken, L!TakeFirst
    <2>3. GoodSilo(type, y) /\ y.gen > slot.x.gen
      BY <1>1, <2>1, <2>2 DEF Advanced, GoodSilo
    <2> QED BY <1>1, <2>3 DEF Changed
  <1>2. CASE ~Linear(type)
    <2> DEFINE x == slot.x
               h == Here(it, slot.x)
    <2>1. GoodTable(x) /\ h = FirstFrom(x, it.pos) /\ ~(h >= x.cap) /\ y = Kill(x, h)
      BY <1>2 DEF GoodSilo, AtEnd, Here, SeekLive, Taken
    <2>2. h \in Nat /\ h \in Live(x.slot) /\ \A i \in Live(x.slot) : it.pos <= i => h <= i
      <3>1. h \in Nat /\ x.cap \in Nat
        BY <2>1, SeekIs, LiveShape
      <3>2. h < x.cap
        BY <2>1, <3>1
      <3>3. \A i \in Live(x.slot) : i \in Nat /\ (it.pos <= i <=> i >= it.pos)
        BY <2>1, LiveShape
      <3> QED BY <2>1, <3>1, <3>2, <3>3, SeekIs
    <2> HIDE DEF h, x
    <2>3. GoodTable(y) /\ y.gen = x.gen + 1 /\ x.gen \in Nat
      BY <2>1, <2>2, KillGood DEF GoodTable, IsTable
    <2>4. Live(y.slot) = Live(x.slot) \ {h}
      <3>1. y.slot = Written(x.slot, h, Tomb) /\ x.slot \in SlotsOf(x.cap) /\ x.cap \in Nat
        BY <2>1, <2>2, KillCounts DEF GoodTable, IsTable, Written
      <3>2. h \in 0..(x.cap - 1) /\ ~IsLive(Tomb)
        BY <2>1, <2>2, LiveShape DEF IsLive
      <3> QED BY <3>1, <3>2, SlotWritten
    <2> QED BY <1>2, <2>2, <2>3, <2>4 DEF Changed, GoodSilo, h, x
  <1> QED BY <1>1, <1>2


-----------------------------------------------------------------------------
(* The invariant *)

\* Table and iterators are in order and fit each other.
TableInv == types \in Tables /\ GoodSlots(types, slots) /\ GoodIters(types, slots, iters)

\* A table holds linear silos or hash tables, and no silo is called free.
LEMMA TypesAre ==
  ASSUME types \in Tables
  PROVE  "free" \notin types /\ \A type \in types : Linear(type) => type \in L!LinearTypes
  <1>1. types \subseteq L!LinearTypes \/ types \subseteq {"set", "map"}
    BY TablesAssumption
  <1> QED BY <1>1 DEF Linear, L!LinearTypes

\* A new silo gets a free slot or one behind the last.
LEMMA NewIdxIs ==
  ASSUME TableInv
  PROVE  \/ NewIdx \in Slots /\ slots[NewIdx].type = "free"
         \/ NewIdx \notin Slots /\ NewIdx = Len(slots) + 1
  <1>1. Len(slots) \in Nat /\ Slots = 1..Len(slots)
    BY ListShape DEF TableInv, GoodSlots, Slots
  <1>2. CASE FreeSlots = {}
    BY <1>1, <1>2 DEF NewIdx
  <1>3. CASE FreeSlots # {}
    <2>1. FreeSlots \subseteq Nat
      BY <1>1 DEF FreeSlots
    <2>2. \E i \in FreeSlots : \A j \in FreeSlots : i <= j
      BY <1>3, <2>1, LeastOf
    <2>3. NewIdx \in FreeSlots
      BY <1>3, <2>2 DEF NewIdx
    <2> QED BY <2>3 DEF FreeSlots
  <1> QED BY <1>2, <1>3

\* The generation of a new silo.
NewGen == IF NewIdx \in Slots THEN slots[NewIdx].x.gen + 1 ELSE 1

\* The table with a new silo.
WithNew(type, x) == Placed(slots, NewIdx, [type |-> type, x |-> x])

\* The table with a new silo is in order, and the iterators still fit it.
LEMMA NewSiloKeeps ==
  ASSUME TableInv, NEW type \in types, NEW x, GoodSilo(type, x), x.gen >= NewGen,
         NEW sl2, sl2 = WithNew(type, x)
  PROVE  /\ GoodSlots(types, sl2) /\ GoodIters(types, sl2, iters)
         /\ sl2[NewIdx] = [type |-> type, x |-> x]
         /\ \A j \in Slots : j # NewIdx => sl2[j] = slots[j]
  <1> DEFINE new == [type |-> type, x |-> x]
  <1>1. /\ "free" \notin types /\ GoodSlots(types, slots) /\ GoodIters(types, slots, iters)
        /\ sl2 = Placed(slots, NewIdx, new)
    BY TypesAre DEF TableInv, WithNew
  <1>2. x.gen \in Nat
    BY SiloGen
  <1>3. GoodSlot(types, new) /\ new.x.gen = x.gen
    BY <1>2 DEF GoodSlot
  <1>4. \/ NewIdx \in DOMAIN slots /\ slots[NewIdx].type = "free" /\ new.x.gen > slots[NewIdx].x.gen
        \/ NewIdx \notin DOMAIN slots /\ NewIdx = Len(slots) + 1
    <2>1. CASE NewIdx \in Slots
      <3>1. slots[NewIdx].x.gen \in Nat
        BY <1>1, <2>1, SlotShape DEF Slots
      <3>2. x.gen >= slots[NewIdx].x.gen + 1
        BY <2>1 DEF NewGen
      <3>3. slots[NewIdx].type = "free"
        BY <2>1, NewIdxIs
      <3> QED BY <1>2, <1>3, <2>1, <3>1, <3>2, <3>3 DEF Slots
    <2>2. CASE NewIdx \notin Slots
      BY <2>2, NewIdxIs DEF Slots
    <2> QED BY <2>1, <2>2
  <1> HIDE DEF new
  <1>5. PICK i : i = NewIdx
    OBVIOUS
  <1>6. Creating(types, slots, iters, i, new, sl2)
    BY <1>1, <1>3, <1>4, <1>5 DEF Creating
  <1>7. NowPlaced(types, slots, i, new, sl2) /\ GoodIters(types, sl2, iters)
    BY ONLY <1>6, CreatedKeeps
  <1> QED BY <1>5, <1>7 DEF NowPlaced, Slots, new

\* A new silo of a type, and its generation.
LEMMA NewObjGood ==
  ASSUME TableInv, NEW type \in types, NEW gen \in Nat
  PROVE  /\ GoodSilo(type, NewObj(type, gen)) /\ NewObj(type, gen).gen = gen
         /\ ~Linear(type) => Live(NewObj(type, gen).slot) = {}
  <1>1. CASE Linear(type)
    BY <1>1, NewLinear, TypesAre DEF GoodSilo, TableInv
  <1>2. CASE ~Linear(type)
    BY <1>2, NewHash DEF GoodSilo
  <1> QED BY <1>1, <1>2

\* It is a number.
LEMMA NewGenIs ==
  ASSUME TableInv
  PROVE  NewGen \in Nat
  <1>1. NewIdx \in Slots => slots[NewIdx].x.gen \in Nat
    BY SlotShape DEF TableInv, Slots
  <1> QED BY <1>1 DEF NewGen

-----------------------------------------------------------------------------
(* One silo of the table changes *)

\* The table after a call on the silo in one slot.
LEMMA SiloChanged ==
  ASSUME NEW ts, NEW sl, GoodSlots(ts, sl), NEW i \in DOMAIN sl, NEW y,
         sl[i].type # "free", GoodSilo(sl[i].type, y),
         NEW sl2, sl2 = [sl EXCEPT ![i].x = y]
  PROVE  NowPlaced(ts, sl, i, [type |-> sl[i].type, x |-> y], sl2)
  <1>1. PICK new : new = [type |-> sl[i].type, x |-> y]
    OBVIOUS
  <1>2. sl[i] = [type |-> sl[i].type, x |-> sl[i].x] /\ sl[i].type \in ts \cup {"free"}
    BY SlotShape
  <1>3. new = [sl[i] EXCEPT !.x = y]
    BY <1>1, <1>2
  <1>4. y.gen \in Nat
    BY SiloGen
  <1>5. GoodSlot(ts, new)
    BY <1>1, <1>2, <1>4 DEF GoodSlot
  <1>6. sl2 = Placed(sl, i, new)
    BY <1>3 DEF Placed
  <1>7. Placing(ts, sl, i, new, sl2)
    BY <1>5, <1>6 DEF Placing
  <1> QED BY ONLY <1>1, <1>7, SlotPlaced

\* What an iterator needs to know of a call that changes a slot.
Stays(it, slot, new) ==
  /\ slot.x.gen \in Nat /\ new.x.gen \in Nat
  /\ it.obliterate /\ it.mine /\ it.calm /\ ~Linear(it.desc.type)
       => Live(new.x.slot) \subseteq Live(slot.x.slot)
  /\ Changed(slot, new)

\* An iterator fits the table after the change.
LEMMA FitsAfter ==
  ASSUME NEW ts, NEW sl, NEW i, NEW new, NEW sl2, NowPlaced(ts, sl, i, new, sl2),
         NEW it \in LiveIter([idx : DOMAIN sl, type : ts]), Fits(it, sl[it.desc.idx]),
         it.desc.idx = i => Stays(it, sl[i], new)
  PROVE  Fits(it, sl2[it.desc.idx])
  <1>1. it.desc.idx \in DOMAIN sl
    BY DEF LiveIter
  <1>2. CASE it.desc.idx # i
    BY <1>1, <1>2 DEF NowPlaced
  <1>3. CASE it.desc.idx = i
    <2>1. sl2[i] = new
      BY DEF NowPlaced
    <2>2. PICK slot, D : slot = sl[i] /\ D = [idx : DOMAIN sl, type : ts]
      OBVIOUS
    <2>3. it \in LiveIter(D) /\ Fits(it, slot) /\ Stays(it, slot, new)
      BY <1>3, <2>2
    <2>4. Fits(it, new)
      BY ONLY <2>3, FitsChanged DEF Stays
    <2> QED BY <1>3, <2>1, <2>4
  <1> QED BY <1>2, <1>3

\* The iterators, when each is still about the table.
LEMMA ItersKept ==
  ASSUME NEW ts, NEW sl, NEW i \in DOMAIN sl, NEW new, NEW sl2, NowPlaced(ts, sl, i, new, sl2),
         NEW its, GoodIters(ts, sl, its), NEW its2, its2 = [n \in DOMAIN its |-> its2[n]],
         \A n \in DOMAIN its :
           IF its2[n].live
             THEN /\ its2[n] \in LiveIter([idx : DOMAIN sl, type : ts])
                  /\ Fits(its2[n], sl2[its2[n].desc.idx])
             ELSE its2[n] \in [live : {FALSE}]
  PROVE  GoodIters(ts, sl2, its2)
  <1>1. DOMAIN sl2 = DOMAIN sl
    BY DEF NowPlaced
  <1>2. \A n \in DOMAIN its :
          /\ its2[n] \in AnyIter([idx : DOMAIN sl2, type : ts])
          /\ its2[n].live => Fits(its2[n], sl2[its2[n].desc.idx])
    BY <1>1 DEF AnyIter
  <1> QED BY <1>2, ItersMapped

\* The descriptor of a silo, and an iterator that was made over it.
LEMMA DescIs ==
  ASSUME TableInv, NEW desc \in Descs, Valid(desc)
  PROVE  /\ desc.idx \in DOMAIN slots /\ desc.type \in types /\ desc.type # "free"
         /\ desc = [idx |-> desc.idx, type |-> desc.type]
         /\ slots[desc.idx].type = desc.type /\ GoodSilo(desc.type, slots[desc.idx].x)
         /\ slots[desc.idx].x.gen \in Nat
         /\ slots[desc.idx] = [type |-> desc.type, x |-> slots[desc.idx].x]
  <1>1. /\ desc.idx \in DOMAIN slots /\ desc.type \in types
        /\ desc = [idx |-> desc.idx, type |-> desc.type] /\ slots[desc.idx].type = desc.type
    BY DEF Descs, Valid, Slots
  <1>2. desc.type # "free"
    BY <1>1, TypesAre DEF TableInv
  <1> QED BY <1>1, <1>2, SlotShape DEF TableInv

\* An obliterating iterator whose silo is still there was made over the silo
\* that has its descriptor now.
LEMMA OverIs ==
  ASSUME TableInv, NEW desc \in Descs, Valid(desc), NEW n \in DOMAIN iters, iters[n].live,
         iters[n].desc.idx = desc.idx, iters[n].obliterate, iters[n].mine
  PROVE  Over(n, desc)
  <1>1. PICK it : it = iters[n]
    OBVIOUS
  <1>2. /\ it.desc = [idx |-> it.desc.idx, type |-> it.desc.type]
        /\ Fits(it, slots[it.desc.idx])
    BY <1>1, IterShape DEF TableInv
  <1>3. slots[desc.idx].type = it.desc.type
    BY <1>1, <1>2 DEF Fits, ObliteratorAt
  <1>4. it.desc = desc
    <2>1. desc = [idx |-> desc.idx, type |-> desc.type] /\ slots[desc.idx].type = desc.type
      BY DescIs
    <2>2. it.desc.idx = desc.idx /\ it.desc.type = desc.type
      BY <1>1, <1>3, <2>1
    <2> QED BY ONLY <1>2, <2>1, <2>2
  <1> QED BY <1>1, <1>4 DEF Over

-----------------------------------------------------------------------------
(* What each call keeps *)

\* What the last call promised of the table it left.
Promised == OrdinaryComplete /\ ObliteratorEmpties /\ ReplicaFaithful

\* Most calls promise nothing.
LEMMA Nothing ==
  ASSUME ret'.op # "ended", ret'.op # "replica"
  PROVE  Promised'
  BY DEF Promised, OrdinaryComplete, ObliteratorEmpties, ReplicaFaithful

\* A step that changes the table only by a new silo.
LEMMA NewSiloStep ==
  ASSUME TableInv, NEW type \in types, NEW x, GoodSilo(type, x), x.gen >= NewGen,
         slots' = WithNew(type, x), types' = types, iters' = iters
  PROVE  TableInv' /\ slots'[NewIdx] = [type |-> type, x |-> x]
         /\ \A j \in Slots : j # NewIdx => slots'[j] = slots[j]
  <1>1. PICK sl2 : sl2 = slots'
    OBVIOUS
  <1>2. /\ GoodSlots(types, sl2) /\ GoodIters(types, sl2, iters)
        /\ sl2[NewIdx] = [type |-> type, x |-> x]
        /\ \A j \in Slots : j # NewIdx => sl2[j] = slots[j]
    BY <1>1, NewSiloKeeps
  <1> QED BY <1>1, <1>2 DEF TableInv

\* mkstack, mkqueue, mkseq, mkset and mkmap.
LEMMA MakeKeeps ==
  ASSUME TableInv, NEW type \in types, Make(type)
  PROVE  TableInv' /\ Promised'
  <1>1. Promised'
    <2>1. ret' = [op |-> "quiet"]
      BY DEF Make, Silent
    <2> QED BY <2>1, Nothing
  <1>2. CASE slots' = Created(type, LAMBDA x : x)
    <2>1. slots' = WithNew(type, NewObj(type, NewGen))
      BY <1>2 DEF Created, WithNew, Placed, NewGen, Slots
    <2>2. GoodSilo(type, NewObj(type, NewGen)) /\ NewObj(type, NewGen).gen = NewGen
      BY NewGenIs, NewObjGood
    <2>3. NewGen >= NewGen
      BY NewGenIs
    <2>4. types' = types /\ iters' = iters
      BY DEF Make
    <2>5. PICK x : x = NewObj(type, NewGen)
      OBVIOUS
    <2>6. GoodSilo(type, x) /\ x.gen >= NewGen /\ slots' = WithNew(type, x)
      BY <2>1, <2>2, <2>3, <2>5
    <2>7. TableInv'
      BY <2>4, <2>6, NewSiloStep
    <2> QED BY <1>1, <2>7
  <1>3. CASE slots' = slots
    <2>1. types' = types /\ iters' = iters
      BY DEF Make
    <2> QED BY <1>1, <1>3, <2>1 DEF TableInv
  <1> QED BY <1>2, <1>3 DEF Make

\* A destroyed silo leaves a later generation behind; its iterators are
\* history.
LEMMA DestroyKeeps ==
  ASSUME TableInv, NEW desc \in Descs, Destroy(desc)
  PROVE  TableInv' /\ Promised'
  <1> DEFINE i == desc.idx
             slot == slots[desc.idx]
             x2 == NewObj(desc.type, slots[desc.idx].x.gen + 1)
             new == [type |-> "free", x |-> x2]
  <1>1. Promised'
    <2>1. ret' = [op |-> "quiet"]
      BY DEF Destroy, Silent
    <2> QED BY <2>1, Nothing
  <1>2. /\ Valid(desc) /\ types' = types
        /\ slots' = [slots EXCEPT ![i].type = "free", ![i].x = x2]
        /\ iters' = [n \in DOMAIN iters |->
             IF Over(n, desc) THEN [iters[n] EXCEPT !.mine = FALSE] ELSE iters[n]]
    BY DEF Destroy
  <1>3. /\ i \in DOMAIN slots /\ desc.type \in types /\ slot.type = desc.type
        /\ slot = [type |-> desc.type, x |-> slot.x] /\ slot.x.gen \in Nat
        /\ GoodSlots(types, slots) /\ GoodIters(types, slots, iters)
    BY <1>2, DescIs DEF TableInv
  <1>4. GoodSilo(desc.type, x2) /\ x2.gen = slot.x.gen + 1 /\ x2.gen \in Nat
    <2>1. slot.x.gen + 1 \in Nat
      BY <1>3
    <2> QED BY <1>3, <2>1, NewObjGood
  <1> HIDE DEF x2
  <1>5. PICK sl2, its2 : sl2 = slots' /\ its2 = iters'
    OBVIOUS
  <1>6. NowPlaced(types, slots, i, new, sl2)
    <2>1. new = [slot EXCEPT !.type = "free", !.x = x2]
      <3>1. PICK s, r : s = slot /\ r = [s EXCEPT !.type = "free", !.x = x2]
        OBVIOUS
      <3>2. s = [type |-> s.type, x |-> s.x]
        BY <1>3, <3>1
      <3>3. r = [type |-> "free", x |-> x2]
        BY ONLY <3>1, <3>2
      <3> QED BY <3>1, <3>3
    <2>2. sl2 = Placed(slots, i, new)
      BY <1>2, <1>3, <1>5, <2>1 DEF Placed
    <2>3. GoodSlot(types, new)
      BY <1>4 DEF GoodSlot
    <2> HIDE DEF new
    <2>4. Placing(types, slots, i, new, sl2)
      BY <1>3, <2>2, <2>3 DEF Placing
    <2> QED BY ONLY <2>4, SlotPlaced
  <1>7. new.x.gen \in Nat /\ new.x.gen > slot.x.gen
    BY <1>3, <1>4
  <1> HIDE DEF new
  <1>8. ASSUME NEW n \in DOMAIN iters
        PROVE  IF its2[n].live
                 THEN /\ its2[n] \in LiveIter([idx : DOMAIN slots, type : types])
                      /\ Fits(its2[n], sl2[its2[n].desc.idx])
                 ELSE its2[n] \in [live : {FALSE}]
    <2>1. PICK it, D : it = iters[n] /\ D = [idx : DOMAIN slots, type : types]
      OBVIOUS
    <2>2. its2[n] = IF Over(n, desc) THEN [it EXCEPT !.mine = FALSE] ELSE it
      BY <1>2, <1>5, <2>1
    <2>3. CASE ~it.live
      <3>1. its2[n] = it
        BY <2>1, <2>2, <2>3 DEF Over
      <3>2. it \in AnyIter(D)
        BY <1>3, <2>1, SeqWider DEF GoodIters
      <3> QED BY <2>3, <3>1, <3>2 DEF AnyIter, LiveIter
    <2>4. CASE it.live
      <3>1. it \in LiveIter(D) /\ Fits(it, slots[it.desc.idx]) /\ it.desc.idx \in DOMAIN slots
        BY <1>3, <2>1, <2>4, IterShape
      <3>2. PICK it2 : it2 = its2[n]
        OBVIOUS
      <3>3. it2 \in LiveIter(D) /\ Fits(it2, slots[it.desc.idx]) /\ it2.desc = it.desc /\ it2.live
        <4>1. it2 = it \/ it2 = [it EXCEPT !.mine = FALSE]
          BY <2>2, <3>2
        <4>2. CASE it2 = it
          BY <2>4, <3>1, <4>2
        <4>3. CASE it2 = [it EXCEPT !.mine = FALSE]
          <5>1. it2 \in LiveIter(D) /\ Fits(it2, slots[it.desc.idx])
            BY <3>1, <4>3, FitsTold
          <5> QED BY <2>4, <3>1, <4>3, <5>1 DEF LiveIter
        <4> QED BY <4>1, <4>2, <4>3
      <3>4. CASE it.desc.idx # i
        BY <1>6, <2>1, <3>1, <3>2, <3>3, <3>4 DEF NowPlaced
      <3>5. CASE it.desc.idx = i
        <4>1. it2.obliterate => ~it2.mine
          <5>1. CASE Over(n, desc)
            BY <2>2, <3>1, <3>2, <5>1 DEF LiveIter
          <5>2. CASE ~Over(n, desc)
            BY <1>2, <2>1, <2>2, <2>4, <3>2, <3>5, <5>2, OverIs
          <5> QED BY <5>1, <5>2
        <4>2. PICK sl : sl = slot
          OBVIOUS
        <4>3. /\ sl.x.gen \in Nat /\ new.x.gen \in Nat /\ it2 \in LiveIter(D)
              /\ Fits(it2, sl) /\ new.x.gen > sl.x.gen
          BY <1>3, <1>7, <3>3, <3>5, <4>2
        <4>4. Fits(it2, new)
          BY ONLY <4>1, <4>3, FitsGone
        <4>5. sl2[it2.desc.idx] = new
          BY <1>6, <3>3, <3>5 DEF NowPlaced
        <4> QED BY <2>1, <3>2, <3>3, <4>4, <4>5
      <3> QED BY <3>4, <3>5
    <2> QED BY <2>3, <2>4
  <1>9. its2 = [n \in DOMAIN iters |-> its2[n]]
    BY <1>2, <1>5
  <1>10. GoodIters(types, sl2, its2)
    BY <1>3, <1>6, <1>8, <1>9, ItersKept
  <1>11. GoodSlots(types, sl2)
    BY <1>6 DEF NowPlaced
  <1>12. TableInv'
    BY <1>2, <1>5, <1>10, <1>11 DEF TableInv
  <1> QED BY <1>1, <1>12

\* A step that calls a function on one silo.
LEMMA SiloStep ==
  ASSUME TableInv, NEW i \in DOMAIN slots, slots[i].type # "free", NEW y,
         GoodSilo(slots[i].type, y), NEW sl2, sl2 = [slots EXCEPT ![i].x = y],
         NEW new, new = [type |-> slots[i].type, x |-> y], Changed(slots[i], new)
  PROVE  /\ NowPlaced(types, slots, i, new, sl2) /\ GoodSlots(types, sl2)
         /\ slots[i].x.gen \in Nat /\ new.x.gen \in Nat
  <1>1. GoodSlots(types, slots)
    BY DEF TableInv
  <1>2. NowPlaced(types, slots, i, new, sl2)
    BY <1>1, SiloChanged
  <1>3. slots[i].x.gen \in Nat /\ new.x.gen \in Nat
    BY <1>1, SlotShape, SiloGen
  <1> QED BY <1>2, <1>3 DEF NowPlaced

\* Iterators are told of what is added and what is rebuilt; the others find a
\* later generation, the same elements, or some fewer.
LEMMA MutateKeeps ==
  ASSUME TableInv, NEW desc \in Descs, Mutate(desc)
  PROVE  TableInv' /\ Promised'
  <1> DEFINE i == desc.idx
             slot == slots[desc.idx]
  <1>1. Promised'
    <2>1. ret' = [op |-> "quiet"]
      BY DEF Mutate, Silent
    <2> QED BY <2>1, Nothing
  <1>2. PICK y \in IF Linear(desc.type) THEN LinearMutants(slot.x) ELSE HashMutants(desc.type, slot.x) :
          /\ slots' = [slots EXCEPT ![i].x = y]
          /\ iters' = [n \in DOMAIN iters |->
               IF Over(n, desc) /\ ~Shrinks(desc.type, slot.x, y)
                 THEN [iters[n] EXCEPT !.calm = FALSE] ELSE iters[n]]
    BY DEF Mutate
  <1>3. Valid(desc) /\ types' = types
    BY DEF Mutate
  <1>4. /\ i \in DOMAIN slots /\ desc.type \in types /\ slot.type = desc.type /\ slot.type # "free"
        /\ GoodSilo(desc.type, slot.x) /\ GoodIters(types, slots, iters)
    BY <1>3, DescIs DEF TableInv
  <1>5. PICK sl2, its2, new : /\ sl2 = slots' /\ its2 = iters'
                              /\ new = [type |-> slot.type, x |-> y]
    OBVIOUS
  <1>6. GoodSilo(slot.type, y) /\ Changed(slot, new)
    <2>1. PICK s, type : s = slot /\ type = desc.type
      OBVIOUS
    <2>2. /\ type # "free" /\ s.type = type /\ GoodSilo(type, s.x)
          /\ y \in IF Linear(type) THEN LinearMutants(s.x) ELSE HashMutants(type, s.x)
          /\ new = [type |-> type, x |-> y]
      BY <1>2, <1>4, <1>5, <2>1
    <2>3. GoodSilo(type, y) /\ Changed(s, new)
      BY ONLY <2>2, MutantChanges
    <2> QED BY <1>4, <2>1, <2>3
  <1>7. /\ NowPlaced(types, slots, i, new, sl2) /\ GoodSlots(types, sl2)
        /\ slot.x.gen \in Nat /\ new.x.gen \in Nat
    BY <1>2, <1>4, <1>5, <1>6, SiloStep
  <1>8. ASSUME NEW n \in DOMAIN iters
        PROVE  IF its2[n].live
                 THEN /\ its2[n] \in LiveIter([idx : DOMAIN slots, type : types])
                      /\ Fits(its2[n], sl2[its2[n].desc.idx])
                 ELSE its2[n] \in [live : {FALSE}]
    <2>1. PICK it, it2, D : it = iters[n] /\ it2 = its2[n] /\ D = [idx : DOMAIN slots, type : types]
      OBVIOUS
    <2>2. it2 = IF Over(n, desc) /\ ~Shrinks(desc.type, slot.x, y)
                THEN [it EXCEPT !.calm = FALSE] ELSE it
      BY <1>2, <1>5, <2>1
    <2>3. CASE ~it.live
      <3>1. it2 = it
        BY <2>1, <2>2, <2>3 DEF Over
      <3>2. it \in AnyIter(D)
        BY <1>4, <2>1, SeqWider DEF GoodIters
      <3> QED BY <2>1, <2>3, <3>1, <3>2 DEF AnyIter, LiveIter
    <2>4. CASE it.live
      <3>1. it \in LiveIter(D) /\ Fits(it, slots[it.desc.idx])
        BY <1>4, <2>1, <2>4, IterShape
      <3>2. it2 = it \/ it2 = [it EXCEPT !.calm = FALSE]
        BY <2>2
      <3>3. it2 \in LiveIter(D) /\ Fits(it2, slots[it.desc.idx]) /\ it2.desc = it.desc
        <4>1. CASE it2 = it
          BY <3>1, <4>1
        <4>2. CASE it2 = [it EXCEPT !.calm = FALSE]
          <5>1. it2 \in LiveIter(D) /\ Fits(it2, slots[it.desc.idx])
            BY <3>1, <4>2, FitsTold
          <5> QED BY <3>1, <4>2, <5>1 DEF LiveIter
        <4> QED BY <3>2, <4>1, <4>2
      <3>4. ASSUME it2.desc.idx = i, it2.obliterate, it2.mine, it2.calm, ~Linear(it2.desc.type)
            PROVE  Live(new.x.slot) \subseteq Live(slot.x.slot)
        <4>1. it2 = it
          BY <2>2, <3>1, <3>4 DEF LiveIter
        <4>2. Over(n, desc)
          BY <1>3, <2>1, <2>4, <3>4, <4>1, OverIs
        <4>3. Shrinks(desc.type, slot.x, y)
          BY <2>2, <3>1, <3>4, <4>1, <4>2 DEF LiveIter
        <4>4. ~Linear(desc.type)
          BY <2>1, <3>4, <4>1, <4>2 DEF Over
        <4> QED BY <1>5, <4>3, <4>4 DEF Shrinks
      <3>5. it2.desc.idx = i => Stays(it2, slot, new)
        BY <1>6, <1>7, <3>4 DEF Stays
      <3>6. Fits(it2, sl2[it2.desc.idx])
        BY <1>7, <2>1, <3>3, <3>5, FitsAfter
      <3> QED BY <2>1, <3>3, <3>6 DEF LiveIter
    <2> QED BY <2>3, <2>4
  <1>9. its2 = [n \in DOMAIN iters |-> its2[n]]
    BY <1>2, <1>5
  <1>10. GoodIters(types, sl2, its2)
    BY <1>4, <1>7, <1>8, <1>9, ItersKept
  <1>11. TableInv'
    BY <1>3, <1>5, <1>7, <1>10 DEF TableInv
  <1> QED BY <1>1, <1>11

-----------------------------------------------------------------------------
(* What each call of an iterator keeps *)

\* A new iterator: at the first element, with nothing handed out.
LEMMA NewIterGood ==
  ASSUME TableInv, NEW desc \in Descs, Valid(desc), NEW obliterate \in BOOLEAN,
         NEW x, x = slots[desc.idx].x,
         NEW it, it = [desc |-> desc, gen |-> x.gen, obliterate |-> obliterate, live |-> TRUE,
                       pos |-> IF Linear(desc.type) THEN 0 ELSE SeekLive(x, 0),
                       mine |-> TRUE, calm |-> TRUE,
                       made |-> Contents(desc.type, x), got |-> <<>>]
  PROVE  it \in LiveIter([idx : DOMAIN slots, type : types]) /\ Fits(it, slots[desc.idx])
  <1>1. /\ desc \in [idx : DOMAIN slots, type : types] /\ x.gen \in Nat
        /\ slots[desc.idx].type = desc.type /\ GoodSilo(desc.type, x)
    BY DescIs DEF Descs, Slots
  <1>2. PICK pos, made : /\ pos = IF Linear(desc.type) THEN 0 ELSE SeekLive(x, 0)
                         /\ made = Contents(desc.type, x)
    OBVIOUS
  <1>3. pos \in Nat /\ Reached(desc.type, x, pos, 0)
    BY <1>1, <1>2, ReachedFirst
  <1>4. made \in Seq(Item) /\ Len(made) \in Nat /\ <<>> \in Seq(Item) /\ Len(<<>>) = 0
    BY <1>1, <1>2, ContentsAre, SiloGen
  <1>5. it = [desc |-> desc, gen |-> x.gen, obliterate |-> obliterate, live |-> TRUE,
              pos |-> pos, mine |-> TRUE, calm |-> TRUE, made |-> made, got |-> <<>>]
    BY <1>2
  <1>6. it \in LiveIter([idx : DOMAIN slots, type : types])
    BY <1>1, <1>3, <1>4, <1>5 DEF LiveIter
  <1>7. /\ it.desc = desc /\ it.gen = x.gen /\ it.obliterate = obliterate /\ it.pos = pos
        /\ it.made = made /\ it.got = <<>>
    BY <1>5
  <1>8. CASE obliterate
    <2>1. Linear(desc.type) => it.pos = 0
      BY <1>2, <1>7
    <2>2. ~Linear(desc.type) => \A i \in Live(x.slot) : it.pos <= i
      <3>1. ASSUME ~Linear(desc.type), NEW i \in Live(x.slot) PROVE pos <= i
        <4>1. GoodTable(x) /\ pos = FirstFrom(x, 0)
          BY <1>1, <1>2, <3>1 DEF GoodSilo, SeekLive
        <4>2. i \in Nat /\ i >= 0
          BY <4>1, LiveShape
        <4> QED BY <4>1, <4>2, SeekIs
      <3> QED BY <1>7, <3>1
    <2> QED BY <1>1, <1>6, <1>7, <1>8, <2>1, <2>2 DEF Fits, ObliteratorAt
  <1>9. CASE ~obliterate
    <2>1. Begins(it.got, it.made)
      BY <1>4, <1>7 DEF Begins
    <2>2. it.gen <= slots[desc.idx].x.gen
      BY <1>1, <1>7
    <2>3. it.made = Contents(slots[desc.idx].type, slots[desc.idx].x)
      BY <1>1, <1>2, <1>7
    <2>4. Reached(slots[desc.idx].type, slots[desc.idx].x, it.pos, Len(it.got))
      BY <1>1, <1>3, <1>4, <1>7
    <2> QED BY <1>1, <1>6, <1>7, <1>9, <2>1, <2>2, <2>3, <2>4 DEF Fits, OrdinaryAt
  <1> QED BY <1>6, <1>7, <1>8, <1>9

\* An iterator in the place of a dead one, or behind the last.
LEMMA IterPlaced ==
  ASSUME NEW ts, NEW sl, NEW its, GoodIters(ts, sl, its), NEW it,
         it \in LiveIter([idx : DOMAIN sl, type : ts]), Fits(it, sl[it.desc.idx]),
         NEW its2, its2 = Append(its, it) \/ \E n \in DOMAIN its : its2 = [its EXCEPT ![n] = it]
  PROVE  GoodIters(ts, sl, its2)
  <1>1. PICK S : S = AnyIter([idx : DOMAIN sl, type : ts])
    OBVIOUS
  <1>2. /\ its \in Seq(S) /\ it \in S /\ Len(its) \in Nat /\ DOMAIN its = 1..Len(its)
        /\ \A n \in DOMAIN its : its[n].live => Fits(its[n], sl[its[n].desc.idx])
    <2>1. its \in Seq(S) /\ \A n \in DOMAIN its : its[n].live => Fits(its[n], sl[its[n].desc.idx])
      BY <1>1 DEF GoodIters
    <2>2. it \in S
      BY <1>1 DEF AnyIter
    <2>3. Len(its) \in Nat /\ DOMAIN its = 1..Len(its)
      BY ONLY <2>1, SeqWider
    <2> QED BY <2>1, <2>2, <2>3
  <1>3. CASE its2 = Append(its, it)
    <2>1. /\ its2 \in Seq(S) /\ Len(its2) = Len(its) + 1 /\ its2[Len(its) + 1] = it
          /\ \A n \in 1..Len(its) : its2[n] = its[n]
      BY ONLY <1>2, <1>3, AppendProperties
    <2>2. DOMAIN its2 = 1..(Len(its) + 1)
      BY <2>1, LenProperties
    <2>3. \A n \in DOMAIN its2 : its2[n].live => Fits(its2[n], sl[its2[n].desc.idx])
      <3> TAKE n \in DOMAIN its2
      <3>0. Len(its) \in Nat /\ n \in 1..(Len(its) + 1)
        BY <1>2, <2>2
      <3>1. n \in 1..Len(its) \/ n = Len(its) + 1
        BY ONLY <3>0
      <3> QED BY <1>2, <2>1, <3>1
    <2> QED BY <1>1, <2>1, <2>3 DEF GoodIters
  <1>4. CASE \E n \in DOMAIN its : its2 = [its EXCEPT ![n] = it]
    <2>1. PICK n \in DOMAIN its : its2 = [its EXCEPT ![n] = it]
      BY <1>4
    <2>2. its2 \in Seq(S)
      BY ONLY <1>2, <2>1
    <2>3. DOMAIN its2 = DOMAIN its /\ \A m \in DOMAIN its : its2[m] = IF m = n THEN it ELSE its[m]
      BY <2>1
    <2> QED BY <1>1, <1>2, <2>2, <2>3 DEF GoodIters
  <1> QED BY <1>3, <1>4

\* mkiter and mkoter.
LEMMA MakeIterKeeps ==
  ASSUME TableInv, NEW desc \in Descs, NEW obliterate \in BOOLEAN, MakeIter(desc, obliterate)
  PROVE  TableInv' /\ Promised'
  <1>1. Promised'
    <2>1. ret' = [op |-> "quiet"]
      BY DEF MakeIter, Silent
    <2> QED BY <2>1, Nothing
  <1>2. PICK x, it : /\ x = slots[desc.idx].x
          /\ it = [desc |-> desc, gen |-> x.gen, obliterate |-> obliterate, live |-> TRUE,
                   pos |-> IF Linear(desc.type) THEN 0 ELSE SeekLive(x, 0),
                   mine |-> TRUE, calm |-> TRUE,
                   made |-> Contents(desc.type, x), got |-> <<>>]
    OBVIOUS
  <1>3. Valid(desc) /\ NewIter(it) /\ types' = types /\ slots' = slots
    BY <1>2 DEF MakeIter
  <1>4. it \in LiveIter([idx : DOMAIN slots, type : types]) /\ Fits(it, slots[desc.idx])
    BY <1>2, <1>3, NewIterGood
  <1>5. it.desc = desc
    BY <1>2
  <1>6. GoodIters(types, slots, iters)
    BY DEF TableInv
  <1>7. PICK its2 : its2 = iters'
    OBVIOUS
  <1>8. its2 = Append(iters, it) \/ \E n \in DOMAIN iters : its2 = [iters EXCEPT ![n] = it]
    <2>1. CASE DeadIters = {}
      BY <1>3, <1>7, <2>1 DEF NewIter
    <2>2. CASE DeadIters # {}
      <3>1. DeadIters \subseteq Nat
        BY <1>6 DEF DeadIters, GoodIters
      <3>2. \E n \in DeadIters : \A m \in DeadIters : n <= m
        BY <2>2, <3>1, LeastOf
      <3>3. PICK k : k = CHOOSE n \in DeadIters : \A m \in DeadIters : n <= m
        OBVIOUS
      <3>4. k \in DeadIters
        BY <3>2, <3>3
      <3>5. its2 = [iters EXCEPT ![k] = it]
        BY <1>3, <1>7, <2>2, <3>3 DEF NewIter
      <3> QED BY <3>4, <3>5 DEF DeadIters
    <2> QED BY <2>1, <2>2
  <1>9. GoodIters(types, slots, its2)
    BY <1>4, <1>5, <1>6, <1>8, IterPlaced
  <1>10. TableInv'
    BY <1>3, <1>7, <1>9 DEF TableInv
  <1> QED BY <1>1, <1>10

\* An iterator that is removed leaves its place.
LEMMA RemoveIterKeeps ==
  ASSUME TableInv, NEW n \in DOMAIN iters, RemoveIter(n)
  PROVE  TableInv' /\ Promised'
  <1>1. Promised'
    <2>1. ret' = [op |-> "quiet"]
      BY DEF RemoveIter, Silent
    <2> QED BY <2>1, Nothing
  <1>2. iters' = [iters EXCEPT ![n] = [live |-> FALSE]] /\ types' = types /\ slots' = slots
    BY DEF RemoveIter
  <1>3. GoodIters(types, slots, iters)
    BY DEF TableInv
  <1>4. PICK its2 : its2 = iters'
    OBVIOUS
  <1>5. its2 = [m \in DOMAIN iters |-> its2[m]]
    BY <1>2, <1>4
  <1>6. \A m \in DOMAIN iters :
          /\ its2[m] \in AnyIter([idx : DOMAIN slots, type : types])
          /\ its2[m].live => Fits(its2[m], slots[its2[m].desc.idx])
    <2> TAKE m \in DOMAIN iters
    <2>1. CASE m = n
      <3>1. its2[m] = [live |-> FALSE]
        BY <1>2, <1>4, <2>1
      <3> QED BY <3>1 DEF AnyIter
    <2>2. CASE m # n
      <3>1. its2[m] = iters[m]
        BY <1>2, <1>4, <2>2
      <3> QED BY <1>3, <3>1, SeqWider DEF GoodIters
    <2> QED BY <2>1, <2>2
  <1>7. GoodIters(types, slots, its2)
    BY <1>3, <1>5, <1>6, ItersMapped
  <1>8. TableInv'
    BY <1>2, <1>4, <1>7 DEF TableInv
  <1> QED BY <1>1, <1>8

\* What an iterator finds and where it goes on.
LEMMA NextIs ==
  ASSUME NEW it, NEW x
  PROVE  /\ Here(it, x) = Spot(it.desc.type, x, it.pos)
         /\ AtEnd(it, x) <=> Here(it, x) >= EndOf(it.desc.type, x)
         /\ Yielded(it, x) = ElementAt(it.desc.type, x, Here(it, x))
         /\ ~it.obliterate => Ahead(it, x, x) = After(it.desc.type, x, Here(it, x))
  BY DEF Here, AtEnd, Yielded, Ahead, Spot, EndOf, ElementAt, After

\* What an iterator hands out is an element of its silo.
LEMMA YieldedItem ==
  ASSUME NEW it, NEW x, GoodSilo(it.desc.type, x), it.pos \in Nat, ~AtEnd(it, x)
  PROVE  Yielded(it, x) \in Item
  <1>1. CASE Linear(it.desc.type)
    <2>1. GoodLinear(x) /\ ~(it.pos >= x.len)
      BY <1>1 DEF GoodSilo, AtEnd, Here
    <2>2. it.pos \in 0..(x.cap - 1)
      BY <2>1, LinearShape
    <2>3. x.data[L!Cell(x, it.pos)] \in Value \cup {Junk}
      BY <2>1, <2>2, CellThere
    <2> QED BY <1>1, <2>3 DEF Yielded, Item
  <1>2. CASE ~Linear(it.desc.type)
    <2>1. GoodTable(x) /\ ~(FirstFrom(x, it.pos) >= x.cap)
      BY <1>2 DEF GoodSilo, AtEnd, Here, SeekLive
    <2>2. FirstFrom(x, it.pos) \in Live(x.slot)
      <3>1. FirstFrom(x, it.pos) \in Nat /\ x.cap \in Nat
        BY <2>1, SeekIs, LiveShape
      <3>2. FirstFrom(x, it.pos) < x.cap
        BY <2>1, <3>1
      <3> QED BY <2>1, <3>2, SeekIs
    <2>3. x.slot[FirstFrom(x, it.pos)] \in Entry
      BY <2>1, <2>2, LiveShape
    <2> QED BY <1>2, <2>3 DEF Yielded, Here, SeekLive, Item
  <1> QED BY <1>1, <1>2

\* One more element handed out is still the beginning.
LEMMA BeginsNext ==
  ASSUME NEW got \in Seq(Item), NEW made \in Seq(Item), Begins(got, made),
         Len(got) + 1 <= Len(made), NEW e \in Item, e = made[Len(got) + 1]
  PROVE  /\ Append(got, e) \in Seq(Item) /\ Len(Append(got, e)) = Len(got) + 1
         /\ Begins(Append(got, e), made)
  <1>1. PICK q : q = Append(got, e)
    OBVIOUS
  <1>2. /\ q \in Seq(Item) /\ Len(q) = Len(got) + 1 /\ q[Len(got) + 1] = e
        /\ \A n \in 1..Len(got) : q[n] = got[n]
    BY <1>1, AppendProperties
  <1>3. Len(got) \in Nat /\ \A k \in 1..Len(got) : got[k] = made[k]
    BY LenProperties DEF Begins
  <1>4. \A k \in 1..Len(q) : q[k] = made[k]
    <2> TAKE k \in 1..Len(q)
    <2>0. Len(got) \in Nat /\ k \in 1..(Len(got) + 1)
      BY <1>2, <1>3
    <2>1. k \in 1..Len(got) \/ k = Len(got) + 1
      BY ONLY <2>0
    <2> QED BY <1>2, <1>3, <2>1
  <1> QED BY <1>1, <1>2, <1>4 DEF Begins

\* An iterator over a silo that is there and has more elements for it.
AtElement(D, it, slot) ==
  /\ it \in LiveIter(D) /\ it.desc.type # "free" /\ Fits(it, slot)
  /\ slot.type = it.desc.type /\ GoodSilo(it.desc.type, slot.x) /\ slot.x.gen \in Nat
  /\ Current(it, slot.x) /\ ~AtEnd(it, slot.x)

\* The iterator after the yield, when its silo has become y.
MovedOn(it, x, y, gen) ==
  [it EXCEPT !.pos = Ahead(it, x, y), !.gen = gen, !.got = Append(it.got, Yielded(it, x))]

\* An ordinary iterator that moves on by one element.
LEMMA OrdinaryMoves ==
  ASSUME NEW D, NEW it, NEW slot, AtElement(D, it, slot), ~it.obliterate,
         NEW it2, it2 = MovedOn(it, slot.x, slot.x, it.gen)
  PROVE  it2 \in LiveIter(D) /\ it2.desc = it.desc /\ Fits(it2, slot)
  <1> DEFINE type == it.desc.type
             m == Len(it.got)
  <1>0. /\ it \in LiveIter(D) /\ Fits(it, slot) /\ GoodSilo(it.desc.type, slot.x)
        /\ slot.x.gen \in Nat /\ Current(it, slot.x) /\ ~AtEnd(it, slot.x)
    BY DEF AtElement
  <1>1. /\ it.gen \in Nat /\ it.pos \in Nat /\ it.made \in Seq(Item) /\ it.got \in Seq(Item)
        /\ it.gen = slot.x.gen /\ m \in Nat
    BY <1>0, LenProperties DEF LiveIter, Current
  <1>2. /\ Begins(it.got, it.made) /\ slot.type = type /\ it.made = Contents(type, slot.x)
        /\ Reached(type, slot.x, it.pos, m)
    BY <1>0, <1>1 DEF Fits, OrdinaryAt
  <1>3. Len(it.made) = slot.x.len /\ m <= slot.x.len
    BY <1>0, <1>2, ContentsAre DEF Begins
  <1>4. PICK x, p, pos, e : /\ x = slot.x /\ p = Here(it, x) /\ pos = Ahead(it, x, x)
                            /\ e = Yielded(it, x)
    OBVIOUS
  <1>5. /\ p = Spot(type, x, it.pos) /\ ~(p >= EndOf(type, x)) /\ e = ElementAt(type, x, p)
        /\ pos = After(type, x, p)
    BY <1>0, <1>4, NextIs
  <1>6. /\ pos \in Nat /\ m + 1 <= x.len /\ e = Contents(type, x)[m + 1]
        /\ Reached(type, x, pos, m + 1)
    <2>1. /\ GoodSilo(type, x) /\ it.pos \in Nat /\ m \in Nat /\ m <= x.len
          /\ Reached(type, x, it.pos, m)
      BY <1>0, <1>1, <1>2, <1>3, <1>4
    <2> HIDE DEF type, m
    <2> QED BY ONLY <1>5, <2>1, ReachedNext
  <1>7. e \in Item
    BY <1>0, <1>1, <1>4, YieldedItem
  <1>8. /\ Append(it.got, e) \in Seq(Item) /\ Len(Append(it.got, e)) = m + 1
        /\ Begins(Append(it.got, e), it.made)
    BY <1>1, <1>2, <1>3, <1>4, <1>6, <1>7, BeginsNext
  <1>9. PICK q : q = Append(it.got, e)
    OBVIOUS
  <1>10. it2 = [it EXCEPT !.pos = pos, !.gen = it.gen, !.got = q]
    BY <1>4, <1>9 DEF MovedOn
  <1>11. /\ it2 \in LiveIter(D) /\ it2.desc = it.desc /\ it2.gen = it.gen /\ it2.pos = pos
         /\ it2.got = q /\ it2.made = it.made /\ it2.obliterate = it.obliterate
    BY <1>0, <1>1, <1>6, <1>8, <1>9, <1>10 DEF LiveIter
  <1>12. OrdinaryAt(it2, slot)
    <2>1. it2.gen <= slot.x.gen
      BY <1>0, <1>1, <1>11
    <2>2. Begins(it2.got, it2.made) /\ slot.type = it2.desc.type
      BY <1>2, <1>8, <1>9, <1>11
    <2>3. it2.made = Contents(slot.type, slot.x)
      BY <1>2, <1>11
    <2>4. Reached(slot.type, slot.x, it2.pos, Len(it2.got))
      BY <1>2, <1>4, <1>6, <1>8, <1>9, <1>11
    <2> QED BY <2>1, <2>2, <2>3, <2>4 DEF OrdinaryAt
  <1> QED BY <1>11, <1>12 DEF Fits

\* An obliterating one that takes an element.
LEMMA ObliteratorMoves ==
  ASSUME NEW D, NEW it, NEW slot, AtElement(D, it, slot), it.obliterate,
         NEW y, y = Taken(it, slot.x), NEW new, new = [type |-> it.desc.type, x |-> y],
         NEW it2, it2 = MovedOn(it, slot.x, y, y.gen)
  PROVE  it2 \in LiveIter(D) /\ it2.desc = it.desc /\ Fits(it2, new)
  <1> DEFINE type == it.desc.type
             h == Here(it, slot.x)
  <1>0. /\ it \in LiveIter(D) /\ it.desc.type # "free" /\ Fits(it, slot) /\ slot.type = it.desc.type
        /\ GoodSilo(it.desc.type, slot.x) /\ ~AtEnd(it, slot.x)
    BY DEF AtElement
  <1>1. it.pos \in Nat /\ it.got \in Seq(Item)
    BY <1>0 DEF LiveIter
  <1>2. ObliteratorAt(it, slot)
    BY <1>0 DEF Fits
  <1>3. /\ GoodSilo(type, y)
        /\ ~Linear(type) => /\ h \in Live(slot.x.slot) /\ h \in Nat
                            /\ Live(y.slot) = Live(slot.x.slot) \ {h}
                            /\ \A i \in Live(slot.x.slot) : it.pos <= i => h <= i
    <2>1. Linear(type) => it.pos = 0
      BY <1>2 DEF ObliteratorAt
    <2> QED BY <1>0, <1>1, <2>1, TakenChanges
  <1>4. Yielded(it, slot.x) \in Item /\ y.gen \in Nat
    BY <1>0, <1>1, <1>3, YieldedItem, SiloGen
  <1>5. PICK pos, q : pos = Ahead(it, slot.x, y) /\ q = Append(it.got, Yielded(it, slot.x))
    OBVIOUS
  <1> HIDE DEF h
  <1>6. /\ pos \in Nat /\ (Linear(type) => pos = 0)
        /\ ~Linear(type) => \A i \in Live(y.slot) : i >= h + 1 => pos <= i
    <2>1. CASE Linear(type)
      BY <1>1, <1>2, <1>5, <2>1 DEF Ahead, ObliteratorAt
    <2>2. CASE ~Linear(type)
      <3>1. GoodTable(y) /\ pos = FirstFrom(y, h + 1) /\ h + 1 \in Nat
        BY <1>3, <1>5, <2>2 DEF Ahead, GoodSilo, SeekLive, h
      <3> QED BY <2>2, <3>1, SeekIs
    <2> QED BY <2>1, <2>2
  <1>7. q \in Seq(Item)
    BY <1>1, <1>4, <1>5
  <1>8. /\ it2 \in LiveIter(D) /\ it2.desc = it.desc /\ it2.pos = pos /\ it2.mine = it.mine
        /\ it2.calm = it.calm /\ it2.obliterate = it.obliterate
    BY <1>0, <1>4, <1>5, <1>6, <1>7 DEF LiveIter, MovedOn
  <1>9. ASSUME it.mine, it.calm, ~Linear(type), NEW i \in Live(y.slot) PROVE pos <= i
    <2>1. i \in Live(slot.x.slot) /\ i # h /\ h \in Nat
      BY <1>3, <1>9
    <2>2. it.pos <= i
      BY <1>2, <1>9, <2>1 DEF ObliteratorAt
    <2>3. i \in Nat
      BY <1>3, <1>9, LiveShape DEF GoodSilo
    <2>4. h <= i
      BY <1>3, <1>9, <2>1, <2>2
    <2>5. i >= h + 1
      BY <2>1, <2>3, <2>4
    <2> QED BY <1>6, <1>9, <2>5
  <1>10. ObliteratorAt(it2, new)
    BY <1>6, <1>8, <1>9 DEF ObliteratorAt
  <1> QED BY <1>8, <1>10 DEF Fits

\* An element taken by one iterator is a change like any other to the rest.
LEMMA NextYieldsKeeps ==
  ASSUME TableInv, NEW n \in DOMAIN iters, NextYields(n)
  PROVE  TableInv' /\ Promised'
  <1>1. Promised'
    <2>1. ret' = [op |-> "quiet"]
      BY DEF NextYields, Silent
    <2> QED BY <2>1, Nothing
  <1>2. PICK it, i, slot, y, it2 :
          /\ it = iters[n] /\ i = it.desc.idx /\ slot = slots[i]
          /\ y = IF it.obliterate THEN Taken(it, slot.x) ELSE slot.x
          /\ it2 = MovedOn(it, slot.x, y, IF it.obliterate THEN y.gen ELSE it.gen)
    OBVIOUS
  <1>3. /\ it.live /\ Valid(it.desc) /\ types' = types
        /\ Current(it, slot.x) /\ ~AtEnd(it, slot.x)
        /\ slots' = [slots EXCEPT ![i].x = y] /\ iters' = [iters EXCEPT ![n] = it2]
    BY <1>2 DEF NextYields, MovedOn
  <1>4. PICK D : D = [idx : DOMAIN slots, type : types]
    OBVIOUS
  <1>5. /\ it \in LiveIter(D) /\ Fits(it, slot) /\ it.desc \in Descs /\ i \in DOMAIN slots
        /\ GoodIters(types, slots, iters)
    <2>1. GoodIters(types, slots, iters)
      BY DEF TableInv
    <2>2. it \in LiveIter(D) /\ Fits(it, slot) /\ i \in DOMAIN slots
      BY <1>2, <1>3, <1>4, <2>1, IterShape
    <2>3. it.desc \in D
      BY <2>2 DEF LiveIter
    <2> QED BY <1>4, <2>1, <2>2, <2>3 DEF Descs, Slots
  <1>6. /\ slot.type = it.desc.type /\ it.desc.type # "free" /\ GoodSilo(it.desc.type, slot.x)
        /\ slot.x.gen \in Nat /\ slot = [type |-> it.desc.type, x |-> slot.x]
    BY <1>2, <1>3, <1>5, DescIs
  <1>7. PICK new : new = [type |-> it.desc.type, x |-> y]
    OBVIOUS
  <1>8. /\ GoodSilo(it.desc.type, y) /\ Changed(slot, new)
        /\ ~Linear(it.desc.type) => Live(y.slot) \subseteq Live(slot.x.slot)
    <2>1. CASE ~it.obliterate
      BY <1>2, <1>6, <1>7, <2>1 DEF Changed
    <2>2. CASE it.obliterate
      <3>1. PICK type : type = it.desc.type
        OBVIOUS
      <3>2. /\ type # "free" /\ it.desc.type = type /\ it.pos \in Nat /\ slot.type = type
            /\ GoodSilo(type, slot.x) /\ (Linear(type) => it.pos = 0) /\ ~AtEnd(it, slot.x)
            /\ y = Taken(it, slot.x) /\ new = [type |-> type, x |-> y]
        BY <1>2, <1>3, <1>5, <1>6, <1>7, <2>2, <3>1 DEF Fits, ObliteratorAt, LiveIter
      <3>3. /\ GoodSilo(type, y) /\ Changed(slot, new)
            /\ ~Linear(type) => Live(y.slot) = Live(slot.x.slot) \ {Here(it, slot.x)}
        BY ONLY <3>2, TakenChanges
      <3> QED BY <3>1, <3>3
    <2> QED BY <2>1, <2>2
  <1>9. it2 \in LiveIter(D) /\ it2.desc = it.desc /\ Fits(it2, new)
    <2>0. AtElement(D, it, slot)
      BY <1>3, <1>5, <1>6 DEF AtElement
    <2>1. CASE ~it.obliterate
      <3>1. it2 = MovedOn(it, slot.x, slot.x, it.gen)
        BY <1>2, <2>1
      <3>2. it2 \in LiveIter(D) /\ it2.desc = it.desc /\ Fits(it2, slot)
        BY ONLY <2>0, <2>1, <3>1, OrdinaryMoves
      <3>3. slot = new
        BY <1>2, <1>6, <1>7, <2>1
      <3> QED BY <3>2, <3>3
    <2>2. CASE it.obliterate
      <3>1. y = Taken(it, slot.x) /\ it2 = MovedOn(it, slot.x, y, y.gen)
        BY <1>2, <2>2
      <3> QED BY ONLY <1>7, <2>0, <2>2, <3>1, ObliteratorMoves
    <2> QED BY <2>1, <2>2
  <1>10. PICK sl2, its2 : sl2 = slots' /\ its2 = iters'
    OBVIOUS
  <1>11. /\ NowPlaced(types, slots, i, new, sl2) /\ GoodSlots(types, sl2)
         /\ slot.x.gen \in Nat /\ new.x.gen \in Nat
    BY <1>2, <1>3, <1>5, <1>6, <1>7, <1>8, <1>10, SiloStep
  <1>12. ASSUME NEW m \in DOMAIN iters
         PROVE  IF its2[m].live
                  THEN /\ its2[m] \in LiveIter([idx : DOMAIN slots, type : types])
                       /\ Fits(its2[m], sl2[its2[m].desc.idx])
                  ELSE its2[m] \in [live : {FALSE}]
    <2>1. its2[m] = IF m = n THEN it2 ELSE iters[m]
      BY <1>3, <1>10
    <2>2. CASE m = n
      <3>1. sl2[it2.desc.idx] = new
        BY <1>2, <1>5, <1>9, <1>11 DEF NowPlaced
      <3>2. it2.live
        BY <1>9 DEF LiveIter
      <3> QED BY <1>4, <1>9, <2>1, <2>2, <3>1, <3>2
    <2>3. CASE m # n
      <3>1. PICK jt : jt = iters[m]
        OBVIOUS
      <3>2. CASE ~jt.live
        <4>1. jt \in AnyIter(D)
          BY <1>4, <1>5, <3>1, SeqWider DEF GoodIters
        <4> QED BY <2>1, <2>3, <3>1, <3>2, <4>1 DEF AnyIter, LiveIter
      <3>3. CASE jt.live
        <4>1. jt \in LiveIter(D) /\ Fits(jt, slots[jt.desc.idx])
          BY <1>4, <1>5, <3>1, <3>3, IterShape
        <4>2. ASSUME jt.desc.idx = i PROVE Stays(jt, slots[i], new)
          <5>1. ASSUME jt.obliterate, jt.mine, ~Linear(jt.desc.type)
                PROVE  Live(new.x.slot) \subseteq Live(slot.x.slot)
            <6>1. slot.type = jt.desc.type
              BY <1>2, <4>1, <4>2, <5>1 DEF Fits, ObliteratorAt
            <6> QED BY <1>6, <1>7, <1>8, <5>1, <6>1
          <5> QED BY <1>2, <1>8, <1>11, <5>1 DEF Stays
        <4>3. Fits(jt, sl2[jt.desc.idx])
          BY <1>4, <1>11, <4>1, <4>2, FitsAfter
        <4> QED BY <1>4, <2>1, <2>3, <3>1, <3>3, <4>1, <4>3
      <3> QED BY <3>2, <3>3
    <2> QED BY <2>2, <2>3
  <1>13. its2 = [m \in DOMAIN iters |-> its2[m]]
    BY <1>3, <1>10
  <1>14. GoodIters(types, sl2, its2)
    BY <1>5, <1>11, <1>12, <1>13, ItersKept
  <1>15. TableInv'
    BY <1>3, <1>10, <1>11, <1>14 DEF TableInv
  <1> QED BY <1>1, <1>15

\* An iterator over a silo that is there and has no more elements for it.
AtLast(D, it, slot) ==
  /\ it \in LiveIter(D) /\ Fits(it, slot)
  /\ slot.type = it.desc.type /\ GoodSilo(it.desc.type, slot.x)
  /\ Current(it, slot.x) /\ AtEnd(it, slot.x)

\* The iterator it has become, and what is then true of it and its silo.
Ended(D, it, it2, slot) ==
  /\ it2 \in LiveIter(D) /\ it2.desc = it.desc /\ Fits(it2, slot)
  /\ it2.obliterate = it.obliterate /\ it2.mine = it.mine /\ it2.calm = it.calm
  /\ ~it.obliterate => it2.got = it2.made
  /\ it.obliterate /\ it.mine /\ it.calm => slot.x.len = 0

\* The step to the end, for either kind of iterator.
LEMMA IterEnds ==
  ASSUME NEW D, NEW it, NEW slot, AtLast(D, it, slot),
         NEW it2, it2 = [it EXCEPT !.pos = Here(it, slot.x)]
  PROVE  Ended(D, it, it2, slot)
  <1> USE DEF AtLast, Ended
  <1> DEFINE type == it.desc.type
  <1>1. PICK x, p : x = slot.x /\ p = Here(it, x)
    OBVIOUS
  <1>2. /\ p = Spot(type, x, it.pos) /\ p >= EndOf(type, x) /\ GoodSilo(type, x)
        /\ it.pos \in Nat /\ it.gen \in Nat /\ it.got \in Seq(Item) /\ it.made \in Seq(Item)
        /\ it.obliterate \in BOOLEAN
    BY <1>1, NextIs DEF LiveIter
  <1>3. p \in Nat
    <2>1. CASE Linear(type)
      BY <1>2, <2>1 DEF Spot
    <2>2. CASE ~Linear(type)
      BY <1>2, <2>2, SeekIs DEF Spot, SeekLive, GoodSilo
    <2> QED BY <2>1, <2>2
  <1>4. it2 = [it EXCEPT !.pos = p]
    BY <1>1
  <1>5. /\ it2 \in LiveIter(D) /\ it2.desc = it.desc /\ it2.gen = it.gen /\ it2.pos = p
        /\ it2.got = it.got /\ it2.made = it.made /\ it2.obliterate = it.obliterate
        /\ it2.mine = it.mine /\ it2.calm = it.calm
    BY <1>3, <1>4 DEF LiveIter
  <1>6. CASE ~it.obliterate
    <2>1. /\ it.gen = x.gen /\ Begins(it.got, it.made) /\ it.made = Contents(type, x)
          /\ Reached(type, x, it.pos, Len(it.got))
      BY <1>1, <1>6 DEF Fits, OrdinaryAt, Current
    <2>2. Len(it.made) = x.len /\ Len(it.got) \in Nat /\ Len(it.got) <= x.len
      BY <1>2, <2>1, ContentsAre, LenProperties DEF Begins
    <2>3. Len(it.got) = x.len /\ Reached(type, x, p, Len(it.got))
      <3>1. PICK m : m = Len(it.got)
        OBVIOUS
      <3>2. m \in Nat /\ m <= x.len /\ Reached(type, x, it.pos, m)
        BY <2>1, <2>2, <3>1
      <3> HIDE DEF type
      <3>3. m = x.len /\ Reached(type, x, p, m)
        BY ONLY <1>2, <3>2, ReachedLast
      <3> QED BY <3>1, <3>3
    <2>4. it.got = it.made
      <3>1. \A k \in 1..Len(it.got) : it.got[k] = it.made[k]
        BY <2>1 DEF Begins
      <3>2. Len(it.got) = Len(it.made)
        BY <2>2, <2>3
      <3> QED BY ONLY <1>2, <3>1, <3>2, SeqEqual
    <2>5. OrdinaryAt(it2, slot)
      <3>1. it2.gen <= slot.x.gen
        BY <1>1, <1>2, <1>5, <2>1
      <3>2. Begins(it2.got, it2.made) /\ slot.type = it2.desc.type
        BY <1>5, <2>1
      <3>3. /\ it2.made = Contents(slot.type, slot.x)
            /\ Reached(slot.type, slot.x, it2.pos, Len(it2.got))
        BY <1>1, <1>5, <2>1, <2>3
      <3> QED BY <3>1, <3>2, <3>3 DEF OrdinaryAt
    <2> QED BY <1>5, <1>6, <2>4, <2>5 DEF Fits
  <1>7. CASE it.obliterate
    <2>1. ObliteratorAt(it, slot)
      BY <1>7 DEF Fits
    <2>2. x.len \in Nat
      BY <1>2, SiloGen
    <2>3. CASE Linear(type)
      <3>1. it.pos = 0 /\ p = 0 /\ x.len = 0
        BY <1>2, <2>1, <2>2, <2>3 DEF ObliteratorAt, Spot, EndOf
      <3> QED BY <1>1, <1>5, <1>7, <2>1, <2>3, <3>1 DEF Fits, ObliteratorAt
    <2>4. CASE ~Linear(type)
      <3>1. GoodTable(x) /\ p = FirstFrom(x, it.pos) /\ p >= x.cap /\ x.cap \in Nat
        BY <1>2, <2>4, LiveShape DEF GoodSilo, Spot, EndOf, SeekLive
      <3>2. \A i \in Live(x.slot) : i \in Nat /\ (i >= it.pos <=> it.pos <= i)
        BY <1>2, <3>1, LiveShape
      <3>3. \A i \in Live(x.slot) : ~(it.pos <= i)
        BY <1>2, <1>3, <3>1, <3>2, SeekIs
      <3>4. it.mine /\ it.calm => \A i \in Live(x.slot) : it.pos <= i
        BY <1>1, <2>1, <2>4 DEF ObliteratorAt
      <3>5. it.mine /\ it.calm => Live(x.slot) = {}
        BY <3>3, <3>4
      <3>6. it.mine /\ it.calm => x.len = 0
        BY <3>1, <3>5, LiveShape, FS_EmptySet
      <3>7. ObliteratorAt(it2, slot)
        BY <1>1, <1>5, <2>1, <2>4, <3>5 DEF ObliteratorAt
      <3> QED BY <1>1, <1>5, <1>7, <3>6, <3>7 DEF Fits
    <2> QED BY <2>3, <2>4
  <1> QED BY <1>2, <1>6, <1>7

\* next without an element, and what it promises of the iterator and its silo.
LEMMA NextEndsKeeps ==
  ASSUME TableInv, NEW n \in DOMAIN iters, NextEnds(n)
  PROVE  TableInv' /\ Promised'
  <1>1. PICK it, i, slot, D :
          /\ it = iters[n] /\ i = it.desc.idx /\ slot = slots[i]
          /\ D = [idx : DOMAIN slots, type : types]
    OBVIOUS
  <1>2. /\ it.live /\ types' = types /\ slots' = slots /\ ret' = [op |-> "ended", iter |-> n]
        /\ IF Valid(it.desc) /\ Current(it, slot.x)
             THEN AtEnd(it, slot.x) /\ iters' = [iters EXCEPT ![n].pos = Here(it, slot.x)]
             ELSE iters' = iters
    BY <1>1 DEF NextEnds
  <1>3. /\ it \in LiveIter(D) /\ Fits(it, slot) /\ it.desc \in Descs /\ i \in DOMAIN slots
        /\ it.desc.type \in types /\ GoodIters(types, slots, iters)
    <2>1. GoodIters(types, slots, iters)
      BY DEF TableInv
    <2>2. it \in LiveIter(D) /\ Fits(it, slot) /\ i \in DOMAIN slots /\ it.desc.type \in types
      BY <1>1, <1>2, <2>1, IterShape
    <2>3. it.desc \in D
      BY <2>2 DEF LiveIter
    <2> QED BY <1>1, <2>1, <2>2, <2>3 DEF Descs, Slots
  <1>4. ReplicaFaithful'
    BY <1>2 DEF ReplicaFaithful
  <1>5. it.obliterate \in BOOLEAN /\ it.mine \in BOOLEAN /\ it.calm \in BOOLEAN
    BY <1>3 DEF LiveIter
  <1>6. CASE Valid(it.desc) /\ Current(it, slot.x)
    <2>1. PICK it2, its2 : it2 = [it EXCEPT !.pos = Here(it, slot.x)] /\ its2 = iters'
      OBVIOUS
    <2>2. slot.type = it.desc.type /\ GoodSilo(it.desc.type, slot.x)
      BY <1>1, <1>3, <1>6, DescIs
    <2>3. /\ it2 \in LiveIter(D) /\ it2.desc = it.desc /\ Fits(it2, slot)
          /\ it2.obliterate = it.obliterate /\ it2.mine = it.mine /\ it2.calm = it.calm
          /\ ~it.obliterate => it2.got = it2.made
          /\ it.obliterate /\ it.mine /\ it.calm => slot.x.len = 0
      <3>1. AtLast(D, it, slot)
        BY <1>2, <1>3, <1>6, <2>2 DEF AtLast
      <3>2. Ended(D, it, it2, slot)
        BY <2>1, <3>1, IterEnds
      <3> QED BY <3>2 DEF Ended
    <2>4. its2 = [iters EXCEPT ![n] = it2]
      BY <1>1, <1>2, <1>6, <2>1
    <2>5. Fits(it2, slots[it2.desc.idx])
      BY <1>1, <2>3
    <2>6. GoodIters(types, slots, its2)
      BY <1>1, <1>3, <2>3, <2>4, <2>5, IterPlaced
    <2>7. TableInv'
      BY <1>2, <2>1, <2>6 DEF TableInv
    <2>8. ret'.iter = n /\ iters'[n] = it2
      BY <1>2, <2>1, <2>4
    <2>9. OrdinaryComplete'
      BY <2>3, <2>8 DEF OrdinaryComplete
    <2>10. ObliteratorEmpties'
      BY <1>1, <1>2, <2>3, <2>8 DEF ObliteratorEmpties
    <2> QED BY <1>4, <2>7, <2>9, <2>10 DEF Promised
  <1>7. CASE ~(Valid(it.desc) /\ Current(it, slot.x))
    <2>1. iters' = iters
      BY <1>2, <1>7
    <2>2. TableInv'
      BY <1>2, <2>1 DEF TableInv
    <2>3. ret'.iter = n /\ iters'[n] = it
      BY <1>1, <1>2, <2>1
    <2>4. it.obliterate => ~it.mine
      <3>1. it.obliterate /\ it.mine => slot.type = it.desc.type
        BY <1>3 DEF Fits, ObliteratorAt
      <3>2. it.obliterate /\ it.mine => Valid(it.desc) /\ Current(it, slot.x)
        BY <1>1, <1>3, <3>1 DEF Valid, Current, Slots
      <3> QED BY <1>7, <3>2
    <2>5. ~it.obliterate => slot.x.gen # it.gen
      <3>1. ~it.obliterate /\ slot.x.gen = it.gen => slot.type = it.desc.type
        BY <1>3 DEF Fits, OrdinaryAt
      <3>2. ~it.obliterate /\ slot.x.gen = it.gen => Valid(it.desc) /\ Current(it, slot.x)
        BY <1>1, <1>3, <3>1 DEF Valid, Current, Slots
      <3> QED BY <1>7, <3>2
    <2>6. OrdinaryComplete'
      BY <1>1, <1>2, <2>3, <2>5 DEF OrdinaryComplete
    <2>7. ObliteratorEmpties'
      BY <2>3, <2>4 DEF ObliteratorEmpties
    <2> QED BY <1>4, <2>2, <2>6, <2>7 DEF Promised
  <1> QED BY <1>6, <1>7

\* Whatever is found in memory that was freed, the copy is a silo in order.
LEMMA FreedGood ==
  ASSUME TableInv, NEW type \in types, NEW x, GoodSilo(type, x), NEW src \in Freed(type, x)
  PROVE  GoodSilo(type, src)
  <1>1. GoodSilo(type, NewObj(type, 1))
    BY NewObjGood
  <1>2. CASE src = x
    BY <1>2
  <1>3. CASE src # x
    <2>1. src = IF Linear(type) THEN L!AppendOne(NewObj(type, 1), Junk) ELSE NewObj(type, 1)
      BY <1>3 DEF Freed
    <2>2. CASE Linear(type)
      <3>1. GoodLinear(NewObj(type, 1)) /\ NewObj(type, 1).type = type
        BY <1>1, <2>2 DEF GoodSilo
      <3>2. Advanced(NewObj(type, 1), src)
        BY <2>1, <2>2, <3>1, AppendAdvances
      <3> QED BY <2>2, <3>1, <3>2 DEF Advanced, GoodSilo
    <2>3. CASE ~Linear(type)
      BY <1>1, <2>1, <2>3
    <2> QED BY <2>2, <2>3
  <1> QED BY <1>2, <1>3

\* What is made of a source in a new silo.
CopyOf(type, src, x) == IF Linear(type) THEN CopyLinear(src, x) ELSE CopyHash(src, x)

\* The copy holds what the source does, whichever kind of silo it is.
LEMMA CopyGood ==
  ASSUME NEW type, NEW src, GoodSilo(type, src), NEW x, GoodSilo(type, x),
         ~Linear(type) => Live(x.slot) = {}
  PROVE  /\ GoodSilo(type, CopyOf(type, src, x)) /\ CopyOf(type, src, x).gen >= x.gen
         /\ Linear(type) => L!Elems(CopyOf(type, src, x)) = L!Elems(src)
         /\ ~Linear(type) => Entries(CopyOf(type, src, x).slot) = Entries(src.slot)
  <1>1. CASE Linear(type)
    <2>1. GoodLinear(src) /\ GoodLinear(x) /\ x.type = src.type /\ src.type = type /\ x.gen \in Nat
      BY <1>1, LinearShape DEF GoodSilo
    <2>2. /\ GoodLinear(CopyLinear(src, x)) /\ CopyLinear(src, x).type = src.type
          /\ CopyLinear(src, x).gen = x.gen
          /\ L!Elems(CopyLinear(src, x)) = L!Elems(src)
      BY <2>1, CopyLinearKept
    <2> QED BY <1>1, <2>1, <2>2 DEF GoodSilo, CopyOf
  <1>2. CASE ~Linear(type)
    <2>1. GoodTable(src) /\ GoodTable(x) /\ Live(x.slot) = {}
      BY <1>2 DEF GoodSilo
    <2>2. /\ GoodTable(CopyHash(src, x)) /\ CopyHash(src, x).gen >= x.gen
          /\ Entries(CopyHash(src, x).slot) = Entries(src.slot)
      BY <2>1, CopyHashKept
    <2> QED BY <1>2, <2>2 DEF GoodSilo, CopyOf
  <1> QED BY <1>1, <1>2

\* replica: the source lives in another slot than the copy, so it is unchanged;
\* freed memory is only read when the table had to move.
LEMMA ReplicaKeeps ==
  ASSUME TableInv, tabcap \in Nat, NEW desc \in Descs, Replica(desc)
  PROVE  TableInv' /\ Promised'
  <1>1. PICK type, i, k, x : /\ type = desc.type /\ i = desc.idx /\ k = NewIdx
                             /\ x = NewObj(type, NewGen)
    OBVIOUS
  <1>2. Valid(desc) /\ types' = types /\ iters' = iters
    BY DEF Replica
  <1>3. /\ type \in types /\ i \in Slots /\ slots[i].type = type /\ type # "free"
        /\ GoodSilo(type, slots[i].x)
    BY <1>1, <1>2, DescIs DEF Slots
  <1>4. k # i
    BY <1>1, <1>3, NewIdxIs
  <1>5. GoodSilo(type, x) /\ x.gen = NewGen /\ (~Linear(type) => Live(x.slot) = {}) /\ NewGen \in Nat
    BY <1>1, <1>3, NewGenIs, NewObjGood
  <1>6. PICK src \in IF NewIdx <= tabcap THEN {slots[desc.idx].x} ELSE Freed(desc.type, slots[desc.idx].x) :
          \/ /\ slots' = Created(desc.type, LAMBDA z :
                           IF Linear(desc.type) THEN CopyLinear(src, z) ELSE CopyHash(src, z))
             /\ ret' = [op |-> "replica", of |-> desc.idx, at |-> NewIdx, moved |-> NewIdx > tabcap]
          \/ slots' = Created(desc.type, LAMBDA z : z) /\ src.len > 0 /\ Silent
    BY DEF Replica
  <1>7. GoodSilo(type, src)
    BY <1>1, <1>3, <1>6, FreedGood
  <1>8. CASE slots' = Created(desc.type, LAMBDA z : z) /\ Silent
    <2>1. slots' = WithNew(type, x)
      BY <1>1, <1>8 DEF Created, WithNew, Placed, NewGen, Slots
    <2>2. x.gen >= NewGen
      BY <1>5
    <2>3. TableInv'
      BY <1>2, <1>3, <1>5, <2>1, <2>2, NewSiloStep
    <2>4. Promised'
      BY <1>8, Nothing DEF Silent
    <2> QED BY <2>3, <2>4
  <1>9. CASE /\ slots' = Created(desc.type, LAMBDA z :
                           IF Linear(desc.type) THEN CopyLinear(src, z) ELSE CopyHash(src, z))
             /\ ret' = [op |-> "replica", of |-> desc.idx, at |-> NewIdx, moved |-> NewIdx > tabcap]
    <2>1. PICK c : c = CopyOf(type, src, x)
      OBVIOUS
    <2>2. slots' = WithNew(type, c)
      BY <1>1, <1>9, <2>1 DEF Created, WithNew, Placed, NewGen, Slots, CopyOf
    <2>3. /\ GoodSilo(type, c) /\ c.gen >= x.gen
          /\ Linear(type) => L!Elems(c) = L!Elems(src)
          /\ ~Linear(type) => Entries(c.slot) = Entries(src.slot)
      BY <1>5, <1>7, <2>1, CopyGood
    <2>4. c.gen >= NewGen
      BY <1>5, <2>3
    <2>5. /\ TableInv' /\ slots'[NewIdx] = [type |-> type, x |-> c]
          /\ \A j \in Slots : j # NewIdx => slots'[j] = slots[j]
      BY <1>2, <1>3, <2>2, <2>3, <2>4, NewSiloStep
    <2>6. slots'[i] = slots[i] /\ slots'[k].x = c
      BY <1>1, <1>3, <1>4, <2>5
    <2>7. ret'.op = "replica" /\ ret'.of = i /\ ret'.at = k /\ (ret'.moved <=> NewIdx > tabcap)
      BY <1>1, <1>9
    <2>8. OrdinaryComplete' /\ ObliteratorEmpties'
      BY <2>7 DEF OrdinaryComplete, ObliteratorEmpties
    <2>9. ASSUME ~ret'.moved PROVE Copied'
      <3>1. ~(NewIdx > tabcap)
        BY <2>7, <2>9
      <3>2. src = slots[i].x
        <4>1. NewIdx <= tabcap
          <5>1. Len(slots) \in Nat /\ Slots = 1..Len(slots)
            BY ListShape DEF TableInv, GoodSlots, Slots
          <5>2. NewIdx \in Nat
            BY <5>1, NewIdxIs
          <5> QED BY <3>1, <5>2
        <4> QED BY <1>1, <1>6, <4>1
      <3>3. CASE Linear(type)
        BY <1>3, <2>3, <2>6, <2>7, <3>2, <3>3 DEF Copied
      <3>4. CASE ~Linear(type)
        BY <1>3, <2>3, <2>6, <2>7, <3>2, <3>4 DEF Copied
      <3> QED BY <3>3, <3>4
    <2>10. ReplicaFaithful'
      BY <2>9 DEF ReplicaFaithful
    <2> QED BY <2>5, <2>8, <2>10 DEF Promised
  <1> QED BY <1>6, <1>8, <1>9

-----------------------------------------------------------------------------
(* The theorems *)

\* The inductive invariant.
IInv == TableInv /\ tabcap \in Nat /\ Promised

\* It holds at the start, and every step keeps it.
LEMMA InitHolds == Init => IInv
  <1> SUFFICES ASSUME Init PROVE IInv
    OBVIOUS
  <1>1. types \in Tables /\ slots = <<>> /\ tabcap = 0 /\ iters = <<>> /\ ret = [op |-> "quiet"]
    BY DEF Init
  <1>2. GoodSlots(types, slots)
    BY <1>1 DEF GoodSlots, IsList
  <1>3. GoodIters(types, slots, iters)
    BY <1>1 DEF GoodIters
  <1>4. Promised
    BY <1>1 DEF Promised, OrdinaryComplete, ObliteratorEmpties, ReplicaFaithful
  <1> QED BY <1>1, <1>2, <1>3, <1>4 DEF IInv, TableInv

\* The table has room for a number of slots.
LEMMA TabcapKeeps ==
  ASSUME tabcap \in Nat, Next
  PROVE  tabcap' \in Nat
  <1>1. TabCap(NewIdx) \in Nat
    BY BoundAssumption DEF TabCap
  <1>2. tabcap' = tabcap \/ tabcap' = TabCap(NewIdx)
    <2>1. ASSUME NEW type \in types, Make(type) PROVE tabcap' = tabcap \/ tabcap' = TabCap(NewIdx)
      BY <2>1 DEF Make
    <2>2. ASSUME NEW desc \in Descs, Destroy(desc) PROVE tabcap' = tabcap
      BY <2>2 DEF Destroy
    <2>3. ASSUME NEW desc \in Descs, Replica(desc) PROVE tabcap' = TabCap(NewIdx)
      BY <2>3 DEF Replica
    <2>4. ASSUME NEW desc \in Descs, Mutate(desc) PROVE tabcap' = tabcap
      BY <2>4 DEF Mutate
    <2>5. ASSUME NEW desc \in Descs, Query(desc) PROVE tabcap' = tabcap
      BY <2>5 DEF Query
    <2>6. ASSUME NEW desc \in Descs, MakeIter(desc, TRUE) \/ MakeIter(desc, FALSE)
          PROVE  tabcap' = tabcap
      BY <2>6 DEF MakeIter
    <2>7. ASSUME NEW n \in DOMAIN iters, NextYields(n) \/ NextEnds(n) \/ RemoveIter(n)
          PROVE  tabcap' = tabcap
      BY <2>7 DEF NextYields, NextEnds, RemoveIter
    <2> QED BY <2>1, <2>2, <2>3, <2>4, <2>5, <2>6, <2>7 DEF Next
  <1> QED BY <1>1, <1>2

LEMMA StepKeeps == IInv /\ [Next]_vars => IInv'
  <1> SUFFICES ASSUME IInv, [Next]_vars PROVE IInv'
    OBVIOUS
  <1>0. TableInv /\ tabcap \in Nat /\ Promised
    BY DEF IInv
  <1>1. CASE UNCHANGED vars
    BY <1>0, <1>1 DEF IInv, vars, TableInv, Promised, OrdinaryComplete, ObliteratorEmpties,
       ReplicaFaithful, Copied, Entries, Live
  <1>2. CASE Next
    <2>0. tabcap' \in Nat
      BY <1>0, <1>2, TabcapKeeps
    <2>1. ASSUME NEW type \in types, Make(type) PROVE TableInv' /\ Promised'
      BY <1>0, <2>1, MakeKeeps
    <2>2. ASSUME NEW desc \in Descs, Destroy(desc) PROVE TableInv' /\ Promised'
      BY <1>0, <2>2, DestroyKeeps
    <2>3. ASSUME NEW desc \in Descs, Replica(desc) PROVE TableInv' /\ Promised'
      BY <1>0, <2>3, ReplicaKeeps
    <2>4. ASSUME NEW desc \in Descs, Mutate(desc) PROVE TableInv' /\ Promised'
      BY <1>0, <2>4, MutateKeeps
    <2>5. ASSUME NEW desc \in Descs, Query(desc) PROVE TableInv' /\ Promised'
      <3>1. types' = types /\ slots' = slots /\ iters' = iters
        BY <2>5 DEF Query
      <3>2. ret'.op # "ended" /\ ret'.op # "replica"
        BY <2>5 DEF Query
      <3> QED BY <1>0, <3>1, <3>2, Nothing DEF TableInv
    <2>6. ASSUME NEW desc \in Descs, MakeIter(desc, TRUE) \/ MakeIter(desc, FALSE)
          PROVE  TableInv' /\ Promised'
      BY <1>0, <2>6, MakeIterKeeps
    <2>7. ASSUME NEW n \in DOMAIN iters, NextYields(n) PROVE TableInv' /\ Promised'
      BY <1>0, <2>7, NextYieldsKeeps
    <2>8. ASSUME NEW n \in DOMAIN iters, NextEnds(n) PROVE TableInv' /\ Promised'
      BY <1>0, <2>8, NextEndsKeeps
    <2>9. ASSUME NEW n \in DOMAIN iters, RemoveIter(n) PROVE TableInv' /\ Promised'
      BY <1>0, <2>9, RemoveIterKeeps
    <2>10. TableInv' /\ Promised'
      BY <1>2, <2>1, <2>2, <2>3, <2>4, <2>5, <2>6, <2>7, <2>8, <2>9 DEF Next
    <2> QED BY <2>0, <2>10 DEF IInv
  <1> QED BY <1>1, <1>2 DEF vars

\* The invariant of the table, its iterators and the last answer.
THEOREM SilosInvariant == Spec => []IInv
  <1> QED BY InitHolds, StepKeeps, PTL DEF Spec

\* What one list begins with is a prefix of it.
LEMMA BeginsIsPrefix ==
  ASSUME NEW got \in Seq(Item), NEW made \in Seq(Item), Begins(got, made)
  PROVE  IsPrefix(got, made)
  <1>1. Len(got) \in Nat /\ Len(made) \in Nat /\ Len(got) <= Len(made)
    BY LenProperties DEF Begins
  <1>2. PICK a, b : a = SubSeq(got, 1, Len(got)) /\ b = SubSeq(made, 1, Len(got))
    OBVIOUS
  <1>3. /\ \A k \in 1..Len(got) : k \in 1..Len(made)
        /\ \A k \in 1..Len(got) : got[k] \in Item /\ made[k] \in Item
    BY <1>1, ElementOfSeq
  <1>4. /\ a \in Seq(Item) /\ Len(a) = Len(got) /\ \A k \in 1..Len(got) : a[k] = got[k]
        /\ b \in Seq(Item) /\ Len(b) = Len(got) /\ \A k \in 1..Len(got) : b[k] = made[k]
    BY <1>1, <1>2, <1>3
  <1>5. \A k \in 1..Len(a) : a[k] = b[k]
    BY <1>4 DEF Begins
  <1>6. a = b
    BY ONLY <1>4, <1>5, SeqEqual
  <1> QED BY <1>1, <1>2, <1>6 DEF IsPrefix

\* OrdinaryFaithful: what an ordinary iterator has handed out is what its
\* silo held, in order, when the iterator was made, whatever was done since to
\* the silo, to its slot and to the table.
THEOREM IteratorsAreFaithful == Spec => []OrdinaryFaithful
  <1>1. IInv => OrdinaryFaithful
    <2> SUFFICES ASSUME IInv, NEW n \in DOMAIN iters, iters[n].live, ~iters[n].obliterate
                 PROVE  IsPrefix(iters[n].got, iters[n].made)
      BY DEF OrdinaryFaithful
    <2>1. PICK it, D : it = iters[n] /\ D = [idx : DOMAIN slots, type : types]
      OBVIOUS
    <2>2. it \in LiveIter(D) /\ Fits(it, slots[it.desc.idx])
      BY <2>1, IterShape DEF IInv, TableInv
    <2>3. it.got \in Seq(Item) /\ it.made \in Seq(Item) /\ Begins(it.got, it.made)
      BY <2>1, <2>2 DEF LiveIter, Fits, OrdinaryAt
    <2> QED BY <2>1, <2>3, BeginsIsPrefix
  <1> QED BY <1>1, SilosInvariant, PTL

\* OrdinaryComplete: an ordinary iterator that ends at an unchanged silo has
\* handed out all of it.
THEOREM IteratorsAreComplete == Spec => []OrdinaryComplete
  <1>1. IInv => OrdinaryComplete
    BY DEF IInv, Promised
  <1> QED BY <1>1, SilosInvariant, PTL

\* ObliteratorEmpties: an obliterating iterator that ends has emptied its
\* silo, unless somebody added to a hash silo or rebuilt its table.
THEOREM ObliteratorsEmpty == Spec => []ObliteratorEmpties
  <1>1. IInv => ObliteratorEmpties
    BY DEF IInv, Promised
  <1> QED BY <1>1, SilosInvariant, PTL

\* ReplicaFaithful: a replica whose new silo found room in the table as it
\* was holds what its source does.
THEOREM ReplicasAreFaithful == Spec => []ReplicaFaithful
  <1>1. IInv => ReplicaFaithful
    BY DEF IInv, Promised
  <1> QED BY <1>1, SilosInvariant, PTL
=============================================================================
