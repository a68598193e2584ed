-------------------------- MODULE LinearSiloProofs --------------------------
(***************************************************************************)
(* Proofs about LinearSilo for every set of values, chunk size and bound.  *)
(* The lemmas say what each routine of LinearOps does to a sound silo; the *)
(* invariant follows action by action.                                     *)
(***************************************************************************)
EXTENDS LinearSilo, SequenceTheorems, TLAPS

\* A silo an operation may be called on.
Sound(s) == IsSilo(s) /\ Stored(s) /\ Straight(s)

\* The index arithmetic of a queue never wraps more than once.
LEMMA ModOnce ==
  ASSUME NEW c \in Nat, NEW x \in Nat, x < 2 * c
  PROVE  x % c = IF x < c THEN x ELSE x - c
  BY Z3

\* The same for the next cell.
LEMMA NextOnce ==
  ASSUME NEW c \in Nat, NEW h \in Nat, h < c
  PROVE  (h + 1) % c = IF h + 1 < c THEN h + 1 ELSE 0
  BY Z3

\* Occupied cells are cells of the storage.
LEMMA CellInside ==
  ASSUME NEW s, IsSilo(s), NEW i \in Nat, i < s.cap
  PROVE  /\ Cell(s, i) \in 0..(s.cap - 1)
         /\ Cell(s, i) = IF s.head + i < s.cap THEN s.head + i ELSE s.head + i - s.cap
         /\ s.head = 0 => Cell(s, i) = i
  <1>1. s.head \in Nat /\ s.cap \in Nat /\ (s.head < s.cap \/ s.head = 0)
    BY DEF IsSilo
  <1>2. s.head + i \in Nat /\ s.head + i < 2 * s.cap
    BY <1>1
  <1>3. (s.head + i) % s.cap = IF s.head + i < s.cap THEN s.head + i
                               ELSE s.head + i - s.cap
    BY <1>1, <1>2, ModOnce
  <1> QED BY <1>1, <1>2, <1>3 DEF Cell

\* What a sound silo is, field by field.
LEMMA SoundShape ==
  ASSUME NEW s, Sound(s)
  PROVE  /\ IsSilo(s) /\ s.type \in LinearTypes /\ s.cap \in Nat /\ s.len \in 0..s.cap
         /\ s.head \in Nat /\ (s.head < s.cap \/ s.head = 0) /\ s.gen \in Nat
         /\ s.data \in [0..(s.cap - 1) -> Value \cup {Junk}]
         /\ s.type # "queue" => s.head = 0
  BY DEF Sound, IsSilo, Straight

\* The same, with what it says of every cell.
LEMMA SoundFields ==
  ASSUME NEW s, Sound(s)
  PROVE  /\ IsSilo(s) /\ s.type \in LinearTypes /\ s.cap \in Nat /\ s.len \in 0..s.cap
         /\ s.head \in Nat /\ (s.head < s.cap \/ s.head = 0) /\ s.gen \in Nat
         /\ s.data \in [0..(s.cap - 1) -> Value \cup {Junk}]
         /\ s.type # "queue" => s.head = 0
         /\ \A i \in 0..(s.len - 1) : s.data[Cell(s, i)] \in Value
         /\ \A i \in 0..(s.cap - 1) :
              /\ Cell(s, i) \in 0..(s.cap - 1)
              /\ Cell(s, i) = IF s.head + i < s.cap THEN s.head + i ELSE s.head + i - s.cap
              /\ s.head = 0 => Cell(s, i) = i
  <1>1. \A i \in 0..(s.cap - 1) :
              /\ Cell(s, i) \in 0..(s.cap - 1)
              /\ Cell(s, i) = IF s.head + i < s.cap THEN s.head + i ELSE s.head + i - s.cap
              /\ s.head = 0 => Cell(s, i) = i
    <2> TAKE i \in 0..(s.cap - 1)
    <2>1. IsSilo(s) /\ i \in Nat /\ i < s.cap
      BY DEF Sound, IsSilo
    <2> QED BY <2>1, CellInside
  <1> QED BY <1>1 DEF Sound, IsSilo, Stored, Straight

\* Two elements never share a cell.
LEMMA CellsApart ==
  ASSUME NEW s, Sound(s), NEW i \in 0..(s.cap - 1), NEW j \in 0..(s.cap - 1), i # j
  PROVE  Cell(s, i) # Cell(s, j)
  <1>1. /\ s.head \in Nat /\ s.cap \in Nat /\ s.head < s.cap
        /\ Cell(s, i) = IF s.head + i < s.cap THEN s.head + i ELSE s.head + i - s.cap
        /\ Cell(s, j) = IF s.head + j < s.cap THEN s.head + j ELSE s.head + j - s.cap
    BY SoundFields
  <1> QED BY <1>1

\* The elements are a sequence, read cell by cell.
LEMMA ElemsShape ==
  ASSUME NEW s, Sound(s)
  PROVE  /\ Elems(s) \in Seq(Value) /\ Len(Elems(s)) = s.len /\ s.len \in Nat
         /\ DOMAIN Elems(s) = 1..s.len
         /\ \A i \in 0..(s.len - 1) : Elems(s)[i + 1] = s.data[Cell(s, i)]
         /\ \A i \in 1..s.len : Elems(s)[i] = s.data[Cell(s, i - 1)] /\ Elems(s)[i] \in Value
  <1>1. s.len \in Nat
    BY SoundShape
  <1>2. \A i \in 1..s.len : i - 1 \in 0..(s.len - 1) /\ s.data[Cell(s, i - 1)] \in Value
    BY <1>1, SoundFields
  <1>3. Elems(s) \in [1..s.len -> Value]
    BY <1>2 DEF Elems
  <1>4. Elems(s) \in Seq(Value) /\ Len(Elems(s)) = s.len
    BY <1>1, <1>3, SeqDef, LenProperties
  <1>5. \A i \in 0..(s.len - 1) : i + 1 \in 1..s.len /\ (i + 1) - 1 = i
    BY <1>1
  <1> QED BY <1>1, <1>2, <1>4, <1>5 DEF Elems

LEMMA ElemsAre ==
  ASSUME NEW r, Sound(r), NEW e \in Seq(Value), Len(e) = r.len,
         \A i \in 0..(r.len - 1) : r.data[Cell(r, i)] = e[i + 1]
  PROVE  Elems(r) = e
  <1>1. \A i \in 1..r.len : i - 1 \in 0..(r.len - 1) /\ (i - 1) + 1 = i
    BY ElemsShape
  <1>2. \A i \in 1..r.len : Elems(r)[i] = e[i]
    BY <1>1, ElemsShape
  <1> QED BY <1>2, ElemsShape, SeqEqual

\* Growing keeps the elements: cell i of the new storage is the i-th of the old.
LEMMA GrowKeeps ==
  ASSUME NEW s, Sound(s), NEW n \in Nat
  PROVE  /\ Sound(Grow(s, n))
         /\ Grow(s, n).cap >= n
         /\ Grow(s, n).len = s.len
         /\ Grow(s, n).gen = s.gen
         /\ Grow(s, n).type = s.type
         /\ Elems(Grow(s, n)) = Elems(s)
  <1>1. CASE ~NeedsRoom(s, n)
    BY <1>1, SoundFields DEF Grow, NeedsRoom
  <1>2. CASE NeedsRoom(s, n)
    <2> DEFINE g == Grow(s, n)
               h == IF s.type = "queue" /\ s.len > 0 THEN 0 ELSE s.head
               d == [i \in 0..(NewCap(s, n) - 1) |->
                           IF i >= s.len THEN Junk
                           ELSE IF s.type = "queue" THEN s.data[Cell(s, i)]
                           ELSE s.data[i]]
    <2>1. NewCap(s, n) \in Nat /\ NewCap(s, n) >= n /\ NewCap(s, n) > s.cap
      BY <1>2, ChunkAssumption, SoundFields DEF NewCap, NeedsRoom
    <2>2. \A i \in 0..(s.len - 1) : i \in 0..(s.cap - 1) /\ i \in 0..(NewCap(s, n) - 1)
      BY <2>1, SoundFields
    <2>3. \A i \in 0..(s.len - 1) : d[i] = s.data[Cell(s, i)] /\ d[i] \in Value
      BY <2>1, <2>2, SoundFields
    <2>4. d \in [0..(NewCap(s, n) - 1) -> Value \cup {Junk}]
      BY <2>1, <2>3, SoundFields
    <2>5. h \in Nat /\ (h < NewCap(s, n) \/ h = 0) /\ (s.type # "queue" => h = 0)
          /\ (s.len > 0 => h = 0)
      BY <2>1, SoundFields
    <2>6. g = [s EXCEPT !.cap = NewCap(s, n), !.head = h, !.data = d]
      BY <1>2 DEF Grow
    <2> HIDE DEF g, d, h
    <2>7. /\ g.type = s.type /\ g.data = d /\ g.cap = NewCap(s, n)
          /\ g.len = s.len /\ g.head = h /\ g.gen = s.gen
      BY <2>6, SoundFields DEF IsSilo
    <2>8. IsSilo(g)
      <3>1. s.len \in 0..NewCap(s, n)
        BY <2>1, SoundShape
      <3> QED BY <3>1, <2>1, <2>4, <2>5, <2>6, <2>7, SoundShape DEF IsSilo
    <2>9. \A i \in 0..(s.len - 1) : Cell(g, i) = i
      <3> TAKE i \in 0..(s.len - 1)
      <3>1. s.len \in Nat /\ s.len > 0 /\ i \in Nat /\ i < NewCap(s, n)
        BY <2>1, <2>2, SoundShape
      <3>2. i < g.cap /\ g.head = 0
        BY <3>1, <2>5, <2>7
      <3> QED BY <3>1, <3>2, <2>8, CellInside
    <2>10. Stored(g) /\ Straight(g)
      BY <2>3, <2>5, <2>7, <2>9 DEF Stored, Straight
    <2>11. Elems(g) = Elems(s)
      <3>1. \A i \in 1..s.len : g.data[Cell(g, i - 1)] = s.data[Cell(s, i - 1)]
        BY <2>3, <2>7, <2>9, SoundFields
      <3> QED BY <3>1, <2>7 DEF Elems
    <2> QED BY <2>1, <2>7, <2>8, <2>10, <2>11 DEF g, Sound
  <1> QED BY <1>1, <1>2

\* A call that went through: the silo stays sound, of its type, one
\* generation later.
Stepped(s, r) == Sound(r) /\ r.type = s.type /\ r.gen = s.gen + 1

\* Counting a generation changes nothing else.
LEMMA TouchSteps ==
  ASSUME NEW s, NEW u, Sound(u), u.type = s.type, u.gen = s.gen
  PROVE  Stepped(s, Touch(u)) /\ Elems(Touch(u)) = Elems(u)
  <1> DEFINE r == Touch(u)
  <1>1. /\ r.type = u.type /\ r.data = u.data /\ r.cap = u.cap
        /\ r.len = u.len /\ r.head = u.head /\ r.gen = u.gen + 1
    BY SoundFields DEF Touch, IsSilo
  <1>2. IsSilo(r)
    BY <1>1, SoundFields DEF Touch, IsSilo
  <1> HIDE DEF r
  <1>3. Stored(r) /\ Straight(r)
    BY <1>1, SoundFields DEF Stored, Straight, Cell
  <1>4. Elems(r) = Elems(u)
    BY <1>1 DEF Elems, Cell
  <1> QED BY <1>1, <1>2, <1>3, <1>4 DEF r, Stepped, Sound

\* Appending adds one stored value at the end.
LEMMA AppendOneSteps ==
  ASSUME NEW s, Sound(s), NEW v \in Value
  PROVE  Stepped(s, AppendOne(s, v)) /\ Elems(AppendOne(s, v)) = Append(Elems(s), v)
  <1> DEFINE g == Grow(s, s.len + 1)
             c == IF s.type = "queue" THEN Cell(g, g.len) ELSE g.len
             d == [g.data EXCEPT ![c] = v]
             u == [g EXCEPT !.data = d, !.len = g.len + 1]
  <1>0. s.len + 1 \in Nat
    BY SoundFields
  <1>1. /\ Sound(g) /\ g.cap >= s.len + 1 /\ g.len = s.len /\ g.gen = s.gen
        /\ g.type = s.type /\ Elems(g) = Elems(s)
    BY <1>0, GrowKeeps
  <1>2. AppendOne(s, v) = Touch(u)
    BY DEF AppendOne, Enqueue, AppendLinear
  <1> HIDE DEF g
  <1>3. g.len \in 0..(g.cap - 1) /\ g.len + 1 \in 0..g.cap
    BY <1>1, SoundFields
  <1>4. c = Cell(g, g.len) /\ c \in 0..(g.cap - 1)
    BY <1>1, <1>3, SoundFields
  <1>5. d \in [0..(g.cap - 1) -> Value \cup {Junk}]
    BY <1>1, <1>4, SoundFields
  <1>6. \A i \in 0..g.len : d[Cell(g, i)] \in Value
    <2> TAKE i \in 0..g.len
    <2>1. i = g.len \/ i \in 0..(g.len - 1)
      BY <1>3
    <2> QED BY <2>1, <1>1, <1>3, <1>4, SoundFields
  <1>10. d[c] = v /\ \A i \in 0..(g.len - 1) : d[Cell(g, i)] = g.data[Cell(g, i)]
    <2>1. \A i \in 0..(g.len - 1) : /\ Cell(g, i) # c /\ Cell(g, i) \in 0..(g.cap - 1)
      <3> TAKE i \in 0..(g.len - 1)
      <3>1. i \in 0..(g.cap - 1) /\ g.len \in 0..(g.cap - 1) /\ i # g.len
        BY <1>1, <1>3, SoundShape
      <3> QED BY <1>1, <1>4, <3>1, CellsApart, SoundFields
    <2>2. g.data \in [0..(g.cap - 1) -> Value \cup {Junk}]
      BY <1>1, SoundFields
    <2> QED BY <1>4, <2>1, <2>2
  <1> HIDE DEF d, c
  <1>7. /\ u.type = g.type /\ u.data = d /\ u.cap = g.cap
        /\ u.len = g.len + 1 /\ u.head = g.head /\ u.gen = g.gen
    BY <1>1, SoundFields DEF IsSilo
  <1>8. IsSilo(u)
    BY <1>1, <1>3, <1>5, <1>7, SoundFields DEF IsSilo
  <1> HIDE DEF u
  <1>9. Stored(u) /\ Straight(u)
    <2>1. Straight(u)
      BY <1>1, <1>7, SoundFields DEF Straight
    <2>2. \A i \in 0..g.len : Cell(u, i) = Cell(g, i)
      BY <1>7 DEF Cell
    <2>3. 0..(u.len - 1) = 0..g.len
      BY <1>3, <1>7
    <2>4. \A i \in 0..(u.len - 1) : u.data[Cell(u, i)] \in Value
      BY <1>6, <1>7, <2>2, <2>3
    <2> QED BY <2>1, <2>4 DEF Stored
  <1>11. Elems(u) = Append(Elems(g), v)
    <2>1. Sound(u) /\ u.len = g.len + 1
      BY <1>7, <1>8, <1>9 DEF Sound
    <2>2. /\ Append(Elems(g), v) \in Seq(Value) /\ Len(Append(Elems(g), v)) = g.len + 1
          /\ Append(Elems(g), v)[g.len + 1] = v
          /\ \A i \in 1..g.len : Append(Elems(g), v)[i] = Elems(g)[i]
      BY <1>1, ElemsShape, AppendProperties
    <2>3. ASSUME NEW i \in 0..(u.len - 1)
          PROVE  u.data[Cell(u, i)] = Append(Elems(g), v)[i + 1]
      <3>1. Cell(u, i) = Cell(g, i) /\ u.data = d
        BY <1>7 DEF Cell
      <3>2. CASE i = g.len
        BY <1>4, <1>10, <2>2, <3>1, <3>2
      <3>3. CASE i # g.len
        <4>1. i \in 0..(g.len - 1) /\ i + 1 \in 1..g.len
          BY <1>3, <2>1, <3>3
        <4> QED BY <1>1, <1>10, <2>2, <3>1, <4>1, ElemsShape
      <3> QED BY <3>2, <3>3
    <2> QED BY <2>1, <2>2, <2>3, ElemsAre
  <1> QED BY <1>1, <1>2, <1>7, <1>8, <1>9, <1>11, TouchSteps DEF Sound

\* Taking the last element, or the first of a queue.
LEMMA PopSteps ==
  ASSUME NEW s, Sound(s), s.len > 0
  PROVE  Stepped(s, Pop(s)) /\ Elems(Pop(s)) = SubSeq(Elems(s), 1, s.len - 1)
  <1> DEFINE u == [s EXCEPT !.len = s.len - 1]
  <1>1. /\ u.type = s.type /\ u.data = s.data /\ u.cap = s.cap
        /\ u.len = s.len - 1 /\ u.head = s.head /\ u.gen = s.gen
    BY SoundFields DEF IsSilo
  <1>2. IsSilo(u)
    BY <1>1, SoundFields DEF IsSilo
  <1>3. Pop(s) = Touch(u)
    BY DEF Pop
  <1> HIDE DEF u
  <1>4. Stored(u) /\ Straight(u)
    BY <1>1, SoundFields DEF Stored, Straight, Cell
  <1>5. Elems(u) = SubSeq(Elems(s), 1, s.len - 1)
    <2>1. Sound(u) /\ s.len \in Nat /\ \A i \in 1..(s.len - 1) : Elems(s)[i] \in Value
      BY <1>2, <1>4, ElemsShape DEF Sound
    <2>2. /\ SubSeq(Elems(s), 1, s.len - 1) \in Seq(Value)
          /\ Len(SubSeq(Elems(s), 1, s.len - 1)) = s.len - 1
          /\ \A i \in 1..(s.len - 1) : SubSeq(Elems(s), 1, s.len - 1)[i] = Elems(s)[i]
      BY <2>1, SubSeqProperties
    <2>3. \A i \in 0..(u.len - 1) : /\ i + 1 \in 1..(s.len - 1) /\ i \in 0..(s.len - 1)
                                    /\ u.data[Cell(u, i)] = s.data[Cell(s, i)]
      BY <1>1, <2>1 DEF Cell
    <2>4. \A i \in 0..(u.len - 1) : u.data[Cell(u, i)] = SubSeq(Elems(s), 1, s.len - 1)[i + 1]
      BY <2>2, <2>3, ElemsShape
    <2> QED BY <1>1, <2>1, <2>2, <2>4, ElemsAre
  <1> QED BY <1>1, <1>2, <1>3, <1>4, <1>5, TouchSteps DEF Sound

\* What is left when the first element went.
LEMMA TailOfElems ==
  ASSUME NEW s, Sound(s), NEW u, Sound(u), s.len > 0, u.len = s.len - 1,
         \A i \in 0..(u.len - 1) : u.data[Cell(u, i)] = Elems(s)[(i + 1) + 1]
  PROVE  Elems(u) = Tail(Elems(s))
  <1>1. Elems(s) \in Seq(Value) /\ Len(Elems(s)) = s.len /\ s.len \in Nat /\ Elems(s) # <<>>
    BY ElemsShape
  <1>2. /\ Tail(Elems(s)) \in Seq(Value) /\ Len(Tail(Elems(s))) = u.len
        /\ \A i \in 1..u.len : Tail(Elems(s))[i] = Elems(s)[i + 1]
    BY <1>1, HeadTailProperties
  <1>3. \A i \in 0..(u.len - 1) : u.data[Cell(u, i)] = Tail(Elems(s))[i + 1]
    <2> TAKE i \in 0..(u.len - 1)
    <2>1. i + 1 \in 1..u.len
      BY <1>1
    <2> QED BY <1>2, <2>1
  <1> QED BY <1>2, <1>3, ElemsAre

\* The first of a queue leaves and the head moves on.
LEMMA DequeueSteps ==
  ASSUME NEW s, Sound(s), s.type = "queue", s.len > 0
  PROVE  Stepped(s, Dequeue(s)) /\ Elems(Dequeue(s)) = Tail(Elems(s))
  <1> DEFINE h == (s.head + 1) % s.cap
             u == [s EXCEPT !.head = h, !.len = s.len - 1]
  <1>1. h = IF s.head + 1 < s.cap THEN s.head + 1 ELSE 0
    <2>1. s.head \in Nat /\ s.cap \in Nat /\ s.head < s.cap
      BY SoundShape
    <2> QED BY <2>1, NextOnce
  <1> HIDE DEF h
  <1>2. /\ u.type = s.type /\ u.data = s.data /\ u.cap = s.cap
        /\ u.len = s.len - 1 /\ u.head = h /\ u.gen = s.gen
    BY SoundFields DEF IsSilo
  <1>3. IsSilo(u)
    <2>1. h \in Nat /\ (h < s.cap \/ h = 0) /\ s.len - 1 \in 0..s.cap
      BY <1>1, SoundShape
    <2> QED BY <2>1, <1>2, SoundShape DEF IsSilo
  <1>4. Dequeue(s) = Touch(u)
    BY DEF Dequeue, h
  <1> HIDE DEF u
  <1>5. \A i \in 0..(u.len - 1) : Cell(u, i) = Cell(s, i + 1) /\ i + 1 \in 0..(s.len - 1)
    <2> TAKE i \in 0..(u.len - 1)
    <2>1. /\ i \in Nat /\ i < u.cap /\ i + 1 \in Nat /\ i + 1 < s.cap
          /\ i + 1 \in 0..(s.len - 1)
      BY <1>2, SoundShape
    <2>2. Cell(u, i) = IF u.head + i < u.cap THEN u.head + i ELSE u.head + i - u.cap
      BY <2>1, <1>3, CellInside
    <2>3. Cell(s, i + 1) = IF s.head + (i + 1) < s.cap THEN s.head + (i + 1)
                           ELSE s.head + (i + 1) - s.cap
      BY <2>1, CellInside, SoundFields
    <2>4. s.head \in Nat /\ s.cap \in Nat /\ s.head < s.cap
      BY SoundShape
    <2> QED BY <2>1, <2>2, <2>3, <2>4, <1>1, <1>2
  <1>6. Stored(u) /\ Straight(u)
    BY <1>2, <1>5, SoundFields DEF Stored, Straight
  <1>7. Elems(u) = Tail(Elems(s))
    <2>1. Sound(u) /\ u.len = s.len - 1 /\ u.data = s.data
      BY <1>2, <1>3, <1>6 DEF Sound
    <2>2. \A i \in 0..(u.len - 1) : u.data[Cell(u, i)] = Elems(s)[(i + 1) + 1]
      BY <1>5, <2>1, ElemsShape
    <2> QED BY <2>1, <2>2, TailOfElems
  <1> QED BY <1>2, <1>3, <1>4, <1>6, <1>7, TouchSteps DEF Sound

\* A record whose storage alone was rewritten, every occupied cell with a
\* stored value.
LEMMA RewriteSound ==
  ASSUME NEW s, IsSilo(s), Straight(s), NEW d \in [0..(s.cap - 1) -> Value \cup {Junk}],
         NEW l \in 0..s.cap, \A i \in 0..(l - 1) : d[Cell(s, i)] \in Value
  PROVE  /\ Sound([s EXCEPT !.data = d, !.len = l])
         /\ [s EXCEPT !.data = d, !.len = l].type = s.type
         /\ [s EXCEPT !.data = d, !.len = l].gen = s.gen
  <1> DEFINE u == [s EXCEPT !.data = d, !.len = l]
  <1>1. /\ u.type = s.type /\ u.data = d /\ u.cap = s.cap
        /\ u.len = l /\ u.head = s.head /\ u.gen = s.gen
    BY DEF IsSilo
  <1>2. IsSilo(u)
    BY <1>1 DEF IsSilo
  <1> HIDE DEF u
  <1>3. Stored(u) /\ Straight(u)
    BY <1>1 DEF Stored, Straight, Cell
  <1> QED BY <1>1, <1>2, <1>3 DEF Sound, u

\* A silo whose head is 0 keeps its i-th element in cell i.
LEMMA StraightCells ==
  ASSUME NEW s, IsSilo(s), s.head = 0
  PROVE  \A i \in 0..(s.cap - 1) : Cell(s, i) = i
  <1> TAKE i \in 0..(s.cap - 1)
  <1>1. i \in Nat /\ i < s.cap
    BY DEF IsSilo
  <1> QED BY <1>1, CellInside

\* An empty silo is sound.
LEMMA TeemSteps ==
  ASSUME NEW s, Sound(s)
  PROVE  Stepped(s, Teem(s)) /\ Elems(Teem(s)) = <<>>
  <1> DEFINE u == [s EXCEPT !.len = 0, !.head = 0]
  <1>1. /\ u.type = s.type /\ u.data = s.data /\ u.cap = s.cap
        /\ u.len = 0 /\ u.head = 0 /\ u.gen = s.gen
    BY SoundShape DEF IsSilo
  <1>2. IsSilo(u)
    <2>1. 0 \in 0..s.cap /\ 0 \in Nat
      BY SoundShape
    <2> QED BY <2>1, <1>1, SoundShape DEF IsSilo
  <1>3. Teem(s) = Touch(u)
    BY DEF Teem
  <1> HIDE DEF u
  <1>4. Stored(u) /\ Straight(u)
    BY <1>1 DEF Stored, Straight
  <1>5. Elems(u) = <<>>
    BY <1>1 DEF Elems
  <1> QED BY <1>1, <1>2, <1>3, <1>4, <1>5, TouchSteps DEF Sound

\* Shrinking the storage copies the elements and nothing else.
LEMMA TampSteps ==
  ASSUME NEW s, Sound(s)
  PROVE  Stepped(s, Tamp(s)) /\ Elems(Tamp(s)) = Elems(s)
  <1> DEFINE d == [i \in 0..(s.len - 1) |->
                     IF s.type = "queue" THEN s.data[Cell(s, i)] ELSE s.data[i]]
             u == [s EXCEPT !.data = d, !.cap = s.len, !.head = 0]
  <1>1. \A i \in 0..(s.len - 1) : d[i] \in Value /\ d[i] = s.data[Cell(s, i)]
    <2> TAKE i \in 0..(s.len - 1)
    <2>1. i \in 0..(s.cap - 1)
      BY SoundShape
    <2>2. s.data[Cell(s, i)] \in Value
      BY DEF Sound, Stored
    <2>3. s.type # "queue" => Cell(s, i) = i
      BY <2>1, SoundShape, StraightCells
    <2> QED BY <2>2, <2>3
  <1>2. d \in [0..(s.len - 1) -> Value \cup {Junk}]
    BY <1>1
  <1>3. Tamp(s) = Touch(u)
    BY DEF Tamp
  <1> HIDE DEF d
  <1>4. /\ u.type = s.type /\ u.data = d /\ u.cap = s.len
        /\ u.len = s.len /\ u.head = 0 /\ u.gen = s.gen
    BY SoundShape DEF IsSilo
  <1>5. IsSilo(u)
    <2>1. s.len \in Nat /\ s.len \in 0..s.len
      BY SoundShape
    <2> QED BY <2>1, <1>2, <1>4, SoundShape DEF IsSilo
  <1> HIDE DEF u
  <1>6. \A i \in 0..(u.len - 1) : Cell(u, i) = i
    <2> TAKE i \in 0..(u.len - 1)
    <2>1. i \in Nat /\ i < u.cap /\ u.head = 0
      BY <1>4, SoundShape
    <2> QED BY <2>1, <1>5, CellInside
  <1>7. Stored(u) /\ Straight(u)
    BY <1>1, <1>4, <1>6 DEF Stored, Straight
  <1>8. Elems(u) = Elems(s)
    <2>1. Sound(u)
      BY <1>5, <1>7 DEF Sound
    <2>2. \A i \in 0..(u.len - 1) : u.data[Cell(u, i)] = Elems(s)[i + 1]
      BY <1>1, <1>4, <1>6, ElemsShape
    <2> QED BY <1>4, <2>1, <2>2, ElemsShape, ElemsAre
  <1> QED BY <1>3, <1>4, <1>5, <1>7, <1>8, TouchSteps DEF Sound

\* The index a sequence's operation works at is one of its elements, or its
\* end where that is allowed.
LEMMA IndexInside ==
  ASSUME NEW len \in Nat, NEW pos \in Int, NEW allowEnd \in BOOLEAN,
         NormIndex(len, pos, allowEnd) # -1
  PROVE  /\ NormIndex(len, pos, allowEnd) \in 0..len
         /\ ~allowEnd => NormIndex(len, pos, allowEnd) \in 0..(len - 1)
  BY DEF NormIndex

\* An insertion shifts stored values to the right and writes the gap.
LEMMA PlaceAtSteps ==
  ASSUME NEW s, Sound(s), s.type = "seq", NEW pos \in 0..s.len, NEW v \in Value
  PROVE  /\ Stepped(s, PlaceAt(s, pos, v))
         /\ Elems(PlaceAt(s, pos, v)) =
              [i \in 1..(s.len + 1) |-> IF i <= pos THEN Elems(s)[i]
                                       ELSE IF i = pos + 1 THEN v ELSE Elems(s)[i - 1]]
  <1> DEFINE g == Grow(s, s.len + 1)
             e == [i \in DOMAIN g.data |->
                     IF pos < i /\ i <= g.len THEN g.data[i - 1] ELSE g.data[i]]
             d == [e EXCEPT ![pos] = v]
             u == [ShiftRight(g, pos) EXCEPT !.data = [@ EXCEPT ![pos] = v],
                                             !.len = @ + 1]
             w == [g EXCEPT !.data = d, !.len = g.len + 1]
  <1>0. s.len + 1 \in Nat /\ s.len \in Nat
    BY SoundShape
  <1>1. /\ Sound(g) /\ g.cap >= s.len + 1 /\ g.len = s.len /\ g.gen = s.gen
        /\ g.type = s.type /\ Elems(g) = Elems(s)
    BY <1>0, GrowKeeps
  <1>2. PlaceAt(s, pos, v) = Touch(u)
    BY DEF PlaceAt
  <1> HIDE DEF g
  <1>3. DOMAIN g.data = 0..(g.cap - 1) /\ g.cap \in Nat
    BY <1>1, SoundShape
  <1>4. g.head = 0 /\ \A i \in 0..(g.cap - 1) : Cell(g, i) = i
    BY <1>1, SoundShape, StraightCells
  <1>5. \A i \in 0..(g.len - 1) : g.data[i] \in Value /\ i \in 0..(g.cap - 1)
    BY <1>0, <1>1, <1>3, <1>4 DEF Sound, Stored
  <1>6. \A i \in 0..(g.cap - 1) : d[i] \in Value \cup {Junk}
                                  /\ (i <= g.len => d[i] \in Value)
    <2> TAKE i \in 0..(g.cap - 1)
    <2>1. g.data[i] \in Value \cup {Junk}
      BY <1>1, SoundShape
    <2>2. d[i] = IF i = pos THEN v ELSE IF pos < i /\ i <= g.len THEN g.data[i - 1]
                                        ELSE g.data[i]
      BY <1>3
    <2>3. pos < i /\ i <= g.len => g.data[i - 1] \in Value
      BY <1>0, <1>1, <1>5
    <2>4. i < pos => g.data[i] \in Value
      BY <1>0, <1>1, <1>5
    <2> QED BY <2>1, <2>2, <2>3, <2>4, <1>0, <1>1
  <1>7. d \in [0..(g.cap - 1) -> Value \cup {Junk}]
    BY <1>3, <1>6
  <1>8. u.type = g.type /\ u.data = d /\ u.cap = g.cap
        /\ u.len = g.len + 1 /\ u.head = g.head /\ u.gen = g.gen
    BY <1>1, SoundShape DEF IsSilo, ShiftRight
  <1>11. \A i \in 0..g.len :
           d[i] = IF i < pos THEN g.data[i] ELSE IF i = pos THEN v ELSE g.data[i - 1]
    <2> TAKE i \in 0..g.len
    <2>1. i \in 0..(g.cap - 1) /\ pos \in 0..(g.cap - 1)
      BY <1>0, <1>1, <1>3
    <2>2. DOMAIN e = 0..(g.cap - 1) /\ e[i] = IF pos < i /\ i <= g.len THEN g.data[i - 1] ELSE g.data[i]
      BY <1>3, <2>1
    <2>3. d[i] = IF i = pos THEN v ELSE e[i]
      BY <2>1, <2>2
    <2> QED BY <1>0, <1>1, <2>2, <2>3
  <1> HIDE DEF d, e
  <1>9. IsSilo(u)
    <2>1. g.len + 1 \in 0..g.cap
      BY <1>0, <1>1, <1>3
    <2> QED BY <2>1, <1>1, <1>7, <1>8, SoundShape DEF IsSilo, ShiftRight
  <1> HIDE DEF u
  <1>10. Stored(u) /\ Straight(u)
    <2>1. \A i \in 0..(u.len - 1) : Cell(u, i) = i /\ i \in 0..(g.cap - 1) /\ i <= g.len
      BY <1>0, <1>1, <1>3, <1>4, <1>8, <1>9, StraightCells
    <2> QED BY <2>1, <1>4, <1>6, <1>8 DEF Stored, Straight
  <1>12. \A i \in 1..g.len : Elems(g)[i] = g.data[i - 1]
    <2> TAKE i \in 1..g.len
    <2>1. i - 1 \in 0..(g.cap - 1)
      BY <1>0, <1>1, <1>3
    <2> QED BY <1>1, <1>4, <2>1, ElemsShape
  <1>13. Elems(u) = [i \in 1..(s.len + 1) |-> IF i <= pos THEN Elems(s)[i]
                                             ELSE IF i = pos + 1 THEN v ELSE Elems(s)[i - 1]]
    <2> SUFFICES ASSUME NEW i \in 1..(s.len + 1)
                 PROVE  u.data[Cell(u, i - 1)] = IF i <= pos THEN Elems(s)[i]
                                                 ELSE IF i = pos + 1 THEN v ELSE Elems(s)[i - 1]
      BY <1>1, <1>8 DEF Elems
    <2>1. Cell(u, i - 1) = i - 1 /\ i - 1 \in 0..g.len
      BY <1>0, <1>1, <1>3, <1>4, <1>8, <1>9, StraightCells
    <2>2. u.data[Cell(u, i - 1)] = IF i - 1 < pos THEN g.data[i - 1]
                                   ELSE IF i - 1 = pos THEN v ELSE g.data[(i - 1) - 1]
      BY <1>8, <1>11, <2>1
    <2>3. i <= pos => Elems(s)[i] = g.data[i - 1]
      BY <1>0, <1>1, <1>12
    <2>4. i > pos + 1 => Elems(s)[i - 1] = g.data[(i - 1) - 1]
      BY <1>0, <1>1, <1>12
    <2> QED BY <1>0, <2>2, <2>3, <2>4
  <1> QED BY <1>1, <1>2, <1>8, <1>9, <1>10, <1>13, TouchSteps DEF Sound

\* A deletion shifts stored values to the left over the gap.
LEMMA DropAtSteps ==
  ASSUME NEW s, Sound(s), s.type \in {"stack", "seq"}, NEW pos \in 0..(s.len - 1)
  PROVE  /\ Stepped(s, DropAt(s, pos))
         /\ Elems(DropAt(s, pos)) =
              [i \in 1..(s.len - 1) |-> IF i <= pos THEN Elems(s)[i] ELSE Elems(s)[i + 1]]
  <1> DEFINE d == [i \in DOMAIN s.data |->
                     IF pos <= i /\ i < s.len - 1 THEN s.data[i + 1] ELSE s.data[i]]
             u == [ShiftLeft(s, pos) EXCEPT !.len = @ - 1]
  <1>1. s.len \in Nat /\ s.len <= s.cap /\ s.cap \in Nat /\ s.head = 0
        /\ DOMAIN s.data = 0..(s.cap - 1)
    BY SoundShape
  <1>2. \A i \in 0..(s.cap - 1) : Cell(s, i) = i
    BY <1>1, SoundShape, StraightCells
  <1>3. \A i \in 0..(s.len - 1) : s.data[i] \in Value /\ i \in 0..(s.cap - 1)
    BY <1>1, <1>2 DEF Sound, Stored
  <1>4. \A i \in 0..(s.cap - 1) : d[i] \in Value \cup {Junk}
                                  /\ (i < s.len - 1 => d[i] \in Value)
    <2> TAKE i \in 0..(s.cap - 1)
    <2>1. s.data[i] \in Value \cup {Junk}
      BY SoundShape
    <2>2. i < s.len - 1 => s.data[i + 1] \in Value /\ s.data[i] \in Value
      BY <1>1, <1>3
    <2> QED BY <2>1, <2>2, <1>1
  <1>5. d \in [0..(s.cap - 1) -> Value \cup {Junk}]
    BY <1>1, <1>4
  <1>6. u.type = s.type /\ u.data = d /\ u.cap = s.cap
        /\ u.len = s.len - 1 /\ u.head = s.head /\ u.gen = s.gen
    BY SoundShape DEF IsSilo, ShiftLeft
  <1>10. \A i \in 0..(s.len - 2) : d[i] = IF pos <= i THEN s.data[i + 1] ELSE s.data[i]
    BY <1>1
  <1> HIDE DEF d
  <1>7. IsSilo(u)
    <2>1. s.len - 1 \in 0..s.cap
      BY <1>1
    <2> QED BY <2>1, <1>5, <1>6, SoundShape DEF IsSilo, ShiftLeft
  <1>8. DropAt(s, pos) = Touch(u)
    BY DEF DropAt
  <1> HIDE DEF u
  <1>9. Stored(u) /\ Straight(u)
    <2>1. \A i \in 0..(u.len - 1) : Cell(u, i) = i /\ i \in 0..(s.cap - 1) /\ i < s.len - 1
      BY <1>1, <1>6, <1>7, StraightCells
    <2> QED BY <2>1, <1>1, <1>4, <1>6 DEF Stored, Straight
  <1>11. \A i \in 1..s.len : Elems(s)[i] = s.data[i - 1]
    <2> TAKE i \in 1..s.len
    <2>1. i - 1 \in 0..(s.cap - 1)
      BY <1>1
    <2> QED BY <1>2, <2>1, ElemsShape
  <1>12. Elems(u) =
           [i \in 1..(s.len - 1) |-> IF i <= pos THEN Elems(s)[i] ELSE Elems(s)[i + 1]]
    <2> SUFFICES ASSUME NEW i \in 1..(s.len - 1)
                 PROVE  u.data[Cell(u, i - 1)] =
                          IF i <= pos THEN Elems(s)[i] ELSE Elems(s)[i + 1]
      BY <1>6 DEF Elems
    <2>1. Cell(u, i - 1) = i - 1 /\ i - 1 \in 0..(s.len - 2)
      BY <1>1, <1>6, <1>7, StraightCells
    <2>2. u.data[Cell(u, i - 1)] = IF pos <= i - 1 THEN s.data[(i - 1) + 1] ELSE s.data[i - 1]
      BY <1>6, <1>10, <2>1
    <2>3. Elems(s)[i] = s.data[i - 1] /\ Elems(s)[i + 1] = s.data[(i - 1) + 1]
      BY <1>1, <1>11
    <2> QED BY <1>1, <2>2, <2>3
  <1> QED BY <1>6, <1>7, <1>8, <1>9, <1>12, TouchSteps DEF Sound

\* A replacement writes one occupied cell.
LEMMA SwapAtSteps ==
  ASSUME NEW s, Sound(s), s.type = "seq", NEW a \in 0..(s.len - 1), NEW b \in 0..(s.len - 1)
  PROVE  /\ Stepped(s, SwapAt(s, a, b))
         /\ Elems(SwapAt(s, a, b)) = [Elems(s) EXCEPT ![a + 1] = Elems(s)[b + 1],
                                                     ![b + 1] = Elems(s)[a + 1]]
  <1> DEFINE d == [s.data EXCEPT ![a] = s.data[b], ![b] = s.data[a]]
             u == [s EXCEPT !.data = d]
  <1>1. s.len \in Nat /\ s.len <= s.cap /\ s.cap \in Nat /\ s.head = 0
        /\ DOMAIN s.data = 0..(s.cap - 1)
    BY SoundShape
  <1>2. \A i \in 0..(s.cap - 1) : Cell(s, i) = i
    BY <1>1, SoundShape, StraightCells
  <1>3. \A i \in 0..(s.len - 1) : s.data[i] \in Value /\ i \in 0..(s.cap - 1)
    BY <1>1, <1>2 DEF Sound, Stored
  <1>4. \A i \in 0..(s.cap - 1) : d[i] \in Value \cup {Junk}
                                  /\ (i < s.len => d[i] \in Value)
    <2> TAKE i \in 0..(s.cap - 1)
    <2>1. s.data[i] \in Value \cup {Junk} /\ s.data[a] \in Value /\ s.data[b] \in Value
      BY <1>3, SoundShape
    <2>2. i < s.len => s.data[i] \in Value
      BY <1>1, <1>3
    <2> QED BY <2>1, <2>2, <1>1
  <1>5. d \in [0..(s.cap - 1) -> Value \cup {Junk}]
    BY <1>1, <1>4
  <1>6. SwapAt(s, a, b) = Touch(u)
    BY DEF SwapAt
  <1>10. \A i \in 0..(s.len - 1) :
           d[i] = IF i = b THEN s.data[a] ELSE IF i = a THEN s.data[b] ELSE s.data[i]
    BY <1>1
  <1> HIDE DEF d
  <1>7. u.type = s.type /\ u.data = d /\ u.cap = s.cap
        /\ u.len = s.len /\ u.head = s.head /\ u.gen = s.gen
    BY SoundShape DEF IsSilo
  <1>8. IsSilo(u)
    BY <1>5, <1>7, SoundShape DEF IsSilo
  <1> HIDE DEF u
  <1>9. Stored(u) /\ Straight(u)
    <2>1. \A i \in 0..(u.len - 1) : Cell(u, i) = i /\ i \in 0..(s.cap - 1) /\ i < s.len
      BY <1>1, <1>7, <1>8, StraightCells
    <2> QED BY <2>1, <1>1, <1>4, <1>7 DEF Stored, Straight
  <1>11. \A i \in 1..s.len : Elems(s)[i] = s.data[i - 1]
    <2> TAKE i \in 1..s.len
    <2>1. i - 1 \in 0..(s.cap - 1)
      BY <1>1
    <2> QED BY <1>2, <2>1, ElemsShape
  <1>12. Elems(u) = [Elems(s) EXCEPT ![a + 1] = Elems(s)[b + 1], ![b + 1] = Elems(s)[a + 1]]
    <2>1. Elems(s)[a + 1] = s.data[a] /\ Elems(s)[b + 1] = s.data[b]
      <3>1. /\ a + 1 \in 1..s.len /\ (a + 1) - 1 = a
            /\ b + 1 \in 1..s.len /\ (b + 1) - 1 = b
        BY <1>1
      <3>2. Elems(s)[a + 1] = s.data[(a + 1) - 1] /\ Elems(s)[b + 1] = s.data[(b + 1) - 1]
        BY <1>11, <3>1
      <3> QED BY <3>1, <3>2
    <2>2. DOMAIN Elems(s) = 1..s.len
      BY ElemsShape
    <2> SUFFICES ASSUME NEW i \in 1..s.len
                 PROVE  u.data[Cell(u, i - 1)] =
                          IF i = b + 1 THEN s.data[a] ELSE IF i = a + 1 THEN s.data[b]
                          ELSE Elems(s)[i]
      BY <1>7, <2>1, <2>2 DEF Elems
    <2>3. Cell(u, i - 1) = i - 1 /\ i - 1 \in 0..(s.len - 1)
      BY <1>1, <1>7, <1>8, StraightCells
    <2> QED BY <1>1, <1>7, <1>10, <1>11, <2>3
  <1> QED BY <1>6, <1>7, <1>8, <1>9, <1>12, TouchSteps DEF Sound

\* An exchange appends to an empty silo, or replaces one element.
LEMMA SwopSteps ==
  ASSUME NEW s, Sound(s), NEW v \in Value
  PROVE  /\ Stepped(s, Swop(s, v))
         /\ s.len = 0 => Elems(Swop(s, v)) = <<v>>
         /\ s.len # 0 => LET i == IF s.type = "queue" THEN 1 ELSE s.len
                         IN  /\ Elems(Swop(s, v)) = [Elems(s) EXCEPT ![i] = v]
                             /\ s.data[SwopCell(s)] = Elems(s)[i]
  <1>1. CASE s.len = 0
    <2> DEFINE g == Grow(s, 1)
               d == [g.data EXCEPT ![0] = v]
               u == [g EXCEPT !.data = d, !.head = 0, !.len = 1]
    <2>1. Sound(g) /\ g.cap >= 1 /\ g.gen = s.gen /\ g.type = s.type
      BY GrowKeeps
    <2>2. Swop(s, v) = Touch(u)
      BY <1>1 DEF Swop
    <2> HIDE DEF g
    <2>3. d \in [0..(g.cap - 1) -> Value \cup {Junk}] /\ d[0] = v
      BY <2>1, SoundShape
    <2> HIDE DEF d
    <2>4. u.type = g.type /\ u.data = d /\ u.cap = g.cap
          /\ u.len = 1 /\ u.head = 0 /\ u.gen = g.gen
      BY <2>1, SoundShape DEF IsSilo
    <2>5. IsSilo(u)
      <3>1. 1 \in 0..g.cap /\ 0 \in Nat
        BY <2>1, SoundShape
      <3> QED BY <3>1, <2>1, <2>3, <2>4, SoundShape DEF IsSilo
    <2> HIDE DEF u
    <2>6. Stored(u) /\ Straight(u)
      <3>1. \A i \in 0..(u.len - 1) : Cell(u, i) = 0
        <4> TAKE i \in 0..(u.len - 1)
        <4>1. i = 0 /\ 0 \in Nat /\ 0 < u.cap
          BY <2>1, <2>4, SoundShape
        <4> QED BY <4>1, <2>4, <2>5, CellInside
      <3> QED BY <3>1, <2>3, <2>4 DEF Stored, Straight
    <2>7. Elems(u) = <<v>>
      <3>1. Sound(u) /\ <<v>> \in Seq(Value) /\ Len(<<v>>) = u.len
        BY <2>4, <2>5, <2>6 DEF Sound
      <3>2. Cell(u, 0) = 0
        BY <2>1, <2>4, <2>5, SoundShape, StraightCells
      <3>3. \A i \in 0..(u.len - 1) : u.data[Cell(u, i)] = <<v>>[i + 1]
        BY <2>3, <2>4, <3>2
      <3> QED BY <3>1, <3>3, ElemsAre
    <2> QED BY <1>1, <2>1, <2>2, <2>4, <2>5, <2>6, <2>7, TouchSteps DEF Sound
  <1>2. CASE s.len # 0
    <2> DEFINE c == SwopCell(s)
               d == [s.data EXCEPT ![c] = v]
               u == [s EXCEPT !.data = d]
    <2>1. c \in 0..(s.cap - 1)
      BY <1>2, SoundShape DEF SwopCell
    <2>2. Swop(s, v) = Touch(u)
      BY <1>2 DEF Swop
    <2>8. PICK k \in 1..s.len : /\ k = IF s.type = "queue" THEN 1 ELSE s.len
                               /\ c = Cell(s, k - 1)
      <3>1. s.len \in 1..s.cap /\ s.cap \in Nat
        BY <1>2, SoundShape
      <3>2. CASE s.type = "queue"
        <4>1. s.head < s.cap /\ 0 \in 0..(s.cap - 1) /\ s.head \in Nat
          BY <3>1, SoundShape
        <4>2. Cell(s, 0) = s.head
          BY <4>1, SoundFields
        <4> QED BY <3>1, <3>2, <4>2 DEF SwopCell
      <3>3. CASE s.type # "queue"
        <4>1. s.head = 0 /\ IsSilo(s)
          BY <3>3, SoundShape
        <4>2. Cell(s, s.len - 1) = s.len - 1
          BY <3>1, <4>1, StraightCells
        <4> QED BY <3>1, <3>3, <4>2 DEF SwopCell
      <3> QED BY <3>2, <3>3
    <2> HIDE DEF c
    <2>3. d \in [0..(s.cap - 1) -> Value \cup {Junk}]
      BY <2>1, SoundShape
    <2>4. \A i \in 0..(s.len - 1) : d[Cell(s, i)] \in Value
      <3> TAKE i \in 0..(s.len - 1)
      <3>1. i \in 0..(s.cap - 1) /\ s.data[Cell(s, i)] \in Value
        BY SoundShape DEF Sound, Stored
      <3>2. Cell(s, i) \in 0..(s.cap - 1)
        BY <3>1, SoundFields
      <3> QED BY <3>1, <3>2, <2>1, SoundShape
    <2>9. \A i \in 1..s.len : d[Cell(s, i - 1)] = IF i = k THEN v ELSE s.data[Cell(s, i - 1)]
      <3> TAKE i \in 1..s.len
      <3>1. i - 1 \in 0..(s.cap - 1) /\ k - 1 \in 0..(s.cap - 1) /\ (i # k => i - 1 # k - 1)
        BY SoundShape
      <3>2. i # k => Cell(s, i - 1) # c
        BY <2>8, <3>1, CellsApart
      <3>3. Cell(s, i - 1) \in 0..(s.cap - 1) /\ DOMAIN s.data = 0..(s.cap - 1)
        BY <3>1, SoundFields
      <3> QED BY <2>1, <2>8, <3>2, <3>3
    <2> HIDE DEF d
    <2>5. u.type = s.type /\ u.data = d /\ u.cap = s.cap
          /\ u.len = s.len /\ u.head = s.head /\ u.gen = s.gen
      BY SoundShape DEF IsSilo
    <2>6. IsSilo(u)
      BY <2>3, <2>5, SoundShape DEF IsSilo
    <2> HIDE DEF u
    <2>7. Stored(u) /\ Straight(u)
      BY <2>4, <2>5, SoundShape DEF Stored, Straight, Cell
    <2>10. Elems(u) = [Elems(s) EXCEPT ![k] = v]
      <3>1. DOMAIN Elems(s) = 1..s.len /\ \A i \in 1..s.len : Elems(s)[i] = s.data[Cell(s, i - 1)]
        BY ElemsShape
      <3>2. \A i \in 1..s.len : u.data[Cell(u, i - 1)] = IF i = k THEN v ELSE Elems(s)[i]
        BY <2>5, <2>9, <3>1 DEF Cell
      <3>3. Elems(u) = [i \in 1..s.len |-> IF i = k THEN v ELSE Elems(s)[i]]
        BY <2>5, <3>2 DEF Elems
      <3> QED BY <3>1, <3>3
    <2>11. s.data[c] = Elems(s)[k]
      BY <2>8, ElemsShape
    <2> QED BY <1>2, <2>2, <2>5, <2>6, <2>7, <2>8, <2>10, <2>11, TouchSteps DEF Sound, c
  <1> QED BY <1>1, <1>2

\* An element that is handed out leaves the rest as it was.
LEMMA SpewOneSteps ==
  ASSUME NEW s, Sound(s), s.len > 0
  PROVE  /\ Stepped(s, SpewOne(s)) /\ Elems(SpewOne(s)) = Tail(Elems(s))
         /\ s.data[s.head] = Head(Elems(s))
  <1>0. s.data[s.head] = Head(Elems(s))
    <2>1. s.head \in Nat /\ s.head < s.cap /\ 0 \in 0..(s.cap - 1) /\ 0 \in 0..(s.len - 1)
      BY SoundShape
    <2>2. Cell(s, 0) = s.head
      BY <2>1, SoundFields
    <2>3. Head(Elems(s)) = Elems(s)[1]
      OBVIOUS
    <2> QED BY <2>1, <2>2, <2>3, ElemsShape
  <1>1. CASE s.type = "queue"
    BY <1>0, <1>1, DequeueSteps DEF SpewOne
  <1>2. CASE s.type # "queue"
    <2>1. s.type \in {"stack", "seq"} /\ 0 \in 0..(s.len - 1)
      BY <1>2, SoundShape DEF LinearTypes
    <2>2. SpewOne(s) = DropAt(s, 0)
      BY <1>2 DEF SpewOne
    <2>3. Stepped(s, DropAt(s, 0))
      BY <2>1, DropAtSteps
    <2>4. Elems(DropAt(s, 0)) =
            [i \in 1..(s.len - 1) |-> IF i <= 0 THEN Elems(s)[i] ELSE Elems(s)[i + 1]]
      BY <2>1, DropAtSteps
    <2>5. /\ Elems(s) \in Seq(Value) /\ Len(Elems(s)) = s.len /\ s.len \in Nat
          /\ Elems(s) # <<>>
      BY ElemsShape
    <2>6. /\ Tail(Elems(s)) \in Seq(Value) /\ Len(Tail(Elems(s))) = s.len - 1
          /\ \A i \in 1..(s.len - 1) : Tail(Elems(s))[i] = Elems(s)[i + 1]
      BY <2>5, HeadTailProperties
    <2>7. Tail(Elems(s)) = [i \in 1..(s.len - 1) |-> Tail(Elems(s))[i]]
      BY <2>6, LenProperties
    <2>8. Elems(DropAt(s, 0)) = Tail(Elems(s))
      BY <2>4, <2>5, <2>6, <2>7
    <2> QED BY <1>0, <2>2, <2>3, <2>8
  <1> QED BY <1>1, <1>2

-----------------------------------------------------------------------------
(* The invariant, action by action. *)

\* TypeOK and NoJunk are not inductive alone: that a stack or a sequence
\* never rotates is what makes cell i hold element i when it is copied.
IInv == TypeOK /\ NoJunk /\ Straight(silo)

\* A new silo is sound.
LEMMA InitSound == Init => IInv
  <1> SUFFICES ASSUME Init PROVE IInv
    OBVIOUS
  <1>0. PICK type \in Types : silo = NewSilo(type)
    BY DEF Init
  <1>1. /\ silo.type \in Types /\ silo.cap = 0 /\ silo.len = 0 /\ silo.head = 0
        /\ silo.gen = 1 /\ silo.data = [i \in 0..-1 |-> Junk]
    BY <1>0 DEF NewSilo
  <1>2. silo \in [type : LinearTypes, data : [0..(silo.cap - 1) -> Value \cup {Junk}],
                  cap : Nat, len : 0..silo.cap, head : Nat, gen : Nat]
    BY <1>0, <1>1, TypesAssumption DEF NewSilo
  <1>3. IsSilo(silo)
    BY <1>1, <1>2 DEF IsSilo
  <1> QED BY <1>1, <1>3 DEF Init, IInv, TypeOK, NoJunk, Stored, Straight

\* What a step may do to the silo: nothing, a new generation, or a larger
\* storage for the same elements.
Advance ==
  /\ Sound(silo')
  /\ silo'.type = silo.type
  /\ \/ silo' = silo
     \/ silo'.gen = silo.gen + 1
     \/ silo'.gen = silo.gen /\ Elems(silo') = Elems(silo)

\* A step that leaves the silo alone leaves its elements alone.
LEMMA StayAdvance == IInv /\ silo' = silo => Advance
  BY DEF IInv, TypeOK, NoJunk, Sound, Advance

\* A routine that keeps a silo sound and counts a generation advances.
LEMMA SteppedAdvance == Stepped(silo, silo') => Advance
  BY DEF Stepped, Advance

\* Every step advances: sound before, it is sound after, and changed elements have a new generation.
LEMMA NextAdvance == IInv /\ [Next]_vars => Advance
  <1> SUFFICES ASSUME IInv, [Next]_vars PROVE Advance
    OBVIOUS
  <1> USE StayAdvance, SteppedAdvance
  <1>1. Sound(silo) /\ silo.type \in Types /\ silo.len \in Nat
    BY SoundShape DEF IInv, TypeOK, NoJunk, Sound
  <1>2. ASSUME NEW v \in Value, Add(v) PROVE Advance
    BY <1>1, <1>2, AppendOneSteps DEF Add, OutOfMemory, Error
  <1>3. ASSUME NEW v \in Value, SwopWith(v) PROVE Advance
    BY <1>1, <1>3, SwopSteps DEF SwopWith, OutOfMemory, Error
  <1>4. CASE Take
    <2>1. CASE Empty
      BY <2>1, <1>4 DEF Take, Error
    <2>2. CASE ~Empty
      BY <2>2, <1>1, <1>4, PopSteps, DequeueSteps DEF Take, Empty
    <2> QED BY <2>1, <2>2
  <1>5. CASE Peek \/ Count
    BY <1>5 DEF Peek, Count, Error
  <1>6. CASE Clear
    BY <1>1, <1>6, TeemSteps DEF Clear
  <1>7. CASE Shrink
    BY <1>1, <1>7, TampSteps DEF Shrink, Error
  <1>8. ASSUME NEW pos \in Pos, Drop(pos) PROVE Advance
    <2> DEFINE p == NormIndex(silo.len, pos, FALSE)
    <2>1. CASE p = -1
      BY <2>1, <1>8 DEF Drop, Error
    <2>2. CASE p # -1
      <3>1. p \in 0..(silo.len - 1)
        <4>1. pos \in Int
          BY BoundAssumption DEF Pos
        <4> QED BY <4>1, <2>2, <1>1, IndexInside
      <3>2. silo' = DropAt(silo, p) /\ silo.type = "seq"
        BY <2>2, <1>1, <1>8 DEF Drop
      <3> QED BY <3>1, <3>2, <1>1, DropAtSteps
    <2> QED BY <2>1, <2>2
  <1>9. ASSUME NEW pos \in Pos, Pick(pos) PROVE Advance
    BY <1>9 DEF Pick, Error
  <1>10. ASSUME NEW pos \in Pos, NEW v \in Value, Place(pos, v) PROVE Advance
    <2> DEFINE p == NormIndex(silo.len, pos, TRUE)
    <2>1. CASE p = -1
      BY <2>1, <1>10 DEF Place, Error
    <2>2. CASE p # -1
      <3>1. p \in 0..silo.len
        <4>1. pos \in Int
          BY BoundAssumption DEF Pos
        <4> QED BY <4>1, <2>2, <1>1, IndexInside
      <3>2. silo' = PlaceAt(silo, p, v) \/ silo' = silo
        BY <2>2, <1>10 DEF Place, OutOfMemory, Error
      <3>3. silo.type = "seq"
        BY <1>1, <1>10 DEF Place
      <3>4. v \in Value /\ Sound(silo)
        BY <1>1, <1>10
      <3>5. CASE silo' = silo
        BY <3>5
      <3>6. CASE silo' = PlaceAt(silo, p, v)
        <4>1. Stepped(silo, PlaceAt(silo, p, v))
          BY <3>1, <3>3, <3>4, PlaceAtSteps
        <4> QED BY <3>6, <4>1
      <3> QED BY <3>2, <3>5, <3>6
    <2> QED BY <2>1, <2>2
  <1>11. ASSUME NEW pos \in Pos, NEW pb \in Pos, Swap(pos, pb) PROVE Advance
    <2> DEFINE a == NormIndex(silo.len, pos, FALSE)
               b == NormIndex(silo.len, pb, FALSE)
    <2>1. CASE a = -1 \/ b = -1
      BY <2>1, <1>11 DEF Swap, Error
    <2>2. CASE ~(a = -1 \/ b = -1)
      <3>1. a \in 0..(silo.len - 1) /\ b \in 0..(silo.len - 1)
        <4>1. pos \in Int /\ pb \in Int
          BY BoundAssumption DEF Pos
        <4> QED BY <4>1, <2>2, <1>1, IndexInside
      <3>2. silo' = SwapAt(silo, a, b) /\ silo.type = "seq"
        BY <2>2, <1>1, <1>11 DEF Swap
      <3> QED BY <3>1, <3>2, <1>1, SwapAtSteps
    <2> QED BY <2>1, <2>2
  <1>12. ASSUME NEW size \in 1..MaxLen, Efflate(size) PROVE Advance
    <2>1. CASE silo' = silo
      BY <2>1
    <2>2. CASE silo' = Grow(silo, size)
      <3>1. size \in Nat
        BY BoundAssumption
      <3> QED BY <3>1, <2>2, <1>1, GrowKeeps DEF Advance
    <2> QED BY <2>1, <2>2, <1>12 DEF Efflate, OutOfMemory, Error
  <1>13. ASSUME NEW data \in Batches, BeginCram(data) PROVE Advance
    BY <1>13 DEF BeginCram
  <1>14. ASSUME NEW n \in 1..MaxBatch, BeginSpew(n) PROVE Advance
    BY <1>14 DEF BeginSpew
  <1>15. CASE CramStep
    <2>1. CASE silo' = silo
      BY <2>1
    <2>2. CASE silo' # silo
      <3>1. todo.op = "cram" /\ todo.data # <<>> /\ silo' = AppendOne(silo, Head(todo.data))
        BY <2>2, <1>15 DEF CramStep, OutOfMemory, Error
      <3>2. todo.data \in Seq(Value)
        BY <3>1 DEF IInv, TypeOK, Idle
      <3>3. Head(todo.data) \in Value
        BY <3>1, <3>2
      <3> QED BY <3>1, <3>3, <1>1, AppendOneSteps
    <2> QED BY <2>1, <2>2
  <1>16. CASE SpewStep
    <2>1. CASE silo' = silo
      BY <2>1
    <2>2. CASE silo' # silo
      <3>1. silo' = SpewOne(silo) /\ silo.len > 0
        BY <2>2, <1>1, <1>16 DEF SpewStep, Empty
      <3> QED BY <3>1, <1>1, SpewOneSteps
    <2> QED BY <2>1, <2>2
  <1>17. CASE UNCHANGED vars
    BY <1>17 DEF vars
  <1> QED
    BY <1>2, <1>3, <1>4, <1>5, <1>6, <1>7, <1>8, <1>9, <1>10, <1>11, <1>12, <1>13,
       <1>14, <1>15, <1>16, <1>17 DEF Next

\* A batch in progress only carries values.
BatchOK ==
  \/ todo = Idle
  \/ todo \in [op : {"cram"}, data : Seq(Value)]
  \/ todo \in [op : {"spew"}, n : Nat, got : Seq(Value)]

\* What is still to be added are values.
LEMMA NextBatch == IInv /\ [Next]_vars => BatchOK'
  <1> SUFFICES ASSUME IInv, [Next]_vars PROVE BatchOK'
    OBVIOUS
  <1>1. Sound(silo) /\ BatchOK
    BY DEF IInv, TypeOK, NoJunk, Sound, BatchOK
  <1>2. CASE UNCHANGED todo
    BY <1>1, <1>2 DEF BatchOK
  <1>3. ASSUME NEW data \in Batches, BeginCram(data) PROVE BatchOK'
    <2>1. data \in Seq(Value)
      BY BoundAssumption DEF Batches
    <2> QED BY <2>1, <1>3 DEF BeginCram, BatchOK
  <1>4. ASSUME NEW n \in 1..MaxBatch, BeginSpew(n) PROVE BatchOK'
    <2>1. n \in Nat /\ <<>> \in Seq(Value)
      BY BoundAssumption
    <2> QED BY <2>1, <1>4 DEF BeginSpew, BatchOK
  <1>5. CASE CramStep
    <2>1. CASE todo' = Idle
      BY <2>1 DEF BatchOK
    <2>2. CASE todo' # Idle
      <3>1. todo.data # <<>> /\ todo' = [todo EXCEPT !.data = Tail(todo.data)]
        BY <2>2, <1>5 DEF CramStep
      <3>2. todo \in [op : {"cram"}, data : Seq(Value)]
        BY <1>1, <1>5 DEF CramStep, BatchOK, Idle
      <3>3. Tail(todo.data) \in Seq(Value)
        BY <3>1, <3>2
      <3> QED BY <3>1, <3>2, <3>3 DEF BatchOK
    <2> QED BY <2>1, <2>2
  <1>6. CASE SpewStep
    <2>1. CASE todo' = Idle
      BY <2>1 DEF BatchOK
    <2>2. CASE todo' # Idle
      <3> DEFINE x == silo.data[silo.head]
      <3>1. /\ todo.n # 0 /\ silo.len > 0
            /\ todo' = [todo EXCEPT !.n = todo.n - 1, !.got = Append(todo.got, x)]
        BY <2>2, <1>1, <1>6, SoundShape DEF SpewStep, Empty
      <3>2. todo \in [op : {"spew"}, n : Nat, got : Seq(Value)]
        BY <1>1, <1>6 DEF SpewStep, BatchOK, Idle
      <3>3. x \in Value
        <4>1. silo.data[Cell(silo, 0)] \in Value
          BY <3>1, <1>1, SoundShape DEF Sound, Stored
        <4>2. Cell(silo, 0) = silo.head
          <5>1. silo.head \in Nat /\ silo.cap \in Nat /\ silo.cap > 0
                /\ silo.head < silo.cap /\ 0 \in Nat
            BY <3>1, <1>1, SoundShape
          <5>2. IsSilo(silo)
            BY <1>1, SoundShape
          <5> QED BY <5>1, <5>2, CellInside
        <4> QED BY <4>1, <4>2
      <3> HIDE DEF x
      <3>4. todo.n - 1 \in Nat /\ Append(todo.got, x) \in Seq(Value)
        BY <3>1, <3>2, <3>3
      <3> QED BY <3>1, <3>2, <3>4 DEF BatchOK
    <2> QED BY <2>1, <2>2
  <1> QED
    BY <1>2, <1>3, <1>4, <1>5, <1>6 DEF Next, vars, Called, Add, SwopWith, Take, Peek,
       Clear, Count, Shrink, Drop, Pick, Place, Swap, Efflate

\* The invariant is inductive.
LEMMA NextSound == IInv /\ [Next]_vars => IInv'
  <1> SUFFICES ASSUME IInv, [Next]_vars PROVE IInv'
    OBVIOUS
  <1>1. Advance /\ BatchOK'
    BY NextAdvance, NextBatch
  <1>2. /\ IsSilo(silo)' /\ Stored(silo)' /\ Straight(silo)'
        /\ silo'.type = silo.type
    BY <1>1 DEF Advance, Sound, IsSilo, Stored, Straight, Cell
  <1> QED BY <1>1, <1>2 DEF IInv, TypeOK, NoJunk, BatchOK

-----------------------------------------------------------------------------
(* Theorems *)

\* It holds in every state.
LEMMA InvariantHolds == Spec => []IInv
  BY InitSound, NextSound, PTL DEF Spec

\* For every chunk size and every sequence of calls the record of a linear
\* silo keeps its shape: occupied cells inside the storage, head inside it.
THEOREM TypeCorrect == Spec => []TypeOK
  <1>1. IInv => TypeOK
    BY DEF IInv
  <1> QED BY <1>1, InvariantHolds, PTL

\* Growing, unwrapping, shifting, shrinking and rotating never expose a cell
\* that was not written: every element is a value some call stored.
THEOREM ElementsStored == Spec => []NoJunk
  <1>1. IInv => NoJunk
    BY DEF IInv
  <1> QED BY <1>1, InvariantHolds, PTL

\* No step changes the elements of the silo under an unchanged generation,
\* so an iterator that finds its generation again finds the same elements.
THEOREM ChangesCounted == Spec => MutationTouches
  <1>1. IInv /\ [Next]_vars =>
          [Elems(silo') # Elems(silo) => silo'.gen > silo.gen]_silo
    <2> SUFFICES ASSUME IInv, [Next]_vars, Elems(silo') # Elems(silo)
                 PROVE  silo'.gen > silo.gen
      OBVIOUS
    <2>1. Advance
      BY NextAdvance
    <2>2. silo.gen \in Nat
      BY SoundShape DEF IInv, TypeOK, IsSilo
    <2> QED BY <2>1, <2>2 DEF Advance
  <1> QED BY <1>1, InvariantHolds, PTL DEF Spec, MutationTouches
-----------------------------------------------------------------------------
(* The storage implements the plain sequence of SeqSpec. *)

\* The cell a straight silo keeps an element in.
LEMMA CellOfElem ==
  ASSUME NEW s, Sound(s), s.type # "queue", NEW i \in 0..(s.len - 1)
  PROVE  s.data[i] = Elems(s)[i + 1]
  <1>1. IsSilo(s) /\ s.head = 0 /\ i \in 0..(s.cap - 1)
    BY SoundShape
  <1> QED BY <1>1, StraightCells, ElemsShape

\* The cell of the last element of a stack or a sequence.
LEMMA LastCell ==
  ASSUME NEW s, Sound(s), s.type # "queue", s.len > 0
  PROVE  s.data[s.len - 1] = Elems(s)[s.len]
  <1>1. s.len - 1 \in 0..(s.len - 1) /\ (s.len - 1) + 1 = s.len
    BY SoundShape
  <1> QED BY <1>1, CellOfElem

\* The head of a silo is the cell of its first element.
LEMMA FirstCell ==
  ASSUME NEW s, Sound(s), s.len > 0
  PROVE  s.data[s.head] = Elems(s)[1]
  BY SpewOneSteps, ElemsShape

\* The index a sequence works at is the abstract one.
LEMMA IndexSame ==
  ASSUME NEW len \in Nat, NEW pos \in Int, NEW allowEnd \in BOOLEAN
  PROVE  LET p == IF pos < 0 THEN pos + len ELSE pos
         IN  /\ NormIndex(len, pos, FALSE) = IF p \in 0..(len - 1) THEN p ELSE -1
             /\ NormIndex(len, pos, TRUE)  = IF p \in 0..len THEN p ELSE -1
  BY DEF NormIndex

\* A new silo is the empty sequence.
LEMMA InitImplements == Init => Abstract!Init
  <1> SUFFICES ASSUME Init PROVE Abstract!Init
    OBVIOUS
  <1>1. PICK type \in Types : silo = NewSilo(type)
    BY DEF Init
  <1>2. silo.type \in Types /\ silo.len = 0
    BY <1>1 DEF NewSilo
  <1>3. Elems(silo) = <<>>
    BY <1>2 DEF Elems
  <1> QED BY <1>2, <1>3 DEF Init, Abstract!Init, Idle, None, Abstract!Idle, Abstract!None

\* Every step is a step of the plain sequence, or none.
LEMMA NextImplements == IInv /\ [Next]_vars => [Abstract!Next]_(Abstract!vars)
  <1> SUFFICES ASSUME IInv, [Next]_vars PROVE [Abstract!Next]_(Abstract!vars)
    OBVIOUS
  <1> DEFINE E == Elems(silo)
  <1>t. silo'.type = silo.type
    BY NextAdvance DEF Advance
  <1>s. Sound(silo) /\ silo.type \in Types /\ silo.type \in LinearTypes /\ silo.len \in Nat
    BY SoundShape DEF IInv, TypeOK, NoJunk, Sound
  <1>e. /\ E \in Seq(Value) /\ Len(E) = silo.len
        /\ \A i \in 0..(silo.len - 1) : E[i + 1] = silo.data[Cell(silo, i)]
        /\ (E = <<>> <=> silo.len = 0)
    BY <1>s, ElemsShape
  <1>p. E' = Elems(silo')
    BY DEF Elems, Cell
  <1>q. Pos \subseteq Int /\ Pos = -(MaxLen + 1)..(MaxLen + 1)
    BY BoundAssumption DEF Pos
  <1>o. ASSUME Abstract!Operation PROVE [Abstract!Next]_(Abstract!vars)
    BY <1>o, <1>t DEF Abstract!Next
  <1> USE DEF Called, Result, None, Idle, Abstract!Called, Abstract!Ok, Abstract!Fail,
              Abstract!None, Abstract!Idle
  <1>f. Error => ret' = [err |-> TRUE, val |-> <<>>] /\ E' = E
    BY <1>p DEF Error
  <1>u. silo' = silo => E' = E
    BY <1>p
  <1>2. ASSUME NEW v \in Value, Add(v) PROVE Abstract!Add(v)
    <2>1. CASE silo' = AppendOne(silo, v) /\ Result(None)
      BY <2>1, <1>2, <1>s, <1>p, AppendOneSteps DEF Add, Abstract!Add
    <2>2. CASE Error
      BY <2>2, <1>2, <1>f DEF Add, Abstract!Add
    <2> QED BY <1>2, <2>1, <2>2 DEF Add, OutOfMemory
  <1>3. ASSUME NEW v \in Value, SwopWith(v) PROVE Abstract!Swop(v)
    <2>1. CASE silo' # Swop(silo, v) /\ Empty /\ Error
      BY <2>1, <1>3, <1>e, <1>f DEF SwopWith, Abstract!Swop, Empty
    <2>2. CASE silo' = Swop(silo, v) /\ Empty
      BY <2>2, <1>3, <1>s, <1>e, <1>p, <1>f, SwopSteps
         DEF SwopWith, Abstract!Swop, Empty, OutOfMemory
    <2>3. CASE silo' = Swop(silo, v) /\ ~Empty
      <3>1. PICK i : i = IF silo.type = "queue" THEN 1 ELSE silo.len
        OBVIOUS
      <3>2. E' = [E EXCEPT ![i] = v] /\ silo.data[SwopCell(silo)] = E[i]
        BY <2>3, <3>1, <1>s, <1>p, SwopSteps DEF Empty
      <3>3. ret' = [err |-> FALSE, val |-> <<E[i]>>] /\ todo = Idle /\ todo' = todo /\ E # <<>>
        BY <2>3, <3>2, <1>3, <1>e DEF SwopWith, Empty
      <3>4. i = IF silo.type = "queue" THEN 1 ELSE Len(E)
        BY <3>1, <1>e
      <3> QED BY <3>2, <3>3, <3>4 DEF Abstract!Swop
    <2> QED BY <1>3, <2>1, <2>2, <2>3 DEF SwopWith, OutOfMemory
  <1>4. ASSUME Take PROVE Abstract!Take
    <2>1. CASE Empty
      BY <2>1, <1>4, <1>e, <1>f DEF Take, Empty, Abstract!Take
    <2>2. CASE ~Empty /\ silo.type = "stack"
      <3>1. silo.len > 0 /\ silo.len - 1 \in 0..(silo.len - 1) /\ E # <<>>
        BY <2>2, <1>s, <1>e DEF Empty
      <3>2. E' = SubSeq(E, 1, Len(E) - 1)
        BY <2>2, <3>1, <1>4, <1>s, <1>e, <1>p, PopSteps DEF Take
      <3>3. silo.data[silo.len - 1] = E[Len(E)]
        BY <2>2, <3>1, <1>s, <1>e, LastCell
      <3> QED BY <2>2, <3>1, <3>2, <3>3, <1>4 DEF Take, Abstract!Take
    <2>3. CASE ~Empty /\ silo.type = "queue"
      <3>1. silo.len > 0 /\ E # <<>>
        BY <2>3, <1>s, <1>e DEF Empty
      <3>2. E' = Tail(E) /\ Tail(E) = SubSeq(E, 2, Len(E))
        BY <2>3, <3>1, <1>4, <1>s, <1>e, <1>p, DequeueSteps, TailIsSubSeq DEF Take
      <3>3. silo.data[silo.head] = E[1]
        BY <2>3, <3>1, <1>s, FirstCell
      <3> QED BY <2>3, <3>1, <3>2, <3>3, <1>4 DEF Take, Abstract!Take
    <2> QED BY <1>4, <2>1, <2>2, <2>3 DEF Take
  <1>5. ASSUME Peek PROVE Abstract!Peek
    <2>1. CASE Empty
      BY <2>1, <1>5, <1>e, <1>f DEF Peek, Empty, Abstract!Peek
    <2>2. CASE ~Empty
      <3>1. silo.len > 0 /\ E # <<>> /\ silo.data[silo.head] = E[1]
            /\ (silo.type = "stack" => silo.data[silo.len - 1] = E[Len(E)])
        BY <2>2, <1>s, <1>e, FirstCell, LastCell DEF Empty
      <3> QED BY <2>2, <3>1, <1>5, <1>u DEF Peek, Abstract!Peek
    <2> QED BY <2>1, <2>2
  <1>6. ASSUME Clear PROVE Abstract!Clear
    BY <1>6, <1>s, <1>p, TeemSteps DEF Clear, Abstract!Clear
  <1>7. ASSUME Count PROVE Abstract!Count
    BY <1>7, <1>e, <1>u DEF Count, Abstract!Count
  <1>8. ASSUME Shrink PROVE Abstract!Resize
    BY <1>8, <1>s, <1>p, <1>f, <1>u, TampSteps DEF Shrink, Abstract!Resize
  <1>9. ASSUME NEW size \in 1..MaxLen, Efflate(size) PROVE Abstract!Resize
    <2>1. size \in Nat
      BY BoundAssumption
    <2> QED BY <1>9, <2>1, <1>s, <1>p, <1>f, GrowKeeps DEF Efflate, OutOfMemory, Abstract!Resize
  <1>10. ASSUME NEW pos \in Pos, Drop(pos) PROVE Abstract!Drop(pos)
    <2>1. PICK p : p = Abstract!Index(pos)
      OBVIOUS
    <2>2. /\ p = IF pos < 0 THEN pos + silo.len ELSE pos
          /\ NormIndex(silo.len, pos, FALSE) = IF p \in 0..(silo.len - 1) THEN p ELSE -1
      BY <2>1, <1>e, <1>q, <1>s, IndexSame DEF Abstract!Index
    <2>3. CASE p \notin 0..(silo.len - 1)
      BY <2>1, <2>2, <2>3, <1>10, <1>e, <1>f DEF Drop, Abstract!Drop, Abstract!Inside
    <2>4. CASE p \in 0..(silo.len - 1)
      <3>0. p \in 0..(silo.len - 1) /\ p # -1 /\ NormIndex(silo.len, pos, FALSE) = p
        <4>1. p # -1
          BY <2>4, <1>s
        <4> QED BY <2>2, <2>4, <4>1
      <3>1. /\ silo.type = "seq" /\ todo = Idle /\ todo' = todo
            /\ silo' = DropAt(silo, p) /\ Result(<<silo.data[p]>>)
        BY <3>0, <1>10 DEF Drop
      <3>2. E' = [i \in 1..(silo.len - 1) |-> IF i <= p THEN E[i] ELSE E[i + 1]]
        BY <3>0, <3>1, <1>p, <1>s, DropAtSteps
      <3>3. silo.data[p] = E[p + 1]
        BY <3>0, <3>1, <1>s, CellOfElem
      <3> QED BY <2>1, <2>4, <3>1, <3>2, <3>3, <1>e DEF Abstract!Drop, Abstract!Inside
    <2> QED BY <2>3, <2>4
  <1>11. ASSUME NEW pos \in Pos, Pick(pos) PROVE Abstract!Pick(pos)
    <2>1. PICK p : p = Abstract!Index(pos)
      OBVIOUS
    <2>2. /\ p = IF pos < 0 THEN pos + silo.len ELSE pos
          /\ NormIndex(silo.len, pos, FALSE) = IF p \in 0..(silo.len - 1) THEN p ELSE -1
      BY <2>1, <1>e, <1>q, <1>s, IndexSame DEF Abstract!Index
    <2>3. CASE p \notin 0..(silo.len - 1)
      BY <2>1, <2>2, <2>3, <1>11, <1>e, <1>f DEF Pick, Abstract!Pick, Abstract!Inside
    <2>4. CASE p \in 0..(silo.len - 1)
      <3>0. p \in 0..(silo.len - 1) /\ p # -1 /\ NormIndex(silo.len, pos, FALSE) = p
        <4>1. p # -1
          BY <2>4, <1>s
        <4> QED BY <2>2, <2>4, <4>1
      <3>1. /\ silo.type = "seq" /\ todo = Idle /\ todo' = todo
            /\ silo' = silo /\ Result(<<silo.data[p]>>)
        BY <3>0, <1>11 DEF Pick
      <3>3. silo.data[p] = E[p + 1]
        BY <3>0, <3>1, <1>s, CellOfElem
      <3> QED BY <2>1, <2>4, <3>1, <3>3, <1>e, <1>u DEF Abstract!Pick, Abstract!Inside
    <2> QED BY <2>3, <2>4
  <1>12. ASSUME NEW pos \in Pos, NEW v \in Value, Place(pos, v) PROVE Abstract!Place(pos, v)
    <2>1. PICK p : p = Abstract!Index(pos)
      OBVIOUS
    <2>2. /\ p = IF pos < 0 THEN pos + silo.len ELSE pos
          /\ NormIndex(silo.len, pos, TRUE) = IF p \in 0..silo.len THEN p ELSE -1
      BY <2>1, <1>e, <1>q, <1>s, IndexSame DEF Abstract!Index
    <2>3. CASE Error
      BY <2>3, <1>12, <1>f DEF Place, Abstract!Place
    <2>4. CASE ~Error
      <3>1. /\ p \in 0..silo.len /\ silo.type = "seq" /\ todo = Idle /\ todo' = todo
            /\ silo' = PlaceAt(silo, p, v) /\ Result(None)
        BY <2>2, <2>4, <1>12 DEF Place, OutOfMemory
      <3>2. E' = [i \in 1..(silo.len + 1) |-> IF i <= p THEN E[i]
                                             ELSE IF i = p + 1 THEN v ELSE E[i - 1]]
        BY <3>1, <1>p, <1>s, PlaceAtSteps
      <3> QED BY <2>1, <3>1, <3>2, <1>e DEF Abstract!Place
    <2> QED BY <2>3, <2>4
  <1>13. ASSUME NEW pa \in Pos, NEW pb \in Pos, Swap(pa, pb) PROVE Abstract!Swap(pa, pb)
    <2>1. PICK a, b : a = Abstract!Index(pa) /\ b = Abstract!Index(pb)
      OBVIOUS
    <2>2. /\ a = IF pa < 0 THEN pa + silo.len ELSE pa
          /\ b = IF pb < 0 THEN pb + silo.len ELSE pb
      BY <2>1, <1>e, <1>q, <1>s DEF Abstract!Index
    <2>5. /\ NormIndex(silo.len, pa, FALSE) = IF a \in 0..(silo.len - 1) THEN a ELSE -1
          /\ NormIndex(silo.len, pb, FALSE) = IF b \in 0..(silo.len - 1) THEN b ELSE -1
      BY <2>2, <1>q, <1>s, IndexSame
    <2>3. CASE ~(a \in 0..(silo.len - 1) /\ b \in 0..(silo.len - 1))
      BY <2>1, <2>2, <2>3, <2>5, <1>13, <1>e, <1>f DEF Swap, Abstract!Swap, Abstract!Inside
    <2>4. CASE a \in 0..(silo.len - 1) /\ b \in 0..(silo.len - 1)
      <3>0. /\ a \in 0..(silo.len - 1) /\ a # -1 /\ NormIndex(silo.len, pa, FALSE) = a
            /\ b \in 0..(silo.len - 1) /\ b # -1 /\ NormIndex(silo.len, pb, FALSE) = b
        <4>1. a # -1 /\ b # -1
          BY <2>4, <1>s
        <4> QED BY <2>4, <2>5, <4>1
      <3>1. /\ silo.type = "seq" /\ todo = Idle /\ todo' = todo
            /\ silo' = SwapAt(silo, a, b) /\ Result(None)
        BY <3>0, <1>13 DEF Swap
      <3>2. E' = [E EXCEPT ![a + 1] = E[b + 1], ![b + 1] = E[a + 1]]
        BY <3>0, <3>1, <1>p, <1>s, SwapAtSteps
      <3> QED BY <2>1, <2>4, <3>1, <3>2, <1>e DEF Abstract!Swap, Abstract!Inside
    <2> QED BY <2>3, <2>4
  <1>14. ASSUME NEW data \in Batches, BeginCram(data) PROVE Abstract!BeginBatch
    BY <1>14, <1>u DEF BeginCram, Abstract!BeginBatch
  <1>15. ASSUME NEW n \in 1..MaxBatch, BeginSpew(n) PROVE Abstract!BeginBatch
    BY <1>15, <1>u DEF BeginSpew, Abstract!BeginBatch
  <1>16. ASSUME CramStep PROVE Abstract!BatchStep
    <2>1. CASE todo' = Idle /\ silo' = silo
      <3>1. todo.op = "cram" /\ (todo.data # <<>> => todo \in [op : {"cram"}, data : Seq(Value)])
        BY <1>16 DEF CramStep, IInv, TypeOK
      <3>2. [todo EXCEPT !.data = Tail(todo.data)].op = "cram"
        BY <3>1 DEF IInv, TypeOK
      <3>3. todo' # [todo EXCEPT !.data = Tail(todo.data)]
        BY <2>1, <3>2
      <3>4. ret'.err \in BOOLEAN
        <4>1. \/ ret' = [err |-> FALSE, val |-> <<>>]
              \/ ret' = [err |-> TRUE, val |-> <<>>]
          BY <3>3, <1>16 DEF CramStep, OutOfMemory, Error
        <4>2. CASE ret' = [err |-> FALSE, val |-> <<>>]
          BY ONLY <4>2, Zenon
        <4>3. CASE ret' = [err |-> TRUE, val |-> <<>>]
          BY ONLY <4>3, Zenon
        <4> QED BY <4>1, <4>2, <4>3
      <3> QED BY <2>1, <3>1, <3>4, <1>u DEF Abstract!BatchStep
    <2>2. CASE ~(todo' = Idle /\ silo' = silo)
      <3>1. /\ todo.op = "cram" /\ todo.data # <<>> /\ silo' = AppendOne(silo, Head(todo.data))
            /\ todo' = [todo EXCEPT !.data = Tail(@)] /\ UNCHANGED ret
        BY <2>2, <1>16 DEF CramStep, OutOfMemory, Error
      <3>2. Head(todo.data) \in Value
        BY <3>1 DEF IInv, TypeOK
      <3>3. E' = Append(E, Head(todo.data))
        BY <3>1, <3>2, <1>s, <1>p, AppendOneSteps
      <3> QED BY <3>1, <3>3 DEF Abstract!BatchStep
    <2> QED BY <2>1, <2>2
  <1>17. ASSUME SpewStep PROVE Abstract!BatchStep
    <2>0. todo.op = "spew" /\ todo.n \in Nat
      BY <1>17 DEF SpewStep, IInv, TypeOK
    <2>1. CASE todo.n = 0 \/ Empty
      BY <2>0, <2>1, <1>17, <1>u, <1>e DEF SpewStep, Abstract!BatchStep, Empty
    <2>2. CASE ~(todo.n = 0 \/ Empty)
      <3>1. silo.len > 0 /\ todo.n > 0 /\ E # <<>>
        BY <2>0, <2>2, <1>s, <1>e DEF Empty
      <3>2. E' = Tail(E) /\ silo.data[silo.head] = Head(E)
        BY <2>2, <3>1, <1>17, <1>s, <1>p, SpewOneSteps DEF SpewStep
      <3>3. todo' = [todo EXCEPT !.n = @ - 1, !.got = Append(@, Head(E))] /\ UNCHANGED ret
        BY <2>2, <3>2, <1>17 DEF SpewStep
      <3> QED BY <2>0, <3>1, <3>2, <3>3 DEF Abstract!BatchStep
    <2> QED BY <2>1, <2>2
  <1>18. CASE UNCHANGED vars
    BY <1>18, <1>u, <1>t DEF vars, Abstract!vars
  <1> QED
    BY <1>2, <1>3, <1>4, <1>5, <1>6, <1>7, <1>8, <1>9, <1>10, <1>11, <1>12, <1>13,
       <1>14, <1>15, <1>16, <1>17, <1>18, <1>o, <1>q DEF Next, Abstract!Operation

\* For every chunk size and every sequence of calls a linear silo behaves as
\* a plain finite sequence, call by call and result by result.
THEOREM SequenceImplemented == Spec => ImplementsSequence
  BY InitImplements, NextImplements, InvariantHolds, PTL DEF Spec, ImplementsSequence, Abstract!Spec
=============================================================================
