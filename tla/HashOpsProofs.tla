---------------------------- MODULE HashOpsProofs ----------------------------
(***************************************************************************)
(* What is true of a table of HashOps for every hash function, set of      *)
(* keys and values, initial size and load limit below one: what makes a    *)
(* table sound, that each operation keeps it so, and what an operation     *)
(* makes of its entries.                                                   *)
(***************************************************************************)
EXTENDS HashOps, FiniteSetTheorems, WellFoundedInduction, TLAPS

-----------------------------------------------------------------------------
(* Numbers *)

\* A set of naturals has a least element.
LEMMA LeastOf ==
  ASSUME NEW S, S \subseteq Nat, S # {}
  PROVE  \E n \in S : \A m \in S : n <= m
  <1>1. PICK n \in S : \A m \in S : ~ (<<m, n>> \in OpToRel(<, Nat))
    BY NatLessThanWellFounded, WFMin
  <1>2. \A m \in S : ~ (m < n)
    BY <1>1 DEF OpToRel
  <1> QED BY <1>2

\* Slot indices wrap at most once.
LEMMA ModOnce ==
  ASSUME NEW c \in Nat, NEW x \in Nat, x < 2 * c
  PROVE  x % c = IF x < c THEN x ELSE x - c
  BY Z3

\* A remainder is below the modulus.
LEMMA ModBound ==
  ASSUME NEW c \in Nat, c > 0, NEW x \in Nat
  PROVE  x % c \in 0..(c - 1)
  BY Z3

\* Numbers less than the modulus apart have different remainders.
LEMMA SameTurn ==
  ASSUME NEW n \in Nat, NEW h \in 0..(n - 1), NEW c \in 0..(n - 1), NEW d \in 0..(n - 1),
         (IF h + c < n THEN h + c ELSE h + c - n) = (IF h + d < n THEN h + d ELSE h + d - n)
  PROVE  c = d
  OBVIOUS

\* Below the load limit there is room for one more slot in use.
LEMMA LoadRoom ==
  ASSUME NEW x \in Nat, NEW c \in Nat, NEW n \in Nat, NEW d \in Nat,
         n < d, ~(x * d >= c * n), c * (d - n) >= d
  PROVE  x + 1 < c
  <1>1. c * (d - n) = c * d - c * n
    OBVIOUS
  <1>2. (x + 1) * d = x * d + d
    OBVIOUS
  <1>3. (x + 1) * d < c * d
    <2> DEFINE xd == x * d  cn == c * n  cd == c * d  y == (x + 1) * d  z == c * (d - n)
    <2>1. xd \in Int /\ cn \in Int /\ cd \in Int /\ y \in Int /\ z \in Int
      OBVIOUS
    <2>2. xd < cn /\ z >= d /\ z = cd - cn /\ y = xd + d
      BY <1>1, <1>2
    <2> HIDE DEF xd, cn, cd, y, z
    <2>3. y < cd
      BY <2>1, <2>2
    <2> QED BY <2>3 DEF y, cd
  <1>4. SUFFICES ASSUME x + 1 >= c PROVE FALSE
    OBVIOUS
  <1>5. (x + 1) * d >= c * d
    <2>1. PICK e \in Nat : x + 1 = c + e
      <3>1. x + 1 - c \in Nat /\ x + 1 = c + (x + 1 - c)
        BY <1>4
      <3> QED BY <3>1
    <2>2. (x + 1) * d = c * d + e * d
      BY <2>1
    <2>3. e * d >= 0
      OBVIOUS
    <2> DEFINE a == c * d  b == e * d
    <2>4. a \in Int /\ b \in Int /\ b >= 0 /\ (x + 1) * d = a + b
      BY <2>2, <2>3
    <2> HIDE DEF a, b
    <2>5. a + b >= a
      BY <2>4
    <2> QED BY <2>4, <2>5 DEF a
  <1> QED BY <1>3, <1>5

\* A doubled table has at least the slack of the one it replaces.
LEMMA DoubleRoom ==
  ASSUME NEW c \in Nat, NEW r \in Nat, NEW d \in Nat, c * r >= d
  PROVE  (2 * c) * r >= d
  <1>1. (2 * c) * r = c * r + c * r
    OBVIOUS
  <1> DEFINE x == c * r
  <1>2. x \in Nat /\ x >= d /\ (2 * c) * r = x + x
    BY <1>1
  <1> HIDE DEF x
  <1> QED BY <1>2
-----------------------------------------------------------------------------
(* Probing *)

\* The slots of a table of a given size.
SlotsOf(cap) == [0..(cap - 1) -> Entry \cup {Empty, Tomb}]

\* The d-th slot probed for a key is a slot of the table.
LEMMA AtInside ==
  ASSUME NEW cap \in Nat, NEW k \in Key, NEW d \in 0..(cap - 1)
  PROVE  /\ Hash[k] % cap \in 0..(cap - 1)
         /\ ProbeAt(cap, k, d) \in 0..(cap - 1)
         /\ ProbeAt(cap, k, d) = IF (Hash[k] % cap) + d < cap THEN (Hash[k] % cap) + d
                            ELSE (Hash[k] % cap) + d - cap
  <1> DEFINE h == Hash[k] % cap
  <1>1. cap > 0 /\ Hash[k] \in Nat
    BY HashAssumption
  <1>2. h \in 0..(cap - 1)
    BY <1>1, ModBound
  <1> HIDE DEF h
  <1>3. h + d \in Nat /\ h + d < 2 * cap
    BY <1>2
  <1>4. (h + d) % cap = IF h + d < cap THEN h + d ELSE h + d - cap
    <2> DEFINE x == h + d
    <2>1. x \in Nat /\ x < 2 * cap
      BY <1>3
    <2> HIDE DEF x
    <2>2. x % cap = IF x < cap THEN x ELSE x - cap
      BY <2>1, ModOnce
    <2> QED BY <1>2, <2>1, <2>2 DEF x
  <1>5. (h + d) % cap \in 0..(cap - 1)
    BY <1>2, <1>4
  <1> QED BY <1>2, <1>4, <1>5 DEF ProbeAt, h

\* Every slot is probed for every key, and no two probes meet the same slot.
LEMMA AtOnto ==
  ASSUME NEW cap \in Nat, NEW k \in Key, NEW j \in 0..(cap - 1)
  PROVE  \E d \in 0..(cap - 1) : ProbeAt(cap, k, d) = j
  <1> DEFINE h == Hash[k] % cap
  <1>1. h \in 0..(cap - 1)
    BY AtInside, 0 \in 0..(cap - 1)
  <1> DEFINE d == IF j >= h THEN j - h ELSE j - h + cap
  <1>2. d \in 0..(cap - 1)
    BY <1>1
  <1>3. ProbeAt(cap, k, d) = IF h + d < cap THEN h + d ELSE h + d - cap
    BY <1>2, AtInside
  <1>4. (IF h + d < cap THEN h + d ELSE h + d - cap) = j
    BY <1>1
  <1> QED BY <1>2, <1>3, <1>4

\* Two probes of one search meet different slots.
LEMMA AtInjective ==
  ASSUME NEW cap \in Nat, NEW k \in Key, NEW c \in 0..(cap - 1), NEW d \in 0..(cap - 1),
         ProbeAt(cap, k, c) = ProbeAt(cap, k, d)
  PROVE  c = d
  <1> DEFINE h == Hash[k] % cap
  <1>1. h \in 0..(cap - 1)
    BY AtInside
  <1>2. ProbeAt(cap, k, c) = IF h + c < cap THEN h + c ELSE h + c - cap
    BY AtInside
  <1>3. ProbeAt(cap, k, d) = IF h + d < cap THEN h + d ELSE h + d - cap
    BY AtInside
  <1> HIDE DEF h
  <1>4. (IF h + c < cap THEN h + c ELSE h + c - cap) = (IF h + d < cap THEN h + d ELSE h + d - cap)
    BY <1>2, <1>3
  <1> QED BY <1>1, <1>4, SameTurn

\* The search for a set of slots that is not empty arrives in it, and at the
\* first of its slots.
LEMMA FirstOfFound ==
  ASSUME NEW cap \in Nat, NEW k \in Key, NEW S, S \subseteq 0..(cap - 1), S # {}
  PROVE  \E d \in 0..(cap - 1) :
           /\ FirstOf(cap, k, S) = ProbeAt(cap, k, d)
           /\ ProbeAt(cap, k, d) \in S
           /\ \A m \in 0..(d - 1) : ProbeAt(cap, k, m) \notin S
  <1> DEFINE D == {d \in 0..(cap - 1) : ProbeAt(cap, k, d) \in S}
             P(n) == ProbeAt(cap, k, n) \in S /\ \A m \in 0..(n - 1) : ProbeAt(cap, k, m) \notin S
  <1>1. D \subseteq Nat
    OBVIOUS
  <1>2. D # {}
    <2>1. PICK j \in S : j \in 0..(cap - 1)
      OBVIOUS
    <2>2. PICK d \in 0..(cap - 1) : ProbeAt(cap, k, d) = j
      BY <2>1, AtOnto
    <2> QED BY <2>1, <2>2
  <1>3. PICK n \in D : \A m \in D : n <= m
    BY <1>1, <1>2, LeastOf
  <1>4. n \in 0..(cap - 1) /\ ProbeAt(cap, k, n) \in S
    BY <1>3
  <1>5. \A m \in 0..(n - 1) : ProbeAt(cap, k, m) \notin S
    <2> SUFFICES ASSUME NEW m \in 0..(n - 1), ProbeAt(cap, k, m) \in S PROVE FALSE
      OBVIOUS
    <2>1. m \in 0..(cap - 1) /\ m < n
      BY <1>4
    <2>2. m \in D
      BY <2>1
    <2> HIDE DEF D
    <2>3. n <= m
      BY <1>3, <2>2
    <2> QED BY <1>4, <2>1, <2>3
  <1> DEFINE d == CHOOSE x \in 0..(cap - 1) : P(x)
  <1>6. d \in 0..(cap - 1) /\ P(d)
    BY <1>4, <1>5
  <1>7. FirstOf(cap, k, S) = ProbeAt(cap, k, d)
    BY DEF FirstOf
  <1> HIDE DEF d
  <1> QED BY <1>6, <1>7

\* The first slot of a set is in the set.
LEMMA FirstOfIn ==
  ASSUME NEW cap \in Nat, NEW k \in Key, NEW S, S \subseteq 0..(cap - 1), S # {}
  PROVE  FirstOf(cap, k, S) \in S
  <1>1. PICK d \in 0..(cap - 1) :
           /\ FirstOf(cap, k, S) = ProbeAt(cap, k, d)
           /\ ProbeAt(cap, k, d) \in S
    BY FirstOfFound
  <1> QED BY <1>1

\* A search that passes only slots outside the set ends where it first meets it.
LEMMA FirstOfIs ==
  ASSUME NEW cap \in Nat, NEW k \in Key, NEW S, S \subseteq 0..(cap - 1),
         NEW d \in 0..(cap - 1), ProbeAt(cap, k, d) \in S,
         \A m \in 0..(d - 1) : ProbeAt(cap, k, m) \notin S
  PROVE  FirstOf(cap, k, S) = ProbeAt(cap, k, d)
  <1>1. PICK e \in 0..(cap - 1) :
           /\ FirstOf(cap, k, S) = ProbeAt(cap, k, e)
           /\ ProbeAt(cap, k, e) \in S
           /\ \A m \in 0..(e - 1) : ProbeAt(cap, k, m) \notin S
    BY FirstOfFound
  <1>2. ~(e < d)
    BY <1>1
  <1>3. ~(d < e)
    BY <1>1
  <1>4. d = e
    BY <1>2, <1>3
  <1> QED BY <1>1, <1>4

\* A table with an empty slot: htab_probe answers with a slot of it, which
\* holds the key if it was found and is free otherwise.
LEMMA ProbeAnswers ==
  ASSUME NEW x, x.cap \in Nat, x.slot \in SlotsOf(x.cap), NEW k \in Key,
         \E i \in 0..(x.cap - 1) : x.slot[i] = Empty
  PROVE  /\ x.cap > 0 /\ Probe(x, k) \in 0..(x.cap - 1)
         /\ Found(x, k) => IsLive(x.slot[Probe(x, k)]) /\ x.slot[Probe(x, k)].key = k
         /\ ~Found(x, k) => ~IsLive(x.slot[Probe(x, k)])
  <1>1. PICK i \in 0..(x.cap - 1) : x.slot[i] = Empty
    OBVIOUS
  <1>2. DOMAIN x.slot = 0..(x.cap - 1) /\ x.cap > 0
    BY <1>1 DEF SlotsOf
  <1>3. i \in Stops(x.slot, k) /\ Stops(x.slot, k) \subseteq 0..(x.cap - 1)
    BY <1>1, <1>2 DEF Stops
  <1>4. Stop(x, k) \in Stops(x.slot, k)
    BY <1>3, FirstOfIn DEF Stop
  <1>5. i \in Free(x.slot) /\ Free(x.slot) \subseteq 0..(x.cap - 1)
    BY <1>1, <1>2 DEF Free, IsLive
  <1>6. FirstOf(x.cap, k, Free(x.slot)) \in Free(x.slot)
    BY <1>5, FirstOfIn
  <1>7. CASE Found(x, k)
    <2>1. Probe(x, k) = Stop(x, k) /\ x.slot[Stop(x, k)] # Empty
      BY <1>7 DEF Probe, Found
    <2> QED BY <1>2, <1>3, <1>4, <1>7, <2>1 DEF Stops
  <1>8. CASE ~Found(x, k)
    <2>1. Probe(x, k) = FirstOf(x.cap, k, Free(x.slot))
      BY <1>8 DEF Probe
    <2> QED BY <1>2, <1>5, <1>6, <1>8, <2>1 DEF Free
  <1> QED BY <1>7, <1>8
-----------------------------------------------------------------------------
(* Counting *)

IsTable(x) == x \in [cap : Nat, slot : SlotsOf(x.cap), len : Nat, tombs : Nat, gen : Nat]
Counted(x)  == x.len = Cardinality(Live(x.slot)) /\ x.tombs = Cardinality(Dead(x.slot))

\* The room a load limit below one leaves in a table of this size.
Slack(cap) == cap * (LoadD - LoadN) >= LoadD
Roomy(x)   == x.cap > 0 => Slack(x.cap) /\ x.len + x.tombs < x.cap

\* Entries are what live slots hold.
LEMMA LiveIsEntry == \A x \in Entry \cup {Empty, Tomb} : IsLive(x) <=> x \in Entry
  BY SlotAssumption DEF IsLive

\* Live and dead slots are finitely many, no slot is both, and if they are
\* fewer than the slots of the table one slot is empty.
LEMMA SlotsCounted ==
  ASSUME NEW cap \in Nat, NEW slot \in SlotsOf(cap)
  PROVE  /\ DOMAIN slot = 0..(cap - 1)
         /\ Live(slot) \subseteq 0..(cap - 1) /\ Dead(slot) \subseteq 0..(cap - 1)
         /\ IsFiniteSet(Live(slot)) /\ IsFiniteSet(Dead(slot))
         /\ Cardinality(Live(slot)) \in Nat /\ Cardinality(Dead(slot)) \in Nat
         /\ Cardinality(Live(slot)) <= cap
         /\ Cardinality(Live(slot)) + Cardinality(Dead(slot)) < cap
              => \E i \in 0..(cap - 1) : slot[i] = Empty
  <1> DEFINE A == 0..(cap - 1)  S == Live(slot)  T == Dead(slot)
  <1>1. DOMAIN slot = A
    BY DEF SlotsOf
  <1>2. S \subseteq A /\ T \subseteq A /\ S \cap T = {}
    BY <1>1 DEF Live, Dead, IsLive
  <1>3. IsFiniteSet(A) /\ Cardinality(A) = cap
    <2>1. 0 \in Int /\ cap - 1 \in Int
      OBVIOUS
    <2>2. IsFiniteSet(A) /\ Cardinality(A) = IF 0 > cap - 1 THEN 0 ELSE (cap - 1) - 0 + 1
      BY <2>1, FS_Interval
    <2>3. (IF 0 > cap - 1 THEN 0 ELSE (cap - 1) - 0 + 1) = cap
      OBVIOUS
    <2> QED BY <2>2, <2>3
  <1>4. IsFiniteSet(S) /\ IsFiniteSet(T) /\ Cardinality(S) <= cap
    BY <1>2, <1>3, FS_Subset
  <1>5. Cardinality(S) \in Nat /\ Cardinality(T) \in Nat
    BY <1>4, FS_CardinalityType
  <1>6. ASSUME Cardinality(S) + Cardinality(T) < cap
        PROVE  \E i \in A : slot[i] = Empty
    <2>1. Cardinality(S \cup T) = Cardinality(S) + Cardinality(T) - Cardinality(S \cap T)
      BY <1>4, FS_Union
    <2>2. Cardinality(S \cap T) = 0
      BY <1>2, FS_EmptySet
    <2>3. Cardinality(S \cup T) < cap
      BY <1>5, <1>6, <2>1, <2>2
    <2>4. S \cup T # A
      <3> SUFFICES ASSUME S \cup T = A PROVE FALSE
        OBVIOUS
      <3>1. Cardinality(S \cup T) = cap
        BY <1>3
      <3> QED BY <2>3, <3>1
    <2>5. PICK i \in A : i \notin S \cup T
      BY <1>2, <2>4
    <2>6. slot[i] = Empty
      BY <1>1, <2>5 DEF Live, Dead, IsLive
    <2> QED BY <2>6
  <1> QED BY <1>1, <1>2, <1>4, <1>5, <1>6

Written(slot, i, e) == [slot EXCEPT ![i] = e]

\* What writing one slot does to the live and the dead ones.
LEMMA SlotWritten ==
  ASSUME NEW cap \in Nat, NEW slot \in SlotsOf(cap), NEW i \in 0..(cap - 1),
         NEW e, e \in Entry \cup {Empty, Tomb}
  PROVE  LET new == Written(slot, i, e)
         IN
         /\ new \in SlotsOf(cap)
         /\ \A j \in 0..(cap - 1) : new[j] = IF j = i THEN e ELSE slot[j]
         /\ Live(new) = IF IsLive(e) THEN Live(slot) \cup {i} ELSE Live(slot) \ {i}
         /\ Dead(new) = IF e = Tomb THEN Dead(slot) \cup {i} ELSE Dead(slot) \ {i}
  <1> DEFINE new == Written(slot, i, e)
  <1>1. new \in SlotsOf(cap) /\ DOMAIN slot = 0..(cap - 1) /\ DOMAIN new = 0..(cap - 1)
    BY DEF SlotsOf, Written
  <1>2. \A j \in 0..(cap - 1) : new[j] = IF j = i THEN e ELSE slot[j]
    BY <1>1 DEF Written
  <1> HIDE DEF new
  <1>3. Live(new) = IF IsLive(e) THEN Live(slot) \cup {i} ELSE Live(slot) \ {i}
    <2>1. \A j \in 0..(cap - 1) : IsLive(new[j]) <=> IF j = i THEN IsLive(e) ELSE IsLive(slot[j])
      BY <1>2
    <2> QED BY <1>1, <2>1 DEF Live
  <1>4. Dead(new) = IF e = Tomb THEN Dead(slot) \cup {i} ELSE Dead(slot) \ {i}
    BY <1>1, <1>2 DEF Dead
  <1> QED BY <1>1, <1>2, <1>3, <1>4 DEF new
-----------------------------------------------------------------------------
(* What the operations do to the counters *)

\* A table whose counters count and that has room has an empty slot.
LEMMA RoomForProbe ==
  ASSUME NEW x, IsTable(x), Counted(x), Roomy(x), x.cap > 0
  PROVE  \E i \in 0..(x.cap - 1) : x.slot[i] = Empty
  <1>1. x.cap \in Nat /\ x.slot \in SlotsOf(x.cap)
    BY DEF IsTable
  <1> QED BY <1>1, SlotsCounted DEF Counted, Roomy

\* An entry put where a probe ended: the counters still count, and at most
\* one more slot is in use.
LEMMA PutCounts ==
  ASSUME NEW x, IsTable(x), Counted(x), NEW e \in Entry,
         \E i \in 0..(x.cap - 1) : x.slot[i] = Empty
  PROVE  /\ IsTable(Put(x, e)) /\ Counted(Put(x, e))
         /\ Put(x, e).cap = x.cap
         /\ Put(x, e).gen = x.gen + 1
         /\ Put(x, e).slot = [x.slot EXCEPT ![Probe(x, e.key)] = e]
         /\ Put(x, e).len + Put(x, e).tombs <= x.len + x.tombs + 1
  <1> DEFINE i == Probe(x, e.key)
             n == IF Found(x, e.key) THEN x.len ELSE x.len + 1
             m == IF x.slot[i] = Tomb THEN x.tombs - 1 ELSE x.tombs
             u == [x EXCEPT !.slot = [@ EXCEPT ![i] = e], !.len = n, !.tombs = m, !.gen = @ + 1]
  <1>1. /\ x.cap \in Nat /\ x.slot \in SlotsOf(x.cap)
        /\ x.len \in Nat /\ x.tombs \in Nat /\ x.gen \in Nat
    BY DEF IsTable
  <1>2. e.key \in Key /\ IsLive(e) /\ e # Tomb /\ e \in Entry \cup {Empty, Tomb}
    BY LiveIsEntry, SlotAssumption DEF Entry
  <1>3. /\ i \in 0..(x.cap - 1)
        /\ Found(x, e.key) => IsLive(x.slot[i])
        /\ ~Found(x, e.key) => ~IsLive(x.slot[i])
    BY <1>1, <1>2, ProbeAnswers
  <1> HIDE DEF i, n, m, u
  <1> DEFINE new == [x.slot EXCEPT ![i] = e]
  <1>4. /\ new \in SlotsOf(x.cap)
        /\ Live(new) = Live(x.slot) \cup {i}
        /\ Dead(new) = Dead(x.slot) \ {i}
    <2>0. new = Written(x.slot, i, e)
      BY DEF Written
    <2> HIDE DEF new
    <2>1. /\ new \in SlotsOf(x.cap)
          /\ Live(new) = IF IsLive(e) THEN Live(x.slot) \cup {i} ELSE Live(x.slot) \ {i}
          /\ Dead(new) = IF e = Tomb THEN Dead(x.slot) \cup {i} ELSE Dead(x.slot) \ {i}
      BY <1>1, <1>2, <1>3, <2>0, SlotWritten
    <2> QED BY <1>2, <2>1
  <1>5. /\ IsFiniteSet(Live(x.slot)) /\ IsFiniteSet(Dead(x.slot))
        /\ DOMAIN x.slot = 0..(x.cap - 1)
    BY <1>1, SlotsCounted
  <1>6. /\ i \in Live(x.slot) <=> Found(x, e.key)
        /\ i \in Dead(x.slot) <=> x.slot[i] = Tomb
    BY <1>3, <1>5 DEF Live, Dead
  <1>7. Cardinality(Live(new)) = n /\ Cardinality(Dead(new)) = m
    <2> HIDE DEF new
    <2>1. Cardinality(Live(new)) = IF i \in Live(x.slot) THEN x.len ELSE x.len + 1
      BY <1>4, <1>5, FS_AddElement DEF Counted
    <2>2. Cardinality(Dead(new)) = IF i \in Dead(x.slot) THEN x.tombs - 1 ELSE x.tombs
      <3>1. Cardinality(Dead(x.slot) \ {i}) =
              IF i \in Dead(x.slot) THEN Cardinality(Dead(x.slot)) - 1
                                    ELSE Cardinality(Dead(x.slot))
        BY <1>5, FS_RemoveElement
      <3>2. Cardinality(Dead(x.slot)) = x.tombs /\ Dead(new) = Dead(x.slot) \ {i}
        BY <1>4 DEF Counted
      <3> QED BY <3>1, <3>2
    <2> QED BY <1>6, <2>1, <2>2 DEF n, m
  <1>8. n \in Nat /\ m \in Nat /\ n + m <= x.len + x.tombs + 1
    <2> HIDE DEF new
    <2>1. Cardinality(Live(new)) \in Nat /\ Cardinality(Dead(new)) \in Nat
      BY <1>1, <1>4, SlotsCounted
    <2>2. n <= x.len + 1 /\ m <= x.tombs
      BY <1>1 DEF n, m
    <2> QED BY <1>1, <1>7, <2>1, <2>2
  <1>9. Put(x, e) = u
    BY DEF Put, i, n, m, u
  <1>10. /\ u.cap = x.cap /\ u.slot = new /\ u.len = n /\ u.tombs = m /\ u.gen = x.gen + 1
         /\ u \in [cap : Nat, slot : SlotsOf(x.cap), len : Nat, tombs : Nat, gen : Nat]
    <2> HIDE DEF new
    <2>1. x \in [cap : Nat, slot : SlotsOf(x.cap), len : Nat, tombs : Nat, gen : Nat]
      BY DEF IsTable
    <2>2. u = [x EXCEPT !.slot = new, !.len = n, !.tombs = m, !.gen = x.gen + 1]
      BY DEF new, u
    <2>9. x.gen + 1 \in Nat
      BY <1>1
    <2>3. u.cap = x.cap BY <2>1, <2>2
    <2>4. u.slot = new BY <2>1, <2>2
    <2>5. u.len = n BY <2>1, <2>2
    <2>6. u.tombs = m BY <2>1, <2>2
    <2>7. u.gen = x.gen + 1 BY <2>1, <2>2
    <2>8. u \in [cap : Nat, slot : SlotsOf(x.cap), len : Nat, tombs : Nat, gen : Nat]
      BY <1>1, <1>4, <1>8, <2>1, <2>2, <2>9
    <2> QED BY <2>3, <2>4, <2>5, <2>6, <2>7, <2>8
  <1> HIDE DEF new
  <1>11. IsTable(u) /\ Counted(u)
    BY <1>7, <1>10 DEF IsTable, Counted
  <1> QED BY <1>8, <1>9, <1>10, <1>11 DEF new, i

\* A live slot whose entry is deleted.
LEMMA KillCounts ==
  ASSUME NEW x, IsTable(x), Counted(x), NEW i \in Live(x.slot)
  PROVE  /\ IsTable(Kill(x, i)) /\ Counted(Kill(x, i))
         /\ Kill(x, i).cap = x.cap
         /\ Kill(x, i).gen = x.gen + 1
         /\ Kill(x, i).slot = [x.slot EXCEPT ![i] = Tomb]
         /\ Kill(x, i).len + Kill(x, i).tombs = x.len + x.tombs
  <1> DEFINE new == [x.slot EXCEPT ![i] = Tomb]
             u == [x EXCEPT !.slot = [@ EXCEPT ![i] = Tomb], !.tombs = @ + 1, !.len = @ - 1, !.gen = @ + 1]
  <1>1. /\ x.cap \in Nat /\ x.slot \in SlotsOf(x.cap)
        /\ x.len \in Nat /\ x.tombs \in Nat /\ x.gen \in Nat
    BY DEF IsTable
  <1>2. /\ IsFiniteSet(Live(x.slot)) /\ IsFiniteSet(Dead(x.slot))
        /\ i \in 0..(x.cap - 1) /\ DOMAIN x.slot = 0..(x.cap - 1)
    BY <1>1, SlotsCounted
  <1>3. ~IsLive(Tomb) /\ i \notin Dead(x.slot)
    BY DEF IsLive, Live, Dead
  <1>4. /\ new \in SlotsOf(x.cap)
        /\ Live(new) = Live(x.slot) \ {i}
        /\ Dead(new) = Dead(x.slot) \cup {i}
    <2>1. new = Written(x.slot, i, Tomb)
      BY DEF Written
    <2> HIDE DEF new, u
    <2>2. Tomb \in Entry \cup {Empty, Tomb}
      OBVIOUS
    <2>3. new \in SlotsOf(x.cap)
      BY <1>1, <1>2, <2>1, <2>2, SlotWritten
    <2>4. Live(new) = Live(x.slot) \ {i}
      BY <1>1, <1>2, <1>3, <2>1, <2>2, SlotWritten
    <2>5. Dead(new) = Dead(x.slot) \cup {i}
      BY <1>1, <1>2, <2>1, <2>2, SlotWritten
    <2> QED BY <1>3, <2>3, <2>4, <2>5
  <1>5. Cardinality(Live(new)) = x.len - 1 /\ Cardinality(Dead(new)) = x.tombs + 1
    BY <1>2, <1>3, <1>4, FS_AddElement, FS_RemoveElement DEF Counted
  <1>6. x.len - 1 \in Nat /\ x.tombs + 1 \in Nat
    BY <1>1, <1>4, <1>5, SlotsCounted
  <1>7. /\ u.cap = x.cap /\ u.slot = new /\ u.len = x.len - 1 /\ u.tombs = x.tombs + 1
        /\ u.gen = x.gen + 1
        /\ u \in [cap : Nat, slot : SlotsOf(x.cap), len : Nat, tombs : Nat, gen : Nat]
    <2> HIDE DEF new
    <2>1. x \in [cap : Nat, slot : SlotsOf(x.cap), len : Nat, tombs : Nat, gen : Nat]
      BY DEF IsTable
    <2>2. u = [x EXCEPT !.slot = new, !.tombs = x.tombs + 1, !.len = x.len - 1, !.gen = x.gen + 1]
      BY DEF new
    <2>9. x.gen + 1 \in Nat
      BY <1>1
    <2> HIDE DEF u
    <2>3. u.cap = x.cap BY <2>1, <2>2
    <2>4. u.slot = new BY <2>1, <2>2
    <2>5. u.len = x.len - 1 BY <2>1, <2>2
    <2>6. u.tombs = x.tombs + 1 BY <2>1, <2>2
    <2>7. u.gen = x.gen + 1 BY <2>1, <2>2
    <2>8. u \in [cap : Nat, slot : SlotsOf(x.cap), len : Nat, tombs : Nat, gen : Nat]
      BY <1>1, <1>4, <1>6, <2>1, <2>2, <2>9
    <2> QED BY <2>3, <2>4, <2>5, <2>6, <2>7, <2>8
  <1>8. Kill(x, i) = u
    BY DEF Kill
  <1> HIDE DEF u, new
  <1>9. IsTable(u) /\ Counted(u)
    BY <1>5, <1>7 DEF IsTable, Counted
  <1>10. (x.len - 1) + (x.tombs + 1) = x.len + x.tombs
    BY <1>1
  <1> QED BY <1>7, <1>8, <1>9, <1>10 DEF new
-----------------------------------------------------------------------------
(* Where entries are found *)

\* No two slots hold entries of one key, and every slot probed for a key
\* before the one that holds it is in use.
Uniq(slot)       == \A i, j \in Live(slot) : slot[i].key = slot[j].key => i = j
Reachable(cap, slot) ==
  \A i \in Live(slot), d \in 0..(cap - 1) :
    ProbeAt(cap, slot[i].key, d) = i => \A m \in 0..(d - 1) : slot[ProbeAt(cap, slot[i].key, m)] # Empty
Sound(cap, slot) == Uniq(slot) /\ Reachable(cap, slot)

\* In a sound table the search for the key of an entry ends at that entry.
LEMMA SoundFinds ==
  ASSUME NEW x, x.cap \in Nat, x.slot \in SlotsOf(x.cap), Sound(x.cap, x.slot),
         NEW i \in Live(x.slot)
  PROVE  Found(x, x.slot[i].key) /\ Probe(x, x.slot[i].key) = i
  <1> DEFINE k == x.slot[i].key
  <1>1. DOMAIN x.slot = 0..(x.cap - 1) /\ i \in 0..(x.cap - 1) /\ IsLive(x.slot[i])
    BY DEF SlotsOf, Live
  <1>2. k \in Key /\ x.cap > 0
    <2>1. x.slot[i] \in Entry
      BY <1>1, LiveIsEntry DEF SlotsOf
    <2> QED BY <1>1, <2>1 DEF Entry
  <1> HIDE DEF k
  <1>3. PICK d \in 0..(x.cap - 1) : ProbeAt(x.cap, k, d) = i
    BY <1>1, <1>2, AtOnto
  <1> DEFINE S == Stops(x.slot, k)
  <1>4. S \subseteq 0..(x.cap - 1) /\ ProbeAt(x.cap, k, d) \in S
    BY <1>1, <1>3 DEF Stops, k
  <1>5. ASSUME NEW m \in 0..(d - 1) PROVE ProbeAt(x.cap, k, m) \notin S
    <2>1. m \in 0..(x.cap - 1) /\ m # d
      BY <1>3
    <2>2. ProbeAt(x.cap, k, m) # i
      BY <1>2, <1>3, <2>1, AtInjective
    <2>3. ProbeAt(x.cap, k, m) \in 0..(x.cap - 1)
      BY <1>2, <2>1, AtInside
    <2>4. x.slot[ProbeAt(x.cap, k, m)] # Empty
      BY <1>3 DEF Sound, Reachable, k
    <2>5. ~(IsLive(x.slot[ProbeAt(x.cap, k, m)]) /\ x.slot[ProbeAt(x.cap, k, m)].key = k)
      BY <1>1, <2>2, <2>3 DEF Sound, Uniq, Live, k
    <2> QED BY <2>4, <2>5 DEF Stops
  <1> HIDE DEF S
  <1>6. FirstOf(x.cap, k, S) = ProbeAt(x.cap, k, d)
    BY <1>2, <1>4, <1>5, FirstOfIs
  <1>7. Stop(x, k) = i
    BY <1>3, <1>6 DEF Stop, S
  <1> QED BY <1>1, <1>2, <1>7 DEF Found, Probe, IsLive, k

\* Turning entries into tombstones keeps a table sound.
LEMMA SoundBuried ==
  ASSUME NEW cap \in Nat, NEW slot \in SlotsOf(cap), NEW new \in SlotsOf(cap), Sound(cap, slot),
         \A j \in 0..(cap - 1) : new[j] = slot[j] \/ (new[j] = Tomb /\ slot[j] # Empty)
  PROVE  Sound(cap, new)
  <1>1. DOMAIN slot = 0..(cap - 1) /\ DOMAIN new = 0..(cap - 1)
    BY DEF SlotsOf
  <1>2. \A j \in Live(new) : j \in Live(slot) /\ new[j] = slot[j]
    BY <1>1 DEF Live, IsLive
  <1>3. \A j \in 0..(cap - 1) : slot[j] # Empty => new[j] # Empty
    BY SlotAssumption
  <1>4. Uniq(new)
    BY <1>2 DEF Uniq, Sound
  <1>5. ASSUME NEW i \in Live(new), NEW d \in 0..(cap - 1), ProbeAt(cap, new[i].key, d) = i,
               NEW m \in 0..(d - 1)
        PROVE  new[ProbeAt(cap, new[i].key, m)] # Empty
    <2> DEFINE k == new[i].key
    <2>1. k \in Key
      BY <1>1, LiveIsEntry DEF SlotsOf, Live, Entry
    <2>2. slot[ProbeAt(cap, k, m)] # Empty
      BY <1>2, <1>5 DEF Sound, Reachable
    <2>3. m \in 0..(cap - 1)
      OBVIOUS
    <2> HIDE DEF k
    <2>4. ProbeAt(cap, k, m) \in 0..(cap - 1)
      BY <2>1, <2>3, AtInside
    <2>5. new[ProbeAt(cap, k, m)] # Empty
      BY <1>3, <2>2, <2>4
    <2> QED BY <2>5 DEF k
  <1> QED BY <1>4, <1>5 DEF Sound, Reachable

\* So does an entry of a new key, in the first free slot probed for it.
LEMMA SoundAdded ==
  ASSUME NEW cap \in Nat, NEW slot \in SlotsOf(cap), Sound(cap, slot), NEW e \in Entry,
         \E i \in 0..(cap - 1) : slot[i] = Empty,
         \A j \in Live(slot) : slot[j].key # e.key
  PROVE  LET i == FirstOf(cap, e.key, Free(slot))
         IN  /\ i \in 0..(cap - 1) /\ ~IsLive(slot[i])
             /\ Sound(cap, Written(slot, i, e))
  <1> DEFINE i == FirstOf(cap, e.key, Free(slot))
             new == Written(slot, i, e)
  <1>1. e.key \in Key /\ IsLive(e) /\ e # Empty /\ e \in Entry \cup {Empty, Tomb}
    BY LiveIsEntry, SlotAssumption DEF Entry
  <1>2. DOMAIN slot = 0..(cap - 1)
    BY DEF SlotsOf
  <1>3. Free(slot) \subseteq 0..(cap - 1) /\ Free(slot) # {}
    BY <1>2 DEF Free, IsLive
  <1>4. PICK d \in 0..(cap - 1) :
          /\ i = ProbeAt(cap, e.key, d)
          /\ ProbeAt(cap, e.key, d) \in Free(slot)
          /\ \A m \in 0..(d - 1) : ProbeAt(cap, e.key, m) \notin Free(slot)
    BY <1>1, <1>3, FirstOfFound
  <1> HIDE DEF i
  <1>5. i \in 0..(cap - 1) /\ ~IsLive(slot[i])
    BY <1>2, <1>3, <1>4 DEF Free
  <1>6. /\ \A j \in 0..(cap - 1) : new[j] = IF j = i THEN e ELSE slot[j]
        /\ Live(new) = Live(slot) \cup {i}
    <2>1. /\ \A j \in 0..(cap - 1) : new[j] = IF j = i THEN e ELSE slot[j]
          /\ Live(new) = IF IsLive(e) THEN Live(slot) \cup {i} ELSE Live(slot) \ {i}
      BY <1>1, <1>5, SlotWritten
    <2> QED BY <1>1, <2>1
  <1> HIDE DEF new
  <1>7. Uniq(new)
    <2>1. \A j \in Live(slot) : j # i /\ new[j] = slot[j]
      BY <1>2, <1>5, <1>6 DEF Live
    <2>2. new[i] = e
      BY <1>5, <1>6
    <2> QED BY <1>6, <2>1, <2>2 DEF Uniq, Sound
  <1>8. ASSUME NEW j \in Live(new), NEW c \in 0..(cap - 1), ProbeAt(cap, new[j].key, c) = j,
               NEW m \in 0..(c - 1)
        PROVE  new[ProbeAt(cap, new[j].key, m)] # Empty
    <2>1. m \in 0..(cap - 1)
      OBVIOUS
    <2>2. CASE j = i
      <3>1. new[j] = e
        BY <1>5, <1>6, <2>2
      <3>2. c = d
        BY <1>1, <1>4, <1>8, <2>2, <3>1, AtInjective
      <3>3. ProbeAt(cap, e.key, m) \notin Free(slot) /\ ProbeAt(cap, e.key, m) \in 0..(cap - 1)
        BY <1>1, <1>4, <2>1, <3>2, AtInside
      <3>4. slot[ProbeAt(cap, e.key, m)] # Empty
        BY <1>2, <3>3 DEF Free, IsLive
      <3> QED BY <1>1, <1>6, <3>1, <3>3, <3>4
    <2>3. CASE j # i
      <3>1. j \in Live(slot) /\ new[j] = slot[j]
        BY <1>2, <1>6, <2>3 DEF Live
      <3>2. slot[ProbeAt(cap, slot[j].key, m)] # Empty
        BY <1>8, <3>1 DEF Sound, Reachable
      <3>3. slot[j].key \in Key
        BY <1>2, <3>1, LiveIsEntry DEF SlotsOf, Live, Entry
      <3>4. ProbeAt(cap, slot[j].key, m) \in 0..(cap - 1)
        BY <2>1, <3>3, AtInside
      <3> QED BY <1>1, <1>6, <3>1, <3>2, <3>4
    <2> QED BY <2>2, <2>3
  <1> QED BY <1>5, <1>7, <1>8 DEF Sound, Reachable, i, new
-----------------------------------------------------------------------------
(* What the operations do to a table in order *)

GoodTable(x) == IsTable(x) /\ Counted(x) /\ Roomy(x) /\ Sound(x.cap, x.slot)

\* A table before its first allocation is in order.
LEMMA NewGood == GoodTable(NewTable)
  <1> DEFINE x == NewTable
  <1>1. /\ x.cap = 0 /\ x.len = 0 /\ x.tombs = 0 /\ x.gen = 1
        /\ x.slot = [i \in 0..-1 |-> Empty] /\ IsTable(x)
    BY DEF NewTable, IsTable, SlotsOf
  <1>2. Live(x.slot) = {} /\ Dead(x.slot) = {}
    BY <1>1 DEF Live, Dead
  <1> HIDE DEF x
  <1>3. Cardinality(Live(x.slot)) = 0 /\ Cardinality(Dead(x.slot)) = 0
    BY <1>2, FS_EmptySet
  <1>4. Counted(x) /\ Roomy(x)
    BY <1>1, <1>3 DEF Counted, Roomy
  <1>5. Sound(x.cap, x.slot)
    BY <1>2 DEF Sound, Uniq, Reachable
  <1> QED BY <1>1, <1>4, <1>5 DEF GoodTable, x

\* Adding or replacing an entry below the load limit.
LEMMA PutGood ==
  ASSUME NEW x, GoodTable(x), NEW e \in Entry, ~NeedsGrow(x)
  PROVE  GoodTable(Put(x, e)) /\ Put(x, e).gen = x.gen + 1
  <1>1. /\ IsTable(x) /\ x.cap \in Nat /\ x.slot \in SlotsOf(x.cap)
        /\ x.len \in Nat /\ x.tombs \in Nat
    BY DEF GoodTable, IsTable
  <1>2. x.cap > 0 /\ ~((x.len + x.tombs) * LoadD >= x.cap * LoadN)
    BY <1>1 DEF NeedsGrow
  <1>3. \E i \in 0..(x.cap - 1) : x.slot[i] = Empty
    BY <1>1, <1>2, RoomForProbe DEF GoodTable
  <1> DEFINE y == Put(x, e)
             i == Probe(x, e.key)
  <1>4. /\ IsTable(y) /\ Counted(y) /\ y.cap = x.cap /\ y.gen = x.gen + 1
        /\ y.slot = Written(x.slot, i, e)
        /\ y.len + y.tombs <= x.len + x.tombs + 1
    BY <1>1, <1>3, PutCounts DEF GoodTable, Written
  <1> HIDE DEF y
  <1>5. Roomy(y)
    <2>1. Slack(x.cap)
      BY <1>2 DEF GoodTable, Roomy
    <2>2. (x.len + x.tombs) + 1 < x.cap
      <3> DEFINE n == x.len + x.tombs
      <3>1. n \in Nat
        BY <1>1
      <3> HIDE DEF n
      <3>2. ~(n * LoadD >= x.cap * LoadN)
        BY <1>2 DEF n
      <3>3. n + 1 < x.cap
        BY <1>1, <2>1, <3>1, <3>2, LoadRoom, LoadAssumption DEF Slack
      <3> QED BY <3>3 DEF n
    <2>3. y.len \in Nat /\ y.tombs \in Nat
      BY <1>4 DEF IsTable
    <2> QED BY <1>1, <1>4, <2>1, <2>2, <2>3 DEF Roomy
  <1>6. e.key \in Key /\ IsLive(e) /\ e \in Entry \cup {Empty, Tomb}
    BY LiveIsEntry DEF Entry
  <1>7. /\ i \in 0..(x.cap - 1)
        /\ Found(x, e.key) => IsLive(x.slot[i]) /\ x.slot[i].key = e.key
        /\ ~Found(x, e.key) => ~IsLive(x.slot[i])
    BY <1>1, <1>3, <1>6, ProbeAnswers
  <1>8. DOMAIN x.slot = 0..(x.cap - 1) /\ Sound(x.cap, x.slot)
    BY <1>1 DEF SlotsOf, GoodTable
  <1>9. CASE ~Found(x, e.key)
    <2>1. \A j \in Live(x.slot) : x.slot[j].key # e.key
      BY <1>1, <1>8, <1>9, SoundFinds
    <2>2. i = FirstOf(x.cap, e.key, Free(x.slot))
      BY <1>9 DEF Probe
    <2>3. Sound(x.cap, Written(x.slot, i, e))
      BY <1>1, <1>3, <1>8, <2>1, <2>2, SoundAdded
    <2> QED BY <1>4, <1>5, <2>3 DEF GoodTable, y
  <1>10. CASE Found(x, e.key)
    <2> DEFINE new == Written(x.slot, i, e)
    <2>1. /\ \A j \in 0..(x.cap - 1) : new[j] = IF j = i THEN e ELSE x.slot[j]
          /\ Live(new) = IF IsLive(e) THEN Live(x.slot) \cup {i} ELSE Live(x.slot) \ {i}
      BY <1>1, <1>6, <1>7, SlotWritten
    <2>2. Live(new) = Live(x.slot)
      BY <1>6, <1>7, <1>8, <1>10, <2>1 DEF Live
    <2> HIDE DEF new, i
    <2>3. \A j \in Live(new) : new[j].key = x.slot[j].key /\ x.slot[j].key \in Key
      <3>1. \A j \in Live(new) : new[j].key = x.slot[j].key
        BY <1>7, <1>8, <1>10, <2>1, <2>2 DEF Live
      <3>2. \A j \in Live(x.slot) : x.slot[j] \in Entry
        BY <1>1, <1>8, LiveIsEntry DEF Live, SlotsOf
      <3> QED BY <2>2, <3>1, <3>2 DEF Entry
    <2>4. \A j \in 0..(x.cap - 1) : x.slot[j] # Empty => new[j] # Empty
      BY <1>6, <2>1 DEF IsLive
    <2>5. Uniq(new)
      BY <1>8, <2>2, <2>3 DEF Sound, Uniq
    <2>6. ASSUME NEW j \in Live(new), NEW c \in 0..(x.cap - 1), ProbeAt(x.cap, new[j].key, c) = j,
                 NEW m \in 0..(c - 1)
          PROVE  new[ProbeAt(x.cap, new[j].key, m)] # Empty
      <3>1. m \in 0..(x.cap - 1)
        BY <1>1
      <3>2. ProbeAt(x.cap, x.slot[j].key, m) \in 0..(x.cap - 1)
        BY <1>1, <2>3, <3>1, AtInside
      <3>3. x.slot[ProbeAt(x.cap, x.slot[j].key, m)] # Empty
        BY <1>8, <2>2, <2>3, <2>6 DEF Sound, Reachable
      <3> QED BY <2>3, <2>4, <3>2, <3>3
    <2>7. Sound(x.cap, new)
      BY <2>5, <2>6 DEF Sound, Reachable
    <2> QED BY <1>4, <1>5, <2>7 DEF GoodTable, new, y
  <1> QED BY <1>4, <1>9, <1>10 DEF y

\* Deleting an entry.
LEMMA KillGood ==
  ASSUME NEW x, GoodTable(x), NEW i \in Live(x.slot)
  PROVE  GoodTable(Kill(x, i)) /\ Kill(x, i).gen = x.gen + 1
  <1>1. /\ IsTable(x) /\ Counted(x) /\ x.cap \in Nat /\ x.slot \in SlotsOf(x.cap)
        /\ Sound(x.cap, x.slot)
    BY DEF GoodTable, IsTable
  <1> DEFINE y == Kill(x, i)
  <1>2. /\ IsTable(y) /\ Counted(y) /\ y.cap = x.cap /\ y.gen = x.gen + 1
        /\ y.slot = [x.slot EXCEPT ![i] = Tomb] /\ y.len + y.tombs = x.len + x.tombs
    BY <1>1, KillCounts
  <1> HIDE DEF y
  <1>3. Roomy(y)
    BY <1>2 DEF Roomy, GoodTable
  <1>4. Sound(y.cap, y.slot)
    <2>1. y.slot \in SlotsOf(x.cap)
      BY <1>2 DEF IsTable
    <2>2. DOMAIN x.slot = 0..(x.cap - 1) /\ x.slot[i] # Empty
      BY <1>1 DEF SlotsOf, Live, IsLive
    <2>3. \A j \in 0..(x.cap - 1) : y.slot[j] = x.slot[j] \/ (y.slot[j] = Tomb /\ x.slot[j] # Empty)
      BY <1>2, <2>2
    <2>4. Sound(x.cap, y.slot)
      BY <1>1, <2>1, <2>3, SoundBuried
    <2> QED BY <1>2, <2>4
  <1> QED BY <1>2, <1>3, <1>4 DEF GoodTable, y

\* Emptying the table keeps its storage.
LEMMA TeemGood ==
  ASSUME NEW x, GoodTable(x)
  PROVE  GoodTable(Teem(x)) /\ Teem(x).gen = x.gen + 1
  <1>1. /\ x \in [cap : Nat, slot : SlotsOf(x.cap), len : Nat, tombs : Nat, gen : Nat]
        /\ x.cap \in Nat /\ x.len \in Nat /\ x.tombs \in Nat /\ x.gen + 1 \in Nat
    BY DEF GoodTable, IsTable
  <1> DEFINE y == Teem(x)
             new == Blank(x.cap)
  <1>2. new \in SlotsOf(x.cap) /\ Live(new) = {} /\ Dead(new) = {}
    BY SlotAssumption DEF Blank, SlotsOf, Live, Dead, IsLive
  <1>3. y = [x EXCEPT !.slot = new, !.len = 0, !.tombs = 0, !.gen = x.gen + 1]
    BY DEF Teem
  <1> HIDE DEF y, new
  <1>4. y.cap = x.cap BY <1>1, <1>3
  <1>5. y.slot = new BY <1>1, <1>3
  <1>6. y.len = 0 BY <1>1, <1>3
  <1>7. y.tombs = 0 BY <1>1, <1>3
  <1>8. y.gen = x.gen + 1 BY <1>1, <1>3
  <1>9. y \in [cap : Nat, slot : SlotsOf(x.cap), len : Nat, tombs : Nat, gen : Nat]
    BY <1>1, <1>2, <1>3
  <1>10. IsTable(y)
    BY <1>4, <1>9 DEF IsTable
  <1>11. Cardinality(Live(new)) = 0 /\ Cardinality(Dead(new)) = 0
    BY <1>2, FS_EmptySet
  <1>12. Counted(y)
    BY <1>5, <1>6, <1>7, <1>11 DEF Counted
  <1>13. Roomy(y)
    BY <1>4, <1>6, <1>7 DEF Roomy, GoodTable
  <1>14. Sound(y.cap, y.slot)
    BY <1>2, <1>5 DEF Sound, Uniq, Reachable
  <1> QED BY <1>8, <1>10, <1>12, <1>13, <1>14 DEF GoodTable, y

\* Deleting several entries at once, as spew does over its loop.
LEMMA SpewGood ==
  ASSUME NEW x, GoodTable(x), NEW out, out \subseteq Live(x.slot),
         NEW y, y = [x EXCEPT !.slot = [i \in DOMAIN @ |-> IF i \in out THEN Tomb ELSE @[i]],
                              !.len = @ - Cardinality(out),
                              !.tombs = @ + Cardinality(out),
                              !.gen = @ + Cardinality(out)]
  PROVE  GoodTable(y) /\ Cardinality(out) \in Nat /\ y.gen = x.gen + Cardinality(out)
  <1> DEFINE n == Cardinality(out)
             new == [i \in DOMAIN x.slot |-> IF i \in out THEN Tomb ELSE x.slot[i]]
  <1>1. /\ x \in [cap : Nat, slot : SlotsOf(x.cap), len : Nat, tombs : Nat, gen : Nat]
        /\ x.cap \in Nat /\ x.slot \in SlotsOf(x.cap)
        /\ x.len \in Nat /\ x.tombs \in Nat /\ x.gen \in Nat
        /\ x.len = Cardinality(Live(x.slot)) /\ x.tombs = Cardinality(Dead(x.slot))
        /\ DOMAIN x.slot = 0..(x.cap - 1) /\ Sound(x.cap, x.slot)
    BY DEF GoodTable, IsTable, Counted, SlotsOf
  <1>2. IsFiniteSet(Live(x.slot)) /\ IsFiniteSet(Dead(x.slot))
    BY <1>1, SlotsCounted
  <1>3. IsFiniteSet(out) /\ n \in Nat /\ n <= x.len
    BY <1>1, <1>2, FS_Subset, FS_CardinalityType
  <1>4. /\ new \in SlotsOf(x.cap)
        /\ Live(new) = Live(x.slot) \ out
        /\ Dead(new) = Dead(x.slot) \cup out
    <2>1. new \in SlotsOf(x.cap) /\ DOMAIN new = 0..(x.cap - 1)
      BY <1>1 DEF SlotsOf
    <2>2. \A i \in 0..(x.cap - 1) : new[i] = IF i \in out THEN Tomb ELSE x.slot[i]
      BY <1>1
    <2> HIDE DEF new
    <2>3. Live(new) = Live(x.slot) \ out
      BY <1>1, <2>1, <2>2 DEF Live, IsLive
    <2>4. out \subseteq 0..(x.cap - 1)
      BY <1>1 DEF Live
    <2>5. Dead(new) = Dead(x.slot) \cup out
      BY <1>1, <2>1, <2>2, <2>4 DEF Dead
    <2> QED BY <2>1, <2>3, <2>5
  <1>5. Sound(x.cap, new)
    <2>1. \A j \in 0..(x.cap - 1) : new[j] = x.slot[j] \/ (new[j] = Tomb /\ x.slot[j] # Empty)
      BY <1>1 DEF Live, IsLive
    <2> HIDE DEF new
    <2> QED BY <1>1, <1>4, <2>1, SoundBuried
  <1>6. Cardinality(Live(new)) = x.len - n /\ Cardinality(Dead(new)) = x.tombs + n
    <2> HIDE DEF new
    <2>1. Live(x.slot) \cap out = out /\ Dead(x.slot) \cap out = {}
      BY DEF Live, Dead, IsLive
    <2>2. Cardinality(Live(x.slot) \ out) = x.len - n
      <3>1. Cardinality(Live(x.slot) \ out)
              = Cardinality(Live(x.slot)) - Cardinality(Live(x.slot) \cap out)
        BY <1>2, FS_Difference
      <3> QED BY <1>1, <2>1, <3>1
    <2>3. Cardinality(Dead(x.slot) \cup out) = x.tombs + n - Cardinality({})
      BY <1>1, <1>2, <1>3, <2>1, FS_Union
    <2>4. Cardinality({}) = 0
      BY FS_EmptySet
    <2> QED BY <1>1, <1>3, <1>4, <2>2, <2>3, <2>4
  <1>7. y = [x EXCEPT !.slot = new, !.len = x.len - n, !.tombs = x.tombs + n, !.gen = x.gen + n]
    OBVIOUS
  <1> HIDE DEF new, n
  <1>8. x.len - n \in Nat /\ x.tombs + n \in Nat /\ x.gen + n \in Nat
    BY <1>1, <1>3
  <1>9. y.cap = x.cap BY <1>1, <1>7
  <1>10. y.slot = new BY <1>1, <1>7
  <1>11. y.len = x.len - n BY <1>1, <1>7
  <1>12. y.tombs = x.tombs + n BY <1>1, <1>7
  <1>13. y.gen = x.gen + n BY <1>1, <1>7
  <1>14. y \in [cap : Nat, slot : SlotsOf(x.cap), len : Nat, tombs : Nat, gen : Nat]
    BY <1>1, <1>4, <1>7, <1>8
  <1>15. IsTable(y)
    BY <1>9, <1>14 DEF IsTable
  <1>16. Counted(y)
    BY <1>6, <1>10, <1>11, <1>12 DEF Counted
  <1>17. Roomy(y)
    BY <1>1, <1>3, <1>9, <1>11, <1>12 DEF Roomy, GoodTable
  <1>18. Sound(y.cap, y.slot)
    BY <1>5, <1>9, <1>10
  <1> QED BY <1>3, <1>13, <1>15, <1>16, <1>17, <1>18 DEF GoodTable, n
-----------------------------------------------------------------------------
(* Moving to a new table *)

\* While entries move, the new table is sound and holds, one for one, the
\* entries of the old slots already passed; it has room for all of them.
Passed(x, n) == {i \in Live(x.slot) : i < n}
MoveGood(x, mv) ==
  /\ mv \in [moving : {TRUE}, cap : Nat, next : 0..x.cap,
              slot : [0..(mv.cap - 1) -> Entry \cup {Empty}]]
  /\ Slack(mv.cap) /\ x.len < mv.cap
  /\ Cardinality(Live(mv.slot)) = Cardinality(Passed(x, mv.next))
  /\ Sound(mv.cap, mv.slot)
  /\ \A j \in Live(mv.slot) : \E i \in Passed(x, mv.next) : x.slot[i] = mv.slot[j]

\* A new table has no tombstone, and an empty slot at every moment.
LEMMA MoveRoom ==
  ASSUME NEW x, GoodTable(x), NEW mv, MoveGood(x, mv)
  PROVE  /\ mv.cap \in Nat /\ mv.cap > 0 /\ mv.slot \in SlotsOf(mv.cap)
         /\ Dead(mv.slot) = {} /\ Cardinality(Dead(mv.slot)) = 0
         /\ \E i \in 0..(mv.cap - 1) : mv.slot[i] = Empty
  <1>1. /\ x.slot \in SlotsOf(x.cap) /\ x.cap \in Nat /\ x.len \in Nat
        /\ x.len = Cardinality(Live(x.slot)) /\ IsFiniteSet(Live(x.slot))
    BY SlotsCounted DEF GoodTable, IsTable, Counted
  <1>2. /\ mv.cap \in Nat /\ mv.slot \in [0..(mv.cap - 1) -> Entry \cup {Empty}]
        /\ x.len < mv.cap
    BY DEF MoveGood
  <1>3. mv.slot \in SlotsOf(mv.cap)
    BY <1>2 DEF SlotsOf
  <1>4. Dead(mv.slot) = {}
    BY <1>2, SlotAssumption DEF Dead
  <1>5. Cardinality(Dead(mv.slot)) = 0
    BY <1>4, FS_EmptySet
  <1>6. Cardinality(Passed(x, mv.next)) <= x.len
    <2>1. Passed(x, mv.next) \in SUBSET Live(x.slot)
      BY DEF Passed
    <2> QED BY <1>1, <2>1, FS_Subset
  <1>7. Cardinality(Live(mv.slot)) \in Nat
    BY <1>2, <1>3, SlotsCounted
  <1>8. Cardinality(Live(mv.slot)) = Cardinality(Passed(x, mv.next))
    BY DEF MoveGood
  <1>9. Cardinality(Live(mv.slot)) + Cardinality(Dead(mv.slot)) < mv.cap
    BY <1>1, <1>2, <1>5, <1>6, <1>7, <1>8
  <1>10. \E i \in 0..(mv.cap - 1) : mv.slot[i] = Empty
    BY <1>2, <1>3, <1>9, SlotsCounted
  <1> QED BY <1>1, <1>2, <1>3, <1>4, <1>5, <1>10

\* A move begins with a table that holds nothing.
LEMMA OpenGood ==
  ASSUME NEW x, GoodTable(x), NEW cap \in Nat, Slack(cap), x.len < cap,
         NEW mv, mv = [moving |-> TRUE, cap |-> cap, slot |-> Blank(cap), next |-> 0]
  PROVE  MoveGood(x, mv)
  <1>1. x.cap \in Nat /\ x.slot \in SlotsOf(x.cap)
    BY DEF GoodTable, IsTable
  <1>2. mv.cap = cap /\ mv.slot = Blank(cap) /\ mv.next = 0
    OBVIOUS
  <1>3. Live(Blank(cap)) = {}
    BY DEF Blank, Live, IsLive
  <1>4. Passed(x, 0) = {}
    BY <1>1 DEF Passed, Live, SlotsOf
  <1>5. Blank(cap) \in [0..(cap - 1) -> Entry \cup {Empty}] /\ 0 \in 0..x.cap
    BY <1>1 DEF Blank
  <1>6. Sound(cap, Blank(cap))
    BY <1>3 DEF Sound, Uniq, Reachable
  <1>7. mv \in [moving : {TRUE}, cap : Nat, next : 0..x.cap,
                slot : [0..(mv.cap - 1) -> Entry \cup {Empty}]]
    BY <1>2, <1>5
  <1>8. Cardinality(Live(mv.slot)) = Cardinality(Passed(x, mv.next))
    BY <1>2, <1>3, <1>4
  <1> QED BY <1>2, <1>3, <1>6, <1>7, <1>8 DEF MoveGood

\* One slot further.
LEMMA StepGood ==
  ASSUME NEW x, GoodTable(x), NEW mv, MoveGood(x, mv), mv.next < x.cap,
         NEW to, to = [mv EXCEPT
            !.next = @ + 1,
            !.slot = IF IsLive(x.slot[mv.next]) THEN Place(mv.slot, mv.cap, x.slot[mv.next])
                     ELSE @]
  PROVE  MoveGood(x, to)
  <1> DEFINE n == mv.next
             e == x.slot[n]
             i == FirstOf(mv.cap, e.key, Free(mv.slot))
             new == IF IsLive(e) THEN Place(mv.slot, mv.cap, e) ELSE mv.slot
  <1>1. /\ x.cap \in Nat /\ x.slot \in SlotsOf(x.cap) /\ DOMAIN x.slot = 0..(x.cap - 1)
        /\ Sound(x.cap, x.slot) /\ IsFiniteSet(Live(x.slot))
    BY SlotsCounted DEF GoodTable, IsTable, SlotsOf
  <1>2. /\ mv \in [moving : {TRUE}, cap : Nat, next : 0..x.cap,
                    slot : [0..(mv.cap - 1) -> Entry \cup {Empty}]]
        /\ Slack(mv.cap) /\ x.len < mv.cap
        /\ Cardinality(Live(mv.slot)) = Cardinality(Passed(x, n))
        /\ Sound(mv.cap, mv.slot)
        /\ \A j \in Live(mv.slot) : \E h \in Passed(x, n) : x.slot[h] = mv.slot[j]
    BY DEF MoveGood
  <1>3. /\ mv.cap \in Nat /\ mv.slot \in SlotsOf(mv.cap)
        /\ \E h \in 0..(mv.cap - 1) : mv.slot[h] = Empty
    BY MoveRoom
  <1>4. n \in 0..(x.cap - 1) /\ n + 1 \in 0..x.cap
    BY <1>1, <1>2
  <1>5. Passed(x, n + 1) = IF IsLive(e) THEN Passed(x, n) \cup {n} ELSE Passed(x, n)
    <2>1. \A h \in 0..(x.cap - 1) : h < n + 1 <=> h < n \/ h = n
      BY <1>4
    <2> QED BY <1>1, <1>4, <2>1 DEF Passed, Live
  <1>6. n \notin Passed(x, n) /\ IsFiniteSet(Passed(x, n))
    <2>1. n \notin Passed(x, n)
      BY <1>4 DEF Passed
    <2>2. Passed(x, n) \in SUBSET Live(x.slot)
      BY DEF Passed
    <2> QED BY <1>1, <2>1, <2>2, FS_Subset
  <1>7. to = [mv EXCEPT !.next = n + 1, !.slot = new]
    OBVIOUS
  <1> HIDE DEF new, i, e, n
  <1>8. /\ new \in [0..(mv.cap - 1) -> Entry \cup {Empty}]
        /\ Cardinality(Live(new)) = Cardinality(Passed(x, n + 1))
        /\ Sound(mv.cap, new)
        /\ \A j \in Live(new) : \E h \in Passed(x, n + 1) : x.slot[h] = new[j]
    <2>1. CASE ~IsLive(e)
      BY <1>2, <1>5, <2>1 DEF new
    <2>2. CASE IsLive(e)
      <3>1. e \in Entry
        BY <1>1, <1>4, <2>2, LiveIsEntry DEF SlotsOf, e
      <3>2. \A j \in Live(mv.slot) : mv.slot[j].key # e.key
        <4> SUFFICES ASSUME NEW j \in Live(mv.slot), mv.slot[j].key = e.key PROVE FALSE
          OBVIOUS
        <4>1. PICK h \in Passed(x, n) : x.slot[h] = mv.slot[j]
          BY <1>2
        <4>2. n \in Live(x.slot) /\ h \in Live(x.slot) /\ h # n
          BY <1>1, <1>4, <1>6, <2>2, <4>1 DEF Live, Passed, e
        <4> QED BY <1>1, <4>1, <4>2 DEF Sound, Uniq, e
      <3>3. new = Written(mv.slot, i, e)
        BY <2>2 DEF new, Place, Written, i
      <3>4. i \in 0..(mv.cap - 1) /\ ~IsLive(mv.slot[i]) /\ Sound(mv.cap, new)
        BY <1>2, <1>3, <3>1, <3>2, <3>3, SoundAdded DEF i
      <3>5. e \in Entry \cup {Empty, Tomb}
        BY <3>1
      <3>6. /\ \A j \in 0..(mv.cap - 1) : new[j] = IF j = i THEN e ELSE mv.slot[j]
            /\ Live(new) = Live(mv.slot) \cup {i}
        BY <1>3, <2>2, <3>3, <3>4, <3>5, SlotWritten
      <3>7. new \in [0..(mv.cap - 1) -> Entry \cup {Empty}]
        BY <1>2, <3>1, <3>3 DEF Written
      <3>8. DOMAIN mv.slot = 0..(mv.cap - 1) /\ IsFiniteSet(Live(mv.slot)) /\ i \notin Live(mv.slot)
        BY <1>3, <3>4, SlotsCounted DEF Live
      <3>9. Cardinality(Live(new)) = Cardinality(Live(mv.slot)) + 1
        BY <3>6, <3>8, FS_AddElement
      <3>10. Cardinality(Passed(x, n + 1)) = Cardinality(Passed(x, n)) + 1
        BY <1>5, <1>6, <2>2, FS_AddElement
      <3>11. ASSUME NEW j \in Live(new) PROVE \E h \in Passed(x, n + 1) : x.slot[h] = new[j]
        <4>1. CASE j = i
          BY <1>5, <2>2, <3>4, <3>6, <4>1 DEF e
        <4>2. CASE j # i
          <5>1. j \in Live(mv.slot) /\ new[j] = mv.slot[j]
            BY <3>6, <3>8, <4>2 DEF Live
          <5> QED BY <1>2, <1>5, <5>1
        <4> QED BY <4>1, <4>2
      <3> QED BY <1>2, <3>4, <3>7, <3>9, <3>10, <3>11
    <2> QED BY <2>1, <2>2
  <1>9. to.cap = mv.cap BY <1>2, <1>7
  <1>10. to.next = n + 1 BY <1>2, <1>7
  <1>11. to.slot = new BY <1>2, <1>7
  <1>12. to \in [moving : {TRUE}, cap : Nat, next : 0..x.cap,
                 slot : [0..(to.cap - 1) -> Entry \cup {Empty}]]
    BY <1>2, <1>4, <1>7, <1>8, <1>9
  <1>13. Slack(to.cap) /\ x.len < to.cap /\ Sound(to.cap, to.slot)
    BY <1>2, <1>8, <1>9, <1>11
  <1>14. /\ Cardinality(Live(to.slot)) = Cardinality(Passed(x, to.next))
         /\ \A j \in Live(to.slot) : \E h \in Passed(x, to.next) : x.slot[h] = to.slot[j]
    BY <1>8, <1>10, <1>11
  <1> QED BY <1>12, <1>13, <1>14 DEF MoveGood

\* Past the last slot the new table is in order.
LEMMA EndGood ==
  ASSUME NEW x, GoodTable(x), NEW mv, MoveGood(x, mv), mv.next = x.cap
  PROVE  GoodTable(Moved(x, mv.slot, mv.cap)) /\ Moved(x, mv.slot, mv.cap).gen = x.gen + 1
  <1> DEFINE y == Moved(x, mv.slot, mv.cap)
  <1>1. /\ x \in [cap : Nat, slot : SlotsOf(x.cap), len : Nat, tombs : Nat, gen : Nat]
        /\ x.slot \in SlotsOf(x.cap) /\ x.cap \in Nat /\ x.len \in Nat /\ x.gen + 1 \in Nat
        /\ x.len = Cardinality(Live(x.slot)) /\ DOMAIN x.slot = 0..(x.cap - 1)
    BY DEF GoodTable, IsTable, Counted, SlotsOf
  <1>2. /\ Slack(mv.cap) /\ x.len < mv.cap /\ Sound(mv.cap, mv.slot)
        /\ Cardinality(Live(mv.slot)) = Cardinality(Passed(x, mv.next))
    BY DEF MoveGood
  <1>3. mv.cap \in Nat /\ mv.slot \in SlotsOf(mv.cap) /\ Cardinality(Dead(mv.slot)) = 0
    BY MoveRoom
  <1>4. Passed(x, mv.next) = Live(x.slot)
    <2>1. \A h \in 0..(x.cap - 1) : h < x.cap
      BY <1>1
    <2> QED BY <1>1, <2>1 DEF Passed, Live
  <1>5. y = [x EXCEPT !.slot = mv.slot, !.cap = mv.cap, !.tombs = 0, !.gen = x.gen + 1]
    BY DEF Moved
  <1> HIDE DEF y
  <1>6. y.cap = mv.cap BY <1>1, <1>5
  <1>7. y.slot = mv.slot BY <1>1, <1>5
  <1>8. y.len = x.len BY <1>1, <1>5
  <1>9. y.tombs = 0 BY <1>1, <1>5
  <1>10. y.gen = x.gen + 1 BY <1>1, <1>5
  <1>11. y \in [cap : Nat, slot : SlotsOf(mv.cap), len : Nat, tombs : Nat, gen : Nat]
    BY <1>1, <1>3, <1>5
  <1>12. IsTable(y)
    BY <1>6, <1>11 DEF IsTable
  <1>13. Counted(y)
    BY <1>1, <1>2, <1>3, <1>4, <1>7, <1>8, <1>9 DEF Counted
  <1>14. Roomy(y)
    BY <1>1, <1>2, <1>6, <1>8, <1>9 DEF Roomy
  <1> QED BY <1>2, <1>6, <1>7, <1>10, <1>12, <1>13, <1>14 DEF GoodTable, y
-----------------------------------------------------------------------------
(* What the operations do to the entries *)

\* An entry of the table is what one of its live slots holds.
LEMMA EntriesAre ==
  ASSUME NEW cap \in Nat, NEW slot \in SlotsOf(cap)
  PROVE  /\ Entries(slot) \subseteq Entry
         /\ Live(slot) \subseteq 0..(cap - 1)
         /\ \A i \in Live(slot) : slot[i] \in Entries(slot) /\ slot[i] \in Entry /\ slot[i].key \in Key
  <1>1. DOMAIN slot = 0..(cap - 1) /\ \A i \in 0..(cap - 1) : slot[i] \in Entry \cup {Empty, Tomb}
    BY DEF SlotsOf
  <1>2. \A i \in Live(slot) : slot[i] \in Entry /\ i \in 0..(cap - 1)
    BY <1>1, LiveIsEntry DEF Live
  <1>3. \A i \in Live(slot) : slot[i].key \in Key
    BY <1>2 DEF Entry
  <1> QED BY <1>2, <1>3 DEF Entries

\* Slots that hold entries of different keys hold as many entries.
LEMMA EntriesCount ==
  ASSUME NEW cap \in Nat, NEW slot \in SlotsOf(cap), Uniq(slot), NEW S \in SUBSET Live(slot),
         NEW T, T = {slot[i] : i \in S}
  PROVE  IsFiniteSet(T) /\ Cardinality(T) = Cardinality(S)
  <1> DEFINE f == [i \in S |-> slot[i]]
  <1>1. IsFiniteSet(S)
    BY SlotsCounted, FS_Subset
  <1>2. f \in [S -> T]
    OBVIOUS
  <1>3. \A a, b \in S : f[a] = f[b] => a = b
    BY DEF Uniq
  <1>4. \A y \in T : \E i \in S : f[i] = y
    OBVIOUS
  <1> HIDE DEF f
  <1>5. f \in Bijection(S, T)
    BY <1>2, <1>3, <1>4 DEF Bijection, Injection, Surjection, IsInjective
  <1>6. ExistsBijection(S, T)
    BY <1>5 DEF ExistsBijection
  <1> QED BY <1>1, <1>6, FS_Bijection

\* A table has as many entries as it counts.
LEMMA StoreCount ==
  ASSUME NEW x, GoodTable(x)
  PROVE  IsFiniteSet(Entries(x.slot)) /\ Cardinality(Entries(x.slot)) = x.len
  <1>1. x.cap \in Nat /\ x.slot \in SlotsOf(x.cap) /\ Uniq(x.slot) /\ x.len = Cardinality(Live(x.slot))
    BY DEF GoodTable, IsTable, Counted, Sound
  <1>2. Live(x.slot) \in SUBSET Live(x.slot)
    OBVIOUS
  <1>3. Entries(x.slot) = {x.slot[i] : i \in Live(x.slot)}
    BY DEF Entries
  <1> QED BY <1>1, <1>2, <1>3, EntriesCount

\* A search finds exactly the entry of its key.
LEMMA SearchExact ==
  ASSUME NEW x, GoodTable(x), NEW k \in Key
  PROVE  /\ Found(x, k) => Probe(x, k) \in Live(x.slot) /\ x.slot[Probe(x, k)].key = k
         /\ {e \in Entries(x.slot) : e.key = k} = IF Found(x, k) THEN {x.slot[Probe(x, k)]} ELSE {}
  <1>1. x.cap \in Nat /\ x.slot \in SlotsOf(x.cap) /\ Sound(x.cap, x.slot)
        /\ DOMAIN x.slot = 0..(x.cap - 1)
    BY DEF GoodTable, IsTable, SlotsOf
  <1>2. ASSUME Found(x, k) PROVE Probe(x, k) \in Live(x.slot) /\ x.slot[Probe(x, k)].key = k
    <2>1. \E i \in 0..(x.cap - 1) : x.slot[i] = Empty
      BY <1>1, <1>2, RoomForProbe DEF GoodTable, Found
    <2>2. /\ Probe(x, k) \in 0..(x.cap - 1) /\ IsLive(x.slot[Probe(x, k)])
          /\ x.slot[Probe(x, k)].key = k
      BY <1>1, <1>2, <2>1, ProbeAnswers
    <2> QED BY <1>1, <2>2 DEF Live
  <1>3. \A i \in Live(x.slot) : x.slot[i].key = k => Found(x, k) /\ Probe(x, k) = i
    BY <1>1, SoundFinds
  <1>4. CASE Found(x, k)
    BY <1>2, <1>3, <1>4 DEF Entries
  <1>5. CASE ~Found(x, k)
    BY <1>3, <1>5 DEF Entries
  <1> QED BY <1>2, <1>4, <1>5

\* An entry that is put replaces the one with its key.
LEMMA PutEntries ==
  ASSUME NEW x, GoodTable(x), NEW e \in Entry, ~NeedsGrow(x)
  PROVE  Entries(Put(x, e).slot) = (Entries(x.slot) \ {f \in Entries(x.slot) : f.key = e.key}) \cup {e}
  <1> DEFINE new == Put(x, e).slot
  <1>1. x.cap \in Nat /\ x.slot \in SlotsOf(x.cap) /\ Sound(x.cap, x.slot)
        /\ DOMAIN x.slot = 0..(x.cap - 1) /\ e.key \in Key /\ x.cap > 0
    BY DEF GoodTable, IsTable, SlotsOf, Entry, NeedsGrow
  <1>2. PICK i : i = Probe(x, e.key)
    OBVIOUS
  <1>3. \E j \in 0..(x.cap - 1) : x.slot[j] = Empty
    BY <1>1, RoomForProbe DEF GoodTable
  <1>4. /\ i \in 0..(x.cap - 1)
        /\ Found(x, e.key) => x.slot[i].key = e.key
        /\ ~Found(x, e.key) => ~IsLive(x.slot[i])
    BY <1>1, <1>2, <1>3, ProbeAnswers
  <1>5. new = Written(x.slot, i, e)
    BY <1>2, <1>3, PutCounts DEF GoodTable, Written
  <1>6. IsLive(e) /\ e \in Entry \cup {Empty, Tomb}
    BY LiveIsEntry
  <1> HIDE DEF new
  <1>7. /\ \A j \in 0..(x.cap - 1) : new[j] = IF j = i THEN e ELSE x.slot[j]
        /\ Live(new) = Live(x.slot) \cup {i}
    BY <1>1, <1>4, <1>5, <1>6, SlotWritten
  <1>8. \A j \in Live(x.slot) : j \in 0..(x.cap - 1) /\ (x.slot[j].key = e.key <=> j = i)
    <2> TAKE j \in Live(x.slot)
    <2>1. j \in 0..(x.cap - 1) /\ IsLive(x.slot[j])
      BY <1>1 DEF Live
    <2>2. x.slot[j].key = e.key => j = i
      BY <1>1, <1>2, SoundFinds
    <2>3. j = i => x.slot[j].key = e.key
      BY <1>4, <2>1
    <2> QED BY <2>1, <2>2, <2>3
  <1>9. ASSUME NEW f
        PROVE  f \in Entries(new) <=> f = e \/ (f \in Entries(x.slot) /\ f.key # e.key)
    <2>1. ASSUME f \in Entries(new) PROVE f = e \/ (f \in Entries(x.slot) /\ f.key # e.key)
      <3>1. PICK j \in Live(new) : f = new[j]
        BY <2>1 DEF Entries
      <3>2. CASE j = i
        BY <1>4, <1>7, <3>1, <3>2
      <3>3. CASE j # i
        <4>1. j \in Live(x.slot) /\ f = x.slot[j] /\ x.slot[j].key # e.key
          BY <1>7, <1>8, <3>1, <3>3
        <4> QED BY <4>1 DEF Entries
      <3> QED BY <3>2, <3>3
    <2>2. e \in Entries(new)
      <3>1. i \in Live(new) /\ new[i] = e
        BY <1>4, <1>7
      <3> QED BY <3>1 DEF Entries
    <2>3. ASSUME f \in Entries(x.slot), f.key # e.key PROVE f \in Entries(new)
      <3>1. PICK j \in Live(x.slot) : f = x.slot[j]
        BY <2>3 DEF Entries
      <3>2. j # i /\ j \in 0..(x.cap - 1)
        BY <1>8, <2>3, <3>1
      <3>3. j \in Live(new) /\ new[j] = f
        BY <1>7, <3>1, <3>2
      <3> QED BY <3>3 DEF Entries
    <2> QED BY <2>1, <2>2, <2>3
  <1>10. Entries(new) = (Entries(x.slot) \ {f \in Entries(x.slot) : f.key = e.key}) \cup {e}
    BY <1>9
  <1> QED BY <1>10 DEF new

\* Slots that become tombstones lose their entries, and only those.
LEMMA BuriedEntries ==
  ASSUME NEW x, GoodTable(x), NEW out \in SUBSET Live(x.slot), NEW new \in SlotsOf(x.cap),
         \A j \in 0..(x.cap - 1) : new[j] = IF j \in out THEN Tomb ELSE x.slot[j]
  PROVE  Entries(new) = Entries(x.slot) \ {x.slot[i] : i \in out}
  <1>1. x.cap \in Nat /\ x.slot \in SlotsOf(x.cap) /\ Uniq(x.slot)
        /\ DOMAIN x.slot = 0..(x.cap - 1) /\ DOMAIN new = 0..(x.cap - 1)
    BY DEF GoodTable, IsTable, SlotsOf, Sound
  <1>2. Live(new) = Live(x.slot) \ out
    BY <1>1 DEF Live, IsLive
  <1>3. \A i \in Live(new) : new[i] = x.slot[i]
    BY <1>1, <1>2 DEF Live
  <1>4. \A i, j \in Live(x.slot) : x.slot[i] = x.slot[j] => i = j
    BY <1>1 DEF Uniq
  <1>5. ASSUME NEW f PROVE f \in Entries(new) <=> f \in Entries(x.slot) /\ f \notin {x.slot[i] : i \in out}
    <2>1. ASSUME f \in Entries(new) PROVE f \in Entries(x.slot) /\ f \notin {x.slot[i] : i \in out}
      <3>1. PICK j \in Live(new) : f = x.slot[j]
        BY <1>3, <2>1 DEF Entries
      <3>2. j \in Live(x.slot) /\ j \notin out
        BY <1>2
      <3>3. \A i \in out : x.slot[i] # f
        BY <1>4, <3>1, <3>2
      <3> QED BY <3>1, <3>2, <3>3 DEF Entries
    <2>2. ASSUME f \in Entries(x.slot), f \notin {x.slot[i] : i \in out} PROVE f \in Entries(new)
      <3>1. PICK j \in Live(x.slot) : f = x.slot[j]
        BY <2>2 DEF Entries
      <3>2. j \in Live(new) /\ new[j] = f
        BY <1>2, <1>3, <2>2, <3>1
      <3> QED BY <3>2 DEF Entries
    <2> QED BY <2>1, <2>2
  <1> QED BY <1>5

\* An entry that is killed is the only one to go.
LEMMA KillEntries ==
  ASSUME NEW x, GoodTable(x), NEW i \in Live(x.slot)
  PROVE  Entries(Kill(x, i).slot) = Entries(x.slot) \ {x.slot[i]}
  <1> DEFINE new == Kill(x, i).slot
  <1>1. x.cap \in Nat /\ x.slot \in SlotsOf(x.cap) /\ DOMAIN x.slot = 0..(x.cap - 1)
    BY DEF GoodTable, IsTable, SlotsOf
  <1>2. new = [x.slot EXCEPT ![i] = Tomb]
    BY KillCounts DEF GoodTable
  <1> HIDE DEF new
  <1>3. \A j \in 0..(x.cap - 1) : new[j] = IF j \in {i} THEN Tomb ELSE x.slot[j]
    BY <1>1, <1>2
  <1>4. new \in SlotsOf(x.cap) /\ {i} \in SUBSET Live(x.slot)
    BY <1>1, <1>2 DEF SlotsOf
  <1>5. Entries(new) = Entries(x.slot) \ {x.slot[h] : h \in {i}}
    BY <1>3, <1>4, BuriedEntries
  <1>6. {x.slot[h] : h \in {i}} = {x.slot[i]}
    OBVIOUS
  <1> QED BY <1>5, <1>6 DEF new

\* Past the last slot the new table holds the entries of the old.
LEMMA MovedEntries ==
  ASSUME NEW x, GoodTable(x), NEW mv, MoveGood(x, mv), mv.next = x.cap
  PROVE  Entries(mv.slot) = Entries(x.slot)
  <1>1. /\ x.cap \in Nat /\ x.slot \in SlotsOf(x.cap) /\ DOMAIN x.slot = 0..(x.cap - 1)
        /\ Uniq(x.slot)
    BY DEF GoodTable, IsTable, SlotsOf, Sound
  <1>2. mv.cap \in Nat /\ mv.slot \in SlotsOf(mv.cap)
    BY MoveRoom
  <1>3. Passed(x, mv.next) = Live(x.slot)
    <2>1. \A h \in 0..(x.cap - 1) : h < x.cap
      BY <1>1
    <2> QED BY <1>1, <2>1 DEF Passed, Live
  <1>4. /\ Uniq(mv.slot) /\ Cardinality(Live(mv.slot)) = Cardinality(Live(x.slot))
        /\ \A j \in Live(mv.slot) : \E i \in Live(x.slot) : x.slot[i] = mv.slot[j]
    BY <1>3 DEF MoveGood, Sound
  <1>5. Entries(mv.slot) \in SUBSET Entries(x.slot)
    BY <1>4 DEF Entries
  <1>6. Live(mv.slot) \in SUBSET Live(mv.slot) /\ Live(x.slot) \in SUBSET Live(x.slot)
    OBVIOUS
  <1>7. Cardinality(Entries(mv.slot)) = Cardinality(Live(mv.slot))
    BY <1>2, <1>4, <1>6, EntriesCount DEF Entries
  <1>8. IsFiniteSet(Entries(x.slot)) /\ Cardinality(Entries(x.slot)) = Cardinality(Live(x.slot))
    BY <1>1, <1>6, EntriesCount DEF Entries
  <1> QED BY <1>4, <1>5, <1>7, <1>8, FS_Subset
-----------------------------------------------------------------------------
(* Growth as one operator *)

\* What htab_grow makes of the new slots at the n-th old one.
Received(x, cap, new, n) == IF IsLive(x.slot[n]) THEN Place(new, cap, x.slot[n]) ELSE new

\* The new slots after each of the first m old ones.
Filling(x, cap, m, f) ==
  f = [n \in 0..m |-> IF n = 0 THEN Blank(cap) ELSE Received(x, cap, f[n - 1], n - 1)]

LEMMA FillingOnce ==
  ASSUME NEW x, x.cap \in Nat, NEW cap
  PROVE  \E f : Filling(x, cap, x.cap, f)
  <1> DEFINE S == {m \in 0..x.cap : ~ \E f : Filling(x, cap, m, f)}
  <1>1. SUFFICES ASSUME S # {} PROVE FALSE
    OBVIOUS
  <1>2. S \subseteq Nat
    OBVIOUS
  <1>3. PICK m \in S : \A n \in S : m <= n
    BY <1>1, <1>2, LeastOf
  <1>4. m \in 0..x.cap /\ ~ \E f : Filling(x, cap, m, f)
    BY <1>3
  <1>5. CASE m = 0
    <2>1. Filling(x, cap, 0, [n \in 0..0 |-> Blank(cap)])
      BY DEF Filling
    <2> QED BY <1>4, <1>5, <2>1
  <1>6. CASE m # 0
    <2>1. m - 1 \in 0..x.cap /\ m - 1 < m
      BY <1>4, <1>6
    <2>2. m - 1 \notin S
      BY <1>2, <1>3, <2>1
    <2>3. PICK f : Filling(x, cap, m - 1, f)
      BY <2>1, <2>2
    <2> DEFINE g == [n \in 0..m |-> IF n = m THEN Received(x, cap, f[m - 1], m - 1) ELSE f[n]]
    <2>4. \A n \in 0..(m - 1) : g[n] = f[n]
      BY <1>4, <1>6
    <2>5. \A n \in 0..m : g[n] = IF n = 0 THEN Blank(cap) ELSE Received(x, cap, g[n - 1], n - 1)
      <3> TAKE n \in 0..m
      <3>1. \A i \in 0..(m - 1) : f[i] = IF i = 0 THEN Blank(cap) ELSE Received(x, cap, f[i - 1], i - 1)
        BY <2>3 DEF Filling
      <3>2. CASE n = m
        BY <1>4, <1>6, <2>4, <3>2
      <3>3. CASE n # m
        <4>1. n \in 0..(m - 1) /\ (n # 0 => n - 1 \in 0..(m - 1))
          BY <1>4, <3>3
        <4> HIDE DEF g
        <4> QED BY <2>4, <3>1, <4>1
      <3> QED BY <3>2, <3>3
    <2>6. Filling(x, cap, m, g)
      <3>1. DOMAIN g = 0..m /\ g = [n \in 0..m |-> g[n]]
        OBVIOUS
      <3> HIDE DEF g
      <3> QED BY <2>5, <3>1 DEF Filling
    <2> QED BY <1>4, <2>6
  <1> QED BY <1>5, <1>6

LEMMA FilledIs ==
  ASSUME NEW x, x.cap \in Nat, NEW cap
  PROVE  \E f : Filling(x, cap, x.cap, f) /\ Filled(x, cap) = f[x.cap]
  <1> DEFINE f == CHOOSE f : Filling(x, cap, x.cap, f)
  <1>1. Filling(x, cap, x.cap, f)
    BY FillingOnce
  <1>2. Filled(x, cap) = f[x.cap]
    BY DEF Filled, Filling, Received
  <1> QED BY <1>1, <1>2

Part(cap, f, n) == [moving |-> TRUE, cap |-> cap, slot |-> f[n], next |-> n]

\* After each of the old slots the new ones are those of a move under way.
LEMMA FillingGood ==
  ASSUME NEW x, GoodTable(x), NEW cap \in Nat, Slack(cap), x.len < cap,
         NEW f, Filling(x, cap, x.cap, f)
  PROVE  \A n \in 0..x.cap : MoveGood(x, Part(cap, f, n))
  <1>1. x.cap \in Nat
    BY DEF GoodTable, IsTable
  <1>2. \A n \in 0..x.cap : f[n] = IF n = 0 THEN Blank(cap) ELSE Received(x, cap, f[n - 1], n - 1)
    BY DEF Filling
  <1> DEFINE S == {n \in 0..x.cap : ~MoveGood(x, Part(cap, f, n))}
  <1>3. SUFFICES ASSUME S # {} PROVE FALSE
    OBVIOUS
  <1>4. S \subseteq Nat
    OBVIOUS
  <1>5. PICK m \in S : \A n \in S : m <= n
    BY <1>3, <1>4, LeastOf
  <1>6. m \in 0..x.cap /\ ~MoveGood(x, Part(cap, f, m))
    BY <1>5
  <1>7. m # 0
    <2>1. f[0] = Blank(cap)
      BY <1>1, <1>2
    <2>2. Part(cap, f, 0) = [moving |-> TRUE, cap |-> cap, slot |-> Blank(cap), next |-> 0]
      BY <2>1 DEF Part
    <2>3. MoveGood(x, Part(cap, f, 0))
      BY <2>2, OpenGood
    <2> QED BY <1>6, <2>3
  <1>8. m - 1 \in 0..x.cap /\ m - 1 < x.cap /\ m - 1 < m
    BY <1>1, <1>6, <1>7
  <1>9. m - 1 \notin S
    BY <1>4, <1>5, <1>8
  <1> DEFINE mv == Part(cap, f, m - 1)
             to == [mv EXCEPT
                !.next = @ + 1,
                !.slot = IF IsLive(x.slot[mv.next]) THEN Place(mv.slot, mv.cap, x.slot[mv.next])
                         ELSE @]
  <1>10. MoveGood(x, mv) /\ mv.next = m - 1 /\ mv.slot = f[m - 1] /\ mv.cap = cap
    BY <1>8, <1>9 DEF Part
  <1>11. MoveGood(x, to)
    <2> HIDE DEF mv
    <2> QED BY <1>8, <1>10, StepGood
  <1>12. to = Part(cap, f, m)
    <2>1. f[m] = Received(x, cap, f[m - 1], m - 1)
      BY <1>2, <1>6, <1>7
    <2>2. PICK n \in Nat : n = m - 1
      BY <1>8
    <2>3. PICK new, z : new = f[n] /\ z = Received(x, cap, new, n)
      OBVIOUS
    <2>4. mv = [moving |-> TRUE, cap |-> cap, slot |-> new, next |-> n]
      BY <2>2, <2>3 DEF Part
    <2> HIDE DEF mv
    <2>5. mv.next = n /\ mv.slot = new /\ mv.cap = cap
      BY <2>4
    <2>6. to = [mv EXCEPT !.next = n + 1, !.slot = z]
      BY <2>3, <2>5 DEF Received
    <2> HIDE DEF to
    <2>7. to = [moving |-> TRUE, cap |-> cap, slot |-> z, next |-> n + 1]
      BY ONLY <2>4, <2>6
    <2>8. n + 1 = m
      BY <1>6, <2>2
    <2> QED BY <2>1, <2>2, <2>3, <2>7, <2>8 DEF Part
  <1> QED BY <1>6, <1>11, <1>12

\* The larger table has room for what the old one holds.
LEMMA GrownRoom ==
  ASSUME NEW x, GoodTable(x), NeedsGrow(x)
  PROVE  /\ GrownCap(x) \in Nat /\ Slack(GrownCap(x)) /\ x.len < GrownCap(x)
         /\ ~(x.len * LoadD >= GrownCap(x) * LoadN)
  <1>1. /\ x.cap \in Nat /\ x.len \in Nat /\ x.slot \in SlotsOf(x.cap) /\ x.tombs \in Nat
        /\ x.len = Cardinality(Live(x.slot)) /\ x.len <= x.cap
    BY SlotsCounted DEF GoodTable, IsTable, Counted
  <1>2. LoadN \in Nat /\ LoadD \in Nat /\ LoadN > 0 /\ LoadD > 0 /\ LoadN < LoadD
        /\ LoadD <= 2 * LoadN /\ InitCap \in Nat /\ Slack(InitCap)
    BY LoadAssumption DEF Slack
  <1>3. InitCap > 0
    BY <1>2 DEF Slack
  <1>4. CASE x.cap = 0
    <2>1. GrownCap(x) = InitCap /\ x.len = 0
      BY <1>1, <1>4 DEF GrownCap
    <2>2. InitCap * LoadN > 0
      BY <1>2, <1>3
    <2> QED BY <1>2, <1>3, <2>1, <2>2
  <1>5. CASE x.cap # 0
    <2>1. GrownCap(x) = 2 * x.cap /\ x.cap > 0
      BY <1>1, <1>5 DEF GrownCap
    <2>2. Slack(x.cap) /\ x.len < x.cap
      BY <1>1, <2>1 DEF GoodTable, Roomy
    <2>3. Slack(2 * x.cap)
      BY <1>1, <1>2, <2>2, DoubleRoom DEF Slack
    <2>4. x.len * LoadD < (2 * x.cap) * LoadN
      <3>1. PICK l \in Nat, c \in Nat, n \in Nat, d \in Nat :
              l = x.len /\ c = x.cap /\ n = LoadN /\ d = LoadD
        BY <1>1, <1>2
      <3>2. l < c /\ d > 0 /\ d <= 2 * n
        BY <1>2, <2>2, <3>1
      <3>3. l * d < c * d
        BY ONLY <3>2, l \in Nat, c \in Nat, n \in Nat, d \in Nat
      <3>4. c * d <= c * (2 * n)
        BY ONLY <3>2, l \in Nat, c \in Nat, n \in Nat, d \in Nat
      <3>5. c * (2 * n) = (2 * c) * n
        BY ONLY l \in Nat, c \in Nat, n \in Nat, d \in Nat
      <3> DEFINE A == l * d  B == c * d  C == c * (2 * n)
      <3>6. A \in Nat /\ B \in Nat /\ C \in Nat
        OBVIOUS
      <3> HIDE DEF A, B, C
      <3>7. A < C
        BY <3>3, <3>4, <3>6 DEF A, B, C
      <3> QED BY <3>1, <3>5, <3>7 DEF A, C
    <2> QED BY <1>1, <1>2, <2>1, <2>2, <2>3, <2>4
  <1> QED BY <1>4, <1>5

\* Growth keeps a table in order, with the same entries, and below the load
\* limit; a table that moved is one generation on.
LEMMA GrownGood ==
  ASSUME NEW x, GoodTable(x)
  PROVE  /\ GoodTable(Grown(x)) /\ ~NeedsGrow(Grown(x))
         /\ Entries(Grown(x).slot) = Entries(x.slot)
         /\ Grown(x) = x \/ Grown(x).gen = x.gen + 1
  <1>1. CASE ~NeedsGrow(x)
    BY <1>1 DEF Grown
  <1>2. CASE NeedsGrow(x)
    <2>1. /\ GrownCap(x) \in Nat /\ Slack(GrownCap(x)) /\ x.len < GrownCap(x)
          /\ ~(x.len * LoadD >= GrownCap(x) * LoadN) /\ x.cap \in Nat /\ x.len \in Nat
      BY <1>2, GrownRoom DEF GoodTable, IsTable
    <2>2. PICK cap \in Nat : cap = GrownCap(x)
      BY <2>1
    <2>3. PICK f : Filling(x, cap, x.cap, f) /\ Filled(x, cap) = f[x.cap]
      BY <2>1, FilledIs
    <2>4. x.cap \in 0..x.cap
      BY <2>1
    <2>5. PICK mv : mv = Part(cap, f, x.cap)
      OBVIOUS
    <2>6. MoveGood(x, mv) /\ mv.next = x.cap /\ mv.cap = cap /\ mv.slot = Filled(x, cap)
      BY <2>1, <2>2, <2>3, <2>4, <2>5, FillingGood DEF Part
    <2>7. /\ GoodTable(Moved(x, mv.slot, mv.cap)) /\ Moved(x, mv.slot, mv.cap).gen = x.gen + 1
          /\ Entries(mv.slot) = Entries(x.slot)
      BY <2>6, EndGood, MovedEntries
    <2>8. Grown(x) = Moved(x, mv.slot, mv.cap)
      BY <1>2, <2>2, <2>6 DEF Grown
    <2>9. /\ Grown(x).slot = mv.slot /\ Grown(x).cap = cap /\ Grown(x).len = x.len
          /\ Grown(x).tombs = 0
      BY <2>6, <2>8 DEF Moved, GoodTable, IsTable
    <2>10. ~NeedsGrow(Grown(x))
      BY <2>1, <2>2, <2>9 DEF NeedsGrow
    <2> QED BY <2>7, <2>8, <2>9, <2>10
  <1> QED BY <1>1, <1>2

\* So does compaction, at the same size.
LEMMA CompactedGood ==
  ASSUME NEW x, GoodTable(x)
  PROVE  /\ GoodTable(Compacted(x)) /\ Entries(Compacted(x).slot) = Entries(x.slot)
         /\ Compacted(x) = x \/ Compacted(x).gen = x.gen + 1
  <1>1. CASE x.cap = 0 \/ x.len = 0
    BY <1>1 DEF Compacted
  <1>2. CASE ~(x.cap = 0 \/ x.len = 0)
    <2>1. x.cap \in Nat /\ Slack(x.cap) /\ x.len < x.cap
      BY <1>2 DEF GoodTable, IsTable, Roomy
    <2>2. PICK cap \in Nat : cap = x.cap
      BY <2>1
    <2>3. PICK f : Filling(x, cap, x.cap, f) /\ Filled(x, cap) = f[x.cap]
      BY <2>1, FilledIs
    <2>4. x.cap \in 0..x.cap
      BY <2>1
    <2>5. PICK mv : mv = Part(cap, f, x.cap)
      OBVIOUS
    <2>6. MoveGood(x, mv) /\ mv.next = x.cap /\ mv.cap = cap /\ mv.slot = Filled(x, cap)
      BY <2>1, <2>2, <2>3, <2>4, <2>5, FillingGood DEF Part
    <2>7. /\ GoodTable(Moved(x, mv.slot, mv.cap)) /\ Moved(x, mv.slot, mv.cap).gen = x.gen + 1
          /\ Entries(mv.slot) = Entries(x.slot)
      BY <2>6, EndGood, MovedEntries
    <2>8. Compacted(x) = Moved(x, mv.slot, mv.cap)
      BY <1>2, <2>2, <2>6 DEF Compacted
    <2>9. Compacted(x).slot = mv.slot
      BY <2>6, <2>8 DEF Moved, GoodTable, IsTable
    <2> QED BY <2>7, <2>8, <2>9
  <1> QED BY <1>1, <1>2
=============================================================================
