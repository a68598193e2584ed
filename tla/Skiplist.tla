------------------------------ MODULE Skiplist ------------------------------
(***************************************************************************)
(* One skiplist of skiplist.c: pins on layers, each layer a xor-linked     *)
(* list behind a head.  A knot is <<pin, layer>>; pins and layers count    *)
(* from 1, pin 0 is a layer's head.  The knots of a deleted pin stay, with *)
(* nothing in them.  Heights are random in the code, here any up to a      *)
(* bound.  The comparator compares numbers.                                *)
(***************************************************************************)
EXTENDS ListOps

CONSTANTS Yod,             \* the client's words
          MaxPin, MaxHigh  \* bounds of a run

VARIABLE sk  \* the skip_t

Pin == DOMAIN sk.pins
LivePins == {p \in Pin : sk.pins[p].live}

head(l) == {<<0, l>>}
knot(p, l) == {<<p, l>>}
pinof(k) == as_knot(k)[1]

\* Heads are made one by one; the layers count once all of them are there.
Heads(s, n) == [k \in DOMAIN s.v \cup {<<0, l>> : l \in 1..n} |-> IF k \in DOMAIN s.v THEN s.v[k] ELSE {}]

ensure_layers(s, n) == [s EXCEPT !.v = Heads(s, n), !.nlayer = Max({@, n})]

\* The last position of a layer whose knot, if it is not the start, goes
\* before chet.
Advance(s, pre, at, chet, after_equals) ==
  LET w == lsknots(s.v, pre, at)
      stop == {i \in 2..Len(w) : LET yod == s.pins[pinof(w[i].k)].yod
                                 IN  yod > chet \/ (~after_equals /\ yod = chet)}
  IN  IF stop = {} THEN Last(w) ELSE w[Min(stop) - 1]

\* The positions find_update leaves on the layers, from the top down: a
\* layer is entered at the pin the one above was left at.
find_update(s, chet, after_equals) ==
  LET Entry(l, up) == IF up.k = head(l + 1) THEN [pre |-> {}, k |-> head(l)]
                      ELSE [pre |-> s.pins[pinof(up.k)].preds[l], k |-> knot(pinof(up.k), l)]
      Down(at, l) ==
        LET e == IF at = <<>> THEN [pre |-> {}, k |-> head(l)] ELSE Entry(l, Head(at))
        IN  <<Advance(s, e.pre, e.k, chet, after_equals)>> \o at
  IN  FoldLeft(Down, <<>>, [i \in 1..s.nlayer |-> s.nlayer + 1 - i])

lower(s, chet) == find_update(s, chet, FALSE)
upper(s, chet) == find_update(s, chet, TRUE)

\* A faulty variant: only the pins of the lowest layer learn who precedes.
rebuild_predsLow(s) ==
  [s EXCEPT !.pins = [p \in DOMAIN @ |->
     [@[p] EXCEPT !.preds = [l \in DOMAIN @ |->
        LET at == {q \in ToSet(lsknots(s.v, {}, head(1))) : q.k = knot(p, 1)}
        IN  IF l = 1 /\ at # {} THEN (CHOOSE q \in at : TRUE).pre ELSE @[l]]]]]

\* Who comes before each knot is written down anew, layer by layer.
rebuild_preds(s) ==
  [s EXCEPT !.pins = [p \in DOMAIN @ |->
     [@[p] EXCEPT !.preds = [l \in DOMAIN @ |->
        LET at == {q \in ToSet(lsknots(s.v, {}, head(l))) : q.k = knot(p, l)}
        IN  IF at = {} THEN {} ELSE (CHOOSE q \in at : TRUE).pre]]]]

Put(s, yod, h) ==
  LET t   == ensure_layers(s, h)
      at  == upper(t, yod)
      pin == Len(s.pins) + 1
      v1  == [k \in DOMAIN t.v \cup {<<pin, l>> : l \in 1..h} |-> IF k \in DOMAIN t.v THEN t.v[k] ELSE {}]
      Linked(v, l) == lsput(v, at[l].pre, at[l].k, [pre |-> {}, fst |-> knot(pin, l), lst |-> knot(pin, l)])
  IN  rebuild_preds([t EXCEPT !.v = FoldLeft(Linked, v1, [l \in 1..h |-> l]),
                              !.pins = Append(@, [yod |-> yod, live |-> TRUE, preds |-> [l \in 1..h |-> {}]]),
                              !.nlpin = @ + 1])

Delete(s, p) ==
  LET Unlinked(v, l) ==
        rmlist(lscut(v, [pre |-> s.pins[p].preds[l], fst |-> knot(p, l), lst |-> knot(p, l)]),
               {}, knot(p, l))
  IN  rebuild_preds([s EXCEPT !.v = FoldLeft(Unlinked, s.v, [l \in DOMAIN s.pins[p].preds |-> l]),
                              !.pins[p].live = FALSE, !.pins[p].preds = <<>>,
                              !.nlpin = @ - 1])

next(s, p) == step_raw(s.v, s.pins[p].preds[1], knot(p, 1))

RECURSIVE DeleteRun(_, _, _)
DeleteRun(s, p, chet) ==
  IF ~s.pins[p].live \/ s.pins[p].yod # chet THEN s
  ELSE IF next(s, p) = {} THEN Delete(s, p)
       ELSE DeleteRun(Delete(s, p), pinof(next(s, p)), chet)
-----------------------------------------------------------------------------
Nothing == [live |-> FALSE, nlayer |-> 0, pins |-> <<>>, nlpin |-> 0, v |-> << >>]

Init == sk = Nothing

mkskiplist == ~sk.live /\ sk' = [ensure_layers(Nothing, 1) EXCEPT !.live = TRUE]

rmskiplist == sk.live /\ sk' = Nothing

skput(yod, h) == sk.live /\ Len(sk.pins) < MaxPin /\ sk' = Put(sk, yod, h)

\* Memory runs out at the head of a layer above n, or after all the heads.
skputNoMemory(h) ==
  /\ sk.live /\ Len(sk.pins) < MaxPin
  /\ \/ sk' = ensure_layers(sk, h)
     \/ \E n \in sk.nlayer..(h - 1) : sk' = [sk EXCEPT !.v = Heads(sk, n)]

skdel(p) == p \in LivePins /\ sk' = Delete(sk, p)

skdels(p) == p \in LivePins /\ sk' = DeleteRun(sk, p, sk.pins[p].yod)

Next == \/ mkskiplist
        \/ rmskiplist
        \/ \E y \in Yod, h \in 1..MaxHigh : skput(y, h)
        \/ \E h \in 1..MaxHigh : skputNoMemory(h)
        \/ \E p \in Pin : skdel(p)
        \/ \E p \in Pin : skdels(p)

Spec == Init /\ [][Next]_sk
-----------------------------------------------------------------------------
\* The pins of a layer from its head on.
Layer(l) == LET w == lsknots(sk.v, {}, head(l)) IN [i \in 1..(Len(w) - 1) |-> pinof(w[i + 1].k)]

skpins == IF sk.live THEN Layer(1) ELSE <<>>

Entries == LET ps == skpins IN [i \in DOMAIN ps |-> [id |-> ps[i], key |-> sk.pins[ps[i]].yod]]

\* A skiplist keeps its promise whatever heights its pins drew and wherever
\* memory ran out.
O == INSTANCE Ordered WITH Key <- Yod, entries <- Entries, used <- Pin

\* Every layer holds the pins that are high enough for it, in the order of
\* the lowest; every knot knows the one before it, which skdel and sknext
\* take on trust; every knot in use is on its layer, and the others on none.
SkipSound ==
  sk.live =>
    /\ sk.nlpin = Cardinality(LivePins) /\ ToSet(skpins) = LivePins
    /\ \A l \in 1..sk.nlayer :
         Layer(l) = SelectSeq(skpins, LAMBDA p : l \in DOMAIN sk.pins[p].preds)
    /\ \A p \in LivePins : \A l \in DOMAIN sk.pins[p].preds :
         /\ l <= sk.nlayer
         /\ LET i == CHOOSE i \in DOMAIN Layer(l) : Layer(l)[i] = p
            IN  sk.pins[p].preds[l] = IF i = 1 THEN head(l) ELSE knot(Layer(l)[i - 1], l)
    /\ \A k \in DOMAIN sk.v : k[1] \notin LivePins \cup {0} => sk.v[k] = {}

\* The searches, which begin on the highest layer, find what going through
\* the lowest from its head would.
SkipSearches ==
  LET after(at) == step_raw(sk.v, at[1].pre, at[1].k)
      FirstOf(s) == IF s = <<>> THEN {} ELSE knot(Head(s).id, 1)
  IN  sk.live => \A c \in Yod : /\ after(lower(sk, c)) = FirstOf(O!From(c))
                                /\ after(upper(sk, c)) = FirstOf(O!Beyond(c))
=============================================================================
