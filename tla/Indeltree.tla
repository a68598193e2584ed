----------------------------- MODULE Indeltree -----------------------------
(***************************************************************************)
(* One indeltree of indeltree.c, a red-black tree made of the knods of     *)
(* bitree.c: insertion that splits on the way down, deletion by identity   *)
(* that pushes a red knod down before it.  Knods carry a colour and may be *)
(* dead; ids are not salted here.  The comparator compares numbers.        *)
(***************************************************************************)
EXTENDS BitreeOps, FiniteSetsExt

CONSTANTS Ref,     \* the client's words
          MaxKnod  \* bound of a run

VARIABLE t  \* the indel_t, with all the knods it ever had

Fresh(ref) == [par |-> 0, kids |-> Unlinked, ref |-> ref, red |-> TRUE, dead |-> FALSE]

bt_redp(b, k) == k # 0 /\ b[k].red
bt_mark_red(b, k, red) == IF k = 0 THEN b ELSE [b EXCEPT ![k].red = red]

\* Black with two red kids, or red with two black ones.
Kids(b, h, red) == bt_mark_red(bt_mark_red(b, bt_kid(b, h, 0), red), bt_kid(b, h, 1), red)

\* rb_single and rb_double leave a knod on top that the caller asks for.
rb_single(b, h, side) ==
  LET x == bt_kid(b, h, side)
  IN  bt_mark_red(bt_mark_red(btrot(b, h, side), x, b[h].red), h, TRUE)
rb_double(b, h, side) == rb_single(rb_single(b, bt_kid(b, h, side), 1 - side), h, side)

split_4node(b, h) == Kids(bt_mark_red(b, h, TRUE), h, FALSE)
-----------------------------------------------------------------------------
(* Insertion. *)

\* Two reds in a row are turned about the black one above them, if there is one.
repair_red(b, grand, par, kid) ==
  LET pside == child_side(b, grand, par)
      kside == child_side(b, par, kid)
      top   == IF pside = kside THEN par ELSE kid
      x     == IF pside = kside THEN rb_single(b, grand, pside) ELSE rb_double(b, grand, pside)
  IN  IF pside = NoSide \/ kside = NoSide THEN [b |-> b, top |-> kid]
      ELSE [b |-> Kids(bt_mark_red(x, top, FALSE), top, TRUE), top |-> top]

RECURSIVE Descend(_, _, _, _, _)

\* The new knod hangs under par; two reds in a row are repaired a last time.
Hung(b, node, grand, par) ==
  IF bt_redp(b, par) THEN repair_red(b, grand, par, node).b ELSE b

\* From cur to the side the comparator says, down to where nothing hangs.
Onward(b, node, par, cur) ==
  LET side == IF b[node].ref < b[cur].ref THEN 0 ELSE 1
  IN  IF bt_kid(b, cur, side) # 0 THEN Descend(b, node, par, cur, bt_kid(b, cur, side))
      ELSE Hung(attach_at(b, cur, side, node), node, par, cur)

OnwardFrom(r, node) == Onward(r.b, node, bt_par(r.b, r.top), r.top)

\* Two red kids on the way are split off first.
Relieved(b, node, grand, par, cur) ==
  IF bt_redp(b, par) THEN OnwardFrom(repair_red(b, grand, par, cur), node)
  ELSE Onward(b, node, par, cur)

Descend(b, node, grand, par, cur) ==
  IF bt_redp(b, bt_kid(b, cur, 0)) /\ bt_redp(b, bt_kid(b, cur, 1))
  THEN Relieved(split_4node(b, cur), node, grand, par, cur)
  ELSE Onward(b, node, par, cur)

\* The only knod that was turned to the top of everything is the root.
Root(b, k) == Last(Ancestors(b, k))

Rooted(x, b, root) == [x EXCEPT !.b = bt_mark_red(b, root, FALSE), !.root = root]
Grown(x, b) == Rooted(x, b, Root(b, x.root))

tree_insert(x, node) ==
  IF x.root = 0 THEN Rooted(x, x.b, node) ELSE Grown(x, Descend(x.b, node, 0, 0, x.root))
-----------------------------------------------------------------------------
(* Deletion.  d is what the loop of delete_raw works on: the knods with a  *)
(* head above the root, the last three knods of the way down, the side to  *)
(* go on by, the knod to be deleted once it was met and the side its       *)
(* replacement is on.                                                      *)

path_side(b, anc, target) ==
  LET up == Ancestors(b, target)
      i  == {i \in DOMAIN up : up[i] = anc}
  IN  IF anc = target \/ i = {} THEN NoSide ELSE child_side(b, anc, up[Min(i) - 1])

choose_delete_side(b, q, target, found, replacement_side) ==
  IF ~found THEN path_side(b, q, target)
  ELSE IF q = target THEN (IF bt_kid(b, q, 1) # 0 THEN 1 ELSE 0)
       ELSE 1 - replacement_side

\* The knod above q and its other kid give q a red one to lose.
Borrow(b, p, q, last) ==
  LET s == bt_kid(b, p, 1 - last)
      near == bt_redp(b, bt_kid(b, s, last))
      far  == bt_redp(b, bt_kid(b, s, 1 - last))
      top  == IF near THEN bt_kid(b, s, last) ELSE s
      x    == IF near THEN rb_double(b, p, 1 - last) ELSE rb_single(b, p, 1 - last)
  IN  IF s = 0 THEN b
      ELSE IF ~near /\ ~far
           THEN bt_mark_red(bt_mark_red(bt_mark_red(b, p, FALSE), s, TRUE), q, TRUE)
           ELSE Kids(bt_mark_red(bt_mark_red(x, q, TRUE), top, TRUE), top, FALSE)

\* A turn of the loop, at the next knod q, in the direction dir from there.
Pushed(d, q, dir) ==
  LET other == bt_kid(d.b, q, 1 - dir)
      turned == bt_mark_red(bt_mark_red(btrot(d.b, q, 1 - dir), other, FALSE), q, TRUE)
  IN  IF bt_redp(d.b, q) \/ bt_redp(d.b, bt_kid(d.b, q, dir)) THEN [b |-> d.b, p |-> d.q]
      ELSE IF bt_redp(d.b, other) THEN [b |-> turned, p |-> other]
           ELSE [b |-> Borrow(d.b, d.q, q, d.dir), p |-> d.q]

RECURSIVE Seek(_, _)
Seek(d, raw) ==
  LET q    == bt_kid(d.b, d.q, d.dir)
      met  == d.found \/ q = raw
      side == IF q = raw THEN (IF bt_kid(d.b, q, 1) # 0 THEN 1 ELSE 0) ELSE d.side
      dir  == choose_delete_side(d.b, q, raw, met, side)
      w    == Pushed(d, q, dir)
  IN  IF q = 0 THEN d
      ELSE IF dir = NoSide THEN [d EXCEPT !.q = q, !.p = d.q, !.found = met]
           ELSE Seek([b |-> w.b, p |-> w.p, q |-> q, dir |-> dir, found |-> met, side |-> side], raw)

replace_at_parent(b, par, old, new) ==
  LET side == IF bt_kid(b, par, 0) = old THEN 0 ELSE 1 IN attach_at(b, par, side, new)

\* A faulty variant: the replacement keeps its own colour.
move_replacementOwnColour(b, f, repl) ==
  LET b1 == replace_at_parent(b, bt_par(b, f), f, repl)
  IN  attach_at(attach_at(b1, repl, 0, bt_kid(b1, f, 0)), repl, 1, bt_kid(b1, f, 1))

\* The replacement, already taken out below, takes the deleted one's place.
move_replacement_into_deleted_slot(b, f, repl) ==
  LET b1 == replace_at_parent(b, bt_par(b, f), f, repl)
      b2 == attach_at(attach_at(b1, repl, 0, bt_kid(b1, f, 0)), repl, 1, bt_kid(b1, f, 1))
  IN  bt_mark_red(b2, repl, b[f].red)

\* The head goes, and what hangs from it is the root.
Beheaded(x, b, root, raw) ==
  LET bare == [Fresh(b[raw].ref) EXCEPT !.red = FALSE, !.dead = TRUE]
  IN  [x EXCEPT !.b = Front([bt_mark_red(bt_set_par(b, root, 0), root, FALSE) EXCEPT ![raw] = bare]),
                !.root = root, !.nlive = @ - 1]

Vacated(x, b, raw) == Beheaded(x, b, bt_kid(b, Len(b), 1), raw)

Refilled(x, b, raw, repl) ==
  Vacated(x, IF repl = raw THEN b ELSE move_replacement_into_deleted_slot(b, raw, repl), raw)

\* The last knod of the way down is taken out in place of the deleted one.
Unhooked(x, b, raw, repl) ==
  LET side == IF bt_kid(b, repl, 0) # 0 THEN 0 ELSE 1
  IN  Refilled(x, replace_at_parent(b, bt_par(b, repl), repl, bt_kid(b, repl, side)), raw, repl)

DeletedAt(x, d, raw) == Unhooked(x, d.b, raw, d.q)

delete_raw(x, raw) ==
  LET head == Len(x.b) + 1
      b    == attach_at(Append(x.b, [Fresh(0) EXCEPT !.red = FALSE]), head, 1, x.root)
  IN  DeletedAt(x, Seek([b |-> b, p |-> 0, q |-> head, dir |-> 1, found |-> FALSE,
                         side |-> NoSide], raw), raw)
-----------------------------------------------------------------------------
(* Searches. *)

\* The first knod that is not below chet, or the first above it.
lower_raw(chet, upper) ==
  LET Go[cur \in 0..Len(t.b), best \in 0..Len(t.b)] ==
        IF cur = 0 THEN best
        ELSE IF IF upper THEN t.b[cur].ref > chet ELSE t.b[cur].ref >= chet
             THEN Go[bt_kid(t.b, cur, 0), cur]
             ELSE Go[bt_kid(t.b, cur, 1), best]
  IN  Go[t.root, 0]

\* The last knod on a side, and the next one in order on a side: the last on
\* the other side of the kid there, or the first knod above that is left to
\* that side.
extreme(r, side) ==
  LET Go[k \in 0..Len(t.b)] == IF k = 0 \/ bt_kid(t.b, k, side) = 0 THEN k ELSE Go[bt_kid(t.b, k, side)]
  IN  Go[r]

neighbour(raw, side) ==
  LET up == Ancestors(t.b, raw)
      turn == {i \in 2..Len(up) : bt_kid(t.b, up[i], side) # up[i - 1]}
  IN  IF bt_kid(t.b, raw, side) # 0 THEN extreme(bt_kid(t.b, raw, side), 1 - side)
      ELSE IF turn = {} THEN 0 ELSE up[Min(turn)]

successor(raw) == neighbour(raw, 1)
predecessor(raw) == neighbour(raw, 0)

LiveKnods == {k \in DOMAIN t.b : ~t.b[k].dead}

\* The knods from one on that compare equal to chet, as indels gathers them.
RECURSIVE Equals(_, _)
Equals(cur, chet) ==
  IF cur = 0 \/ t.b[cur].ref # chet THEN <<>> ELSE <<cur>> \o Equals(successor(cur), chet)
-----------------------------------------------------------------------------
Nothing == [live |-> FALSE, root |-> 0, nlive |-> 0, b |-> <<>>]

Init == t = Nothing

mkindeltree == ~t.live /\ t' = [Nothing EXCEPT !.live = TRUE]

rmindeltree == t.live /\ t' = Nothing

inplace(ref) ==
  /\ t.live /\ Len(t.b) < MaxKnod
  /\ t' = tree_insert([t EXCEPT !.b = Append(@, Fresh(ref)), !.nlive = @ + 1], Len(t.b) + 1)

indrop(k) == k \in LiveKnods /\ t' = delete_raw(t, k)

\* All equals but the first few; without memory for the list of them, none.
indels(chet, exceed) ==
  LET all == Equals(lower_raw(chet, FALSE), chet)
  IN  /\ t.live
      /\ t' = FoldLeft(delete_raw, t, SubSeq(all, exceed + 1, Len(all)))

Next == \/ mkindeltree
        \/ rmindeltree
        \/ \E r \in Ref : inplace(r)
        \/ \E k \in DOMAIN t.b : indrop(k)
        \/ \E r \in Ref, n \in 0..1 : indels(r, n)

Spec == Init /\ [][Next]_t
-----------------------------------------------------------------------------
inknods == walk_in(t.b, t.root)

Entries == LET ks == inknods IN [i \in DOMAIN ks |-> [id |-> ks[i], key |-> t.b[ks[i]].ref]]

\* An indeltree keeps its promise through every turn and colour.
O == INSTANCE Ordered WITH Key <- Ref, entries <- Entries, used <- DOMAIN t.b

\* The tree is red and black: black on top, no red below a red, as many
\* blacks on every way down; its links agree both ways; it holds the live
\* knods, which is what makes belongs accept them, and the dead hang nowhere.
IndelRedBlack ==
  LET Black[k \in 0..Len(t.b)] ==
        IF k = 0 THEN 1
        ELSE LET z == Black[bt_kid(t.b, k, 0)]
             IN  IF z = 0 \/ z # Black[bt_kid(t.b, k, 1)] THEN 0
                 ELSE IF t.b[k].red THEN z ELSE z + 1
  IN  /\ ToSet(inknods) = LiveKnods /\ t.nlive = Cardinality(LiveKnods) /\ IsInjective(inknods)
      /\ \A k \in LiveKnods : /\ Root(t.b, k) = t.root
                              /\ \A s \in 0..1 : LET x == bt_kid(t.b, k, s)
                                                 IN  x # 0 => bt_par(t.b, x) = k
      /\ ~bt_redp(t.b, t.root)
      /\ \A k \in LiveKnods, s \in 0..1 : ~(bt_redp(t.b, k) /\ bt_redp(t.b, bt_kid(t.b, k, s)))
      /\ Black[t.root] # 0
      /\ \A k \in DOMAIN t.b \ LiveKnods : t.b[k].kids = Unlinked /\ t.b[k].par = 0

\* Bounds, ends and neighbours are those of the knods in order.
IndelSearches ==
  LET FirstOf(s) == IF s = <<>> THEN 0 ELSE Head(s).id
      ks == inknods
      At(i) == IF i \in DOMAIN ks THEN ks[i] ELSE 0
  IN  /\ \A c \in Ref : /\ lower_raw(c, FALSE) = FirstOf(O!From(c))
                        /\ lower_raw(c, TRUE) = FirstOf(O!Beyond(c))
      /\ extreme(t.root, 0) = At(1) /\ extreme(t.root, 1) = At(Len(ks))
      /\ \A i \in DOMAIN ks : successor(ks[i]) = At(i + 1) /\ predecessor(ks[i]) = At(i - 1)
=============================================================================
