----------------------------- MODULE BitreeOps -----------------------------
(***************************************************************************)
(* The knods of bitree.c and internal/bitree_internal.h: all of them are   *)
(* one sequence b of records of a parent and two kids, and a handle is a   *)
(* place in it, 0 for null.  Sides are 0 and 1.                            *)
(***************************************************************************)
EXTENDS Naturals, SequencesExt

bt_kid(b, k, side) == b[k].kids[side]
bt_par(b, k) == b[k].par

Unlinked == [s \in 0..1 |-> 0]
new_knod == [par |-> 0, kids |-> Unlinked]

\* Nothing is written through a null handle.
bt_set_kid(b, k, side, x) == IF k = 0 THEN b ELSE [b EXCEPT ![k].kids[side] = x]
bt_set_par(b, k, x) == IF k = 0 THEN b ELSE [b EXCEPT ![k].par = x]

NoSide == 2  \* -1 in the code

child_side(b, par, k) ==
  LET sides == {s \in 0..1 : par # 0 /\ k # 0 /\ bt_kid(b, par, s) = k}
  IN  IF sides = {} THEN NoSide ELSE CHOOSE s \in sides : \A r \in sides : s <= r

attach_at(b, par, side, k) == bt_set_par(bt_set_kid(b, par, side, k), k, par)

\* A faulty variant: the inner subtree keeps its old parent.
btrotLoose(b, k, side) ==
  LET y == bt_kid(b, k, side)
      p == bt_par(b, k)
      b1 == bt_set_kid(b, k, side, bt_kid(b, y, 1 - side))
      b2 == bt_set_par(bt_set_par(bt_set_kid(b1, y, 1 - side, k), y, p), k, y)
  IN  IF p = 0 THEN b2 ELSE bt_set_kid(b2, p, child_side(b, p, k), y)

\* The kid on a side is promoted; it was bt_kid(b, k, side).
btrot(b, k, side) ==
  LET y == bt_kid(b, k, side)
      p == bt_par(b, k)
      b1 == attach_at(b, k, side, bt_kid(b, y, 1 - side))
      b2 == bt_set_par(bt_set_par(bt_set_kid(b1, y, 1 - side, k), y, p), k, y)
  IN  IF p = 0 THEN b2 ELSE bt_set_kid(b2, p, child_side(b, p, k), y)

\* The recursive walks go from x to zero[x] and to one[x], and come by x
\* before, between or after; one that goes round is cut off.
Around(order, x, zero, one) ==
  CASE order = "pre" -> <<x>> \o zero \o one
    [] order = "in" -> zero \o <<x>> \o one
    [] order = "post" -> zero \o one \o <<x>>

Walk(order, zero, one, root) ==
  LET Down[n \in 0..Len(zero)] ==
        [x \in 0..Len(zero) |-> IF x = 0 \/ n = 0 THEN <<>>
                                ELSE Around(order, x, Down[n - 1][zero[x]], Down[n - 1][one[x]])]
  IN  Down[Len(zero)][root]

Parents(b) == [k \in DOMAIN b |-> bt_par(b, k)]
KidsAt(b, side) == [k \in DOMAIN b |-> bt_kid(b, k, side)]

\* The knods above a knod, itself first.
Ancestors(b, k) == Walk("pre", Parents(b), [x \in DOMAIN b |-> 0], k)

walk_pre(b, root) == Walk("pre", KidsAt(b, 0), KidsAt(b, 1), root)
walk_in(b, root) == Walk("in", KidsAt(b, 0), KidsAt(b, 1), root)
walk_post(b, root) == Walk("post", KidsAt(b, 0), KidsAt(b, 1), root)

\* Level by level: each walk of a level is a preorder walk that stops there.
walk_level(b, root) ==
  LET pre == walk_pre(b, root)
      depth(x) == Len(Ancestors(b, x)) - Len(Ancestors(b, root))
  IN  FlattenSeq([i \in 1..Len(pre) |-> SelectSeq(pre, LAMBDA x : depth(x) = i - 1)])
=============================================================================
