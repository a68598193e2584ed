------------------------------- MODULE Bitree -------------------------------
(***************************************************************************)
(* The binary trees of bitree.c and a client who builds and turns them.    *)
(* Knods of a removed tree are cleared and no longer used (gone).  Calls   *)
(* that only report an error, and the client's refs, are left out.         *)
(***************************************************************************)
EXTENDS BitreeOps

CONSTANT MaxKnod  \* bound of a run

VARIABLES bt, gone

Knod == DOMAIN bt \ gone
-----------------------------------------------------------------------------
InitBitree == bt = <<>> /\ gone = {}

mkbitree == Len(bt) < MaxKnod /\ bt' = Append(bt, new_knod) /\ UNCHANGED gone

\* Kids for the sides asked for, all of which have to be free; memory may
\* run out before the second, which leaves the first to nobody.
rbtkids(k, sides) ==
  LET kid(s) == Len(bt) + (IF s = 0 THEN 1 ELSE Cardinality(sides))
      with(x, s) == IF s \in sides THEN attach_at(x, k, s, kid(s)) ELSE x
      grown == bt \o [i \in 1..Cardinality(sides) |-> new_knod]
  IN  /\ Len(bt) + Cardinality(sides) <= MaxKnod
      /\ \A s \in sides : bt_kid(bt, k, s) = 0
      /\ \/ bt' = with(with(grown, 0), 1) /\ UNCHANGED gone
         \/ /\ sides = 0..1
            /\ bt' = Append(bt, new_knod) /\ gone' = gone \cup {Len(bt) + 1}

btdrop(par, side) ==
  LET old == bt_kid(bt, par, side)
  IN  bt' = bt_set_par(bt_set_kid(bt, par, side, 0), old, 0) /\ UNCHANGED gone

btplace(par, side, kid) ==
  /\ bt_par(bt, kid) = 0 /\ kid \notin ToSet(Ancestors(bt, par))
  /\ bt' = attach_at(bt_set_par(bt, bt_kid(bt, par, side), 0), par, side, kid)
  /\ UNCHANGED gone

Rotate(k, side) == bt_kid(bt, k, side) # 0 /\ bt' = btrot(bt, k, side) /\ UNCHANGED gone

btrrotte(k, first, second) ==
  LET child == bt_kid(bt, k, second)
  IN  /\ child # 0 /\ bt_kid(bt, child, first) # 0
      /\ bt' = btrot(btrot(bt, child, first), k, second)
      /\ UNCHANGED gone

\* The parent lets go of the tree, and all of it is cleared.
rmbitree(k) ==
  LET tree == ToSet(walk_post(bt, k))
      p == bt_par(bt, k)
      x == IF p = 0 THEN bt ELSE bt_set_kid(bt, p, child_side(bt, p, k), 0)
  IN  /\ bt' = [n \in DOMAIN x |-> IF n \in tree THEN new_knod ELSE x[n]]
      /\ gone' = gone \cup tree

\* The client gives back the arena that all the knods lie in.
rmarena == bt # <<>> /\ bt' = <<>> /\ gone' = {}

NextBitree == \/ mkbitree
              \/ rmarena
              \/ \E k \in Knod : \E sides \in {{0}, {1}, 0..1} : rbtkids(k, sides)
              \/ \E k \in Knod, s \in 0..1 : btdrop(k, s)
              \/ \E k \in Knod, s \in 0..1 : \E j \in Knod : btplace(k, s, j)
              \/ \E k \in Knod, s \in 0..1 : Rotate(k, s)
              \/ \E k \in Knod, first, second \in 0..1 : btrrotte(k, first, second)
              \/ \E k \in Knod : rmbitree(k)

SpecBitree == InitBitree /\ [][NextBitree]_<<bt, gone>>
-----------------------------------------------------------------------------
\* Parents and kids agree both ways, nothing is above itself, and what was
\* cleared hangs nowhere; whatever rotation comes next keeps the order of
\* the knods of its tree; each walk comes by the same knods once.
BitreeSound ==
  LET Top(k) == Last(Ancestors(bt, k))
  IN  /\ \A k \in DOMAIN bt, s \in 0..1 : bt_kid(bt, k, s) # 0 =>
           bt_par(bt, bt_kid(bt, k, s)) = k /\ bt_kid(bt, k, s) # bt_kid(bt, k, 1 - s)
      /\ \A k \in DOMAIN bt : bt_par(bt, k) # 0 =>
           \E s \in 0..1 : bt_kid(bt, bt_par(bt, k), s) = k
      /\ \A k \in DOMAIN bt : bt_par(bt, Top(k)) = 0
      /\ \A k \in gone : bt[k] = new_knod
      /\ \A k \in Knod, s \in 0..1 : bt_kid(bt, k, s) # 0 =>
           LET y == btrot(bt, k, s)
           IN  walk_in(y, Last(Ancestors(y, k))) = walk_in(bt, Top(k))
      /\ \A k \in Knod :
           LET pre == walk_pre(bt, k) IN
           /\ IsInjective(pre)
           /\ \A w \in {walk_in(bt, k), walk_post(bt, k)} :
                Len(w) = Len(pre) /\ ToSet(w) = ToSet(pre)

\* So does the walk by levels.
BitreeSearches ==
  \A k \in Knod : LET pre == walk_pre(bt, k)
                      level == walk_level(bt, k)
                  IN  Len(level) = Len(pre) /\ ToSet(level) = ToSet(pre)
=============================================================================
