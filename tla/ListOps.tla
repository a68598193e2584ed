------------------------------ MODULE ListOps ------------------------------
(***************************************************************************)
(* The xor-linked knots of list.c.  A handle is a set: {} is null, {k} the *)
(* address of knot k.  The exclusive or of addresses is the symmetric      *)
(* difference of such sets, so that a knot's vav is the set of its         *)
(* neighbours and a step on from the wrong side gives two of them, which   *)
(* is no handle.                                                           *)
(*                                                                         *)
(* All knots are one function v from knots to their vav; lists are what    *)
(* hangs together in it.  yod, the client's word, is left out.             *)
(***************************************************************************)
EXTENDS Naturals, SequencesExt, FiniteSetsExt

Xor(a, b) == (a \ b) \cup (b \ a)
as_knot(k) == CHOOSE x \in k : TRUE

EmptyBead == [pre |-> {}, fst |-> {}, lst |-> {}]

step_raw(v, pre, k) == IF k = {} THEN {} ELSE Xor(v[as_knot(k)], pre)

replace_neighbor(v, k, old, new) ==
  IF k = {} THEN v ELSE [v EXCEPT ![as_knot(k)] = Xor(@, Xor(old, new))]

\* The positions [pre, k] a walk comes by.  A walk that never ends is cut
\* off after more of them than there are knots.
lsknots(v, pre, k) ==
  LET Handle == SUBSET DOMAIN v
      Walk[n \in 0..Cardinality(DOMAIN v)] ==
        [p \in [pre : Handle, k : Handle] |->
           LET next == step_raw(v, p.pre, p.k)
           IN  IF next = {} \/ n = 0 THEN <<p>>
               ELSE <<p>> \o Walk[n - 1][[pre |-> p.k, k |-> next]]]
  IN  Walk[Cardinality(DOMAIN v)][[pre |-> pre, k |-> k]]

lsend(v, pre, k) == Last(lsknots(v, pre, k))

\* The position of the last knot of a bead, as the walk from its first
\* comes to it; the bead is bad when it does not.
LastOf(v, b) ==
  LET w  == lsknots(v, b.pre, b.fst)
      at == {i \in DOMAIN w : w[i].k = b.lst}
  IN  IF at = {} THEN [pre |-> {}, k |-> {}] ELSE w[Min(at)]

\* A faulty variant: the bead's ends keep their outer neighbours.
lscutLinked(v, b) ==
  LET last == LastOf(v, b)
      succ == step_raw(v, last.pre, b.lst)
  IN  replace_neighbor(replace_neighbor(v, b.pre, b.fst, succ), succ, b.lst, b.pre)

\* The knots after a bead is cut out; what is returned is the bead without
\* its pre.
lscut(v, b) ==
  LET last == LastOf(v, b)
      succ == step_raw(v, last.pre, b.lst)
      v1 == replace_neighbor(v, b.pre, b.fst, succ)
      v2 == replace_neighbor(v1, succ, b.lst, b.pre)
      v3 == replace_neighbor(v2, b.fst, b.pre, {})
  IN  IF b.fst = {} \/ last.k = {} THEN v ELSE replace_neighbor(v3, b.lst, succ, {})

lsput(v, atpre, at, b) ==
  LET succ == step_raw(v, atpre, at)
      v1 == replace_neighbor(v, at, succ, b.fst)
      v2 == replace_neighbor(v1, succ, at, b.lst)
      v3 == replace_neighbor(v2, b.fst, b.pre, at)
  IN  IF b.fst = {} \/ at = {} THEN v ELSE replace_neighbor(v3, b.lst, {}, succ)

lscat(v, pre, k, b) == LET end == lsend(v, pre, k) IN lsput(v, end.pre, end.k, b)

lssplice(v, atpre, at, b) == lsput(lscut(v, b), atpre, at, [b EXCEPT !.pre = {}])

\* Both halves are cleared, starting from two neighbours or from an end.
clear_walk(v, pre, k) ==
  LET walk == lsknots(v, pre, k)
  IN  IF k = {} THEN v
      ELSE [x \in DOMAIN v |-> IF \E i \in DOMAIN walk : walk[i].k = {x} THEN {} ELSE v[x]]

rmlist(v, a, b) == clear_walk(clear_walk(v, b, a), a, b)
=============================================================================
