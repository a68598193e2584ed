-------------------------------- MODULE List --------------------------------
(***************************************************************************)
(* The lists of list.c and a client who cuts, puts and splices them.  The  *)
(* client knows what nexus.h asks for: a position is a knot and the one    *)
(* before it in the direction of the walk, a bead runs from a position     *)
(* forward, and lsput takes an independent bead.  lssplice is lscut and    *)
(* then lsput, so that its place is one of the lists after the cut.        *)
(***************************************************************************)
EXTENDS ListOps

CONSTANT MaxKnot  \* bound of a run

VARIABLE knots

Ends(w) == {k \in DOMAIN w : Cardinality(w[k]) <= 1}

Positions(w) == UNION {ToSet(lsknots(w, {}, {k})) : k \in Ends(w)}

Beads(w) == UNION {{[pre |-> p.pre, fst |-> p.k, lst |-> q.k] : q \in ToSet(lsknots(w, p.pre, p.k))}
                   : p \in Positions(w)}

Independent(w) == {[pre |-> {}, fst |-> {k}, lst |-> lsend(w, {}, {k}).k] : k \in Ends(w)}

\* The knots of a bead, in its direction.
Of(w, b) == LET walk == lsknots(w, b.pre, b.fst)
                n == CHOOSE i \in DOMAIN walk : walk[i].k = b.lst
            IN  [i \in 1..n |-> as_knot(walk[i].k)]

\* Where a bead can be put: behind a knot that is not in it.
PlacesFor(w, b) == {p \in Positions(w) : as_knot(p.k) \notin ToSet(Of(w, b))}

Cut(b) == [b EXCEPT !.pre = {}]
-----------------------------------------------------------------------------
InitList == knots = <<>>

mklist(n) ==
  /\ Len(knots) + n <= MaxKnot
  /\ knots' = knots \o [i \in 1..n |-> {Len(knots) + j : j \in {i - 1, i + 1} \cap (1..n)}]

NextList ==
  \/ \E n \in 1..3 : mklist(n)
  \/ \E b \in Beads(knots) : knots' = lscut(knots, b)
  \/ \E b \in Independent(knots) : \E p \in PlacesFor(knots, b) : knots' = lsput(knots, p.pre, p.k, b)
  \/ \E b \in Independent(knots) : \E p \in PlacesFor(knots, b) : knots' = lscat(knots, p.pre, p.k, b)
  \/ \E b \in Beads(knots) : \E p \in PlacesFor(lscut(knots, b), Cut(b)) :
       knots' = lssplice(knots, p.pre, p.k, b)
  \/ \E p \in Positions(knots) : knots' = rmlist(knots, p.pre, p.k)

SpecList == InitList /\ [][NextList]_knots
-----------------------------------------------------------------------------
\* The lists as sequences, each in both directions.
Strings(w) == {[i \in DOMAIN lsknots(w, {}, {k}) |-> as_knot(lsknots(w, {}, {k})[i].k)] : k \in Ends(w)}

TwoWays(S) == S \cup {Reverse(s) : s \in S}

\* A sequence without a part of it, and with one put in behind a knot.
Skipping(s, m) ==
  LET i == CHOOSE i \in DOMAIN s : s[i] = m[1]
  IN  SubSeq(s, 1, i - 1) \o SubSeq(s, i + Len(m), Len(s))
Behind(s, k, m) ==
  LET i == CHOOSE i \in DOMAIN s : s[i] = k IN SubSeq(s, 1, i) \o m \o SubSeq(s, i + 1, Len(s))

\* The string that comes by a position in its direction.
Along(w, p) ==
  CHOOSE s \in Strings(w) : \E i \in DOMAIN s : /\ p.k = {s[i]}
                                               /\ p.pre = IF i = 1 THEN {} ELSE {s[i - 1]}

\* The lists are strings: each knot is in one of them and next to its
\* neighbours, from both sides.
IsStrings(w) ==
  /\ \A s \in Strings(w) : IsInjective(s) /\ Reverse(s) \in Strings(w)
  /\ \A k \in DOMAIN w : \E s \in Strings(w) : k \in ToSet(s) /\ \A t \in Strings(w) \ TwoWays({s}) : k \notin ToSet(t)
  /\ \A s \in Strings(w) : \A i \in DOMAIN s :
       w[s[i]] = {s[j] : j \in {i - 1, i + 1} \cap DOMAIN s}

\* What nexus.h promises of lscut, lsput and lscat (nexus.h:205), for every
\* bead and place: the bead keeps its order, arrives behind the knot in the
\* direction of the walk, and no other list changes.
CutExact(b) ==
  LET m == Of(knots, b)
      s == Along(knots, [pre |-> b.pre, k |-> b.fst])
  IN  Strings(lscut(knots, b)) =
        (Strings(knots) \ TwoWays({s})) \cup TwoWays({m} \cup ({Skipping(s, m)} \ {<<>>}))

PutExact(b, p) ==
  LET m == Of(knots, b)
      s == Along(knots, p)
      rest == Strings(knots) \ TwoWays({s, m})
  IN  /\ Strings(lsput(knots, p.pre, p.k, b)) = rest \cup TwoWays({Behind(s, as_knot(p.k), m)})
      /\ Strings(lscat(knots, p.pre, p.k, b)) = rest \cup TwoWays({s \o m})

\* A list's knots form strings, and cutting, putting and concatenating move
\* beads as nexus.h promises, whichever way the list is walked.
ListExact ==
  /\ IsStrings(knots)
  /\ \A b \in Beads(knots) : CutExact(b)
  /\ \A b \in Independent(knots) : \A p \in PlacesFor(knots, b) : PutExact(b, p)
=============================================================================
