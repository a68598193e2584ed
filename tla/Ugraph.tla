------------------------------- MODULE Ugraph -------------------------------
(***************************************************************************)
(* One undirected multigraph of ugraph.c.  Deleted dots and arcs stay as   *)
(* tombstones, and dead arcs stay in the lists of their ends.  Ids count   *)
(* from 1; refs, capacities and calls that only report an error are left   *)
(* out, as in Dag.                                                         *)
(***************************************************************************)
EXTENDS Naturals, SequencesExt, Reachability

CONSTANTS MaxUgraphDot, MaxUgraphArc  \* bounds of a run

VARIABLE g  \* the ugraph_t

NoUgraph == [live |-> FALSE, dots |-> <<>>, nldot |-> 0, arcs |-> <<>>, nlarc |-> 0]

UDot == DOMAIN g.dots
LiveDots == {d \in UDot : g.dots[d].live}
LiveArcs == {a \in DOMAIN g.arcs : g.arcs[a].live}

other_dot(a, d) == IF g.arcs[a].a = d THEN g.arcs[a].b ELSE g.arcs[a].a

\* The live arcs in a dot's list, in its order (ugaarcs).
ugaarcs(d) == SelectSeq(g.dots[d].arcs, LAMBDA a : g.arcs[a].live)

\* The dots at their other ends; a loop counts twice.
ugadots(d) ==
  FlattenSeq([i \in DOMAIN ugaarcs(d) |->
                LET a == ugaarcs(d)[i]
                IN  IF g.arcs[a].a = g.arcs[a].b THEN <<d, d>> ELSE <<other_dot(a, d)>>])

ugdeg(d) ==
  FoldLeft(LAMBDA n, a : n + (IF g.arcs[a].a = g.arcs[a].b THEN 2 ELSE 1), 0, ugaarcs(d))

\* How many arcs are between two dots, by the list of the first.
uglinked(a, b) ==
  Len(SelectSeq(ugaarcs(a), LAMBDA e : {g.arcs[e].a, g.arcs[e].b} = {a, b}))

\* The neighbours a walk goes to from d.
Near(d) == [i \in DOMAIN ugaarcs(d) |-> other_dot(ugaarcs(d)[i], d)]
-----------------------------------------------------------------------------
InitUgraph == g = NoUgraph

mkugraph == ~g.live /\ g' = [NoUgraph EXCEPT !.live = TRUE]

rmugraph == g.live /\ g' = NoUgraph

\* A faulty variant: the id of a deleted dot is taken again.
NewIdReused == IF LiveDots = UDot THEN Len(g.dots) + 1
               ELSE CHOOSE d \in UDot \ LiveDots : TRUE

NewId == Len(g.dots) + 1

ugdot == /\ g.live /\ NewId <= MaxUgraphDot
         /\ g' = [g EXCEPT !.dots = [d \in UDot \cup {NewId} |->
                                      IF d = NewId THEN [arcs |-> <<>>, live |-> TRUE] ELSE @[d]],
                           !.nldot = @ + 1]

\* A faulty variant: the arcs in the list are counted, dead or not.
WithoutAll(x, dead) ==
  [x EXCEPT !.arcs = [a \in DOMAIN @ |->
                        [@[a] EXCEPT !.live = x.arcs[a].live /\ a \notin dead]],
            !.nlarc = IF Cardinality(dead) < @ THEN @ - Cardinality(dead) ELSE 0]

\* delarc_live for each of a set of arcs; only the live ones count.
Without(x, dead) ==
  [x EXCEPT !.arcs = [a \in DOMAIN @ |->
                        [@[a] EXCEPT !.live = x.arcs[a].live /\ a \notin dead]],
            !.nlarc = @ - Cardinality({a \in dead : x.arcs[a].live})]

\* A dot goes with the arcs in its list.
ugdeldot(d) ==
  /\ d \in LiveDots
  /\ g' = [Without(g, ToSet(g.dots[d].arcs)) EXCEPT !.dots[d].live = FALSE, !.nldot = @ - 1]

ugdelarc(a) == /\ a \in LiveArcs
               /\ g' = Without(g, {a})

\* The arc's record, not counted yet.
Recorded(x, a, b) == [x EXCEPT !.arcs = Append(@, [a |-> a, b |-> b, live |-> TRUE])]

append_incident(x, d, arc) == [x EXCEPT !.dots[d].arcs = Append(@, arc)]

\* What ugarc undoes when the list of the second end cannot grow.
TakenBack(x, a) == [x EXCEPT !.arcs = Front(@), !.dots[a].arcs = Front(@)]

ugarc(a, b) ==
  LET id    == Len(g.arcs) + 1
      begun == append_incident(Recorded(g, a, b), a, id)
      done  == IF a = b THEN begun ELSE append_incident(begun, b, id)
  IN  /\ a \in LiveDots /\ b \in LiveDots
      /\ Len(g.arcs) < MaxUgraphArc
      /\ \/ g' = [done EXCEPT !.nlarc = @ + 1]
         \/ a # b /\ g' = TakenBack(begun, a)

NextUgraph == \/ mkugraph
              \/ rmugraph
              \/ ugdot
              \/ \E d \in UDot : ugdeldot(d)
              \/ \E a \in DOMAIN g.arcs : ugdelarc(a)
              \/ \E a, b \in UDot : ugarc(a, b)

SpecUgraph == InitUgraph /\ [][NextUgraph]_g
-----------------------------------------------------------------------------
\* The counts are those of the live dots and arcs, the ends of a live arc
\* are live, and a dot's list holds the arcs that end there, dead ones
\* included, each once - a loop too (ugdeldot, ugarc).
UgraphSound ==
  /\ g.nldot = Cardinality(LiveDots) /\ g.nlarc = Cardinality(LiveArcs)
  /\ \A a \in LiveArcs : {g.arcs[a].a, g.arcs[a].b} \subseteq LiveDots
  /\ \A d \in UDot : /\ IsInjective(g.dots[d].arcs)
                     /\ ToSet(g.dots[d].arcs) = {a \in DOMAIN g.arcs : d \in {g.arcs[a].a, g.arcs[a].b}}

\* A step on a graph takes no id away and gives none a second meaning.
UgraphIdsKept ==
  g.live /\ g'.live =>
    /\ \A d \in UDot : d \in DOMAIN g'.dots /\ (g'.dots[d].live => g.dots[d].live)
    /\ \A a \in DOMAIN g.arcs :
         /\ a \in DOMAIN g'.arcs
         /\ g'.arcs[a] \in {g.arcs[a], [g.arcs[a] EXCEPT !.live = FALSE]}

\* "Deletion leaves tombstones; ids are not reused during the life of a
\* ugraph descriptor" (nexus.h:52).
UgraphTombstones == [][UgraphIdsKept]_g

EdgesBothWays ==
  UNION {{<<g.arcs[a].a, g.arcs[a].b>>, <<g.arcs[a].b, g.arcs[a].a>>} : a \in LiveArcs}
=============================================================================
