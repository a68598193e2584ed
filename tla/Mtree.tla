------------------------------- MODULE Mtree -------------------------------
(***************************************************************************)
(* One ordered forest of mtree.c: knobs, and arms that lead from a parent  *)
(* to a kid.  Deleted knobs and arms stay as tombstones.  Ids count from   *)
(* 1; refs, capacities and calls that only report an error are left out,   *)
(* as in Dag.                                                              *)
(***************************************************************************)
EXTENDS Naturals, SequencesExt, Reachability

CONSTANT MaxKnob  \* bound of a run

VARIABLE t  \* the mtree_t

None == 0  \* MTNONE

NoMtree == [live |-> FALSE, knobs |-> <<>>, nlknob |-> 0, arms |-> <<>>, nlarm |-> 0]

Knob == DOMAIN t.knobs
LiveKnobs == {k \in Knob : t.knobs[k].live}
LiveArms == {a \in DOMAIN t.arms : t.arms[a].live}

rootknob(k) == k \in LiveKnobs /\ t.knobs[k].par = None /\ t.knobs[k].inarm = None

\* The positions of a parent's list that enumerations and walks look at.
Places(p) == {i \in DOMAIN t.knobs[p].kids : /\ t.knobs[p].kids[i] \in LiveKnobs
                                             /\ t.knobs[p].kidarms[i] \in LiveArms}
Shown(p) == SelectSeq([i \in DOMAIN t.knobs[p].kids |-> i], LAMBDA i : i \in Places(p))

mtkids(p) == [i \in DOMAIN Shown(p) |-> t.knobs[p].kids[Shown(p)[i]]]
mtkidarms(p) == [i \in DOMAIN Shown(p) |-> t.knobs[p].kidarms[Shown(p)[i]]]

\* The way up from a knob ends at its root, and the way down is by the lists.
Up == {<<k, t.knobs[k].par>> : k \in {k \in LiveKnobs : t.knobs[k].par # None}}
Down == UNION {{<<p, t.knobs[p].kids[i]>> : i \in Places(p)} : p \in LiveKnobs}

ancestor_live(anc, kid) == anc \in Reach(Knob, Up, kid)

collect_subtree(k) == Reach(Knob, Down, k) \cap LiveKnobs
-----------------------------------------------------------------------------
InitMtree == t = NoMtree

mkmtree == ~t.live /\ t' = [NoMtree EXCEPT !.live = TRUE]

rmmtree == t.live /\ t' = NoMtree

NewKnob(par, arm) == [par |-> par, inarm |-> arm, kids |-> <<>>, kidarms |-> <<>>, live |-> TRUE]

mtroot == /\ t.live /\ Len(t.knobs) < MaxKnob
          /\ t' = [t EXCEPT !.knobs = Append(@, NewKnob(None, None)), !.nlknob = @ + 1]

append_kid(x, par, kid, arm) ==
  [x EXCEPT !.knobs[par].kids = Append(@, kid), !.knobs[par].kidarms = Append(@, arm)]

\* A faulty variant: the last kid takes the place of the one that leaves.
remove_kidSwap(x, par, kid, arm) ==
  LET n == Len(x.knobs[par].kids)
      Filled(s, i) == Front([s EXCEPT ![i] = s[n]])
  IN  IF \E i \in 1..n : x.knobs[par].kids[i] = kid /\ x.knobs[par].kidarms[i] = arm
      THEN LET i == CHOOSE i \in 1..n : x.knobs[par].kids[i] = kid
           IN  [x EXCEPT !.knobs[par].kids = Filled(@, i), !.knobs[par].kidarms = Filled(@, i)]
      ELSE x

\* The first place of a parent's list with this kid and arm is closed up.
remove_kid(x, par, kid, arm) ==
  LET at == {i \in DOMAIN x.knobs[par].kids :
               x.knobs[par].kids[i] = kid /\ x.knobs[par].kidarms[i] = arm}
      i  == CHOOSE i \in at : \A j \in at : i <= j
  IN  IF at = {} THEN x
      ELSE [x EXCEPT !.knobs[par].kids = RemoveAt(@, i), !.knobs[par].kidarms = RemoveAt(@, i)]

\* A faulty variant: the record of the arm that was made last is given back.
WithoutArmsTrimmed(x, dead) ==
  [x EXCEPT !.arms = IF Len(@) \in dead THEN Front(@)
                     ELSE [a \in DOMAIN @ |->
                            [@[a] EXCEPT !.live = x.arms[a].live /\ a \notin dead]],
            !.nlarm = @ - Cardinality({a \in dead : x.arms[a].live})]

\* dead_arm for each of a set of arms; only the live ones count.
WithoutArms(x, dead) ==
  [x EXCEPT !.arms = [a \in DOMAIN @ |->
                        [@[a] EXCEPT !.live = x.arms[a].live /\ a \notin dead]],
            !.nlarm = @ - Cardinality({a \in dead : x.arms[a].live})]

mtknob(par) ==
  LET kid == Len(t.knobs) + 1
      arm == Len(t.arms) + 1
      x   == append_kid(t, par, kid, arm)
  IN  /\ par \in LiveKnobs
      /\ Len(t.knobs) < MaxKnob
      /\ t' = [x EXCEPT !.knobs = Append(@, NewKnob(par, arm)), !.nlknob = @ + 1,
                        !.arms = Append(@, [par |-> par, kid |-> kid, live |-> TRUE]),
                        !.nlarm = @ + 1]

\* The whole subtree goes; the knob first leaves its parent's list.
mtdelknob(k) ==
  LET xs == collect_subtree(k)
      x  == IF rootknob(k) THEN t ELSE remove_kid(t, t.knobs[k].par, k, t.knobs[k].inarm)
      dead == UNION {({x.knobs[n].inarm} \cup ToSet(x.knobs[n].kidarms)) \ {None} : n \in xs}
  IN  /\ k \in LiveKnobs
      /\ t' = [WithoutArms(x, dead) EXCEPT
                 !.knobs = [n \in DOMAIN @ |->
                             [@[n] EXCEPT !.live = t.knobs[n].live /\ n \notin xs]],
                 !.nlknob = @ - Cardinality(xs)]

mtdetach(k) ==
  /\ k \in LiveKnobs /\ ~rootknob(k)
  /\ t' = [WithoutArms(remove_kid(t, t.knobs[k].par, k, t.knobs[k].inarm), {t.knobs[k].inarm})
             EXCEPT !.knobs[k].par = None, !.knobs[k].inarm = None]

\* A faulty variant: only the kid itself is refused as the new parent.
UnderItselfAlone(k, newpar) == k = newpar

\* The new parent is the kid or below it.
UnderItself(k, newpar) == k = newpar \/ ancestor_live(k, newpar)

mtmove(k, newpar) ==
  LET arm == t.knobs[k].inarm
      x   == append_kid(remove_kid(t, t.knobs[k].par, k, arm), newpar, k, arm)
  IN  /\ k \in LiveKnobs /\ newpar \in LiveKnobs /\ ~rootknob(k)
      /\ ~UnderItself(k, newpar)
      /\ t.knobs[k].par # newpar
      /\ t' = [x EXCEPT !.knobs[k].par = newpar, !.arms[arm].par = newpar]

NextMtree == \/ mkmtree
             \/ rmmtree
             \/ mtroot
             \/ \E k \in Knob : mtknob(k)
             \/ \E k \in Knob : mtdelknob(k)
             \/ \E k \in Knob : mtdetach(k)
             \/ \E k, p \in Knob : mtmove(k, p)

SpecMtree == InitMtree /\ [][NextMtree]_t
-----------------------------------------------------------------------------
\* The live knobs are a forest that both directions agree on: the lists of
\* a knob name its live kids and their arms, each kid once; a live arm is
\* the one its kid came by; no way up comes back; the counts count.  So
\* mtdetach and mtmove never report a bad shape.
MtreeSound ==
  /\ t.nlknob = Cardinality(LiveKnobs) /\ t.nlarm = Cardinality(LiveArms)
  /\ \A a \in LiveArms : LET k == t.arms[a].kid
                         IN  /\ k \in LiveKnobs /\ t.knobs[k].inarm = a
                             /\ t.knobs[k].par = t.arms[a].par
  /\ \A k \in LiveKnobs : \/ rootknob(k)
                          \/ t.knobs[k].inarm \in LiveArms /\ t.arms[t.knobs[k].inarm].kid = k
  /\ \A p \in LiveKnobs :
       /\ IsInjective(t.knobs[p].kids)
       /\ ToSet(t.knobs[p].kids) = {k \in LiveKnobs : t.knobs[k].par = p}
       /\ t.knobs[p].kidarms = [i \in DOMAIN t.knobs[p].kids |-> t.knobs[t.knobs[p].kids[i]].inarm]
  /\ NoCycle(Knob, Up)

\* "Sibling order is" a contract (nexus.h:113): kids that stay under one
\* parent stay in their order, and one that comes to it comes last.
SiblingsKeepOrder ==
  \A p \in LiveKnobs :
    p \in DOMAIN t'.knobs /\ t'.knobs[p].live =>
      LET old == t.knobs[p].kids
          new == t'.knobs[p].kids
          stay == SelectSeq(old, LAMBDA k : Contains(new, k))
      IN  IsPrefix(stay, new)

\* A step on a tree takes no id away and gives none a second meaning.
MtreeIdsKept ==
  t.live /\ t'.live =>
    /\ \A k \in Knob : k \in DOMAIN t'.knobs /\ (t'.knobs[k].live => t.knobs[k].live)
    /\ \A a \in DOMAIN t.arms :
         /\ a \in DOMAIN t'.arms /\ t'.arms[a].kid = t.arms[a].kid
         /\ t'.arms[a].live => t.arms[a].live

\* "Deletion leaves tombstones; ids are not reused" (nexus.h:105).
MtreeTombstones == [][MtreeIdsKept]_t
=============================================================================
