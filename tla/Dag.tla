-------------------------------- MODULE Dag --------------------------------
(***************************************************************************)
(* One dag of dag.c: dots and arcs with dense ids that are never deleted,  *)
(* each dot with the ids of the arcs that leave and that enter it.         *)
(*                                                                         *)
(* Ids count from 1 here.  The caller's refs are values nobody looks at    *)
(* and are left out, and so are calls that only report an error: a bad id, *)
(* an arc that would close a cycle, an array that cannot grow.  Capacities *)
(* are left out: an array grows or the call changes nothing.               *)
(***************************************************************************)
EXTENDS Naturals, Sequences, Reachability

CONSTANTS MaxDot, MaxArc  \* bounds of a run

VARIABLES live, outs, ins, arcs,
          searched  \* no arc went in without a search for a cycle

vars == <<live, outs, ins, arcs, searched>>

Dot == DOMAIN outs

IsArc(a, from, to) == arcs[a].from = from /\ arcs[a].to = to

\* The arc between two dots, found among those that leave the first.
findarc(from, to) == {a \in {outs[from][i] : i \in DOMAIN outs[from]} : arcs[a].to = to}

\* The dots at the other ends, in the order of the arcs.
dgkids(d) == [i \in DOMAIN outs[d] |-> arcs[outs[d][i]].to]
dgpars(d) == [i \in DOMAIN ins[d] |-> arcs[ins[d][i]].from]

dgroots == {d \in Dot : ins[d] = <<>>}
dgleaves == {d \in Dot : outs[d] = <<>>}

\* The steps a search takes: along the arcs in the lists of outgoing ones.
Steps == UNION {{<<d, dgkids(d)[i]>> : i \in DOMAIN outs[d]} : d \in Dot}

\* A faulty variant: the search looks at the kids only.
reachesKid(from, to) == from = to \/ <<from, to>> \in Steps

reaches(from, to) == to \in Reach(Dot, Steps, from)

-----------------------------------------------------------------------------
Init == /\ live = FALSE
        /\ outs = <<>> /\ ins = <<>> /\ arcs = <<>>
        /\ searched = TRUE

mkdag == /\ ~live
         /\ live' = TRUE
         /\ UNCHANGED <<outs, ins, arcs, searched>>

rmdag == /\ live
         /\ live' = FALSE
         /\ outs' = <<>> /\ ins' = <<>> /\ arcs' = <<>>
         /\ searched' = TRUE

dgdot == /\ live /\ Len(outs) < MaxDot
         /\ outs' = Append(outs, <<>>)
         /\ ins' = Append(ins, <<>>)
         /\ UNCHANGED <<live, arcs, searched>>

\* A faulty variant: a list that is full does not grow, and the arc goes in
\* all the same.
ListedOnce(lists, d, a) ==
  IF Len(lists[d]) > 1 THEN lists ELSE [lists EXCEPT ![d] = Append(@, a)]

\* An arc at the end of a dot's list.
Listed(lists, d, a) == [lists EXCEPT ![d] = Append(@, a)]

insert(from, to) ==
  LET a == Len(arcs) + 1
  IN  /\ arcs' = Append(arcs, [from |-> from, to |-> to])
      /\ outs' = Listed(outs, from, a)
      /\ ins' = Listed(ins, to, a)
      /\ UNCHANGED live

\* An arc that is there stays as it is, and one that would close a cycle is
\* refused.
dgarc(from, to) ==
  /\ live /\ Len(arcs) < MaxArc
  /\ findarc(from, to) = {}
  /\ ~reaches(to, from)
  /\ insert(from, to)
  /\ UNCHANGED searched

\* The search for a cycle cannot get its two arrays: it raises an error and
\* answers as if it had found none, and the arc goes in.
dgarcUnsearched(from, to) ==
  /\ live /\ Len(arcs) < MaxArc
  /\ findarc(from, to) = {}
  /\ from # to
  /\ insert(from, to)
  /\ searched' = FALSE

Next == \/ mkdag
        \/ rmdag
        \/ dgdot
        \/ \E from, to \in Dot : dgarc(from, to)
        \/ \E from, to \in Dot : dgarcUnsearched(from, to)

Spec == Init /\ [][Next]_vars
-----------------------------------------------------------------------------
TypeOK ==
  /\ live \in BOOLEAN /\ searched \in BOOLEAN
  /\ arcs \in Seq([from : Dot, to : Dot])
  /\ outs \in Seq(Seq(DOMAIN arcs))
  /\ ins \in Seq(Seq(DOMAIN arcs)) /\ Len(ins) = Len(outs)

\* A list holds the arcs of one end of its dot, each once.
Lists(list, ends) == /\ {list[i] : i \in DOMAIN list} = ends
                     /\ \A i, j \in DOMAIN list : list[i] = list[j] => i = j

\* The lists of every dot hold the arcs that leave and that enter it, and
\* between two dots there is one arc at most (dgarc, findarc).
DagSound ==
  /\ \A d \in Dot : /\ Lists(outs[d], {a \in DOMAIN arcs : arcs[a].from = d})
                    /\ Lists(ins[d], {a \in DOMAIN arcs : arcs[a].to = d})
  /\ \A a, b \in DOMAIN arcs : IsArc(a, arcs[b].from, arcs[b].to) => a = b

Edges == {<<arcs[a].from, arcs[a].to>> : a \in DOMAIN arcs}

\* "Arc insertion rejects cycles, so every live dag remains acyclic"
\* (nexus.h:8), as long as the search for a cycle finds memory.
Acyclic == searched => NoCycle(Dot, Edges)

\* The same whatever happens, as the comment has it.
RemainsAcyclic == NoCycle(Dot, Edges)
=============================================================================
