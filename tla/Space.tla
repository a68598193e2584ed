-------------------------------- MODULE Space --------------------------------
(***************************************************************************)
(* One space of space.c, which is a sparsplane with a third axis, except   *)
(* that a move of many points that fails half way takes back what it did.  *)
(***************************************************************************)
EXTENDS Tiles

CONSTANTS SpacePlace,  \* where the client puts points
          SpaceQuery,  \* the boxes and balls it asks for
          Delta,       \* how far it moves those it finds
          Edge         \* bound of a run: no finite coordinate goes beyond

VARIABLE sc  \* the space

Within(at) == \A a \in Axes : at[a] \in {-Far, Far} \/ at[a] \in -Edge..Edge

Init == sc = Nothing

mkspace == ~sc.live /\ sc' = Made

rmspace == sc.live /\ sc' = Nothing

scput(at) == sc.live /\ Len(sc.pts) < MaxPoint /\ sc' = Put(sc, at)

\* Wherever the memory for a point runs out, what was there is still there.
scputNoMemory == sc.live /\ UNCHANGED sc

scdel(pt) == pt \in LivePoints(sc) /\ sc' = Delete(sc, pt)

scmov(pt, at) == pt \in LivePoints(sc) /\ sc' = move_point_raw(sc, pt, at)

scmovNoMemory(pt) == pt \in LivePoints(sc) /\ sc' = RolledBack(sc, pt)

\* Without memory for the next point, those moved go back, the last first.
TakenBack(x, ps, y) ==
  FoldLeft(LAMBDA z, p : move_point_raw(z, p, x.pts[p].at), y, Reverse(ps))

\* A faulty variant: what was moved stays where it is, as in a sparsplane.
move_manyPartial(x, ps, by, n) ==
  LET y == Moved(x, SubSeq(ps, 1, n), by)
  IN  IF n = Len(ps) THEN y ELSE RolledBack(y, ps[n + 1])

move_many(x, ps, by, n) ==
  LET y == Moved(x, SubSeq(ps, 1, n), by)
  IN  IF n = Len(ps) THEN y ELSE TakenBack(x, SubSeq(ps, 1, n), RolledBack(y, ps[n + 1]))

\* scboxmove and scsphrmove.
scquerymove(q, by, hit) ==
  /\ sc.live
  /\ \A i \in DOMAIN hit : Within(Shifted(sc.pts[hit[i]].at, by))
  /\ \E n \in 0..Len(hit) : sc' = move_many(sc, hit, by, n)

Next == \/ mkspace
        \/ rmspace
        \/ \E at \in SpacePlace : scput(at)
        \/ scputNoMemory
        \/ \E pt \in DOMAIN sc.pts : scdel(pt)
        \/ \E pt \in DOMAIN sc.pts, at \in SpacePlace : scmov(pt, at)
        \/ \E pt \in DOMAIN sc.pts : scmovNoMemory(pt)
        \/ \E q \in SpaceQuery, by \in Delta : scquerymove(q, by, Enum(sc, q))

Spec == Init /\ [][Next]_sc
-----------------------------------------------------------------------------
\* The trie, its buckets and boxes agree with the points.
SpaceSound == Sound(sc)

\* Searches find what looking at every point would.
SpaceSearches == SearchesRight(sc, SpaceQuery, SpacePlace)

\* A step moves one point to where the client said, or all that a query
\* finds, or none: no move of many leaves half of them moved.  The two are
\* told apart by where the points go: no shift of a point that moves it ends
\* at one of the places to which a client moves single points.
BatchesWhole ==
  LET stay == {p \in LivePoints(sc) : p \in DOMAIN sc'.pts}
      moved == {p \in stay : sc'.pts[p].at # sc.pts[p].at}
      Hit(q, by) == {p \in LivePoints(sc) : /\ matches(q, sc.pts[p].at)
                                            /\ Shifted(sc.pts[p].at, by) # sc.pts[p].at}
  IN  \/ \A p \in moved : sc'.pts[p].at \in SpacePlace /\ moved = {p}
      \/ \E q \in SpaceQuery, by \in Delta :
           /\ moved = Hit(q, by)
           /\ \A p \in moved : sc'.pts[p].at = Shifted(sc.pts[p].at, by)
=============================================================================
