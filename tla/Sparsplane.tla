------------------------------ MODULE Sparsplane ------------------------------
(***************************************************************************)
(* One sparsplane of sparsplane.c.  A move without memory puts the point   *)
(* back; if there is none for that either, two errors in a call end the    *)
(* program.                                                                *)
(***************************************************************************)
EXTENDS Tiles

CONSTANTS PlanePlace,  \* where the client puts points
          PlaneQuery,  \* the boxes and balls it asks for
          Delta,       \* how far it moves those it finds
          Edge         \* bound of a run: no finite coordinate goes beyond

VARIABLE sp  \* the sparsplane

Within(at) == \A a \in Axes : at[a] \in {-Far, Far} \/ at[a] \in -Edge..Edge

Init == sp = Nothing

mksparsplane == ~sp.live /\ sp' = Made

rmsparsplane == sp.live /\ sp' = Nothing

spput(at) == sp.live /\ Len(sp.pts) < MaxPoint /\ sp' = Put(sp, at)

\* Wherever the memory for a point runs out, what was there is still there.
spputNoMemory == sp.live /\ UNCHANGED sp

spdel(pt) == pt \in LivePoints(sp) /\ sp' = Delete(sp, pt)

spmov(pt, at) == pt \in LivePoints(sp) /\ sp' = move_point_raw(sp, pt, at)

spmovNoMemory(pt) == pt \in LivePoints(sp) /\ sp' = RolledBack(sp, pt)

\* The first n of the points are moved; the next one finds no memory.
move_many(x, ps, by, n) ==
  LET y == Moved(x, SubSeq(ps, 1, n), by)
  IN  IF n = Len(ps) THEN y ELSE RolledBack(y, ps[n + 1])

\* spboxmove and spcircmove: what is found is moved, all of it or the first
\* few, when there is no memory for the next.
spquerymove(q, by, hit) ==
  /\ sp.live
  /\ \A i \in DOMAIN hit : Within(Shifted(sp.pts[hit[i]].at, by))
  /\ \E n \in 0..Len(hit) : sp' = move_many(sp, hit, by, n)

Next == \/ mksparsplane
        \/ rmsparsplane
        \/ \E at \in PlanePlace : spput(at)
        \/ spputNoMemory
        \/ \E pt \in DOMAIN sp.pts : spdel(pt)
        \/ \E pt \in DOMAIN sp.pts, at \in PlanePlace : spmov(pt, at)
        \/ \E pt \in DOMAIN sp.pts : spmovNoMemory(pt)
        \/ \E q \in PlaneQuery, by \in Delta : spquerymove(q, by, Enum(sp, q))

Spec == Init /\ [][Next]_sp
-----------------------------------------------------------------------------
\* The trie, its buckets and boxes agree with the points.
SparsplaneSound == Sound(sp)

\* Searches find what looking at every point would.
SparsplaneSearches == SearchesRight(sp, PlaneQuery, PlanePlace)
=============================================================================
