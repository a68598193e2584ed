-------------------------------- MODULE Tiles --------------------------------
(***************************************************************************)
(* What sparsplane.c and space.c do alike: a trie over the tiles that      *)
(* points lie in, with buckets of points at its ends, and at every branch  *)
(* and bucket the box around the points below.  A plane has two axes, a    *)
(* space three; the code is the same but for that.                         *)
(*                                                                         *)
(* Coordinates are whole numbers; Far and -Far stand for the infinite      *)
(* ones.  A branch holds its kids by their fragment (the code packs them   *)
(* by a bit map); a bucket is known by an id.  Points count from 1.  A     *)
(* point's tile is computed from its place, which the code does once.      *)
(***************************************************************************)
EXTENDS Integers, FiniteSetsExt, SequencesExt, Functions

CONSTANTS Axes,       \* 1..2 or 1..3
          Block,      \* the side of a tile
          TileBits,   \* of the number of a tile along an axis, 64 in the code
          AxisBits,   \* of them in a fragment
          BUCKETCAP,
          Far,
          FarBoxesAreNear,  \* boxes that are not finite: TRUE in a space
          MaxPoint    \* bound of a run

None == [kind |-> "none", bounds |-> <<>>]
Branch(kids, bounds) == [kind |-> "branch", kids |-> kids, bounds |-> bounds]
Bucket(id, bounds) == [kind |-> "bucket", id |-> id, bounds |-> bounds]

Nothing == [live |-> FALSE, root |-> None, pts |-> <<>>, nlpt |-> 0, buckets |-> <<>>]
Made == [Nothing EXCEPT !.live = TRUE, !.buckets = [b \in 1..MaxPoint |-> <<>>]]

LivePoints(x) == {p \in DOMAIN x.pts : x.pts[p].live}

Least == -(2 ^ (TileBits - 1))

\* The tile of a coordinate; beyond the last ones there are no others.
tile_of(x) == Max({Least, Min({-Least - 1, x \div Block})})

\* Its number, made unsigned.
tile_key(x) == tile_of(x) - Least

\* The bits of a level, the highest first; the last level may have fewer.
axisfrag(u, level) ==
  LET left == TileBits - (level + 1) * AxisBits
  IN  IF left >= 0 THEN (u \div 2 ^ left) % 2 ^ AxisBits
      ELSE (u % 2 ^ (left + AxisBits)) * 2 ^ (-left)

keyfrag(at, level) ==
  MapThenSumSet(LAMBDA a : axisfrag(tile_key(at[a]), level) * 2 ^ (AxisBits * (a - 1)), Axes)

LEVELS == (TileBits + AxisBits - 1) \div AxisBits

ptfrag(x, pt, level) == keyfrag(x.pts[pt].at, level)

same_tile(x, p, q) == \A a \in Axes : tile_of(x.pts[p].at[a]) = tile_of(x.pts[q].at[a])
same_tiles(x, ps) == \A i \in DOMAIN ps : same_tile(x, ps[1], ps[i])

\* A plane x and a child of it that was made.
With(x, child) == [x |-> x, child |-> child]

\* Only a bucket that is in use has points.
Used(x) == {b \in DOMAIN x.buckets : x.buckets[b] # <<>>}
NewId(x) == Min(DOMAIN x.buckets \ Used(x))
AddBucket(x, ps) == [x EXCEPT !.buckets[NewId(x)] = ps]
DropBucket(x, id) == [x EXCEPT !.buckets[id] = <<>>]
-----------------------------------------------------------------------------
(* The boxes. *)

\* The box around boxes, of which those of nothing are left out.
Around(boxes) ==
  LET bs == boxes \ {<<>>}
  IN  IF bs = {} THEN <<>>
      ELSE [lo |-> [a \in Axes |-> Min({b.lo[a] : b \in bs})],
            hi |-> [a \in Axes |-> Max({b.hi[a] : b \in bs})]]

AtPoint(x, pt) == [lo |-> x.pts[pt].at, hi |-> x.pts[pt].at]

RECURSIVE refresh_bounds(_, _)
BranchAround(kids) == Branch(kids, Around({kids[f].bounds : f \in DOMAIN kids}))

refresh_bounds(x, c) ==
  CASE c.kind = "none" -> c
    [] c.kind = "bucket" -> Bucket(c.id, Around({AtPoint(x, p) : p \in ToSet(x.buckets[c.id])}))
    [] c.kind = "branch" -> BranchAround([f \in DOMAIN c.kids |-> refresh_bounds(x, c.kids[f])])

Refreshed(x) == [x EXCEPT !.root = refresh_bounds(x, @)]
-----------------------------------------------------------------------------
(* Insertion. *)

update_bucket(x, id) ==
  LET ps == x.buckets[id]
  IN  FoldLeft(LAMBDA y, i : [y EXCEPT !.pts[ps[i]] = [@ EXCEPT !.bucket = id, !.slot = i]],
               x, [i \in DOMAIN ps |-> i])

bucket_append(x, id, pt) == update_bucket([x EXCEPT !.buckets[id] = Append(@, pt)], id)

\* The points in buckets under as many branches as it takes to tell their
\* tiles apart; the points are told later.
RECURSIVE build_subtree(_, _, _)
Fragments(x, ps, level) == SetToSortSeq({ptfrag(x, p, level) : p \in ToSet(ps)}, <)
Grafted(w, sub, f) == With(sub.x, Branch((f :> sub.child) @@ w.child.kids, <<>>))

build_subtree(x, ps, level) ==
  LET Group(f) == SelectSeq(ps, LAMBDA p : ptfrag(x, p, level) = f)
      Add(w, f) == Grafted(w, build_subtree(w.x, Group(f), level + 1), f)
  IN  IF level >= LEVELS \/ same_tiles(x, ps) THEN With(AddBucket(x, ps), Bucket(NewId(x), <<>>))
      ELSE FoldLeft(Add, With(x, Branch(<< >>, <<>>)), Fragments(x, ps, level))

RECURSIVE update_child_positions(_, _)
update_child_positions(x, c) ==
  IF c.kind = "branch"
  THEN FoldLeft(LAMBDA y, f : update_child_positions(y, c.kids[f]), x, SetToSeq(DOMAIN c.kids))
  ELSE update_bucket(x, c.id)

Told(w) == With(update_child_positions(w.x, w.child), w.child)

split_bucket_insert(x, c, level, pt) ==
  LET old == x.buckets[c.id]
  IN  IF Len(old) < BUCKETCAP \/ level >= LEVELS \/ same_tiles(x, Append(old, pt))
      THEN With(bucket_append(x, c.id, pt), c)
      ELSE Told(build_subtree(DropBucket(x, c.id), Append(old, pt), level))

RECURSIVE insert_into_child(_, _, _, _)
Regrown(c, sub, f) == With(sub.x, Branch((f :> sub.child) @@ c.kids, c.bounds))

insert_into_child(x, c, level, pt) ==
  LET f == ptfrag(x, pt, level)
      kid == IF f \in DOMAIN c.kids THEN c.kids[f] ELSE None
  IN  CASE c.kind = "none" -> With(bucket_append(x, NewId(x), pt), Bucket(NewId(x), <<>>))
        [] c.kind = "bucket" -> split_bucket_insert(x, c, level, pt)
        [] c.kind = "branch" -> Regrown(c, insert_into_child(x, kid, level + 1, pt), f)

Rerooted(w) == [w.x EXCEPT !.root = w.child]

Inserted(x, pt) == Refreshed(Rerooted(insert_into_child(x, x.root, 0, pt)))

Put(x, at) ==
  Inserted([x EXCEPT !.pts = Append(@, [at |-> at, bucket |-> 0, slot |-> 0, live |-> TRUE]),
                     !.nlpt = @ + 1],
           Len(x.pts) + 1)
-----------------------------------------------------------------------------
(* Removal and moves. *)

\* Empty buckets and branches on the way to a place go; a branch with one
\* kid stays.
RECURSIVE prune_child(_, _, _, _)
Pruned(c, sub, f) ==
  LET rest == Restrict(c.kids, DOMAIN c.kids \ {f})
  IN  With(sub.x, IF sub.child # None THEN Branch((f :> sub.child) @@ rest, c.bounds)
                  ELSE IF rest = << >> THEN None ELSE Branch(rest, c.bounds))

prune_child(x, c, at, level) ==
  LET f == keyfrag(at, level)
  IN  CASE c.kind = "none" -> With(x, c)
        [] c.kind = "bucket" -> With(x, IF x.buckets[c.id] = <<>> THEN None ELSE c)
        [] c.kind = "branch" -> IF f \in DOMAIN c.kids
                                THEN Pruned(c, prune_child(x, c.kids[f], at, level + 1), f) ELSE With(x, c)

bucket_remove(x, id, slot) == update_bucket([x EXCEPT !.buckets[id] = RemoveAt(@, slot)], id)

\* A point is taken out where its record says it is.
TakenOut(x, pt) ==
  [bucket_remove(x, x.pts[pt].bucket, x.pts[pt].slot) EXCEPT
     !.pts[pt] = [@ EXCEPT !.bucket = 0, !.slot = 0]]

\* A faulty variant: the boxes stay as they were.
remove_from_shapeLoose(x, pt) == Rerooted(prune_child(TakenOut(x, pt), x.root, x.pts[pt].at, 0))

remove_from_shape(x, pt) == Refreshed(Rerooted(prune_child(TakenOut(x, pt), x.root, x.pts[pt].at, 0)))

Delete(x, pt) == [remove_from_shape(x, pt) EXCEPT !.pts[pt] = [@ EXCEPT !.live = FALSE], !.nlpt = @ - 1]

\* The point goes in again, at its new place.
move_point_raw(x, pt, at) == Inserted([remove_from_shape(x, pt) EXCEPT !.pts[pt].at = at], pt)

\* Without memory there it goes in again at its old one.
RolledBack(x, pt) == move_point_raw(x, pt, x.pts[pt].at)

Shifted(at, by) == [a \in Axes |-> IF at[a] \in {-Far, Far} THEN at[a] ELSE at[a] + by[a]]

\* Points moved one after another.
Moved(x, ps, by) == FoldLeft(LAMBDA y, p : move_point_raw(y, p, Shifted(y.pts[p].at, by)), x, ps)
-----------------------------------------------------------------------------
(* Searches. *)

\* A query is a box, with its corners lo and hi, or a ball, with its middle
\* at and the square r2 of its radius.

finite(at) == \A a \in Axes : at[a] \notin {-Far, Far}
dist2(p, q) == MapThenSumSet(LAMBDA a : (p[a] - q[a]) * (p[a] - q[a]), Axes)

axis_box_dist(x, lo, hi) == IF x < lo THEN lo - x ELSE IF x > hi THEN x - hi ELSE 0
bounds_dist2(b, at) ==
  MapThenSumSet(LAMBDA a : axis_box_dist(at[a], b.lo[a], b.hi[a]) ^ 2, Axes)

matches(q, at) ==
  CASE q.kind = "box"  -> \A a \in Axes : at[a] \in q.lo[a]..q.hi[a]
    [] q.kind = "ball" -> finite(at) /\ dist2(at, q.at) <= q.r2

hits_bounds(q, b) ==
  /\ b # <<>>
  /\ CASE q.kind = "box"  -> \A a \in Axes : b.hi[a] >= q.lo[a] /\ b.lo[a] <= q.hi[a]
       [] q.kind = "ball" -> finite(b.lo) /\ finite(b.hi) => bounds_dist2(b, q.at) <= q.r2

\* The kids of a branch in the order of their fragments.
Kids(c) == LET fs == SetToSortSeq(DOMAIN c.kids, <) IN [i \in DOMAIN fs |-> c.kids[fs[i]]]

\* Children whose box is missed are passed over.
RECURSIVE enum_child(_, _, _)
enum_child(x, c, q) ==
  IF ~hits_bounds(q, c.bounds) THEN <<>>
  ELSE IF c.kind = "branch" THEN FlattenSeq([i \in DOMAIN Kids(c) |-> enum_child(x, Kids(c)[i], q)])
  ELSE SelectSeq(x.buckets[c.id], LAMBDA p : matches(q, x.pts[p].at))

Enum(x, q) == enum_child(x, x.root, q)

RECURSIVE find_bucket(_, _, _, _)
find_bucket(x, c, at, level) ==
  CASE c.kind = "none" -> <<>>
    [] c.kind = "bucket" -> x.buckets[c.id]
    [] c.kind = "branch" -> LET f == keyfrag(at, level)
                            IN  IF f \in DOMAIN c.kids THEN find_bucket(x, c.kids[f], at, level + 1) ELSE <<>>

\* The points at a place; more than one are an error to the client.
At(x, at) == SelectSeq(find_bucket(x, x.root, at, 0), LAMBDA p : x.pts[p].at = at)

\* The best two so far, best first; points that are not finite do not count.
near_consider(x, best, at, pt) ==
  LET d(p) == dist2(x.pts[p].at, at)
  IN  IF ~finite(x.pts[pt].at) THEN best
      ELSE IF best = <<>> \/ d(pt) < d(best[1]) THEN SubSeq(<<pt>> \o best, 1, Min({2, Len(best) + 1}))
      ELSE IF Len(best) = 1 \/ d(pt) < d(best[2]) THEN <<best[1], pt>>
      ELSE best

near_bound_dist(b, at) ==
  IF FarBoxesAreNear /\ ~(finite(b.lo) /\ finite(b.hi)) THEN 0 ELSE bounds_dist2(b, at)

\* The kids, those with the nearest boxes first.
NearestFirst(c, at) ==
  LET ks == Kids(c)
      d(i) == near_bound_dist(ks[i].bounds, at)
      order == SetToSortSeq(DOMAIN ks, LAMBDA i, j : d(i) < d(j) \/ (d(i) = d(j) /\ i < j))
  IN  [i \in DOMAIN order |-> ks[order[i]]]

RECURSIVE near_child(_, _, _, _)
near_child(x, c, best, at) ==
  IF c.bounds = <<>> \/ (Len(best) = 2 /\ near_bound_dist(c.bounds, at) > dist2(x.pts[best[2]].at, at)) THEN best
  ELSE IF c.kind = "branch" THEN FoldLeft(LAMBDA b, k : near_child(x, k, b, at), best, NearestFirst(c, at))
  ELSE FoldLeft(LAMBDA b, p : near_consider(x, b, at, p), best, x.buckets[c.id])

Nearest(x, at) == near_child(x, x.root, <<>>, at)
-----------------------------------------------------------------------------
\* Every branch and bucket, with the fragments that lead there.
RECURSIVE Parts(_, _)
Parts(c, way) ==
  CASE c.kind = "none" -> {}
    [] c.kind = "bucket" -> {[child |-> c, way |-> way]}
    [] c.kind = "branch" ->
         {[child |-> c, way |-> way]} \cup UNION {Parts(c.kids[f], Append(way, f)) : f \in DOMAIN c.kids}

\* Live points that lie where a way leads.
On(x, way) == {p \in LivePoints(x) : \A i \in DOMAIN way : ptfrag(x, p, i - 1) = way[i]}

\* Every bucket hangs in the trie once and holds the points whose tiles lead
\* there; it is no fuller than it may be, unless all are in one tile; every
\* point is where its record says, which removal takes on trust; every box
\* is as tight as can be, and there is none without points.
Sound(x) ==
  LET parts == Parts(x.root, <<>>)
      ends == {z \in parts : z.child.kind = "bucket"}
  IN  /\ x.nlpt = Cardinality(LivePoints(x))
      /\ {z.child.id : z \in ends} = Used(x) /\ Cardinality(ends) = Cardinality(Used(x))
      /\ \A z \in ends : /\ ToSet(x.buckets[z.child.id]) = On(x, z.way)
                         /\ IsInjective(x.buckets[z.child.id])
                         /\ \/ Len(x.buckets[z.child.id]) <= BUCKETCAP
                            \/ same_tiles(x, x.buckets[z.child.id])
      /\ \A p \in LivePoints(x) : x.buckets[x.pts[p].bucket][x.pts[p].slot] = p
      /\ \A z \in parts : z.child.bounds # <<>> /\ z.child.bounds = Around({AtPoint(x, p) : p \in On(x, z.way)})

Finds(found, ps) == ToSet(found) = ps /\ IsInjective(found)

\* The nearest two, as near as any of the others.
NearestTwo(x, at, two, others) ==
  LET d(p) == dist2(x.pts[p].at, at)
  IN  /\ IsInjective(two) /\ \A i \in DOMAIN two : finite(x.pts[two[i]].at)
      /\ Len(two) < 2 => others = {}
      /\ Len(two) = 2 => d(two[1]) <= d(two[2])
      /\ \A p \in others : d(two[Len(two)]) <= d(p)

FiniteBut(x, ps) == {p \in LivePoints(x) \ ToSet(ps) : finite(x.pts[p].at)}
NearestRight(x, at, two) == NearestTwo(x, at, two, FiniteBut(x, two))

\* What a search finds, passing over boxes, is what looking at every point
\* would; the two nearest are as near as any.
SearchesRight(x, queries, places) ==
  /\ \A q \in queries : Finds(Enum(x, q), {p \in LivePoints(x) : matches(q, x.pts[p].at)})
  /\ \A at \in places : /\ Finds(At(x, at), {p \in LivePoints(x) : x.pts[p].at = at})
                         /\ finite(at) => NearestRight(x, at, Nearest(x, at))
=============================================================================
