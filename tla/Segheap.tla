------------------------------ MODULE Segheap ------------------------------
(***************************************************************************)
(* One segheap of segheap.c: a row of Leonardo heaps in one array, the     *)
(* last item the top.  The bits of p tell which orders of trees there are, *)
(* counted from pshift.  Slots count from 1.  An item is its key; its ref  *)
(* moves with it.  The comparator compares numbers.                        *)
(***************************************************************************)
EXTENDS Integers, FiniteSetsExt, SequencesExt

CONSTANTS SegKey,   \* the client's keys
          MaxItem,  \* bound of a run
          MaxBatch  \* bound of a run

VARIABLES h,    \* the sgheap
          held  \* what the calls so far left in it: how often each key

leo[i \in 0..MaxItem] == IF i < 2 THEN 1 ELSE leo[i - 1] + leo[i - 2] + 1

Empty == [live |-> FALSE, order |-> FALSE, items |-> <<>>, p |-> 0, pshift |-> 0]

\* A shift of 128 bits that are never all in use.
ntz128(p) == CHOOSE i \in 1..MaxItem : (p - 1) % (2 ^ i) = 0 /\ ((p - 1) \div (2 ^ i)) % 2 = 1
shl128(p, n) == p * 2 ^ n
shr128(p, n) == p \div 2 ^ n

\* a comes out no later than b: priocmp(a, b) >= 0.
NotAfter(order, a, b) == IF order THEN a <= b ELSE a >= b

rtson(head) == head - 1
lfson(head, pshift) == head - 1 - leo[pshift - 2]

\* The item x goes down from head to where it belongs.
RECURSIVE sift(_, _, _, _, _)
sift(order, xs, x, head, pshift) ==
  LET rt == xs[rtson(head)]
      lf == xs[lfson(head, pshift)]
  IN  IF pshift <= 1 \/ (NotAfter(order, x, lf) /\ NotAfter(order, x, rt)) THEN [xs EXCEPT ![head] = x]
      ELSE IF NotAfter(order, lf, rt)
           THEN sift(order, [xs EXCEPT ![head] = lf], x, lfson(head, pshift), pshift - 1)
           ELSE sift(order, [xs EXCEPT ![head] = rt], x, rtson(head), pshift - 2)

\* The roots to the left that are to move one to the right.
RECURSIVE Stepsons(_, _, _, _, _, _)
Stepsons(order, xs, path, p, pshift, trusty) ==
  LET head == Last(path)
      stepson == head - leo[pshift]
      stays == \/ p = 1
               \/ NotAfter(order, xs[Head(path)], xs[stepson])
               \/ /\ ~trusty /\ pshift > 1
                  /\ \/ NotAfter(order, xs[rtson(head)], xs[stepson])
                     \/ NotAfter(order, xs[lfson(head, pshift)], xs[stepson])
  IN  IF stays THEN [path |-> path, pshift |-> pshift, trusty |-> trusty]
      ELSE Stepsons(order, xs, Append(path, stepson), shr128(p, ntz128(p)), pshift + ntz128(p), FALSE)

trinkle(order, xs, head, p, pshift, trusty) ==
  LET w == Stepsons(order, xs, <<head>>, p, pshift, trusty)
      Moved(ys, i) == [ys EXCEPT ![w.path[i]] = ys[w.path[i + 1]]]
  IN  IF w.trusty THEN xs
      ELSE sift(order, FoldLeft(Moved, xs, [i \in 1..(Len(w.path) - 1) |-> i]), xs[head],
                Last(w.path), w.pshift)

\* The item at head joins the trees; high is the last one that will.
append_step(x, head, high) ==
  LET sifted == sift(x.order, x.items, x.items[head], head, x.pshift)
      n == IF x.pshift = 1 THEN 1 ELSE x.pshift - 1
  IN  IF x.p % 4 = 3
      THEN [x EXCEPT !.items = sifted, !.p = shr128(@, 2) + 1 - (shr128(@, 2) % 2), !.pshift = @ + 2]
      ELSE [x EXCEPT !.items = IF leo[x.pshift - 1] >= high - head
                               THEN trinkle(x.order, @, head, x.p, x.pshift, FALSE) ELSE sifted,
                     !.p = shl128(@, n) + 1,
                     !.pshift = IF @ = 1 THEN 0 ELSE 1]

\* The last one is left to look at, whatever trees there are.
Trinkled(x) == [x EXCEPT !.items = trinkle(x.order, @, Len(@), x.p, x.pshift, FALSE)]

Appended(x, from) ==
  LET n == Len(x.items)
  IN  FoldLeft(LAMBDA z, head : append_step(z, head, n), x, [i \in 1..(n - from) |-> from + i - 1])

\* append_heap is the case of one new item.
append_range_heap(x, oldn) ==
  Trinkled(IF oldn = 0 THEN Appended([x EXCEPT !.p = 1, !.pshift = 1], 1) ELSE Appended(x, oldn))

\* A faulty variant: only the right one of two new roots looks to its left.
pop_rootRight(x) ==
  LET n == Len(x.items)
      y == IF x.pshift <= 1
           THEN [x EXCEPT !.p = shr128(@, ntz128(x.p)), !.pshift = @ + ntz128(x.p)]
           ELSE [x EXCEPT !.p = (@ - 1) * 4 + 3, !.pshift = @ - 2,
                          !.items = trinkle(x.order, @, n - 1, (x.p - 1) * 4 + 3, x.pshift - 2, TRUE)]
  IN  IF n <= 1 THEN [x EXCEPT !.items = <<>>, !.p = 0, !.pshift = 0] ELSE [y EXCEPT !.items = Front(@)]

\* The last item goes; the two trees under it become trees of the row.
pop_root(x) ==
  LET n == Len(x.items)
      low == x.pshift - 2
      p1 == (x.p - 1) * 2 + 1
      left == trinkle(x.order, x.items, n - leo[low] - 1, p1, low + 1, TRUE)
      p2 == shl128(p1, 1) + 1
      y == IF x.pshift <= 1
           THEN [x EXCEPT !.p = shr128(@, ntz128(x.p)), !.pshift = @ + ntz128(x.p)]
           ELSE [x EXCEPT !.p = p2, !.pshift = low,
                          !.items = trinkle(x.order, left, n - 1, p2, low, TRUE)]
  IN  IF n <= 1 THEN [x EXCEPT !.items = <<>>, !.p = 0, !.pshift = 0] ELSE [y EXCEPT !.items = Front(@)]

\* The roots from the last to the first.
RECURSIVE Roots(_, _, _)
Roots(p, pshift, root) ==
  <<[slot |-> root, order |-> pshift]>> \o
     IF p = 1 THEN <<>> ELSE Roots(shr128(p, ntz128(p)), pshift + ntz128(p), root - leo[pshift])

enum_roots(x) == IF x.items = <<>> THEN <<>> ELSE Reverse(Roots(x.p, x.pshift, Len(x.items)))

\* The way from a root to an item with the key, or none.
RECURSIVE find_in_tree(_, _, _, _)
find_in_tree(x, root, order, chet) ==
  LET rt == find_in_tree(x, rtson(root), order - 2, chet)
      lf == find_in_tree(x, lfson(root, order), order - 1, chet)
      sub == IF order <= 1 THEN <<>> ELSE IF rt # <<>> THEN rt ELSE lf
  IN  IF ~NotAfter(x.order, x.items[root], chet) THEN <<>>
      ELSE IF x.items[root] = chet THEN <<root>>
      ELSE IF sub = <<>> THEN <<>> ELSE <<root>> \o sub

\* The way in the last tree that has one, and which tree that is.
find_pos(x, chet) ==
  LET roots == enum_roots(x)
      path == [i \in DOMAIN roots |-> find_in_tree(x, roots[i].slot, roots[i].order, chet)]
      has == {i \in DOMAIN roots : path[i] # <<>>}
  IN  IF has = {} THEN [path |-> <<>>, iroot |-> 0] ELSE [path |-> path[Max(has)], iroot |-> Max(has)]

\* What is above the item moves down, the later roots move to the left.
delete_pos(x, pos) ==
  LET roots == enum_roots(x)
      way == Reverse(pos.path) \o [i \in 1..(Len(roots) - pos.iroot) |-> roots[pos.iroot + i].slot]
      Moved(xs, i) == [xs EXCEPT ![way[i]] = xs[way[i + 1]]]
  IN  pop_root([x EXCEPT !.items = FoldLeft(Moved, @, [i \in 1..(Len(way) - 1) |-> i])])

RECURSIVE DeleteMany(_, _, _)
DeletedAt(x, pos, chet, n) ==
  IF n = 0 \/ pos.path = <<>> THEN x ELSE DeleteMany(delete_pos(x, pos), chet, n - 1)

DeleteMany(x, chet, n) == DeletedAt(x, find_pos(x, chet), chet, n)
-----------------------------------------------------------------------------
Init == h = Empty /\ held = [k \in SegKey |-> 0]

mksegheap(order) == ~h.live /\ h' = [Empty EXCEPT !.live = TRUE, !.order = order] /\ UNCHANGED held

rmsegheap == h.live /\ h' = Empty /\ held' = [k \in SegKey |-> 0]

\* sgput is sgputs of one.
sgputs(ks) == /\ h.live /\ ks # <<>> /\ Len(h.items) + Len(ks) <= MaxItem
              /\ h' = append_range_heap([h EXCEPT !.items = @ \o ks], Len(h.items))
              /\ held' = [k \in SegKey |-> held[k] + Cardinality({i \in DOMAIN ks : ks[i] = k})]

sgpop == /\ h.live /\ h.items # <<>>
         /\ h' = pop_root(h)
         /\ held' = [held EXCEPT ![Last(h.items)] = @ - 1]

\* sgdel is sgdels of one.
sgdels(chet, n) == /\ h.live
                   /\ h' = DeleteMany(h, chet, n)
                   /\ held' = [held EXCEPT ![chet] = @ - Min({@, n})]

Next == \/ \E order \in BOOLEAN : mksegheap(order)
        \/ rmsegheap
        \/ \E ks \in SeqOf(SegKey, MaxBatch) : sgputs(ks)
        \/ sgpop
        \/ \E k \in SegKey, n \in 1..2 : sgdels(k, n)

Spec == Init /\ [][Next]_<<h, held>>
-----------------------------------------------------------------------------
\* The slots of a tree, from the order of its root.
RECURSIVE Ordered(_, _)
Ordered(root, order) ==
  order > 1 => /\ NotAfter(h.order, h.items[root], h.items[rtson(root)])
               /\ NotAfter(h.order, h.items[root], h.items[lfson(root, order)])
               /\ Ordered(rtson(root), order - 2) /\ Ordered(lfson(root, order), order - 1)

\* What was put in and not taken out is what is there, in trees that cover
\* the array and fall in order, each with its greatest on top and no root
\* above the next: so the last is the top of all.
SegheapSound ==
  LET roots == enum_roots(h)
  IN  /\ \A k \in SegKey : held[k] = Cardinality({i \in DOMAIN h.items : h.items[i] = k})
      /\ roots # <<>> => roots[1].slot = leo[roots[1].order] /\ Last(roots).slot = Len(h.items)
      /\ \A i \in DOMAIN roots : Ordered(roots[i].slot, roots[i].order)
      /\ \A i \in 2..Len(roots) :
           /\ roots[i].order < roots[i - 1].order
           /\ roots[i].slot = roots[i - 1].slot + leo[roots[i].order]
           /\ NotAfter(h.order, h.items[roots[i].slot], h.items[roots[i - 1].slot])

\* The search, which leaves out trees whose top comes after the key, finds
\* a key when there is one.
SegheapSearches ==
  \A k \in SegKey : LET path == find_pos(h, k).path
                    IN  IF held[k] = 0 THEN path = <<>> ELSE path # <<>> /\ h.items[Last(path)] = k
=============================================================================
