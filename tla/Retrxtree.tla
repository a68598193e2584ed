----------------------------- MODULE Retrxtree -----------------------------
(***************************************************************************)
(* One retrxtree of retrxtree.c: a B+ tree whose leaves are also a list,   *)
(* and whose entries know their leaf and slot.  Nodes, entries and slots   *)
(* count from 1, node 0 is none.  A branch of n keys has n + 1 kids.  The  *)
(* code refreshes keys and positions after every step it takes; here once, *)
(* when the call is done, as it does too: nothing reads them in between.   *)
(* The comparator compares numbers.                                        *)
(***************************************************************************)
EXTENDS Integers, FiniteSetsExt, SequencesExt

CONSTANTS RXNODE_CAP,  \* even and above zero
          RxKey,    \* the client's keys
          MaxEntry, MaxNode  \* bounds of a run

VARIABLE rx  \* the rxtree; plan is how many prepared nodes were left over

RXNODE_MIN == RXNODE_CAP \div 2

NoNode == [kind |-> "none", parent |-> 0, ents |-> <<>>, kids |-> <<>>, keys |-> <<>>, prev |-> 0, next |-> 0]
Leaf(parent, es, prev, next) ==
  [NoNode EXCEPT !.kind = "leaf", !.parent = parent, !.ents = es, !.prev = prev, !.next = next]
Inner(parent, kids) == [NoNode EXCEPT !.kind = "branch", !.parent = parent, !.kids = kids]

Nothing == [live |-> FALSE, root |-> 0, ents |-> <<>>, nlent |-> 0, plan |-> 0, node |-> <<>>]

Entry == DOMAIN rx.ents
LiveEntries == {e \in Entry : rx.ents[e].live}

isleaf(x, n) == x.node[n].kind = "leaf"

\* The nodes that are in use.
Nodes(x, kinds) == {n \in DOMAIN x.node : x.node[n].kind \in kinds}

\* The n of a node: how many entries or keys it has.
Size(x, n) == IF isleaf(x, n) THEN Len(x.node[n].ents) ELSE Len(x.node[n].kids) - 1

NewId(x) == Min(Nodes(x, {"none"}))
Add(x, new) == [x EXCEPT !.node[NewId(x)] = new]
Free(x, n) == [x EXCEPT !.node[n] = NoNode]

\* A node out of those that were prepared.
take_node(x, new) == Add([x EXCEPT !.plan = @ - 1], new)

\* The kids of a node are told who is above them.
Adopt(x, n) == FoldLeft(LAMBDA y, k : [y EXCEPT !.node[k].parent = n], x, x.node[n].kids)

\* A faulty variant: the leaf after the next one still points back to it.
JoinOneWay(x, l, next) == [x EXCEPT !.node[l].next = next]

\* A link to the next leaf, or to none, and back.
Join(x, l, next) ==
  LET y == [x EXCEPT !.node[l].next = next] IN IF next = 0 THEN y ELSE [y EXCEPT !.node[next].prev = l]

child_index(x, p, c) == CHOOSE i \in DOMAIN x.node[p].kids : x.node[p].kids[i] = c

RECURSIVE leftmost_leaf(_, _)
leftmost_leaf(x, n) == IF n = 0 \/ isleaf(x, n) THEN n ELSE leftmost_leaf(x, Head(x.node[n].kids))

RECURSIVE rightmost_leaf(_, _)
rightmost_leaf(x, n) == IF isleaf(x, n) THEN n ELSE rightmost_leaf(x, Last(x.node[n].kids))

first_key(x, n) == LET es == x.node[leftmost_leaf(x, n)].ents
                   IN  IF es = <<>> THEN 0 ELSE x.ents[Head(es)].key

refresh_keys(x) ==
  FoldLeft(LAMBDA y, n : [y EXCEPT !.node[n].keys =
                            [i \in 1..(Len(y.node[n].kids) - 1) |-> first_key(y, y.node[n].kids[i + 1])]],
           x, SetToSeq(Nodes(x, {"branch"})))

\* The leaves from one on.
RECURSIVE Leaves(_, _)
Leaves(x, l) == IF l = 0 THEN <<>> ELSE <<l>> \o Leaves(x, x.node[l].next)

\* The places of the entries in the leaves from one on.
Places(x, l) == FlattenSeq([i \in DOMAIN Leaves(x, l) |->
                   LET n == Leaves(x, l)[i] IN [s \in DOMAIN x.node[n].ents |-> [leaf |-> n, slot |-> s]]])

ent(x, pos) == x.node[pos.leaf].ents[pos.slot]
keyat(x, pos) == x.ents[ent(x, pos)].key

update_all_positions(x) ==
  FoldLeft(LAMBDA y, pos : [y EXCEPT !.ents[ent(y, pos)] = [@ EXCEPT !.leaf = pos.leaf, !.slot = pos.slot]],
           x, Places(x, leftmost_leaf(x, x.root)))

RECURSIVE Route(_, _, _, _)
Route(x, n, chet, upper) ==
  IF n = 0 \/ isleaf(x, n) THEN n
  ELSE LET keys == x.node[n].keys
           stop == {i \in DOMAIN keys : IF upper THEN keys[i] > chet ELSE keys[i] >= chet}
       IN  Route(x, x.node[n].kids[IF stop = {} THEN Len(keys) + 1 ELSE Min(stop)], chet, upper)

find_leaf(x, chet, upper) == Route(x, x.root, chet, upper)

\* The places from the first whose key is not below chet, or is above it.
FromPos(x, chet, upper) ==
  LET ps == Places(x, find_leaf(x, chet, upper))
      hit == {i \in DOMAIN ps : IF upper THEN keyat(x, ps[i]) > chet ELSE keyat(x, ps[i]) >= chet}
  IN  IF hit = {} THEN <<>> ELSE SubSeq(ps, Min(hit), Len(ps))

lower_pos(x, chet, upper) == LET ps == FromPos(x, chet, upper) IN IF ps = <<>> THEN <<>> ELSE <<Head(ps)>>
-----------------------------------------------------------------------------
(* Insertion. *)

RECURSIVE Full(_, _)
Full(x, n) == IF n = 0 THEN 1 ELSE IF Size(x, n) < RXNODE_CAP THEN 0 ELSE 1 + Full(x, x.node[n].parent)

\* One node for every one that will split, and one for a root above them.
prepare_insert_plan(x, leaf) == [x EXCEPT !.plan = IF Size(x, leaf) < RXNODE_CAP THEN 0 ELSE Full(x, leaf)]

RECURSIVE insert_child_after(_, _, _)

split_internal(x, n) ==
  LET kids == x.node[n].kids
      lch  == (Len(kids) + 1) \div 2
      r    == NewId(x)
      y    == take_node([x EXCEPT !.node[n].kids = SubSeq(kids, 1, lch)],
                        Inner(x.node[n].parent, SubSeq(kids, lch + 1, Len(kids))))
  IN  insert_child_after(Adopt(y, r), n, r)

insert_child_after(x, left, right) ==
  LET p == x.node[left].parent
      root == NewId(x)
      y == Adopt([x EXCEPT !.node[p].kids = InsertAt(@, child_index(x, p, left) + 1, right)], p)
  IN  IF p = 0 THEN Adopt([take_node(x, Inner(0, <<left, right>>)) EXCEPT !.root = root], root)
      ELSE IF Size(y, p) > RXNODE_CAP THEN split_internal(y, p) ELSE y

split_leaf(x, l) ==
  LET es    == x.node[l].ents
      leftn == Len(es) \div 2
      r     == NewId(x)
      y     == take_node([x EXCEPT !.node[l].ents = SubSeq(es, 1, leftn)],
                         Leaf(x.node[l].parent, SubSeq(es, leftn + 1, Len(es)), l, 0))
  IN  insert_child_after(Join(Join(y, r, x.node[l].next), l, r), l, r)

Refreshed(x) == update_all_positions(refresh_keys(x))

Fitted(x, l) == IF Size(x, l) > RXNODE_CAP THEN split_leaf(x, l) ELSE x

leaf_insert_at(x, pos, e) ==
  Refreshed(Fitted([x EXCEPT !.node[pos.leaf].ents = InsertAt(@, pos.slot, e)], pos.leaf))

End(x, l) == [leaf |-> l, slot |-> Size(x, l) + 1]

\* A faulty variant: before its equals.
BeforeEquals(x, ps, key) == IF ps = <<>> THEN End(x, rightmost_leaf(x, x.root)) ELSE Head(ps)

\* Before the first greater key, wherever the search for the key began.
AfterEquals(x, ps, key) ==
  LET above == {i \in DOMAIN ps : keyat(x, ps[i]) > key}
  IN  IF ps = <<>> THEN End(x, rightmost_leaf(x, x.root))
      ELSE IF above = {} THEN End(x, Last(ps).leaf) ELSE ps[Min(above)]

insert_pos_after_equals(x, key) == AfterEquals(x, FromPos(x, key, FALSE), key)

PutAt(x, key, pos) ==
  leaf_insert_at([prepare_insert_plan(x, pos.leaf) EXCEPT
                    !.ents = Append(@, [key |-> key, leaf |-> 0, slot |-> 0, live |-> TRUE]),
                    !.nlent = @ + 1],
                 pos, Len(x.ents) + 1)

PutInto(x, key) == PutAt(x, key, insert_pos_after_equals(x, key))

Put(x, key) ==
  PutInto(IF x.root # 0 THEN x ELSE [Add(x, Leaf(0, <<>>, 0, 0)) EXCEPT !.root = NewId(x)], key)
-----------------------------------------------------------------------------
(* Deletion. *)

shrink_root(x) ==
  IF x.root = 0 \/ isleaf(x, x.root) \/ Size(x, x.root) # 0 THEN x
  ELSE LET kid == Head(x.node[x.root].kids)
       IN  Free([x EXCEPT !.root = kid, !.node[kid].parent = 0], x.root)

\* The node before and after n under the same parent; 0 for none.
Before(x, p, i) == IF i > 1 THEN x.node[p].kids[i - 1] ELSE 0
After(x, p, i) == IF i < Len(x.node[p].kids) THEN x.node[p].kids[i + 1] ELSE 0

\* A neighbour that can give something away.
Rich(x, n) == n # 0 /\ Size(x, n) > RXNODE_MIN

RECURSIVE rebalance_internal(_, _)

remove_child_at(x, p, i) ==
  LET y == [x EXCEPT !.node[p].kids = RemoveAt(@, i)]
  IN  IF p = x.root THEN shrink_root(y) ELSE rebalance_internal(y, p)

\* A branch takes a kid of a neighbour, or the two become one.
rebalance_internal(x, n) ==
  LET p == x.node[n].parent
      i == child_index(x, p, n)
      l == Before(x, p, i)
      r == After(x, p, i)
      kids == x.node[n].kids
      Merged(z, o, at) ==
        remove_child_at(Free(Adopt([x EXCEPT !.node[z].kids = @ \o x.node[o].kids], z), o), p, at)
  IN  IF n = x.root THEN shrink_root(x)
      ELSE IF Size(x, n) >= RXNODE_MIN THEN x
      ELSE IF Rich(x, l)
           THEN Adopt([x EXCEPT !.node[n].kids = <<Last(x.node[l].kids)>> \o kids, !.node[l].kids = Front(@)], n)
      ELSE IF Rich(x, r)
           THEN Adopt([x EXCEPT !.node[n].kids = Append(kids, Head(x.node[r].kids)), !.node[r].kids = Tail(@)], n)
      ELSE IF l # 0 THEN Merged(l, n, i) ELSE IF r # 0 THEN Merged(n, r, i + 1) ELSE x

rebalance_leaf(x, l) ==
  LET p == x.node[l].parent
      i == child_index(x, p, l)
      z == Before(x, p, i)
      o == After(x, p, i)
      es == x.node[l].ents
      Merged(a, b, at) ==
        remove_child_at(Free(Join([x EXCEPT !.node[a].ents = @ \o x.node[b].ents], a, x.node[b].next), b), p, at)
  IN  IF l = x.root \/ Size(x, l) >= RXNODE_MIN THEN x
      ELSE IF Rich(x, z)
           THEN [x EXCEPT !.node[l].ents = <<Last(x.node[z].ents)>> \o es, !.node[z].ents = Front(@)]
      ELSE IF Rich(x, o)
           THEN [x EXCEPT !.node[l].ents = Append(es, Head(x.node[o].ents)), !.node[o].ents = Tail(@)]
      ELSE IF z # 0 THEN Merged(z, l, i) ELSE IF o # 0 THEN Merged(l, o, i + 1) ELSE x

remove_entry_at(x, l, slot) ==
  LET y == [x EXCEPT !.node[l].ents = RemoveAt(@, slot)]
  IN  IF l = x.root /\ y.node[l].ents = <<>> THEN [Free(y, l) EXCEPT !.root = 0]
      ELSE Refreshed(rebalance_leaf(y, l))

Delete(x, e) ==
  remove_entry_at([x EXCEPT !.ents[e] = [@ EXCEPT !.live = FALSE, !.leaf = 0, !.slot = 0], !.nlent = @ - 1],
                  x.ents[e].leaf, x.ents[e].slot)

rxnext(x, e) ==
  LET l == x.ents[e].leaf
      s == x.ents[e].slot
      o == x.node[l].next
  IN  IF s < Size(x, l) THEN <<x.node[l].ents[s + 1]>>
      ELSE IF o = 0 \/ x.node[o].ents = <<>> THEN <<>> ELSE <<Head(x.node[o].ents)>>

rxprev(x, e) ==
  LET l == x.ents[e].leaf
      s == x.ents[e].slot
      o == x.node[l].prev
  IN  IF s > 1 THEN <<x.node[l].ents[s - 1]>>
      ELSE IF o = 0 \/ x.node[o].ents = <<>> THEN <<>> ELSE <<Last(x.node[o].ents)>>

RECURSIVE DeleteRun(_, _, _)
DeleteRun(x, e, key) ==
  IF ~x.ents[e].live \/ x.ents[e].key # key THEN x
  ELSE IF rxnext(x, e) = <<>> THEN Delete(x, e) ELSE DeleteRun(Delete(x, e), Head(rxnext(x, e)), key)
-----------------------------------------------------------------------------
Init == rx = Nothing

mkrxtree == ~rx.live /\ rx' = [Nothing EXCEPT !.live = TRUE, !.node = [n \in 1..MaxNode |-> NoNode]]

rmrxtree == rx.live /\ rx' = Nothing

rxput(key) == rx.live /\ Len(rx.ents) < MaxEntry /\ rx' = Put(rx, key)

\* The nodes a split will take are there before anything changes, or the
\* call gives up.
rxputNoMemory == rx.live /\ UNCHANGED rx

rxdel(e) == e \in LiveEntries /\ rx' = Delete(rx, e)

rxdels(e) == e \in LiveEntries /\ rx' = DeleteRun(rx, e, rx.ents[e].key)

Next == \/ mkrxtree
        \/ rmrxtree
        \/ \E key \in RxKey : rxput(key)
        \/ rxputNoMemory
        \/ \E e \in Entry : rxdel(e)
        \/ \E e \in Entry : rxdels(e)

Spec == Init /\ [][Next]_rx
-----------------------------------------------------------------------------
\* The entries along the leaves.
Entries ==
  LET First[n \in 0..MaxNode] == IF n = 0 \/ isleaf(rx, n) THEN n ELSE First[Head(rx.node[n].kids)]
      From[l \in 0..MaxNode] ==
        IF l = 0 THEN <<>>
        ELSE [i \in DOMAIN rx.node[l].ents |->
                [id |-> rx.node[l].ents[i], key |-> rx.ents[rx.node[l].ents[i]].key]] \o From[rx.node[l].next]
  IN  From[First[rx.root]]

rxentries == [i \in DOMAIN Entries |-> Entries[i].id]

\* A retrxtree keeps its promise through splits, borrowings and mergers.
O == INSTANCE Ordered WITH Key <- RxKey, entries <- Entries, used <- Entry

\* The levels of the tree from the root down.
RECURSIVE Levels(_)
Levels(ns) == IF ns = <<>> THEN <<>>
              ELSE <<ns>> \o Levels(FlattenSeq([i \in DOMAIN ns |-> rx.node[ns[i]].kids]))

\* The nodes form one tree whose leaves are all on the lowest level, each
\* knows its parent, each but the root is at least half full and none is
\* over full; the leaves are linked both ways in their order; keys are the
\* least of what is right of them; live entries are where they say, which
\* rxdel and rxnext take on trust; and a split took just the nodes that
\* were prepared for it.
RetrxSound ==
  LET levels == Levels(IF rx.root = 0 THEN <<>> ELSE <<rx.root>>)
      leaves == Leaves(rx, leftmost_leaf(rx, rx.root))
  IN  /\ rx.nlent = Cardinality(LiveEntries) /\ rx.plan = 0
      /\ ToSet(rxentries) = LiveEntries
      /\ ToSet(FlattenSeq(levels)) = Nodes(rx, {"leaf", "branch"}) /\ IsInjective(FlattenSeq(levels))
      /\ levels # <<>> => leaves = Last(levels)
      /\ \A i \in DOMAIN leaves :
           rx.node[leaves[i]].prev = IF i = 1 THEN 0 ELSE leaves[i - 1]
      /\ \A n \in Nodes(rx, {"leaf", "branch"}) :
           /\ Size(rx, n) \in (IF n = rx.root THEN 1 ELSE RXNODE_MIN)..RXNODE_CAP
           /\ isleaf(rx, n) <=> n \in ToSet(leaves)
           /\ \A i \in DOMAIN rx.node[n].kids :
                /\ rx.node[rx.node[n].kids[i]].parent = n
                /\ i > 1 => rx.node[n].keys[i - 1] = first_key(rx, rx.node[n].kids[i])
      /\ \A e \in LiveEntries : ent(rx, rx.ents[e]) = e

\* Searches begin at the root and end in the list of leaves; they find what
\* going through all the entries would.
RetrxSearches ==
  LET Firsts(s) == IF s = <<>> THEN <<>> ELSE <<Head(s).id>>
      At(ps) == [i \in DOMAIN ps |-> ent(rx, ps[i])]
  IN  /\ \A c \in RxKey : /\ At(lower_pos(rx, c, FALSE)) = Firsts(O!From(c))
                          /\ At(lower_pos(rx, c, TRUE)) = Firsts(O!Beyond(c))
      /\ LET es == rxentries
         IN  \A i \in DOMAIN es :
               /\ rxnext(rx, es[i]) = IF i = Len(es) THEN <<>> ELSE <<es[i + 1]>>
               /\ rxprev(rx, es[i]) = IF i = 1 THEN <<>> ELSE <<es[i - 1]>>
=============================================================================
