------------------------------ MODULE MCNexus ------------------------------
(***************************************************************************)
(* The topologies of nexus.h in one state space: an initial state chooses  *)
(* which of them is used, the others stay as they are.  They have nothing  *)
(* in common but the way their searches go, which are compared here with   *)
(* what they are to find.                                                  *)
(***************************************************************************)
EXTENDS Dag, Ugraph, Mtree, List, Bitree

CONSTANTS Yod, MaxPin, MaxHigh, Ref, MaxIndelKnod,
          RXNODE_CAP, RxKey, MaxRxEntry, MaxNode,
          SegKey, MaxItem, MaxBatch, AMSHIFT, HashBits, Hash, AmKey, MaxAmEntry,
          Phi, MaxCell, MaxSide,
          BUCKETCAP, Far, MaxPoint

VARIABLES used, sk, it, rx, h, held, am, lt, sp, sc

K == INSTANCE Skiplist
I == INSTANCE Indeltree WITH t <- it, MaxKnod <- MaxIndelKnod
R == INSTANCE Retrxtree WITH MaxEntry <- MaxRxEntry
S == INSTANCE Segheap
A == INSTANCE Amtrie WITH MaxEntry <- MaxAmEntry
Q == INSTANCE Lattice
P == INSTANCE Sparsplane WITH
       Axes <- 1..2, Block <- 2, TileBits <- 3, AxisBits <- 2, FarBoxesAreNear <- FALSE,
       PlanePlace <- {<<0, 0>>, <<2, 0>>, <<-1, 0>>, <<Far, 1>>},
       PlaneQuery <- {[kind |-> "box", lo |-> <<-1, 0>>, hi |-> <<0, 0>>],
                      [kind |-> "ball", at |-> <<1, 0>>, r2 |-> 1]},
       Delta <- {<<-1, 0>>}, Edge <- 2
C == INSTANCE Space WITH
       Axes <- 1..3, Block <- 2, TileBits <- 4, AxisBits <- 2, FarBoxesAreNear <- TRUE,
       SpacePlace <- {<<0, 0, 0>>, <<0, 0, 1>>, <<0, 0, -1>>, <<1, Far, 0>>},
       SpaceQuery <- {[kind |-> "box", lo |-> <<0, 0, 0>>, hi |-> <<1, Far, 1>>],
                      [kind |-> "ball", at |-> <<0, -1, 0>>, r2 |-> 1]},
       Delta <- {<<0, -1, 0>>}, Edge <- 1

graphs == <<vars, g, t>>
orders == <<sk, it, rx>>
others == <<knots, bt, gone, h, held, am, lt>>
planes == <<sp, sc>>

InitNexus == /\ used \in {"dag", "ugraph", "mtree", "list", "skiplist", "bitree", "indeltree",
                          "retrxtree", "segheap", "amtrie", "lattice", "sparsplane", "space"}
             /\ Init /\ InitUgraph /\ InitMtree /\ InitBitree /\ InitList /\ K!Init /\ I!Init
             /\ R!Init /\ S!Init /\ A!Init /\ Q!Init /\ P!Init /\ C!Init

DagStep == used = "dag" /\ Next /\ UNCHANGED <<used, g, t, orders, others, planes>>
UgraphStep == used = "ugraph" /\ NextUgraph /\ UNCHANGED <<used, vars, t, orders, others, planes>>
MtreeStep == used = "mtree" /\ NextMtree /\ UNCHANGED <<used, vars, g, orders, others, planes>>
SkiplistStep == used = "skiplist" /\ K!Next /\ UNCHANGED <<used, graphs, it, rx, others, planes>>
IndeltreeStep == used = "indeltree" /\ I!Next /\ UNCHANGED <<used, graphs, sk, rx, others, planes>>
RetrxtreeStep == used = "retrxtree" /\ R!Next /\ UNCHANGED <<used, graphs, sk, it, others, planes>>
ListStep == used = "list" /\ NextList /\ UNCHANGED <<used, graphs, orders, bt, gone, h, held, am, lt, planes>>
BitreeStep == used = "bitree" /\ NextBitree /\ UNCHANGED <<used, graphs, orders, knots, h, held, am, lt, planes>>
SegheapStep == used = "segheap" /\ S!Next /\ UNCHANGED <<used, graphs, orders, knots, bt, gone, am, lt, planes>>
AmtrieStep == used = "amtrie" /\ A!Next /\ UNCHANGED <<used, graphs, orders, knots, bt, gone, h, held, lt, planes>>
LatticeStep == used = "lattice" /\ Q!Next /\ UNCHANGED <<used, graphs, orders, knots, bt, gone, h, held, am, planes>>
SparsplaneStep == used = "sparsplane" /\ P!Next /\ UNCHANGED <<used, graphs, orders, others, sc>>
SpaceStep == used = "space" /\ C!Next /\ UNCHANGED <<used, graphs, orders, others, sp>>

NextNexus == \/ DagStep \/ UgraphStep \/ MtreeStep
             \/ SkiplistStep \/ IndeltreeStep \/ RetrxtreeStep
             \/ ListStep \/ BitreeStep \/ SegheapStep \/ AmtrieStep \/ LatticeStep
             \/ SparsplaneStep \/ SpaceStep

nexus == <<used, graphs, orders, others, planes>>

SpecNexus == InitNexus /\ [][NextNexus]_nexus
-----------------------------------------------------------------------------
(* The searches as their loops make them.  A structure is given by the
   sequence of neighbours of each node, and the loop's variables are
   arguments. *)

\* Unseen neighbours are marked as seen and put on the list.
Visit(w, near) ==
  FoldLeft(LAMBDA o, x : IF x \in o.seen THEN o
                         ELSE [seen |-> o.seen \cup {x}, list |-> Append(o.list, x)],
           w, near)

Started(d) == [seen |-> {d}, list |-> <<d>>]

\* The loop of reaches in dag.c: depth first, with a stack.
RECURSIVE Dfs(_, _, _)
Dfs(kids, w, to) ==
  /\ w.list # <<>>
  /\ LET d == Last(w.list)
     IN  \/ Contains(kids[d], to)
         \/ Dfs(kids, Visit([w EXCEPT !.list = Front(@)], kids[d]), to)

reaches_walk(kids, from, to) == from = to \/ Dfs(kids, Started(from), to)

\* The loop of comp_walk in ugraph.c: breadth first, with a queue that
\* nothing leaves.
RECURSIVE Bfs(_, _, _)
Bfs(near, w, head) ==
  IF head > Len(w.list) THEN w.list ELSE Bfs(near, Visit(w, near[w.list[head]]), head + 1)

\* A faulty variant: the start is not marked.
comp_walkUnmarked(near, d) == Bfs(near, [seen |-> {}, list |-> <<d>>], 1)

comp_walk(near, d) == Bfs(near, Started(d), 1)

\* The loop of dgtopo: a dot is queued when its last parent is taken out.
RECURSIVE Kahn(_, _, _, _)
Kahn(kids, indeg, queue, head) ==
  IF head > Len(queue) THEN queue
  ELSE LET w == FoldLeft(LAMBDA o, k : [indeg |-> [o.indeg EXCEPT ![k] = @ - 1],
                                        queue |-> IF o.indeg[k] = 1 THEN Append(o.queue, k)
                                                  ELSE o.queue],
                         [indeg |-> indeg, queue |-> queue], kids[queue[head]])
       IN  Kahn(kids, w.indeg, w.queue, head + 1)

dgtopo(kids, indeg) ==
  Kahn(kids, indeg, SelectSeq([d \in DOMAIN kids |-> d], LAMBDA d : indeg[d] = 0), 1)

\* The loop of collect_subtree in mtree.c: a stack of nknob places, onto
\* which the kids go without a mark, the first on top.
Overflow == <<>>

RECURSIVE Preorder(_, _, _)
Preorder(kids, stack, xs) ==
  IF stack = <<>> THEN xs
  ELSE LET next == Front(stack) \o Reverse(kids[Last(stack)])
       IN  IF Len(next) > Len(kids) THEN Overflow
           ELSE Preorder(kids, next, Append(xs, Last(stack)))

subtree_walk(kids, k) == Preorder(kids, <<k>>, <<>>)
-----------------------------------------------------------------------------
\* What keeps the ordered stores ordered and fast: the layers of a skiplist
\* hold the pins that are high enough, in one order; in an indeltree no red
\* is below red, and all ways have as many blacks; a retrxtree's nodes,
\* leaves, keys and entries agree after every split and merger.
OrderedSound == K!SkipSound /\ I!IndelRedBlack /\ R!RetrxSound

\* A segheap holds what was put in, in trees with their greatest on top.
SegheapSound == S!SegheapSound

\* An amtrie's entries are in the bucket their hash leads to, where they say;
\* so are a plane's and a space's points in theirs, and their boxes are tight.
TriesSound == A!AmtrieSound /\ P!SparsplaneSound /\ C!SpaceSound

\* Skiplist, indeltree and retrxtree are one thing to a client: entries in
\* the order of their keys, equals in the order they came.
ImplementsOrdered == K!O!Spec /\ I!O!Spec /\ R!O!Spec

\* No operation changes the order of the kids of a knob, and none leaves a
\* move of many points in a space half done.
NothingHalfMoved == [][SiblingsKeepOrder /\ C!BatchesWhole]_nexus

\* dgreaches answers by reachability; dgtopo hands out every dot once and
\* after its parents, or reports a cycle when there is one.
DagSearches ==
  LET kids == [d \in Dot |-> dgkids(d)]
      topo == dgtopo(kids, [d \in Dot |-> Len(ins[d])])
      At(d) == CHOOSE i \in DOMAIN topo : topo[i] = d
  IN  /\ \A a, b \in Dot : reaches_walk(kids, a, b) <=> b \in Reach(Dot, Edges, a)
      /\ Len(topo) = Len(outs) <=> RemainsAcyclic
      /\ RemainsAcyclic =>
           /\ ToSet(topo) = Dot
           /\ \A a \in DOMAIN arcs : At(arcs[a].from) < At(arcs[a].to)

\* A component is what is reached over live arcs either way, and adjacency
\* and degree, counted at either end, are the same.
UgraphSearches ==
  LET near == [d \in UDot |-> Near(d)]
  IN  \A a \in LiveDots :
        /\ ToSet(comp_walk(near, a)) = Reach(UDot, EdgesBothWays, a)
        /\ IsInjective(comp_walk(near, a))
        /\ ugdeg(a) = Len(ugadots(a))
        /\ \A b \in LiveDots : uglinked(a, b) = uglinked(b, a)

\* A subtree is what has the knob above it, each knob once, and its walk
\* never needs more room than there are knobs.
MtreeSearches ==
  LET kids == [k \in Knob |-> mtkids(k)]
  IN  \A k \in LiveKnobs :
        /\ IsInjective(subtree_walk(kids, k))
        /\ ToSet(subtree_walk(kids, k)) = {j \in LiveKnobs : ancestor_live(k, j)}

\* What the searches of these structures find, on their way down, along and
\* around, is what there is.
SearchesExact ==
  CASE used = "dag" -> DagSearches
    [] used = "ugraph" -> UgraphSearches
    [] used = "mtree" -> MtreeSearches
    [] used = "skiplist" -> K!SkipSearches
    [] used = "bitree" -> BitreeSearches
    [] used = "indeltree" -> I!IndelSearches
    [] used = "retrxtree" -> R!RetrxSearches
    [] used = "segheap" -> S!SegheapSearches
    [] used = "amtrie" -> A!AmtrieSearches
    [] used = "lattice" -> IF lt.live THEN Q!LatticeSearches ELSE Q!QuadExact
    [] used = "sparsplane" -> P!SparsplaneSearches
    [] used = "space" -> C!SpaceSearches
    [] OTHER -> TRUE
=============================================================================
