--------------------------- MODULE TopologyProofs ---------------------------
(***************************************************************************)
(* Dags, ugraphs, mtrees, bitrees and lists of any size.  The lists of a   *)
(* dag agree with its arcs, and a dag whose arcs were all searched for     *)
(* cycles has none.  The lists and counts of a ugraph agree with its arcs  *)
(* whatever was deleted; the live knobs of an mtree are a forest that its  *)
(* lists and its arms agree on, whatever was detached, moved or deleted;   *)
(* and what was deleted stays so.  The knods of a bitree stay trees, and a *)
(* rotation keeps the order of their walks.  The knots of list.c form      *)
(* strings, whichever way they are walked, and a bead that is cut or put   *)
(* keeps its order.                                                        *)
(***************************************************************************)
EXTENDS Dag, Ugraph, Mtree, Bitree, List, Integers, FiniteSetTheorems, SequenceTheorems,
        WellFoundedInduction, TLAPS

-----------------------------------------------------------------------------
(* Dags *)

\* What is reached is closed under the edges and holds the start.
LEMMA ReachIsClosed ==
  ASSUME NEW N, NEW E \in SUBSET (N \X N), NEW a \in N
  PROVE  /\ Reach(N, E, a) \in SUBSET N
         /\ a \in Reach(N, E, a)
         /\ Closed(E, Reach(N, E, a))
  <1>1. Reach(N, E, a) \in SUBSET N /\ a \in Reach(N, E, a)
    BY DEF Reach
  <1>2. ASSUME NEW e \in E, e[1] \in Reach(N, E, a) PROVE e[2] \in Reach(N, E, a)
    <2>1. e[2] \in N
      OBVIOUS
    <2>2. ASSUME NEW S \in SUBSET N, a \in S, Closed(E, S) PROVE e[2] \in S
      BY <1>2, <2>2 DEF Reach, Closed
    <2> QED BY <2>1, <2>2 DEF Reach
  <1> QED BY <1>1, <1>2 DEF Closed

\* A closed set that holds the start and not a node shows that the node is
\* not reached.
LEMMA NotReached ==
  ASSUME NEW N, NEW E, NEW S \in SUBSET N, Closed(E, S),
         NEW a \in S, NEW b, b \notin S
  PROVE  b \notin Reach(N, E, a)
  BY DEF Reach

\* An edge whose start its end does not reach closes no cycle.
LEMMA EdgeAdded ==
  ASSUME NEW N, NEW E \in SUBSET (N \X N), NoCycle(N, E),
         NEW f \in N, NEW u \in N, f \notin Reach(N, E, u)
  PROVE  NoCycle(N, E \cup {<<f, u>>})
  <1> DEFINE F == E \cup {<<f, u>>}
             T == Reach(N, E, u)
  <1>1. T \in SUBSET N /\ u \in T /\ Closed(E, T) /\ f \notin T
    BY ReachIsClosed
  <1>2. Closed(F, T)
    BY <1>1 DEF Closed
  <1> HIDE DEF T
  <1>3. f \notin Reach(N, F, u)
    BY <1>1, <1>2, NotReached
  <1>4. ASSUME NEW e \in E PROVE e[1] \notin Reach(N, F, e[2])
    <2> DEFINE S == Reach(N, E, e[2])
    <2>1. e[1] \in N /\ e[2] \in N /\ e = <<e[1], e[2]>>
      OBVIOUS
    <2>2. S \in SUBSET N /\ e[2] \in S /\ Closed(E, S)
      BY <2>1, ReachIsClosed
    <2>3. e[1] \notin S
      BY DEF NoCycle
    <2> HIDE DEF S
    <2>4. CASE f \notin S
      <3>1. Closed(F, S)
        BY <2>2, <2>4 DEF Closed
      <3> QED BY <2>2, <2>3, <3>1, NotReached
    <2>5. CASE f \in S
      <3>1. S \cup T \in SUBSET N /\ e[2] \in S \cup T
        BY <1>1, <2>2
      <3>2. Closed(F, S \cup T)
        BY <1>1, <2>2 DEF Closed
      \* Were e's start below u, so would be its end, and f below that.
      <3>3. e[1] \notin T
        <4> SUFFICES ASSUME e[1] \in T PROVE FALSE
          OBVIOUS
        <4>1. e[2] \in T
          BY <1>1 DEF Closed
        <4>2. f \notin Reach(N, E, e[2])
          BY <1>1, <4>1, NotReached
        <4> QED BY <2>5, <4>2 DEF S
      <3> QED BY <2>3, <3>1, <3>2, <3>3, NotReached
    <2> QED BY <2>4, <2>5
  <1>5. ASSUME NEW e \in F PROVE e[1] \notin Reach(N, F, e[2])
    <2>1. CASE e \in E
      BY <1>4, <2>1
    <2>2. CASE e = <<f, u>>
      BY <1>3, <2>2
    <2> QED BY <1>5, <2>1, <2>2
  <1> QED BY <1>5 DEF NoCycle

\* A node more, with no edge, closes no cycle either.
LEMMA NodeAdded ==
  ASSUME NEW N, NEW M, N \in SUBSET M, NEW E \in SUBSET (N \X N), NoCycle(N, E)
  PROVE  NoCycle(M, E)
  <1>1. ASSUME NEW e \in E PROVE e[1] \notin Reach(M, E, e[2])
    <2> DEFINE S == Reach(N, E, e[2])
    <2>1. e[2] \in N
      OBVIOUS
    <2>2. S \in SUBSET N /\ e[2] \in S /\ Closed(E, S)
      BY <2>1, ReachIsClosed
    <2>3. e[1] \notin S
      BY DEF NoCycle
    <2> HIDE DEF S
    <2> QED BY <2>2, <2>3, NotReached
  <1> QED BY <1>1 DEF NoCycle

-----------------------------------------------------------------------------
DagInv == TypeOK /\ DagSound /\ Acyclic

\* The parts of TypeOK in the form the steps below use them.
LEMMA Shapes ==
  ASSUME TypeOK
  PROVE  /\ Len(arcs) \in Nat /\ DOMAIN arcs = 1..Len(arcs)
         /\ Len(outs) \in Nat /\ Dot = 1..Len(outs) /\ DOMAIN ins = Dot
         /\ \A a \in DOMAIN arcs : /\ arcs[a] \in [from : Dot, to : Dot]
                                   /\ arcs[a].from \in Dot /\ arcs[a].to \in Dot
         /\ \A d \in Dot : outs[d] \in Seq(DOMAIN arcs) /\ ins[d] \in Seq(DOMAIN arcs)
  <1>1. arcs \in Seq([from : Dot, to : Dot])
    BY DEF TypeOK
  <1>2. outs \in Seq(Seq(DOMAIN arcs)) /\ ins \in Seq(Seq(DOMAIN arcs)) /\ Len(ins) = Len(outs)
    BY DEF TypeOK
  <1>3. Len(arcs) \in Nat /\ DOMAIN arcs = 1..Len(arcs)
    BY <1>1
  <1>4. Len(outs) \in Nat /\ Dot = 1..Len(outs) /\ DOMAIN ins = Dot
    BY <1>2 DEF Dot
  <1>5. \A a \in DOMAIN arcs : arcs[a] \in [from : Dot, to : Dot]
    BY <1>1, <1>3, ElementOfSeq
  <1>6. \A d \in Dot : outs[d] \in Seq(DOMAIN arcs) /\ ins[d] \in Seq(DOMAIN arcs)
    BY <1>2, <1>4
  <1> QED BY <1>3, <1>4, <1>5, <1>6

\* What the lists lead along is what the arcs are.
LEMMA StepsAreEdges ==
  ASSUME TypeOK, DagSound
  PROVE  Steps = Edges /\ Edges \in SUBSET (Dot \X Dot)
  <1>1. \A d \in Dot : {outs[d][i] : i \in DOMAIN outs[d]} = {a \in DOMAIN arcs : arcs[a].from = d}
    BY DEF DagSound, Lists
  <1>2. ASSUME NEW d \in Dot, NEW i \in DOMAIN outs[d]
        PROVE  <<d, dgkids(d)[i]>> \in Edges
    <2>1. outs[d][i] \in DOMAIN arcs /\ arcs[outs[d][i]].from = d
      BY <1>1
    <2> QED BY <2>1 DEF Edges, dgkids
  <1>3. ASSUME NEW a \in DOMAIN arcs
        PROVE  <<arcs[a].from, arcs[a].to>> \in Steps
    <2> DEFINE d == arcs[a].from
    <2>1. d \in Dot
      BY Shapes
    <2>2. PICK i \in DOMAIN outs[d] : outs[d][i] = a
      BY <1>1, <2>1
    <2> QED BY <2>1, <2>2 DEF Steps, dgkids
  <1>4. Edges \in SUBSET (Dot \X Dot)
    BY Shapes DEF Edges
  <1> QED BY <1>2, <1>3, <1>4 DEF Steps, Edges

\* An id put at the end of a list that does not hold it.
LEMMA ArcAppended ==
  ASSUME NEW S, NEW list \in Seq(S), NEW ends, Lists(list, ends), NEW a, a \notin ends
  PROVE  Lists(Append(list, a), ends \cup {a})
  <1> DEFINE new == Append(list, a)
  <1>1. /\ Len(list) \in Nat /\ DOMAIN list = 1..Len(list)
        /\ DOMAIN new = 1..(Len(list) + 1) /\ new[Len(list) + 1] = a
        /\ \A i \in 1..Len(list) : new[i] = list[i]
    OBVIOUS
  <1> HIDE DEF new
  <1>2. \A i \in DOMAIN new : i \in DOMAIN list \/ i = Len(list) + 1
    BY <1>1
  <1>3. \A i \in DOMAIN list : i \in DOMAIN new /\ new[i] = list[i] /\ list[i] # a
    BY <1>1 DEF Lists
  <1>4. Len(list) + 1 \in DOMAIN new
    BY <1>1
  <1>5. {new[i] : i \in DOMAIN new} = ends \cup {a}
    BY <1>1, <1>2, <1>3, <1>4 DEF Lists
  <1>6. \A i, j \in DOMAIN new : new[i] = new[j] => i = j
    BY <1>1, <1>2, <1>3 DEF Lists
  <1> QED BY <1>5, <1>6 DEF Lists, new

\* A dot's list that gets an arc is a list of arcs.
LEMMA ListedOne ==
  ASSUME NEW S, NEW a, NEW lists \in Seq(Seq(S)), NEW d \in DOMAIN lists
  PROVE  /\ Listed(lists, d, a) \in Seq(Seq(S \cup {a}))
         /\ Len(Listed(lists, d, a)) = Len(lists)
  <1> DEFINE T == S \cup {a}
  <1>1. /\ DOMAIN lists = 1..Len(lists)
        /\ Seq(S) \subseteq Seq(T)
    <2>1. ASSUME NEW s \in Seq(S) PROVE s \in Seq(T)
      BY SeqMonotonic
    <2> QED BY <2>1
  <1>2. lists \in Seq(Seq(T))
    <2> HIDE DEF T
    <2> QED BY <1>1, SeqMonotonic
  <1>3. lists[d] \in Seq(T) /\ a \in T
    <2> HIDE DEF T
    <2>1. lists[d] \in Seq(T)
      BY <1>1, <1>2, ElementOfSeq
    <2> QED BY <2>1 DEF T
  <1>4. Append(lists[d], a) \in Seq(T)
    BY <1>3
  <1> HIDE DEF T
  <1>5. /\ Listed(lists, d, a) \in Seq(Seq(T))
        /\ Len(Listed(lists, d, a)) = Len(lists)
    BY <1>1, <1>2, <1>4, ExceptSeq DEF Listed
  <1> QED BY <1>5 DEF T

\* An arc that was not there gets into the lists of its two ends.
LEMMA InsertKeeps ==
  ASSUME TypeOK, DagSound, NEW from \in Dot, NEW to \in Dot,
         findarc(from, to) = {}, insert(from, to), searched' \in BOOLEAN
  PROVE  /\ TypeOK' /\ DagSound'
         /\ Dot' = Dot /\ Edges' = Edges \cup {<<from, to>>}
  <1> DEFINE n == Len(arcs) + 1
             arc == [from |-> from, to |-> to]
  <1>1. /\ Len(arcs) \in Nat /\ DOMAIN arcs = 1..Len(arcs) /\ n \notin DOMAIN arcs
        /\ arcs \in Seq([from : Dot, to : Dot])
        /\ Dot = DOMAIN outs /\ DOMAIN ins = Dot
        /\ outs \in Seq(Seq(DOMAIN arcs)) /\ ins \in Seq(Seq(DOMAIN arcs))
    BY Shapes DEF TypeOK, Dot
  <1>2. arcs' = Append(arcs, arc) /\ outs' = Listed(outs, from, n) /\ ins' = Listed(ins, to, n)
    BY DEF insert
  <1>3. arc \in [from : Dot, to : Dot] /\ arc.from = from /\ arc.to = to
    OBVIOUS
  <1> HIDE DEF arc
  <1>4. /\ arcs' \in Seq([from : Dot, to : Dot]) /\ DOMAIN arcs' = DOMAIN arcs \cup {n}
        /\ arcs'[n] = arc /\ \A a \in DOMAIN arcs : arcs'[a] = arcs[a]
    BY <1>1, <1>2, <1>3
  <1> HIDE DEF n
  <1>5. /\ outs' \in Seq(Seq(DOMAIN arcs')) /\ DOMAIN outs' = Dot
        /\ \A d \in Dot : outs'[d] = IF d = from THEN Append(outs[d], n) ELSE outs[d]
        /\ Len(outs') = Len(outs)
    <2> DEFINE S == DOMAIN arcs
    <2>1. from \in DOMAIN outs /\ outs \in Seq(Seq(S))
      BY <1>1
    <2> HIDE DEF S
    <2>2. /\ Listed(outs, from, n) \in Seq(Seq(S \cup {n}))
          /\ Len(Listed(outs, from, n)) = Len(outs)
      <3>1. \A x \in Seq(Seq(S)) : \A d \in DOMAIN x :
              /\ Listed(x, d, n) \in Seq(Seq(S \cup {n}))
              /\ Len(Listed(x, d, n)) = Len(x)
        BY ListedOne
      <3> QED BY <2>1, <3>1
    <2>3. /\ DOMAIN Listed(outs, from, n) = DOMAIN outs
          /\ \A d \in DOMAIN outs :
               Listed(outs, from, n)[d] = IF d = from THEN Append(outs[d], n) ELSE outs[d]
      BY DEF Listed
    <2> QED BY <1>1, <1>2, <1>4, <2>2, <2>3 DEF S
  <1>6. /\ ins' \in Seq(Seq(DOMAIN arcs'))
        /\ \A d \in Dot : ins'[d] = IF d = to THEN Append(ins[d], n) ELSE ins[d]
        /\ Len(ins') = Len(ins)
    <2> DEFINE S == DOMAIN arcs
    <2>1. to \in DOMAIN ins /\ ins \in Seq(Seq(S))
      BY <1>1
    <2> HIDE DEF S
    <2>2. /\ Listed(ins, to, n) \in Seq(Seq(S \cup {n}))
          /\ Len(Listed(ins, to, n)) = Len(ins)
      <3>1. \A x \in Seq(Seq(S)) : \A d \in DOMAIN x :
              /\ Listed(x, d, n) \in Seq(Seq(S \cup {n}))
              /\ Len(Listed(x, d, n)) = Len(x)
        BY ListedOne
      <3> QED BY <2>1, <3>1
    <2>3. /\ DOMAIN Listed(ins, to, n) = DOMAIN ins
          /\ \A d \in DOMAIN ins :
               Listed(ins, to, n)[d] = IF d = to THEN Append(ins[d], n) ELSE ins[d]
      BY DEF Listed
    <2> QED BY <1>1, <1>2, <1>4, <2>2, <2>3 DEF S
  <1>7. Dot' = Dot
    BY <1>5 DEF Dot
  <1>8. TypeOK'
    BY <1>4, <1>5, <1>6, <1>7 DEF TypeOK, insert
  <1>9. Edges' = Edges \cup {<<from, to>>}
    BY <1>3, <1>4 DEF Edges
  <1>10. \A a \in DOMAIN arcs : ~(arcs[a].from = from /\ arcs[a].to = to)
    <2> SUFFICES ASSUME NEW a \in DOMAIN arcs, arcs[a].from = from, arcs[a].to = to
                 PROVE  FALSE
      OBVIOUS
    <2>1. PICK i \in DOMAIN outs[from] : outs[from][i] = a
      BY DEF DagSound, Lists
    <2> QED BY <2>1 DEF findarc
  <1>11. \A a, b \in DOMAIN arcs' :
           arcs'[a].from = arcs'[b].from /\ arcs'[a].to = arcs'[b].to => a = b
    BY <1>3, <1>4, <1>10 DEF DagSound, IsArc
  <1>12. ASSUME NEW d \in Dot
         PROVE  /\ Lists(outs'[d], {a \in DOMAIN arcs' : arcs'[a].from = d})
                /\ Lists(ins'[d], {a \in DOMAIN arcs' : arcs'[a].to = d})
    <2> DEFINE leaving == {a \in DOMAIN arcs : arcs[a].from = d}
               entering == {a \in DOMAIN arcs : arcs[a].to = d}
    <2>1. /\ Lists(outs[d], leaving) /\ n \notin leaving /\ outs[d] \in Seq(DOMAIN arcs)
          /\ Lists(ins[d], entering) /\ n \notin entering /\ ins[d] \in Seq(DOMAIN arcs)
      BY <1>1, Shapes DEF DagSound
    <2>2. {a \in DOMAIN arcs' : arcs'[a].from = d} = IF d = from THEN leaving \cup {n} ELSE leaving
      BY <1>1, <1>3, <1>4
    <2>3. {a \in DOMAIN arcs' : arcs'[a].to = d} = IF d = to THEN entering \cup {n} ELSE entering
      BY <1>1, <1>3, <1>4
    <2> HIDE DEF leaving, entering
    <2>4. Lists(outs'[d], IF d = from THEN leaving \cup {n} ELSE leaving)
      <3>1. CASE d = from
        <4>1. outs'[d] = Append(outs[d], n)
          BY <1>5, <3>1
        <4> QED BY <2>1, <3>1, <4>1, ArcAppended
      <3>2. CASE d # from
        BY <1>5, <2>1, <3>2
      <3> QED BY <3>1, <3>2
    <2>5. Lists(ins'[d], IF d = to THEN entering \cup {n} ELSE entering)
      <3>1. CASE d = to
        <4>1. ins'[d] = Append(ins[d], n)
          BY <1>6, <3>1
        <4> QED BY <2>1, <3>1, <4>1, ArcAppended
      <3>2. CASE d # to
        BY <1>6, <2>1, <3>2
      <3> QED BY <3>1, <3>2
    <2> QED BY <2>2, <2>3, <2>4, <2>5
  <1>13. DagSound'
    BY <1>7, <1>11, <1>12 DEF DagSound, IsArc
  <1> QED BY <1>7, <1>8, <1>9, <1>13

-----------------------------------------------------------------------------
\* A dot comes with two empty lists.
LEMMA DagDotKeeps ==
  ASSUME DagInv, dgdot
  PROVE  DagInv'
  <1>1. /\ outs' = Append(outs, <<>>) /\ ins' = Append(ins, <<>>)
        /\ arcs' = arcs /\ live' = live /\ searched' = searched
    BY DEF dgdot
  <1>2. /\ Len(outs) \in Nat /\ Dot = 1..Len(outs) /\ DOMAIN ins = Dot /\ Len(ins) = Len(outs)
        /\ outs \in Seq(Seq(DOMAIN arcs)) /\ ins \in Seq(Seq(DOMAIN arcs))
        /\ arcs \in Seq([from : Dot, to : Dot]) /\ TypeOK /\ DagSound
    BY Shapes DEF DagInv, TypeOK
  <1> DEFINE n == Len(outs) + 1
  <1>3. n \notin Dot /\ Dot' = Dot \cup {n}
    BY <1>1, <1>2 DEF Dot
  <1>4. /\ outs' \in Seq(Seq(DOMAIN arcs)) /\ ins' \in Seq(Seq(DOMAIN arcs))
        /\ Len(ins') = Len(outs')
        /\ outs'[n] = <<>> /\ \A d \in Dot : outs'[d] = outs[d]
        /\ ins'[n] = <<>> /\ \A d \in Dot : ins'[d] = ins[d]
    BY <1>1, <1>2
  <1> HIDE DEF n
  <1>5. arcs' \in Seq([from : Dot', to : Dot'])
    <2> DEFINE A == [from : Dot, to : Dot]
               B == [from : Dot', to : Dot']
    <2>1. A \subseteq B /\ arcs \in Seq(A)
      BY <1>2, <1>3
    <2> HIDE DEF A, B
    <2>2. arcs \in Seq(B)
      BY <2>1, SeqMonotonic
    <2> QED BY <1>1, <2>2 DEF B
  <1>6. TypeOK'
    BY <1>1, <1>2, <1>4, <1>5 DEF TypeOK
  <1>7. \A a \in DOMAIN arcs : arcs[a].from \in Dot /\ arcs[a].to \in Dot
    BY <1>2, Shapes
  <1>8. ASSUME NEW d \in Dot'
        PROVE  /\ Lists(outs'[d], {a \in DOMAIN arcs' : arcs'[a].from = d})
               /\ Lists(ins'[d], {a \in DOMAIN arcs' : arcs'[a].to = d})
    <2>1. CASE d \in Dot
      BY <1>1, <1>2, <1>4, <2>1 DEF DagSound
    <2>2. CASE d = n
      <3>1. /\ {a \in DOMAIN arcs' : arcs'[a].from = d} = {}
            /\ {a \in DOMAIN arcs' : arcs'[a].to = d} = {}
        BY <1>1, <1>3, <1>7, <2>2
      <3>2. Lists(<<>>, {})
        BY DEF Lists
      <3> QED BY <1>4, <2>2, <3>1, <3>2
    <2> QED BY <1>3, <2>1, <2>2
  <1>9. DagSound'
    BY <1>1, <1>2, <1>8 DEF DagSound, IsArc
  <1>10. Edges' = Edges /\ Edges \in SUBSET (Dot \X Dot)
    BY <1>1, <1>2, StepsAreEdges DEF Edges
  <1>11. Acyclic'
    <2>1. Dot \in SUBSET Dot'
      BY <1>3
    <2>2. NoCycle(Dot, Edges) => NoCycle(Dot', Edges)
      BY <1>10, <2>1, NodeAdded
    <2> QED BY <1>1, <1>10, <2>2 DEF DagInv, Acyclic
  <1> QED BY <1>6, <1>9, <1>11 DEF DagInv

\* Every step keeps the invariant.
LEMMA StepKeeps ==
  ASSUME DagInv, [Next]_vars
  PROVE  DagInv'
  <1>1. CASE mkdag
    <2>1. /\ arcs' = arcs /\ outs' = outs /\ ins' = ins /\ searched' = searched /\ live' \in BOOLEAN
      BY <1>1 DEF mkdag
    <2> QED BY <2>1 DEF DagInv, TypeOK, DagSound, Acyclic, Edges, Dot, IsArc
  <1>2. CASE rmdag
    <2>1. /\ arcs' = <<>> /\ outs' = <<>> /\ ins' = <<>>
          /\ searched' \in BOOLEAN /\ live' \in BOOLEAN
      BY <1>2 DEF rmdag
    <2>2. TypeOK'
      BY <2>1 DEF TypeOK, Dot
    <2>3. DagSound' /\ Acyclic'
      BY <2>1 DEF DagSound, Acyclic, NoCycle, Edges, Dot
    <2> QED BY <2>2, <2>3 DEF DagInv
  <1>3. CASE dgdot
    BY <1>3, DagDotKeeps
  <1>4. ASSUME NEW from \in Dot, NEW to \in Dot, dgarc(from, to)
        PROVE  DagInv'
    <2>1. /\ findarc(from, to) = {} /\ insert(from, to) /\ searched' = searched
          /\ ~reaches(to, from) /\ searched \in BOOLEAN /\ TypeOK /\ DagSound
      BY <1>4 DEF dgarc, DagInv, TypeOK
    <2>2. TypeOK' /\ DagSound' /\ Dot' = Dot /\ Edges' = Edges \cup {<<from, to>>}
      BY <2>1, InsertKeeps
    <2>3. Edges \in SUBSET (Dot \X Dot) /\ from \notin Reach(Dot, Edges, to)
      BY <2>1, StepsAreEdges DEF reaches
    <2>4. NoCycle(Dot, Edges) => NoCycle(Dot, Edges \cup {<<from, to>>})
      BY <2>3, EdgeAdded
    <2> QED BY <2>1, <2>2, <2>4 DEF DagInv, Acyclic
  <1>5. ASSUME NEW from \in Dot, NEW to \in Dot, dgarcUnsearched(from, to)
        PROVE  DagInv'
    <2>1. findarc(from, to) = {} /\ insert(from, to) /\ searched' = FALSE /\ TypeOK /\ DagSound
      BY <1>5 DEF dgarcUnsearched, DagInv
    <2>2. TypeOK' /\ DagSound'
      BY <2>1, InsertKeeps
    <2> QED BY <2>1, <2>2 DEF DagInv, Acyclic
  <1>6. CASE UNCHANGED vars
    BY <1>6 DEF vars, DagInv, TypeOK, DagSound, Acyclic, Edges, Dot, IsArc
  <1> QED BY <1>1, <1>2, <1>3, <1>4, <1>5, <1>6 DEF Next

\* The invariant holds at the start.
LEMMA DagInit == Init => DagInv
  <1> SUFFICES ASSUME Init PROVE DagInv
    OBVIOUS
  <1>1. TypeOK
    <2>1. /\ live \in BOOLEAN /\ searched \in BOOLEAN
          /\ outs = <<>> /\ ins = <<>> /\ arcs = <<>>
      BY DEF Init
    <2> QED BY <2>1 DEF TypeOK, Dot
  <1>2. DagSound /\ Acyclic
    BY DEF Init, DagSound, Acyclic, NoCycle, Edges, Dot
  <1> QED BY <1>1, <1>2 DEF DagInv

\* Every step from every state of a dag keeps the invariant.
LEMMA DagInvariance == Spec => []DagInv
  BY DagInit, StepKeeps, PTL DEF Spec

\* The lists and arcs of a dag keep their shape (dag.c).
THEOREM DagTypes == Spec => []TypeOK
  <1>1. DagInv => TypeOK
    BY DEF DagInv
  <1> QED BY <1>1, DagInvariance, PTL

\* A dag of any size lists every arc at both its ends, once, and holds no
\* two arcs between the same dots (dgarc, findarc).
THEOREM ListsSound == Spec => []DagSound
  <1>1. DagInv => DagSound
    BY DEF DagInv
  <1> QED BY <1>1, DagInvariance, PTL

\* "Every live dag remains acyclic" (nexus.h:8): whatever the order in which
\* arcs come, if each was searched for a cycle there is none.
THEOREM StaysAcyclic == Spec => []Acyclic
  <1>1. DagInv => Acyclic
    BY DEF DagInv
  <1> QED BY <1>1, DagInvariance, PTL

-----------------------------------------------------------------------------
\* A function on the places of a list is a list.
LEMMA FnIsSeq ==
  ASSUME NEW S, NEW n \in Nat, NEW h \in [1..n -> S] PROVE h \in Seq(S)
  BY SeqDef, SMTT(30)

-----------------------------------------------------------------------------
(* Ugraphs *)

DotRec == [arcs : Seq(Nat), live : BOOLEAN]
ArcRec == [a : Nat, b : Nat, live : BOOLEAN]

GraphType ==
  [live : BOOLEAN, dots : Seq(DotRec), nldot : Nat, arcs : Seq(ArcRec), nlarc : Nat]

UgraphTypes ==
  /\ g \in GraphType
  /\ \A a \in DOMAIN g.arcs : g.arcs[a].a \in UDot /\ g.arcs[a].b \in UDot

\* What UgraphSound says of one list: it holds each of the arcs once.
Listing(list, ends) == IsInjective(list) /\ ToSet(list) = ends

EndingAt(arc, d) == {a \in DOMAIN arc : d \in {arc[a].a, arc[a].b}}

\* The inductive invariant: dead arcs too have their ends among the dots.
UgraphInv == UgraphTypes /\ UgraphSound

\* The parts of the types in the form the steps below use them.
LEMMA UgraphShapes ==
  ASSUME UgraphTypes
  PROVE  /\ g.dots \in Seq(DotRec) /\ g.arcs \in Seq(ArcRec) /\ g.live \in BOOLEAN
         /\ g.nldot \in Nat /\ g.nlarc \in Nat
         /\ Len(g.dots) \in Nat /\ UDot = 1..Len(g.dots)
         /\ Len(g.arcs) \in Nat /\ DOMAIN g.arcs = 1..Len(g.arcs)
         /\ \A d \in UDot : /\ g.dots[d] \in DotRec /\ g.dots[d].arcs \in Seq(Nat)
                            /\ g.dots[d].live \in BOOLEAN
         /\ \A a \in DOMAIN g.arcs : /\ g.arcs[a] \in ArcRec /\ g.arcs[a].live \in BOOLEAN
                                     /\ g.arcs[a].a \in UDot /\ g.arcs[a].b \in UDot
         /\ IsFiniteSet(LiveDots) /\ IsFiniteSet(LiveArcs)
  <1>1. /\ g.dots \in Seq(DotRec) /\ g.arcs \in Seq(ArcRec) /\ g.live \in BOOLEAN
        /\ g.nldot \in Nat /\ g.nlarc \in Nat
    BY DEF UgraphTypes, GraphType
  <1>2. Len(g.dots) \in Nat /\ UDot = 1..Len(g.dots)
    BY <1>1, LenProperties DEF UDot
  <1>3. Len(g.arcs) \in Nat /\ DOMAIN g.arcs = 1..Len(g.arcs)
    BY <1>1, LenProperties
  <1>4. ASSUME NEW d \in UDot
        PROVE  g.dots[d] \in DotRec /\ g.dots[d].arcs \in Seq(Nat) /\ g.dots[d].live \in BOOLEAN
    <2>1. g.dots[d] \in DotRec
      BY <1>1, <1>2, ElementOfSeq
    <2> QED BY <2>1 DEF DotRec
  <1>5. ASSUME NEW a \in DOMAIN g.arcs
        PROVE  /\ g.arcs[a] \in ArcRec /\ g.arcs[a].live \in BOOLEAN
               /\ g.arcs[a].a \in UDot /\ g.arcs[a].b \in UDot
    <2>1. g.arcs[a] \in ArcRec
      BY <1>1, <1>3, ElementOfSeq
    <2> QED BY <2>1 DEF ArcRec, UgraphTypes
  <1>6. LiveDots \in SUBSET (1..Len(g.dots)) /\ LiveArcs \in SUBSET (1..Len(g.arcs))
    BY <1>2, <1>3 DEF LiveDots, LiveArcs
  <1>7. IsFiniteSet(LiveDots) /\ IsFiniteSet(LiveArcs)
    <2>1. IsFiniteSet(1..Len(g.dots)) /\ IsFiniteSet(1..Len(g.arcs))
      BY <1>2, <1>3, FS_Interval
    <2> QED BY <1>6, <2>1, FS_Subset
  <1> QED BY <1>1, <1>2, <1>3, <1>4, <1>5, <1>7

\* UgraphSound, said of each list.
LEMMA SoundLists ==
  UgraphSound <=>
    /\ g.nldot = Cardinality(LiveDots) /\ g.nlarc = Cardinality(LiveArcs)
    /\ \A a \in LiveArcs : g.arcs[a].a \in LiveDots /\ g.arcs[a].b \in LiveDots
    /\ \A d \in UDot : Listing(g.dots[d].arcs, EndingAt(g.arcs, d))
  BY DEF UgraphSound, Listing, EndingAt

\* An id put at the end of a list that does not hold it.
LEMMA ListAppended ==
  ASSUME NEW list \in Seq(Nat), NEW ends, Listing(list, ends), NEW a \in Nat, a \notin ends
  PROVE  Append(list, a) \in Seq(Nat) /\ Listing(Append(list, a), ends \cup {a})
  <1> DEFINE new == Append(list, a)
  <1>1. /\ Len(list) \in Nat /\ DOMAIN list = 1..Len(list) /\ new \in Seq(Nat)
        /\ DOMAIN new = 1..(Len(list) + 1) /\ new[Len(list) + 1] = a
        /\ \A i \in 1..Len(list) : new[i] = list[i]
    BY LenProperties, AppendProperties
  <1> HIDE DEF new
  <1>2. \A i \in DOMAIN new : i \in DOMAIN list \/ i = Len(list) + 1
    BY <1>1
  <1>3. \A i \in DOMAIN list : i \in DOMAIN new /\ new[i] = list[i] /\ list[i] # a
    BY <1>1 DEF Listing, ToSet
  <1>4. Len(list) + 1 \in DOMAIN new
    BY <1>1
  <1>5. ToSet(new) = ends \cup {a}
    BY <1>1, <1>2, <1>3, <1>4 DEF Listing, ToSet
  <1>6. IsInjective(new)
    BY <1>1, <1>2, <1>3 DEF Listing, IsInjective
  <1> QED BY <1>1, <1>5, <1>6 DEF Listing, new

\* What was appended last goes first.
LEMMA FrontOfAppend ==
  ASSUME NEW S, NEW s \in Seq(S), NEW e \in S
  PROVE  Front(Append(s, e)) = s
  <1>1. Append(s, e) \in Seq(S) /\ Len(Append(s, e)) = Len(s) + 1 /\ Len(s) \in Nat
    BY AppendProperties, LenProperties
  <1>2. Front(Append(s, e)) = SubSeq(Append(s, e), 1, Len(s))
    BY <1>1 DEF Front
  <1> QED BY <1>1, <1>2

-----------------------------------------------------------------------------
(* Deleting *)

\* delarc_live for each of some arcs: they are dead, the rest is as it was,
\* and the count is that of the arcs still alive.
ThinnedLists(w, dead) ==
  /\ w \in GraphType
  /\ w.live = g.live /\ w.dots = g.dots /\ w.nldot = g.nldot
  /\ DOMAIN w.arcs = DOMAIN g.arcs
  /\ \A a \in DOMAIN g.arcs : /\ w.arcs[a].a = g.arcs[a].a /\ w.arcs[a].b = g.arcs[a].b
                              /\ w.arcs[a].live <=> g.arcs[a].live /\ a \notin dead
                              /\ w.arcs[a] \in {g.arcs[a], [g.arcs[a] EXCEPT !.live = FALSE]}
  /\ w.nlarc = Cardinality(LiveArcs \ dead)

LEMMA WithoutShape ==
  ASSUME UgraphTypes, UgraphSound, NEW dead, dead \subseteq DOMAIN g.arcs
  PROVE  ThinnedLists(Without(g, dead), dead)
  <1> DEFINE w == Without(g, dead)
             new == [a \in DOMAIN g.arcs |-> [g.arcs[a] EXCEPT !.live = g.arcs[a].live /\ a \notin dead]]
             ended == {a \in dead : g.arcs[a].live}
             n == g.nlarc - Cardinality(ended)
  <1>1. g \in GraphType
    BY DEF UgraphTypes, GraphType
  <1>2. w = [g EXCEPT !.arcs = new, !.nlarc = n]
    BY DEF Without
  <1>3. \A a \in DOMAIN g.arcs : /\ new[a] \in ArcRec
                                 /\ new[a].a = g.arcs[a].a /\ new[a].b = g.arcs[a].b
                                 /\ new[a].live = (g.arcs[a].live /\ a \notin dead)
    BY UgraphShapes DEF ArcRec
  <1>4. new \in Seq(ArcRec) /\ DOMAIN new = DOMAIN g.arcs
    <2>1. new \in [1..Len(g.arcs) -> ArcRec] /\ Len(g.arcs) \in Nat
      BY <1>3, UgraphShapes
    <2>2. PICK l \in Nat : l = Len(g.arcs)
      BY <2>1
    <2>3. PICK h \in [1..l -> ArcRec] : h = new
      BY <2>1, <2>2
    <2>4. h \in Seq(ArcRec)
      BY FnIsSeq
    <2> QED BY <2>3, <2>4
  <1>5. n = Cardinality(LiveArcs \ dead) /\ n \in Nat
    <2>1. ended = LiveArcs \cap dead
      BY DEF LiveArcs
    <2>2. Cardinality(LiveArcs \ dead) = Cardinality(LiveArcs) - Cardinality(LiveArcs \cap dead)
      BY UgraphShapes, FS_Difference
    <2>3. IsFiniteSet(LiveArcs \ dead) /\ Cardinality(LiveArcs \ dead) \in Nat
      BY UgraphShapes, FS_Difference, FS_CardinalityType
    <2> QED BY <2>1, <2>2, <2>3 DEF UgraphSound
  <1>6. ASSUME NEW a \in DOMAIN g.arcs
        PROVE  new[a] \in {g.arcs[a], [g.arcs[a] EXCEPT !.live = FALSE]}
    <2>1. g.arcs[a] \in ArcRec /\ g.arcs[a].live \in BOOLEAN
      BY UgraphShapes
    <2>2. new[a] = [g.arcs[a] EXCEPT !.live = g.arcs[a].live /\ a \notin dead]
      OBVIOUS
    <2>3. CASE g.arcs[a].live /\ a \notin dead
      BY <2>1, <2>2, <2>3 DEF ArcRec
    <2>4. CASE ~(g.arcs[a].live /\ a \notin dead)
      BY <2>1, <2>2, <2>4 DEF ArcRec
    <2> QED BY <2>3, <2>4
  <1> HIDE DEF new, n
  <1>7. /\ w \in GraphType
        /\ w.live = g.live /\ w.dots = g.dots /\ w.nldot = g.nldot /\ w.arcs = new /\ w.nlarc = n
    BY <1>1, <1>2, <1>4, <1>5 DEF GraphType
  <1> QED BY <1>3, <1>4, <1>5, <1>6, <1>7 DEF ThinnedLists, w

\* What a deletion leaves: the same lists and ends, fewer live dots and arcs,
\* and no live arc that ends at a dead dot.
LEMMA FewerKeeps ==
  ASSUME UgraphInv,
         g' \in GraphType,
         UDot' = UDot, DOMAIN g'.arcs = DOMAIN g.arcs,
         \A d \in UDot : g'.dots[d].arcs = g.dots[d].arcs,
         \A a \in DOMAIN g.arcs : g'.arcs[a].a = g.arcs[a].a /\ g'.arcs[a].b = g.arcs[a].b,
         g'.nldot = Cardinality(LiveDots'), g'.nlarc = Cardinality(LiveArcs'),
         LiveArcs' \subseteq LiveArcs,
         \A a \in LiveArcs' : g.arcs[a].a \in LiveDots' /\ g.arcs[a].b \in LiveDots'
  PROVE  UgraphInv'
  <1>1. UgraphTypes'
    BY DEF UgraphInv, UgraphTypes
  <1>2. \A a \in LiveArcs' : a \in DOMAIN g.arcs
    BY DEF LiveArcs
  <1>3. \A a \in LiveArcs' : g'.arcs[a].a \in LiveDots' /\ g'.arcs[a].b \in LiveDots'
    BY <1>2
  <1>4. ASSUME NEW d \in UDot' PROVE Listing(g'.dots[d].arcs, EndingAt(g'.arcs, d))
    <2>1. EndingAt(g'.arcs, d) = EndingAt(g.arcs, d)
      BY DEF EndingAt
    <2> QED BY <2>1, SoundLists DEF UgraphInv
  <1>5. UgraphSound'
    BY <1>3, <1>4 DEF UgraphSound, Listing, EndingAt
  <1> QED BY <1>1, <1>5 DEF UgraphInv

LEMMA DelarcKeeps == ASSUME UgraphInv, NEW a, ugdelarc(a) PROVE UgraphInv' /\ UgraphIdsKept
  <1> DEFINE w == Without(g, {a})
  <1>1. a \in DOMAIN g.arcs /\ g' = w
    BY DEF ugdelarc, LiveArcs
  <1>2. ThinnedLists(w, {a})
    BY <1>1, WithoutShape DEF UgraphInv
  <1> HIDE DEF w
  <1>3. UDot' = UDot /\ LiveDots' = LiveDots
    BY <1>1, <1>2 DEF UDot, LiveDots, ThinnedLists
  <1>4. LiveArcs' = LiveArcs \ {a}
    BY <1>1, <1>2 DEF LiveArcs, ThinnedLists
  <1>5. UgraphInv'
    BY <1>1, <1>2, <1>3, <1>4, FewerKeeps, SoundLists DEF UgraphInv, ThinnedLists
  <1>6. \A e \in DOMAIN g.arcs : g'.arcs[e] \in {g.arcs[e], [g.arcs[e] EXCEPT !.live = FALSE]}
    BY <1>1, <1>2 DEF ThinnedLists
  <1>7. UgraphIdsKept
    BY <1>1, <1>2, <1>6 DEF UgraphIdsKept, UDot, ThinnedLists
  <1> QED BY <1>5, <1>7

LEMMA DeldotKeeps == ASSUME UgraphInv, NEW d, ugdeldot(d) PROVE UgraphInv' /\ UgraphIdsKept
  <1>0. PICK dead, w : dead = ToSet(g.dots[d].arcs) /\ w = Without(g, dead)
    OBVIOUS
  <1> DEFINE rec == [g.dots[d] EXCEPT !.live = FALSE]
             ds == [g.dots EXCEPT ![d] = rec]
  <1>1. /\ d \in UDot /\ g.dots[d].live /\ d \in LiveDots
        /\ g' = [w EXCEPT !.dots[d].live = FALSE, !.nldot = @ - 1]
    BY <1>0 DEF ugdeldot, LiveDots
  <1>2. dead = EndingAt(g.arcs, d) /\ dead \subseteq DOMAIN g.arcs
    BY <1>0, <1>1, SoundLists DEF UgraphInv, Listing, EndingAt
  <1>3. ThinnedLists(w, dead)
    BY <1>0, <1>2, WithoutShape DEF UgraphInv
  <1>4. rec \in DotRec /\ rec.arcs = g.dots[d].arcs /\ rec.live = FALSE
    <2>1. g.dots[d] \in DotRec
      BY <1>1, UgraphShapes DEF UgraphInv
    <2> QED BY <2>1 DEF DotRec
  <1> HIDE DEF rec
  <1>5. /\ ds \in Seq(DotRec) /\ DOMAIN ds = UDot /\ ds[d] = rec
        /\ \A e \in UDot \ {d} : ds[e] = g.dots[e]
    BY <1>1, <1>4, UgraphShapes, ExceptSeq DEF UgraphInv, UDot
  <1>6. g' = [w EXCEPT !.dots = ds, !.nldot = w.nldot - 1]
    BY <1>1, <1>3 DEF rec, ThinnedLists, GraphType
  <1> HIDE DEF ds
  <1>7. g.nldot - 1 = Cardinality(LiveDots \ {d}) /\ g.nldot - 1 \in Nat
    <2>1. IsFiniteSet(LiveDots) /\ g.nldot = Cardinality(LiveDots)
      BY UgraphShapes, SoundLists DEF UgraphInv
    <2>2. Cardinality(LiveDots \ {d}) = Cardinality(LiveDots) - 1 /\ IsFiniteSet(LiveDots \ {d})
      BY <1>1, <2>1, FS_RemoveElement
    <2>3. Cardinality(LiveDots \ {d}) \in Nat
      BY <2>2, FS_CardinalityType
    <2> QED BY <2>1, <2>2, <2>3
  <1>8. /\ g' \in GraphType
        /\ g'.live = w.live /\ g'.arcs = w.arcs /\ g'.nlarc = w.nlarc
        /\ g'.dots = ds /\ g'.nldot = g.nldot - 1
    BY <1>3, <1>5, <1>6, <1>7 DEF ThinnedLists, GraphType
  <1>9. UDot' = UDot /\ LiveDots' = LiveDots \ {d}
    BY <1>4, <1>5, <1>8 DEF UDot, LiveDots
  <1>10. LiveArcs' = LiveArcs \ dead
    BY <1>3, <1>8 DEF LiveArcs, ThinnedLists
  <1>11. ASSUME NEW a \in LiveArcs'
         PROVE  g.arcs[a].a \in LiveDots' /\ g.arcs[a].b \in LiveDots'
    <2>1. a \in LiveArcs /\ a \notin EndingAt(g.arcs, d) /\ a \in DOMAIN g.arcs
      BY <1>2, <1>10 DEF LiveArcs
    <2>2. g.arcs[a].a \in LiveDots /\ g.arcs[a].b \in LiveDots
      BY <2>1, SoundLists DEF UgraphInv
    <2>3. g.arcs[a].a # d /\ g.arcs[a].b # d
      BY <2>1 DEF EndingAt
    <2> QED BY <1>9, <2>2, <2>3
  <1>12. \A e \in UDot : g'.dots[e].arcs = g.dots[e].arcs
    BY <1>4, <1>5, <1>8
  <1>13. UgraphInv'
    BY <1>3, <1>7, <1>8, <1>9, <1>10, <1>11, <1>12, FewerKeeps DEF ThinnedLists
  <1>14. \A e \in DOMAIN g.arcs : g'.arcs[e] \in {g.arcs[e], [g.arcs[e] EXCEPT !.live = FALSE]}
    BY <1>3, <1>8 DEF ThinnedLists
  <1>15. UgraphIdsKept
    BY <1>3, <1>4, <1>5, <1>8, <1>14 DEF UgraphIdsKept, UDot, ThinnedLists
  <1> QED BY <1>13, <1>15

-----------------------------------------------------------------------------
(* Adding *)

\* A dot's list gets an id at its end; nothing else changes.
LongerLists(y, x, d, n) ==
  /\ y \in GraphType
  /\ y.live = x.live /\ y.nldot = x.nldot /\ y.arcs = x.arcs /\ y.nlarc = x.nlarc
  /\ DOMAIN y.dots = DOMAIN x.dots
  /\ y.dots[d].arcs = Append(x.dots[d].arcs, n) /\ (y.dots[d].live <=> x.dots[d].live)
  /\ \A e \in DOMAIN x.dots \ {d} : y.dots[e] = x.dots[e]

LEMMA AppendIncident ==
  ASSUME NEW x \in GraphType, NEW d \in DOMAIN x.dots, NEW n \in Nat
  PROVE  LongerLists(append_incident(x, d, n), x, d, n)
  <1> DEFINE y == append_incident(x, d, n)
             rec == [x.dots[d] EXCEPT !.arcs = Append(x.dots[d].arcs, n)]
             ds == [x.dots EXCEPT ![d] = rec]
  <1>1. y = [x EXCEPT !.dots = ds]
    BY DEF append_incident
  <1>2. x.dots \in Seq(DotRec) /\ DOMAIN x.dots = 1..Len(x.dots)
    BY LenProperties DEF GraphType
  <1>3. x.dots[d] \in DotRec
    BY <1>2, ElementOfSeq
  <1>4. /\ rec \in DotRec /\ rec.arcs = Append(x.dots[d].arcs, n) /\ rec.live = x.dots[d].live
    BY <1>3, AppendProperties DEF DotRec
  <1> HIDE DEF rec
  <1>5. /\ ds \in Seq(DotRec) /\ DOMAIN ds = DOMAIN x.dots /\ ds[d] = rec
        /\ \A e \in DOMAIN x.dots \ {d} : ds[e] = x.dots[e]
    BY <1>2, <1>4, ExceptSeq
  <1> HIDE DEF ds
  <1>6. /\ y \in GraphType /\ y.dots = ds /\ y.live = x.live /\ y.nldot = x.nldot
        /\ y.arcs = x.arcs /\ y.nlarc = x.nlarc
    BY <1>1, <1>5 DEF GraphType
  <1> QED BY <1>4, <1>5, <1>6 DEF LongerLists

\* A record at the end of the arcs; nothing else changes.
LEMMA ArcRecorded ==
  ASSUME UgraphTypes, NEW a \in UDot, NEW b \in UDot
  PROVE  LET x == Recorded(g, a, b)
             n == Len(g.arcs) + 1
         IN  /\ x \in GraphType /\ x.live = g.live /\ x.dots = g.dots
             /\ x.nldot = g.nldot /\ x.nlarc = g.nlarc
             /\ n \in Nat /\ n \notin DOMAIN g.arcs /\ DOMAIN x.arcs = DOMAIN g.arcs \cup {n}
             /\ x.arcs[n].a = a /\ x.arcs[n].b = b /\ x.arcs[n].live
             /\ \A e \in DOMAIN g.arcs : x.arcs[e] = g.arcs[e]
             /\ Front(x.arcs) = g.arcs
  <1> DEFINE x == Recorded(g, a, b)
             n == Len(g.arcs) + 1
             rec == [a |-> a, b |-> b, live |-> TRUE]
             new == Append(g.arcs, rec)
  <1>1. x = [g EXCEPT !.arcs = new]
    BY DEF Recorded
  <1>2. rec \in ArcRec /\ rec.a = a /\ rec.b = b /\ rec.live
    BY UgraphShapes DEF ArcRec
  <1> HIDE DEF rec
  <1>3. /\ new \in Seq(ArcRec) /\ Len(new) = n /\ n \in Nat /\ new[n] = rec
        /\ \A e \in 1..Len(g.arcs) : new[e] = g.arcs[e]
    BY <1>2, UgraphShapes, AppendProperties
  <1>4. DOMAIN new = DOMAIN g.arcs \cup {n} /\ n \notin DOMAIN g.arcs
    BY <1>3, UgraphShapes, LenProperties
  <1>5. Front(new) = g.arcs
    BY <1>2, UgraphShapes, FrontOfAppend
  <1> HIDE DEF new, n
  <1>6. /\ x \in GraphType /\ x.arcs = new /\ x.live = g.live /\ x.dots = g.dots
        /\ x.nldot = g.nldot /\ x.nlarc = g.nlarc
    BY <1>1, <1>3 DEF GraphType, UgraphTypes
  <1>7. \A e \in DOMAIN g.arcs : x.arcs[e] = g.arcs[e]
    BY <1>3, <1>6, UgraphShapes
  <1> HIDE DEF x
  <1>8. n = Len(g.arcs) + 1 /\ x = Recorded(g, a, b)
    BY DEF n, x
  <1> QED BY ONLY <1>2, <1>3, <1>4, <1>5, <1>6, <1>7, <1>8

LEMMA DotKeeps == ASSUME UgraphInv, ugdot PROVE UgraphInv' /\ UgraphIdsKept
  <1> DEFINE n == NewId
             rec == [arcs |-> <<>>, live |-> TRUE]
             ds == [d \in UDot \cup {n} |-> IF d = n THEN rec ELSE g.dots[d]]
  <1>1. g' = [g EXCEPT !.dots = ds, !.nldot = @ + 1]
    BY DEF ugdot
  <1>2. n = Len(g.dots) + 1 /\ Len(g.dots) \in Nat /\ UDot = 1..Len(g.dots)
    BY UgraphShapes DEF UgraphInv, NewId
  <1>3. n \in Nat /\ n \notin UDot /\ UDot \cup {n} = 1..n
    BY <1>2
  <1>4. rec \in DotRec /\ rec.arcs = <<>> /\ rec.live
    BY EmptySeq DEF DotRec
  <1> HIDE DEF n, rec
  <1>5. /\ ds \in [1..n -> DotRec] /\ DOMAIN ds = UDot \cup {n} /\ ds[n] = rec
        /\ \A d \in UDot : ds[d] = g.dots[d]
    BY <1>3, <1>4, UgraphShapes DEF UgraphInv
  <1>6. ds \in Seq(DotRec)
    <2> HIDE DEF ds
    <2> QED BY <1>3, <1>5, SeqDef
  <1> HIDE DEF ds
  <1>7. /\ g' \in GraphType /\ g'.live = g.live /\ g'.arcs = g.arcs /\ g'.nlarc = g.nlarc
        /\ g'.dots = ds /\ g'.nldot = g.nldot + 1
    <2>1. g \in GraphType /\ g.nldot \in Nat
      BY UgraphShapes DEF UgraphInv, UgraphTypes
    <2>2. PICK m \in Nat : m = g.nldot + 1
      BY <2>1
    <2>3. g' = [g EXCEPT !.dots = ds, !.nldot = m]
      BY <1>1, <2>2
    <2>4. g' \in GraphType
      BY <1>6, <2>1, <2>3 DEF GraphType
    <2>5. g'.live = g.live /\ g'.arcs = g.arcs /\ g'.nlarc = g.nlarc /\ g'.dots = ds /\ g'.nldot = m
      BY <2>1, <2>3 DEF GraphType
    <2> QED BY <2>2, <2>4, <2>5
  <1>8. UDot' = UDot \cup {n} /\ LiveArcs' = LiveArcs /\ LiveDots' = LiveDots \cup {n}
    BY <1>4, <1>5, <1>7 DEF UDot, LiveArcs, LiveDots
  <1>9. UgraphTypes'
    BY <1>7, <1>8 DEF UgraphInv, UgraphTypes
  <1>10. g'.nldot = Cardinality(LiveDots')
    <2>1. IsFiniteSet(LiveDots) /\ n \notin LiveDots /\ g.nldot = Cardinality(LiveDots)
      BY <1>3, UgraphShapes, SoundLists DEF UgraphInv, LiveDots
    <2>2. Cardinality(LiveDots \cup {n}) = Cardinality(LiveDots) + 1
      BY <2>1, FS_AddElement
    <2> QED BY <1>7, <1>8, <2>1, <2>2
  <1>11. ASSUME NEW d \in UDot' PROVE Listing(g'.dots[d].arcs, EndingAt(g'.arcs, d))
    <2>1. CASE d \in UDot
      BY <1>5, <1>7, <2>1, SoundLists DEF UgraphInv
    <2>2. CASE d = n
      <3>1. EndingAt(g'.arcs, d) = {}
        BY <1>3, <1>7, <2>2, UgraphShapes DEF UgraphInv, EndingAt
      <3>2. Listing(<<>>, {})
        BY EmptySeq DEF Listing, IsInjective, ToSet
      <3> QED BY <1>4, <1>5, <1>7, <2>2, <3>1, <3>2
    <2> QED BY <1>8, <2>1, <2>2
  <1>12. UgraphSound'
    <2>1. \A a \in LiveArcs' : g'.arcs[a].a \in LiveDots' /\ g'.arcs[a].b \in LiveDots'
      BY <1>7, <1>8, SoundLists DEF UgraphInv
    <2>2. g'.nlarc = Cardinality(LiveArcs')
      BY <1>7, <1>8, SoundLists DEF UgraphInv
    <2> QED BY <1>10, <1>11, <2>1, <2>2 DEF UgraphSound, Listing, EndingAt
  <1>13. UgraphIdsKept
    BY <1>5, <1>7 DEF UgraphIdsKept, UDot
  <1> QED BY <1>9, <1>12, <1>13 DEF UgraphInv

\* What ugarc undoes leaves the graph as it was.
LEMMA UndoneIsUnchanged ==
  ASSUME UgraphTypes, NEW a \in UDot, NEW n \in Nat,
         NEW y, Front(y.arcs) = g.arcs, y.nldot = g.nldot, y.nlarc = g.nlarc,
         y.live = g.live, y \in GraphType, DOMAIN y.dots = UDot,
         y.dots[a].arcs = Append(g.dots[a].arcs, n), y.dots[a].live <=> g.dots[a].live,
         \A e \in UDot \ {a} : y.dots[e] = g.dots[e]
  PROVE  TakenBack(y, a) = g
  <1> DEFINE rec == [y.dots[a] EXCEPT !.arcs = Front(y.dots[a].arcs)]
             ds == [y.dots EXCEPT ![a] = rec]
             back == TakenBack(y, a)
  <1>1. back = [y EXCEPT !.arcs = Front(y.arcs), !.dots = ds]
    BY DEF TakenBack
  <1>2. y.dots \in Seq(DotRec) /\ UDot = 1..Len(y.dots) /\ y.dots[a] \in DotRec
    <2>1. y.dots \in Seq(DotRec) /\ UDot = 1..Len(y.dots)
      BY LenProperties DEF GraphType
    <2> QED BY <2>1, ElementOfSeq
  <1>3. g.dots[a] \in DotRec /\ g.dots[a].arcs \in Seq(Nat) /\ g.dots \in Seq(DotRec)
        /\ UDot = 1..Len(g.dots)
    BY UgraphShapes
  <1>4. Front(y.dots[a].arcs) = g.dots[a].arcs
    BY <1>3, FrontOfAppend
  <1>5. rec = g.dots[a]
    BY <1>2, <1>3, <1>4 DEF DotRec
  <1> HIDE DEF rec
  <1>6. ds = g.dots
    <2>1. /\ ds \in Seq(DotRec) /\ Len(ds) = Len(y.dots)
          /\ \A i \in 1..Len(y.dots) : ds[i] = IF i = a THEN rec ELSE y.dots[i]
      BY <1>2, <1>3, <1>5, ExceptSeq
    <2> HIDE DEF ds
    <2>2. Len(y.dots) = Len(g.dots)
      BY <1>2, <1>3, LenProperties
    <2>3. \A i \in 1..Len(y.dots) : ds[i] = g.dots[i]
      <3> TAKE i \in 1..Len(y.dots)
      <3>1. CASE i = a
        BY <1>5, <2>1, <3>1
      <3>2. CASE i # a
        BY <1>2, <2>1, <3>2
      <3> QED BY <3>1, <3>2
    <2>4. ds \in Seq(DotRec) /\ g.dots \in Seq(DotRec) /\ Len(ds) = Len(g.dots)
      BY <1>3, <2>1, <2>2
    <2>5. \A i \in 1..Len(ds) : ds[i] = g.dots[i]
      BY <2>1, <2>3
    <2> QED BY ONLY <2>4, <2>5, SeqEqual
  <1> HIDE DEF ds
  <1>7. back = [y EXCEPT !.arcs = g.arcs, !.dots = g.dots]
    BY <1>1, <1>6
  <1> QED BY <1>7 DEF GraphType, UgraphTypes

\* The arc comes into the list of either end once.
LEMMA ArcInserted ==
  ASSUME UgraphInv, NEW a \in LiveDots, NEW b \in LiveDots,
         g' \in GraphType, g'.live = g.live, g'.nldot = g.nldot, g'.nlarc = g.nlarc + 1,
         NEW n \in Nat, n \notin DOMAIN g.arcs, DOMAIN g'.arcs = DOMAIN g.arcs \cup {n},
         g'.arcs[n].a = a, g'.arcs[n].b = b, g'.arcs[n].live,
         \A e \in DOMAIN g.arcs : g'.arcs[e] = g.arcs[e],
         UDot' = UDot,
         \A d \in UDot : /\ g'.dots[d].live <=> g.dots[d].live
                         /\ g'.dots[d].arcs = IF d \in {a, b} THEN Append(g.dots[d].arcs, n)
                                              ELSE g.dots[d].arcs
  PROVE  UgraphInv' /\ UgraphIdsKept
  <1>1. LiveDots' = LiveDots /\ LiveArcs' = LiveArcs \cup {n} /\ n \notin LiveArcs
    BY DEF LiveDots, LiveArcs
  <1>2. UgraphTypes'
    BY DEF UgraphInv, UgraphTypes, LiveDots
  <1>3. g'.nlarc = Cardinality(LiveArcs')
    <2>1. IsFiniteSet(LiveArcs) /\ g.nlarc = Cardinality(LiveArcs)
      BY UgraphShapes, SoundLists DEF UgraphInv
    <2>2. Cardinality(LiveArcs \cup {n}) = Cardinality(LiveArcs) + 1
      BY <1>1, <2>1, FS_AddElement
    <2> QED BY <1>1, <2>1, <2>2
  <1>4. \A e \in LiveArcs' : g'.arcs[e].a \in LiveDots' /\ g'.arcs[e].b \in LiveDots'
    <2>1. \A e \in LiveArcs : e \in DOMAIN g.arcs
      BY DEF LiveArcs
    <2> QED BY <1>1, <2>1, SoundLists DEF UgraphInv
  <1>5. ASSUME NEW d \in UDot' PROVE Listing(g'.dots[d].arcs, EndingAt(g'.arcs, d))
    <2>1. d \in UDot /\ g.dots[d].arcs \in Seq(Nat) /\ Listing(g.dots[d].arcs, EndingAt(g.arcs, d))
      BY UgraphShapes, SoundLists DEF UgraphInv
    <2>2. n \notin EndingAt(g.arcs, d)
      BY DEF EndingAt
    <2>3. CASE d \in {a, b}
      <3>1. EndingAt(g'.arcs, d) = EndingAt(g.arcs, d) \cup {n}
        BY <2>3 DEF EndingAt
      <3>2. g'.dots[d].arcs = Append(g.dots[d].arcs, n)
        BY <2>1, <2>3
      <3> QED BY <2>1, <2>2, <3>1, <3>2, ListAppended
    <2>4. CASE d \notin {a, b}
      <3>1. EndingAt(g'.arcs, d) = EndingAt(g.arcs, d)
        BY <2>4 DEF EndingAt
      <3> QED BY <2>1, <2>4, <3>1
    <2> QED BY <2>3, <2>4
  <1>6. g'.nldot = Cardinality(LiveDots')
    BY <1>1, SoundLists DEF UgraphInv
  <1>7. UgraphSound'
    BY <1>3, <1>4, <1>5, <1>6 DEF UgraphSound, Listing, EndingAt
  <1>8. UgraphIdsKept
    BY DEF UgraphIdsKept, UDot
  <1> QED BY <1>2, <1>7, <1>8 DEF UgraphInv

LEMMA ArcKeeps == ASSUME UgraphInv, NEW a, NEW b, ugarc(a, b) PROVE UgraphInv' /\ UgraphIdsKept
  <1>1. PICK n : n = Len(g.arcs) + 1
    OBVIOUS
  <1>2. PICK x : x = Recorded(g, a, b)
    OBVIOUS
  <1>3. PICK y : y = append_incident(x, a, n)
    OBVIOUS
  <1>4. PICK z : z = IF a = b THEN y ELSE append_incident(y, b, n)
    OBVIOUS
  <1>5. /\ a \in LiveDots /\ b \in LiveDots /\ a \in UDot /\ b \in UDot
        /\ \/ g' = [z EXCEPT !.nlarc = @ + 1]
           \/ a # b /\ g' = TakenBack(y, a)
    BY <1>1, <1>2, <1>3, <1>4 DEF ugarc, LiveDots
  <1>6. /\ x \in GraphType /\ x.live = g.live /\ x.dots = g.dots
        /\ x.nldot = g.nldot /\ x.nlarc = g.nlarc
        /\ n \in Nat /\ n \notin DOMAIN g.arcs /\ DOMAIN x.arcs = DOMAIN g.arcs \cup {n}
        /\ x.arcs[n].a = a /\ x.arcs[n].b = b /\ x.arcs[n].live
        /\ \A e \in DOMAIN g.arcs : x.arcs[e] = g.arcs[e]
        /\ Front(x.arcs) = g.arcs
    BY <1>1, <1>2, <1>5, ArcRecorded DEF UgraphInv
  <1>7. LongerLists(y, x, a, n)
    BY <1>3, <1>5, <1>6, AppendIncident DEF UDot
  <1>8. a # b => LongerLists(z, y, b, n)
    BY <1>4, <1>5, <1>6, <1>7, AppendIncident DEF UDot, LongerLists
  <1>9. /\ z \in GraphType /\ z.live = g.live /\ z.nldot = g.nldot /\ z.arcs = x.arcs
        /\ z.nlarc = g.nlarc /\ DOMAIN z.dots = UDot
        /\ \A d \in UDot : /\ z.dots[d].live <=> g.dots[d].live
                           /\ z.dots[d].arcs = IF d \in {a, b} THEN Append(g.dots[d].arcs, n)
                                               ELSE g.dots[d].arcs
    <2>1. CASE a = b
      <3>1. z = y
        BY <1>4, <2>1
      <3>2. \A d \in UDot \ {a} : z.dots[d] = g.dots[d]
        BY <1>6, <1>7, <3>1 DEF LongerLists, UDot
      <3>3. z.dots[a].arcs = Append(g.dots[a].arcs, n) /\ (z.dots[a].live <=> g.dots[a].live)
        BY <1>6, <1>7, <3>1 DEF LongerLists
      <3>4. /\ z \in GraphType /\ z.live = g.live /\ z.nldot = g.nldot /\ z.arcs = x.arcs
            /\ z.nlarc = g.nlarc /\ DOMAIN z.dots = UDot
        BY <1>6, <1>7, <3>1 DEF LongerLists, UDot
      <3> QED BY <2>1, <3>2, <3>3, <3>4
    <2>2. CASE a # b
      <3>1. LongerLists(z, y, b, n)
        BY <1>8, <2>2
      <3>2. \A d \in UDot \ {a, b} : z.dots[d] = g.dots[d]
        BY <1>6, <1>7, <3>1 DEF LongerLists, UDot
      <3>3. z.dots[a].arcs = Append(g.dots[a].arcs, n) /\ (z.dots[a].live <=> g.dots[a].live)
        BY <1>5, <1>6, <1>7, <2>2, <3>1 DEF LongerLists, UDot
      <3>4. z.dots[b].arcs = Append(g.dots[b].arcs, n) /\ (z.dots[b].live <=> g.dots[b].live)
        BY <1>5, <1>6, <1>7, <2>2, <3>1 DEF LongerLists, UDot
      <3>5. /\ z \in GraphType /\ z.live = g.live /\ z.nldot = g.nldot /\ z.arcs = x.arcs
            /\ z.nlarc = g.nlarc /\ DOMAIN z.dots = UDot
        BY <1>6, <1>7, <3>1 DEF LongerLists, UDot
      <3> QED BY <3>2, <3>3, <3>4, <3>5
    <2> QED BY <2>1, <2>2
  <1>10. CASE g' = [z EXCEPT !.nlarc = @ + 1]
    <2>1. PICK m \in Nat : m = g.nlarc + 1
      BY UgraphShapes DEF UgraphInv
    <2>2. g' = [z EXCEPT !.nlarc = m]
      BY <1>9, <1>10, <2>1
    <2>3. /\ g' \in GraphType /\ g'.live = g.live /\ g'.nldot = g.nldot /\ g'.nlarc = g.nlarc + 1
          /\ g'.arcs = z.arcs /\ g'.dots = z.dots
      BY <1>9, <2>1, <2>2 DEF GraphType
    <2>4. UDot' = UDot
      BY <1>9, <2>3 DEF UDot
    <2> QED BY <1>5, <1>6, <1>9, <2>3, <2>4, ArcInserted
  <1>11. CASE a # b /\ g' = TakenBack(y, a)
    <2>1. TakenBack(y, a) = g
      BY <1>5, <1>6, <1>7, UndoneIsUnchanged DEF LongerLists, UDot, UgraphInv
    <2>2. g' = g
      BY <1>11, <2>1
    <2>3. UgraphInv'
      BY <2>2 DEF UgraphInv, UgraphTypes, UgraphSound, UDot, LiveDots, LiveArcs
    <2>4. UgraphIdsKept
      BY <2>2 DEF UgraphIdsKept, UDot
    <2> QED BY <2>3, <2>4
  <1> QED BY <1>5, <1>10, <1>11

-----------------------------------------------------------------------------
LEMMA EmptyUgraph ==
  ASSUME NEW x \in {NoUgraph, [NoUgraph EXCEPT !.live = TRUE]}
  PROVE  /\ x \in GraphType /\ x.dots = <<>> /\ x.arcs = <<>> /\ x.nldot = 0 /\ x.nlarc = 0
         /\ DOMAIN x.dots = {} /\ DOMAIN x.arcs = {}
  <1>1. <<>> \in Seq(DotRec) /\ <<>> \in Seq(ArcRec) /\ DOMAIN <<>> = {}
    BY EmptySeq
  <1>2. CASE x = NoUgraph
    BY <1>1, <1>2 DEF NoUgraph, GraphType
  <1>3. CASE x = [NoUgraph EXCEPT !.live = TRUE]
    <2>1. x = [live |-> TRUE, dots |-> <<>>, nldot |-> 0, arcs |-> <<>>, nlarc |-> 0]
      BY <1>3 DEF NoUgraph
    <2> QED BY <1>1, <2>1 DEF GraphType
  <1> QED BY <1>2, <1>3

LEMMA UgraphInit == InitUgraph => UgraphInv
  <1> SUFFICES ASSUME InitUgraph PROVE UgraphInv
    OBVIOUS
  <1>1. /\ g \in GraphType /\ g.nldot = 0 /\ g.nlarc = 0
        /\ DOMAIN g.dots = {} /\ DOMAIN g.arcs = {}
    BY EmptyUgraph DEF InitUgraph
  <1>2. UDot = {} /\ LiveDots = {} /\ LiveArcs = {}
    BY <1>1 DEF UDot, LiveDots, LiveArcs
  <1> QED BY <1>1, <1>2, FS_EmptySet DEF UgraphInv, UgraphTypes, UgraphSound

\* The same after a step that makes or removes the graph.
LEMMA ClearedUgraph ==
  ASSUME g' \in {NoUgraph, [NoUgraph EXCEPT !.live = TRUE]}
  PROVE  UgraphInv'
  <1>1. /\ g' \in GraphType /\ g'.nldot = 0 /\ g'.nlarc = 0
        /\ DOMAIN g'.dots = {} /\ DOMAIN g'.arcs = {}
    BY EmptyUgraph
  <1>2. UDot' = {} /\ LiveDots' = {} /\ LiveArcs' = {}
    BY <1>1 DEF UDot, LiveDots, LiveArcs
  <1> QED BY <1>1, <1>2, FS_EmptySet DEF UgraphInv, UgraphTypes, UgraphSound

LEMMA UgraphStep == ASSUME UgraphInv, [NextUgraph]_g PROVE UgraphInv' /\ (UgraphIdsKept \/ g' = g)
  <1>1. CASE mkugraph
    <2>1. g' = [NoUgraph EXCEPT !.live = TRUE] /\ ~g.live
      BY <1>1 DEF mkugraph
    <2>2. UgraphInv'
      BY <2>1, ClearedUgraph
    <2> QED BY <2>1, <2>2 DEF UgraphIdsKept
  <1>2. CASE rmugraph
    <2>1. g' = NoUgraph /\ ~g'.live
      BY <1>2 DEF rmugraph, NoUgraph
    <2>2. UgraphInv'
      BY <2>1, ClearedUgraph
    <2> QED BY <2>1, <2>2 DEF UgraphIdsKept
  <1>3. CASE ugdot
    BY <1>3, DotKeeps
  <1>4. ASSUME NEW d \in UDot, ugdeldot(d) PROVE UgraphInv' /\ UgraphIdsKept
    BY <1>4, DeldotKeeps
  <1>5. ASSUME NEW a \in DOMAIN g.arcs, ugdelarc(a) PROVE UgraphInv' /\ UgraphIdsKept
    BY <1>5, DelarcKeeps
  <1>6. ASSUME NEW a \in UDot, NEW b \in UDot, ugarc(a, b) PROVE UgraphInv' /\ UgraphIdsKept
    BY <1>6, ArcKeeps
  <1>7. CASE UNCHANGED g
    BY <1>7 DEF UgraphInv, UgraphTypes, UgraphSound, UDot, LiveDots, LiveArcs
  <1> QED BY <1>1, <1>2, <1>3, <1>4, <1>5, <1>6, <1>7 DEF NextUgraph

\* The lists and counts of a ugraph of any size agree with its arcs, after
\* any deletions: each live arc has live ends, and a list holds each of its
\* arcs once, a loop too, and nothing of an arc that could not be made.
THEOREM GraphSound == SpecUgraph => []UgraphSound
  <1>1. InitUgraph => UgraphInv
    BY UgraphInit
  <1>2. UgraphInv /\ [NextUgraph]_g => UgraphInv'
    BY UgraphStep
  <1>3. UgraphInv => UgraphSound
    BY DEF UgraphInv
  <1> QED BY <1>1, <1>2, <1>3, PTL DEF SpecUgraph

\* "Deletion leaves tombstones; ids are not reused during the life of a
\* ugraph descriptor" (nexus.h:52), in a graph of any size.
THEOREM GraphTombstonesStay == SpecUgraph => UgraphTombstones
  <1>1. InitUgraph => UgraphInv
    BY UgraphInit
  <1>2. UgraphInv /\ [NextUgraph]_g => UgraphInv'
    BY UgraphStep
  <1>3. UgraphInv /\ [NextUgraph]_g => [UgraphIdsKept]_g
    BY UgraphStep
  <1> QED BY <1>1, <1>2, <1>3, PTL DEF SpecUgraph, UgraphTombstones

-----------------------------------------------------------------------------
(* Mtrees *)

KnobRec == [par : Nat, inarm : Nat, kids : Seq(Nat), kidarms : Seq(Nat), live : BOOLEAN]
ArmRec == [par : Nat, kid : Nat, live : BOOLEAN]
TreeType ==
  [live : BOOLEAN, knobs : Seq(KnobRec), nlknob : Nat, arms : Seq(ArmRec), nlarm : Nat]

KidsOf(p) == {k \in LiveKnobs : t.knobs[k].par = p}

\* What MtreeSound says of one knob's lists: they hold each of some kids of
\* a table once, and the arms these came by.
Siblings(kids, kidarms, S, ks) ==
  /\ IsInjective(kids) /\ ToSet(kids) = S
  /\ kidarms = [i \in DOMAIN kids |-> ks[kids[i]].inarm]

\* The inductive invariant: a live arm hangs on a live knob, so that the
\* parent of a live knob is live.
MtreeInv ==
  /\ t \in TreeType
  /\ MtreeSound
  /\ \A a \in LiveArms : t.arms[a].par \in LiveKnobs

-----------------------------------------------------------------------------
(* Ways up *)

\* Fewer edges close no cycle, and nor do nodes without edges.
LEMMA FewerEdges ==
  ASSUME NEW N, NEW E \in SUBSET (N \X N), NoCycle(N, E),
         NEW M, N \subseteq M, NEW F, F \subseteq E
  PROVE  NoCycle(M, F)
  <1> SUFFICES ASSUME NEW e \in F PROVE e[1] \notin Reach(M, F, e[2])
    BY DEF NoCycle
  <1>1. e[1] \in N
    OBVIOUS
  <1>2. PICK S \in SUBSET N : e[2] \in S /\ Closed(E, S) /\ e[1] \notin S
    BY <1>1 DEF NoCycle, Reach
  <1>3. Closed(E, S) => Closed(F, S)
    BY DEF Closed
  <1> QED BY <1>2, <1>3 DEF Reach

\* What is reached is the least closed set that holds the start.
LEMMA LeastClosed ==
  ASSUME NEW N, NEW E \in SUBSET (N \X N), NEW a \in N
  PROVE  /\ Reach(N, E, a) \in SUBSET N /\ a \in Reach(N, E, a) /\ Closed(E, Reach(N, E, a))
         /\ \A S \in SUBSET N : a \in S /\ Closed(E, S) => Reach(N, E, a) \subseteq S
  <1>1. /\ Reach(N, E, a) \in SUBSET N /\ a \in Reach(N, E, a)
        /\ \A S \in SUBSET N : a \in S /\ Closed(E, S) => Reach(N, E, a) \subseteq S
    BY DEF Reach
  <1>2. ASSUME NEW e \in E, e[1] \in Reach(N, E, a) PROVE e[2] \in Reach(N, E, a)
    <2>1. e[2] \in N
      OBVIOUS
    <2>2. ASSUME NEW S \in SUBSET N, a \in S, Closed(E, S) PROVE e[2] \in S
      BY <1>2, <2>2 DEF Reach, Closed
    <2> QED BY <2>1, <2>2 DEF Reach
  <1> QED BY <1>1, <1>2 DEF Closed

\* Hung below a node that does not lead to it, a node closes no cycle, be it
\* a new one or one that left the place where it hung.
LEMMA Hung ==
  ASSUME NEW N, NEW E \in SUBSET (N \X N), NoCycle(N, E),
         NEW p \in N, NEW f, f \notin Reach(N, E, p),
         NEW M, N \subseteq M, NEW F, F \subseteq E \cup {<<f, p>>}
  PROVE  NoCycle(M, F)
  <1> DEFINE T == Reach(N, E, p)
  <1>1. T \in SUBSET N /\ p \in T /\ Closed(E, T) /\ f \notin T
    BY LeastClosed
  <1>2. Closed(F, T)
    BY <1>1 DEF Closed
  <1> HIDE DEF T
  <1>3. ASSUME NEW e \in E PROVE e[1] \notin Reach(M, F, e[2])
    <2> DEFINE S == Reach(N, E, e[2])
    <2>1. e[1] \in N /\ e[2] \in N
      OBVIOUS
    <2>2. /\ S \in SUBSET N /\ e[2] \in S /\ Closed(E, S)
          /\ \A R \in SUBSET N : e[2] \in R /\ Closed(E, R) => S \subseteq R
      BY <2>1, LeastClosed
    <2>3. e[1] \notin S
      BY DEF NoCycle
    <2> HIDE DEF S
    <2>4. CASE f \notin S
      <3>1. Closed(F, S)
        BY <2>2, <2>4 DEF Closed
      <3> QED BY <2>2, <2>3, <3>1 DEF Reach
    <2>5. CASE f \in S
      <3>1. Closed(F, S \cup T)
        BY <1>1, <1>2, <2>2 DEF Closed
      <3>2. e[1] \notin T
        BY <1>1, <2>2, <2>5 DEF Closed
      <3> QED BY <1>1, <2>2, <2>3, <3>1, <3>2 DEF Reach
    <2> QED BY <2>4, <2>5
  <1>4. f \notin Reach(M, F, p)
    BY <1>1, <1>2 DEF Reach
  <1> QED BY <1>3, <1>4 DEF NoCycle

-----------------------------------------------------------------------------
(* The lists of siblings *)

\* Where the elements of a list of n come from when the i-th was closed up.
Kept(n, i) == [j \in 1..(n - 1) |-> IF j < i THEN j ELSE j + 1]

Closes(at, n, i) ==
  /\ DOMAIN at = 1..(n - 1)
  /\ \A a \in 1..(n - 1) : at[a] \in 1..n /\ at[a] # i
  /\ \A a, b \in 1..(n - 1) : at[a] = at[b] => a = b
  /\ \A m \in 1..n \ {i} : \E a \in 1..(n - 1) : at[a] = m

LEMMA KeptPlaces ==
  ASSUME NEW n \in Nat, NEW i \in 1..n
  PROVE  Closes(Kept(n, i), n, i)
  <1>1. ASSUME NEW m \in 1..n \ {i} PROVE \E a \in 1..(n - 1) : Kept(n, i)[a] = m
    <2>1. CASE m < i
      <3>1. m \in 1..(n - 1)
        BY <2>1
      <3> QED BY <2>1, <3>1 DEF Kept
    <2>2. CASE m > i
      <3>1. m - 1 \in 1..(n - 1) /\ ~(m - 1 < i) /\ (m - 1) + 1 = m
        BY <2>2
      <3> QED BY <3>1 DEF Kept
    <2> QED BY <2>1, <2>2
  <1>2. \A a \in 1..(n - 1) : Kept(n, i)[a] \in 1..n /\ Kept(n, i)[a] # i
    BY DEF Kept
  <1>3. \A a, b \in 1..(n - 1) : Kept(n, i)[a] = Kept(n, i)[b] => a = b
    BY DEF Kept
  <1>4. DOMAIN Kept(n, i) = 1..(n - 1)
    BY DEF Kept
  <1> QED BY <1>1, <1>2, <1>3, <1>4 DEF Closes

\* The list without its i-th element.
LEMMA Removed ==
  ASSUME NEW s \in Seq(Nat), NEW i \in 1..Len(s)
  PROVE  /\ RemoveAt(s, i) \in Seq(Nat) /\ Len(RemoveAt(s, i)) = Len(s) - 1
         /\ DOMAIN RemoveAt(s, i) = 1..(Len(s) - 1)
         /\ \A j \in 1..(Len(s) - 1) : RemoveAt(s, i)[j] = s[Kept(Len(s), i)[j]]
  <1> DEFINE n == Len(s)
             l == SubSeq(s, 1, i - 1)
             r == SubSeq(s, i + 1, n)
  <1>1. n \in Nat /\ i \in 1..n /\ \A j \in 1..n : s[j] \in Nat
    BY LenProperties, ElementOfSeq
  <1>2. /\ l \in Seq(Nat) /\ Len(l) = i - 1
        /\ \A j \in 1..(i - 1) : l[j] = s[j]
    <2>1. \A j \in 1..(i - 1) : s[j] \in Nat
      BY <1>1
    <2> HIDE DEF n
    <2> QED BY <1>1, <2>1, SubSeqProperties
  <1>3. /\ r \in Seq(Nat) /\ Len(r) = n - i
        /\ \A j \in 1..(n - i) : r[j] = s[i + j]
    <2>1. \A j \in (i + 1)..n : s[j] \in Nat
      BY <1>1
    <2> HIDE DEF n
    <2>2. /\ r \in Seq(Nat) /\ Len(r) = IF i + 1 <= n THEN n - (i + 1) + 1 ELSE 0
          /\ \A j \in 1..(n - (i + 1) + 1) : r[j] = s[(i + 1) + j - 1]
      BY <1>1, <2>1, SubSeqProperties
    <2> HIDE DEF r
    <2>3. n - (i + 1) + 1 = n - i /\ \A j \in 1..(n - i) : (i + 1) + j - 1 = i + j
      BY <1>1
    <2> QED BY <1>1, <2>2, <2>3
  <1>4. RemoveAt(s, i) = l \o r
    BY DEF RemoveAt
  <1> HIDE DEF l, r, n
  <1>5. /\ l \o r \in Seq(Nat) /\ Len(l \o r) = n - 1
        /\ \A j \in 1..(n - 1) : (l \o r)[j] = IF j <= i - 1 THEN l[j] ELSE r[j - (i - 1)]
    <2>1. Len(l) + Len(r) = n - 1
      BY <1>1, <1>2, <1>3
    <2> QED BY <1>2, <1>3, <2>1, ConcatProperties
  <1>6. ASSUME NEW j \in 1..(n - 1) PROVE (l \o r)[j] = s[IF j < i THEN j ELSE j + 1]
    <2>1. CASE j < i
      <3>1. j <= i - 1 /\ j \in 1..(i - 1)
        BY <1>1, <2>1
      <3> QED BY <1>2, <1>5, <2>1, <3>1
    <2>2. CASE ~(j < i)
      <3>1. ~(j <= i - 1) /\ j - (i - 1) \in 1..(n - i) /\ i + (j - (i - 1)) = j + 1
        BY <1>1, <2>2
      <3> QED BY <1>3, <1>5, <2>2, <3>1
    <2> QED BY <2>1, <2>2
  <1>7. DOMAIN (l \o r) = 1..(n - 1)
    BY <1>5, LenProperties
  <1> QED BY <1>4, <1>5, <1>6, <1>7 DEF n, Kept

\* The place of a kid in the list is the only one with it and its arm.
LEMMA PlaceOfKid ==
  ASSUME NEW kids \in Seq(Nat), NEW kidarms, NEW S, NEW ks, Siblings(kids, kidarms, S, ks),
         NEW k \in S
  PROVE  \E i \in 1..Len(kids) :
           {j \in DOMAIN kids : kids[j] = k /\ kidarms[j] = ks[k].inarm} = {i}
  <1>1. PICK i \in DOMAIN kids : kids[i] = k
    BY DEF Siblings, ToSet
  <1>2. kidarms[i] = ks[k].inarm
    BY <1>1 DEF Siblings
  <1>3. \A j \in DOMAIN kids : kids[j] = k => j = i
    BY <1>1 DEF Siblings, IsInjective
  <1>4. i \in 1..Len(kids)
    BY LenProperties
  <1> QED BY <1>1, <1>2, <1>3, <1>4

LEMMA SiblingRemoved ==
  ASSUME NEW kids \in Seq(Nat), NEW kidarms \in Seq(Nat), NEW S, NEW ks,
         Siblings(kids, kidarms, S, ks), NEW i \in 1..Len(kids)
  PROVE  Siblings(RemoveAt(kids, i), RemoveAt(kidarms, i), S \ {kids[i]}, ks)
  <1> DEFINE new == RemoveAt(kids, i)
             arms == RemoveAt(kidarms, i)
  <1>1. PICK n \in Nat : n = Len(kids)
    BY LenProperties
  <1>2. DOMAIN kids = 1..n /\ i \in 1..n /\ Len(kidarms) = n
    BY <1>1, LenProperties DEF Siblings
  <1>3. PICK at : at = Kept(n, i) /\ Closes(at, n, i)
    BY <1>2, KeptPlaces
  <1>4. DOMAIN new = 1..(n - 1) /\ \A j \in 1..(n - 1) : new[j] = kids[at[j]]
    BY <1>1, <1>3, Removed
  <1>5. /\ DOMAIN arms = 1..(n - 1) /\ arms \in Seq(Nat) /\ Len(arms) = n - 1
        /\ \A j \in 1..(n - 1) : arms[j] = kidarms[at[j]]
    BY <1>2, <1>3, Removed
  <1> HIDE DEF new, arms
  <1>6. IsInjective(new)
    <2>1. \A a, b \in 1..n : kids[a] = kids[b] => a = b
      BY <1>2 DEF Siblings, IsInjective
    <2>2. ASSUME NEW a \in 1..(n - 1), NEW b \in 1..(n - 1), new[a] = new[b] PROVE a = b
      <3>1. at[a] \in 1..n /\ at[b] \in 1..n
        BY <1>3 DEF Closes
      <3>2. kids[at[a]] = kids[at[b]]
        BY <1>4, <2>2
      <3>3. at[a] = at[b]
        BY <2>1, <3>1, <3>2
      <3> QED BY <1>3, <3>3 DEF Closes
    <2> QED BY <1>4, <2>2 DEF IsInjective
  <1>7. ToSet(new) = S \ {kids[i]}
    <2>1. S = {kids[j] : j \in 1..n}
      BY <1>2 DEF Siblings, ToSet
    <2>2. \A j \in 1..(n - 1) : new[j] \in S /\ new[j] # kids[i]
      <3> TAKE j \in 1..(n - 1)
      <3>1. at[j] \in 1..n /\ at[j] # i /\ new[j] = kids[at[j]]
        BY <1>3, <1>4 DEF Closes
      <3>2. kids[at[j]] # kids[i]
        BY <1>2, <3>1 DEF Siblings, IsInjective
      <3> QED BY <2>1, <3>1, <3>2
    <2>3. \A j \in 1..n \ {i} : \E m \in 1..(n - 1) : new[m] = kids[j]
      <3> TAKE j \in 1..n \ {i}
      <3>1. PICK m \in 1..(n - 1) : at[m] = j
        BY <1>3 DEF Closes
      <3>2. new[m] = kids[j]
        BY <1>4, <3>1
      <3> QED BY <3>2
    <2>4. ToSet(new) = {new[j] : j \in 1..(n - 1)}
      BY <1>4 DEF ToSet
    <2>5. S \ {kids[i]} \subseteq {new[j] : j \in 1..(n - 1)}
      <3> SUFFICES ASSUME NEW k \in S \ {kids[i]} PROVE k \in {new[j] : j \in 1..(n - 1)}
        OBVIOUS
      <3>1. PICK j \in 1..n : kids[j] = k
        BY <2>1
      <3>2. PICK m \in 1..(n - 1) : new[m] = kids[j]
        BY <2>3, <3>1
      <3> QED BY <3>1, <3>2
    <2> QED BY <2>2, <2>4, <2>5
  <1>8. arms = [j \in DOMAIN new |-> ks[new[j]].inarm]
    <2>1. \A j \in 1..n : kidarms[j] = ks[kids[j]].inarm
      BY <1>2 DEF Siblings
    <2>2. \A j \in 1..(n - 1) : arms[j] = ks[new[j]].inarm
      <3> TAKE j \in 1..(n - 1)
      <3>1. at[j] \in 1..n /\ new[j] = kids[at[j]] /\ arms[j] = kidarms[at[j]]
        BY <1>3, <1>4, <1>5 DEF Closes
      <3> QED BY <2>1, <3>1
    <2>3. arms = [j \in 1..(n - 1) |-> arms[j]]
      <3>1. arms \in [1..(n - 1) -> Nat]
        BY <1>5, ElementOfSeq
      <3> QED BY <3>1
    <2> QED BY <1>4, <2>2, <2>3
  <1>9. Siblings(new, arms, S \ {kids[i]}, ks)
    BY <1>6, <1>7, <1>8 DEF Siblings
  <1> QED BY <1>9 DEF new, arms

LEMMA SiblingAdded ==
  ASSUME NEW kids \in Seq(Nat), NEW kidarms \in Seq(Nat), NEW S, NEW ks,
         Siblings(kids, kidarms, S, ks), NEW k \in Nat, k \notin S, NEW a \in Nat, ks[k].inarm = a
  PROVE  Siblings(Append(kids, k), Append(kidarms, a), S \cup {k}, ks)
  <1> DEFINE n == Len(kids)
             new == Append(kids, k)
             arms == Append(kidarms, a)
  <1>1. n \in Nat /\ DOMAIN kids = 1..n /\ Len(kidarms) = n
    BY LenProperties DEF Siblings
  <1>2. /\ DOMAIN new = 1..(n + 1) /\ new[n + 1] = k
        /\ \A j \in 1..n : new[j] = kids[j]
    BY <1>1, AppendProperties, LenProperties
  <1>3. /\ DOMAIN arms = 1..(n + 1) /\ arms \in Seq(Nat) /\ arms[n + 1] = a /\ Len(arms) = n + 1
        /\ \A j \in 1..n : arms[j] = kidarms[j]
    BY <1>1, AppendProperties, LenProperties
  <1> HIDE DEF n, new, arms
  <1>4. \A j \in 1..(n + 1) : j \in 1..n \/ j = n + 1
    BY <1>1
  <1>5. \A j \in 1..n : kids[j] \in S /\ kids[j] # k /\ j \in 1..(n + 1)
    <2>1. S = {kids[j] : j \in 1..n}
      BY <1>1 DEF Siblings, ToSet
    <2>2. \A j \in 1..n : kids[j] \in S
      BY <2>1
    <2>3. \A j \in 1..n : j \in 1..(n + 1)
      BY <1>1
    <2> QED BY <2>2, <2>3
  <1>6. IsInjective(new)
    <2>1. \A i, j \in 1..n : kids[i] = kids[j] => i = j
      BY <1>1 DEF Siblings, IsInjective
    <2>2. \A j \in 1..n : new[j] = kids[j] /\ new[j] # new[n + 1]
      BY <1>2, <1>5
    <2>3. ASSUME NEW i \in 1..(n + 1), NEW j \in 1..(n + 1), new[i] = new[j] PROVE i = j
      BY <1>4, <2>1, <2>2, <2>3
    <2> QED BY <1>2, <2>3 DEF IsInjective
  <1>7. ToSet(new) = S \cup {k}
    <2>1. n + 1 \in 1..(n + 1)
      BY <1>1
    <2>2. S = {kids[j] : j \in 1..n}
      BY <1>1 DEF Siblings, ToSet
    <2> QED BY <1>2, <1>4, <1>5, <2>1, <2>2 DEF ToSet
  <1>8. arms = [j \in DOMAIN new |-> ks[new[j]].inarm]
    <2>1. \A j \in 1..n : kidarms[j] = ks[kids[j]].inarm
      BY <1>1 DEF Siblings
    <2>2. \A j \in 1..(n + 1) : arms[j] = ks[new[j]].inarm
      BY <1>2, <1>3, <1>4, <2>1
    <2>3. arms = [j \in 1..(n + 1) |-> arms[j]]
      <3>1. arms \in [1..(n + 1) -> Nat]
        BY <1>3, ElementOfSeq
      <3> QED BY <3>1
    <2> QED BY <1>2, <2>2, <2>3
  <1>9. Siblings(new, arms, S \cup {k}, ks)
    BY <1>6, <1>7, <1>8 DEF Siblings
  <1> QED BY <1>9 DEF new, arms

\* Only the kids' own entries of the table count.
LEMMA SiblingsSame ==
  ASSUME NEW kids, NEW kidarms, NEW S, NEW ks, Siblings(kids, kidarms, S, ks),
         NEW js, \A k \in S : js[k].inarm = ks[k].inarm
  PROVE  Siblings(kids, kidarms, S, js)
  <1>1. \A i \in DOMAIN kids : kids[i] \in S
    BY DEF Siblings, ToSet
  <1> QED BY <1>1 DEF Siblings

-----------------------------------------------------------------------------
(* MtreeShapes *)

LEMMA MtreeShapes ==
  ASSUME t \in TreeType
  PROVE  /\ t.knobs \in Seq(KnobRec) /\ t.arms \in Seq(ArmRec) /\ t.live \in BOOLEAN
         /\ t.nlknob \in Nat /\ t.nlarm \in Nat
         /\ Len(t.knobs) \in Nat /\ Knob = 1..Len(t.knobs)
         /\ Len(t.arms) \in Nat /\ DOMAIN t.arms = 1..Len(t.arms)
         /\ \A k \in Knob : /\ t.knobs[k] \in KnobRec /\ t.knobs[k].live \in BOOLEAN
                            /\ t.knobs[k].par \in Nat /\ t.knobs[k].inarm \in Nat
                            /\ t.knobs[k].kids \in Seq(Nat) /\ t.knobs[k].kidarms \in Seq(Nat)
         /\ \A a \in DOMAIN t.arms : t.arms[a] \in ArmRec
         /\ IsFiniteSet(LiveKnobs) /\ IsFiniteSet(LiveArms)
         /\ LiveKnobs \subseteq Knob /\ LiveArms \subseteq DOMAIN t.arms
         /\ None \notin Knob /\ None \notin DOMAIN t.arms
  <1>1. /\ t.knobs \in Seq(KnobRec) /\ t.arms \in Seq(ArmRec) /\ t.live \in BOOLEAN
        /\ t.nlknob \in Nat /\ t.nlarm \in Nat
    BY DEF TreeType
  <1>2. Len(t.knobs) \in Nat /\ Knob = 1..Len(t.knobs)
    BY <1>1, LenProperties DEF Knob
  <1>3. Len(t.arms) \in Nat /\ DOMAIN t.arms = 1..Len(t.arms)
    BY <1>1, LenProperties
  <1>4. \A k \in Knob : t.knobs[k] \in KnobRec
    BY <1>1, <1>2, ElementOfSeq
  <1>5. \A a \in DOMAIN t.arms : t.arms[a] \in ArmRec
    BY <1>1, <1>3, ElementOfSeq
  <1>6. LiveKnobs \in SUBSET (1..Len(t.knobs)) /\ LiveArms \in SUBSET (1..Len(t.arms))
    BY <1>2, <1>3 DEF LiveKnobs, LiveArms
  <1>7. IsFiniteSet(LiveKnobs) /\ IsFiniteSet(LiveArms)
    <2>1. IsFiniteSet(1..Len(t.knobs)) /\ IsFiniteSet(1..Len(t.arms))
      BY <1>2, <1>3, FS_Interval
    <2> QED BY <1>6, <2>1, FS_Subset
  <1>8. None \notin Knob /\ None \notin DOMAIN t.arms
    BY <1>2, <1>3 DEF None
  <1>9. \A k \in Knob : /\ t.knobs[k].live \in BOOLEAN
                        /\ t.knobs[k].par \in Nat /\ t.knobs[k].inarm \in Nat
                        /\ t.knobs[k].kids \in Seq(Nat) /\ t.knobs[k].kidarms \in Seq(Nat)
    BY <1>4 DEF KnobRec
  <1> QED BY <1>1, <1>2, <1>3, <1>4, <1>5, <1>6, <1>7, <1>8, <1>9

\* MtreeSound, said of each list.
LEMMA SoundParts ==
  MtreeSound <=>
    /\ t.nlknob = Cardinality(LiveKnobs) /\ t.nlarm = Cardinality(LiveArms)
    /\ \A a \in LiveArms : /\ t.arms[a].kid \in LiveKnobs
                           /\ t.knobs[t.arms[a].kid].inarm = a
                           /\ t.knobs[t.arms[a].kid].par = t.arms[a].par
    /\ \A k \in LiveKnobs : \/ rootknob(k)
                            \/ t.knobs[k].inarm \in LiveArms /\ t.arms[t.knobs[k].inarm].kid = k
    /\ \A p \in LiveKnobs : Siblings(t.knobs[p].kids, t.knobs[p].kidarms, KidsOf(p), t.knobs)
    /\ NoCycle(Knob, Up)
  BY DEF MtreeSound, Siblings, KidsOf

\* Where a live knob hangs.
LEMMA WhereItHangs ==
  ASSUME MtreeInv
  PROVE  /\ Up \in SUBSET (Knob \X Knob)
         /\ \A k \in LiveKnobs :
              IF t.knobs[k].par = None THEN rootknob(k) /\ t.knobs[k].inarm = None
              ELSE /\ ~rootknob(k)
                   /\ t.knobs[k].par \in LiveKnobs /\ k \in KidsOf(t.knobs[k].par)
                   /\ t.knobs[k].inarm \in LiveArms /\ t.knobs[k].inarm # None
                   /\ t.arms[t.knobs[k].inarm].kid = k
                   /\ t.arms[t.knobs[k].inarm].par = t.knobs[k].par
  <1>1. ASSUME NEW k \in LiveKnobs
        PROVE  IF t.knobs[k].par = None THEN rootknob(k) /\ t.knobs[k].inarm = None
               ELSE /\ ~rootknob(k)
                    /\ t.knobs[k].par \in LiveKnobs /\ k \in KidsOf(t.knobs[k].par)
                    /\ t.knobs[k].inarm \in LiveArms /\ t.knobs[k].inarm # None
                    /\ t.arms[t.knobs[k].inarm].kid = k
                    /\ t.arms[t.knobs[k].inarm].par = t.knobs[k].par
    <2>1. CASE rootknob(k)
      BY <2>1 DEF rootknob
    <2>2. CASE ~rootknob(k)
      <3>1. t.knobs[k].inarm \in LiveArms /\ t.arms[t.knobs[k].inarm].kid = k
        BY <2>2, SoundParts DEF MtreeInv
      <3>2. t.arms[t.knobs[k].inarm].par = t.knobs[k].par
        BY <3>1, SoundParts DEF MtreeInv
      <3>3. t.knobs[k].par \in LiveKnobs
        BY <3>1, <3>2 DEF MtreeInv
      <3>4. t.knobs[k].par # None /\ t.knobs[k].inarm # None
        BY <3>1, <3>3, MtreeShapes DEF MtreeInv
      <3> QED BY <2>2, <3>1, <3>2, <3>3, <3>4 DEF KidsOf
    <2> QED BY <2>1, <2>2
  <1>2. Up \in SUBSET (Knob \X Knob)
    BY <1>1, MtreeShapes DEF MtreeInv, Up
  <1> QED BY <1>1, <1>2

\* One knob's lists are others; nothing else changes.
Relisted(y, x, p, kids, kidarms) ==
  /\ y \in TreeType
  /\ y.live = x.live /\ y.nlknob = x.nlknob /\ y.arms = x.arms /\ y.nlarm = x.nlarm
  /\ DOMAIN y.knobs = DOMAIN x.knobs
  /\ y.knobs[p].kids = kids /\ y.knobs[p].kidarms = kidarms
  /\ y.knobs[p].par = x.knobs[p].par /\ y.knobs[p].inarm = x.knobs[p].inarm
  /\ y.knobs[p].live <=> x.knobs[p].live
  /\ \A c \in DOMAIN x.knobs \ {p} : y.knobs[c] = x.knobs[c]

LEMMA ListsReplaced ==
  ASSUME NEW x \in TreeType, NEW p \in DOMAIN x.knobs,
         NEW l \in Seq(Nat), NEW m \in Seq(Nat),
         NEW y, y = [x EXCEPT !.knobs[p].kids = l, !.knobs[p].kidarms = m]
  PROVE  Relisted(y, x, p, l, m)
  <1> DEFINE rec == [x.knobs[p] EXCEPT !.kids = l, !.kidarms = m]
             ks == [x.knobs EXCEPT ![p] = rec]
  <1>1. x.knobs \in Seq(KnobRec) /\ DOMAIN x.knobs = 1..Len(x.knobs)
    BY LenProperties DEF TreeType
  <1>2. x.knobs[p] \in KnobRec
    BY <1>1, ElementOfSeq
  <1>3. y = [x EXCEPT !.knobs = ks]
    BY <1>1, <1>2 DEF TreeType, KnobRec
  <1>4. /\ rec \in KnobRec /\ rec.kids = l /\ rec.kidarms = m
        /\ rec.par = x.knobs[p].par /\ rec.inarm = x.knobs[p].inarm /\ rec.live = x.knobs[p].live
    BY <1>2 DEF KnobRec
  <1> HIDE DEF rec
  <1>5. /\ ks \in Seq(KnobRec) /\ DOMAIN ks = DOMAIN x.knobs /\ ks[p] = rec
        /\ \A c \in DOMAIN x.knobs \ {p} : ks[c] = x.knobs[c]
    BY <1>1, <1>4, ExceptSeq
  <1> HIDE DEF ks
  <1>6. /\ y \in TreeType /\ y.knobs = ks /\ y.live = x.live /\ y.nlknob = x.nlknob
        /\ y.arms = x.arms /\ y.nlarm = x.nlarm
    BY <1>3, <1>5 DEF TreeType
  <1> QED BY <1>4, <1>5, <1>6 DEF Relisted

LEMMA KidAppended ==
  ASSUME NEW x \in TreeType, NEW p \in DOMAIN x.knobs, NEW k \in Nat, NEW a \in Nat
  PROVE  Relisted(append_kid(x, p, k, a), x, p,
                  Append(x.knobs[p].kids, k), Append(x.knobs[p].kidarms, a))
  <1>1. x.knobs \in Seq(KnobRec) /\ DOMAIN x.knobs = 1..Len(x.knobs)
    BY LenProperties DEF TreeType
  <1>2. x.knobs[p] \in KnobRec
    BY <1>1, ElementOfSeq
  <1>3. PICK l \in Seq(Nat), m \in Seq(Nat) :
          l = Append(x.knobs[p].kids, k) /\ m = Append(x.knobs[p].kidarms, a)
    BY <1>2, AppendProperties DEF KnobRec
  <1>4. PICK y : y = append_kid(x, p, k, a)
    OBVIOUS
  <1>5. y = [x EXCEPT !.knobs[p].kids = l, !.knobs[p].kidarms = m]
    BY <1>1, <1>2, <1>3, <1>4 DEF append_kid, TreeType, KnobRec
  <1>6. Relisted(y, x, p, l, m)
    BY <1>5, ListsReplaced
  <1> QED BY <1>3, <1>4, <1>6

\* A kid in the lists leaves them, whatever follows it moves up.
LEMMA KidRemoved ==
  ASSUME NEW x \in TreeType, NEW p \in DOMAIN x.knobs, NEW S,
         Siblings(x.knobs[p].kids, x.knobs[p].kidarms, S, x.knobs),
         NEW k \in S, NEW a, x.knobs[k].inarm = a
  PROVE  \E l \in Seq(Nat), m \in Seq(Nat) :
           /\ Relisted(remove_kid(x, p, k, a), x, p, l, m)
           /\ Siblings(l, m, S \ {k}, x.knobs)
  <1> DEFINE kids == x.knobs[p].kids
             kidarms == x.knobs[p].kidarms
             at == {j \in DOMAIN kids : kids[j] = k /\ kidarms[j] = a}
  <1>1. x.knobs \in Seq(KnobRec) /\ DOMAIN x.knobs = 1..Len(x.knobs)
    BY LenProperties DEF TreeType
  <1>2. x.knobs[p] \in KnobRec /\ kids \in Seq(Nat) /\ kidarms \in Seq(Nat)
    <2>1. x.knobs[p] \in KnobRec
      BY <1>1, ElementOfSeq
    <2> QED BY <2>1 DEF KnobRec
  <1>3. PICK i \in 1..Len(kids) : at = {i}
    BY <1>2, PlaceOfKid
  <1>4. kids[i] = k /\ Len(kidarms) = Len(kids) /\ i \in Int
    <2>1. kids[i] = k
      BY <1>3
    <2>2. DOMAIN kidarms = DOMAIN kids
      BY DEF Siblings
    <2> HIDE DEF kids, kidarms, at
    <2>3. Len(kidarms) = Len(kids) /\ Len(kids) \in Nat
      BY <1>2, <2>2, LenProperties
    <2> QED BY <2>1, <2>3
  <1>5. PICK l \in Seq(Nat), m \in Seq(Nat) : l = RemoveAt(kids, i) /\ m = RemoveAt(kidarms, i)
    BY <1>2, <1>3, <1>4, Removed
  <1>6. (CHOOSE h \in at : \A j \in at : h <= j) = i
    BY <1>3, <1>4
  <1>7. remove_kid(x, p, k, a) =
          [x EXCEPT !.knobs[p].kids = RemoveAt(@, i), !.knobs[p].kidarms = RemoveAt(@, i)]
    BY <1>3, <1>6 DEF remove_kid
  <1>8. PICK y : y = remove_kid(x, p, k, a)
    OBVIOUS
  <1>9. y = [x EXCEPT !.knobs[p].kids = l, !.knobs[p].kidarms = m]
    BY <1>1, <1>2, <1>5, <1>7, <1>8 DEF TreeType, KnobRec
  <1>10. Siblings(l, m, S \ {k}, x.knobs)
    BY <1>2, <1>3, <1>4, <1>5, SiblingRemoved
  <1>11. Relisted(y, x, p, l, m)
    <2> HIDE DEF kids, kidarms, at
    <2> QED BY <1>9, ListsReplaced
  <1> QED BY <1>8, <1>10, <1>11

\* dead_arm for each of some arms: they are dead, the rest is as it was, and
\* the count is that of the arms still alive.
ThinnedKids(y, x, dead) ==
  /\ y \in TreeType
  /\ y.live = x.live /\ y.knobs = x.knobs /\ y.nlknob = x.nlknob
  /\ DOMAIN y.arms = DOMAIN t.arms
  /\ \A a \in DOMAIN t.arms : /\ y.arms[a].par = t.arms[a].par /\ y.arms[a].kid = t.arms[a].kid
                              /\ y.arms[a].live <=> t.arms[a].live /\ a \notin dead
  /\ y.nlarm = Cardinality(LiveArms \ dead)

LEMMA ArmsThinned ==
  ASSUME t \in TreeType, t.nlarm = Cardinality(LiveArms),
         NEW x \in TreeType, x.arms = t.arms, x.nlarm = t.nlarm,
         NEW dead, dead \subseteq DOMAIN t.arms
  PROVE  ThinnedKids(WithoutArms(x, dead), x, dead)
  <1> DEFINE w == WithoutArms(x, dead)
             new == [a \in DOMAIN t.arms |-> [t.arms[a] EXCEPT !.live = t.arms[a].live /\ a \notin dead]]
             ended == {a \in dead : t.arms[a].live}
             n == t.nlarm - Cardinality(ended)
  <1>1. w = [x EXCEPT !.arms = new, !.nlarm = n]
    BY DEF WithoutArms
  <1>2. \A a \in DOMAIN t.arms : /\ new[a] \in ArmRec
                                 /\ new[a].par = t.arms[a].par /\ new[a].kid = t.arms[a].kid
                                 /\ new[a].live = (t.arms[a].live /\ a \notin dead)
    BY MtreeShapes DEF ArmRec
  <1>3. new \in Seq(ArmRec) /\ DOMAIN new = DOMAIN t.arms
    <2>1. new \in [1..Len(t.arms) -> ArmRec] /\ Len(t.arms) \in Nat
      BY <1>2, MtreeShapes
    <2>2. PICK l \in Nat : l = Len(t.arms)
      BY <2>1
    <2>3. PICK h \in [1..l -> ArmRec] : h = new
      BY <2>1, <2>2
    <2>4. h \in Seq(ArmRec)
      BY FnIsSeq
    <2> QED BY <2>3, <2>4
  <1>4. n = Cardinality(LiveArms \ dead) /\ n \in Nat
    <2>1. ended = LiveArms \cap dead
      BY DEF LiveArms
    <2>2. Cardinality(LiveArms \ dead) = Cardinality(LiveArms) - Cardinality(LiveArms \cap dead)
      BY MtreeShapes, FS_Difference
    <2>3. IsFiniteSet(LiveArms \ dead) /\ Cardinality(LiveArms \ dead) \in Nat
      BY MtreeShapes, FS_Difference, FS_CardinalityType
    <2> QED BY <2>1, <2>2, <2>3
  <1> HIDE DEF new, n
  <1>5. /\ w \in TreeType /\ w.live = x.live /\ w.knobs = x.knobs /\ w.nlknob = x.nlknob
        /\ w.arms = new /\ w.nlarm = n
    <2> HIDE DEF w
    <2> QED BY <1>1, <1>3, <1>4 DEF TreeType
  <1> QED BY <1>2, <1>3, <1>4, <1>5 DEF ThinnedKids

-----------------------------------------------------------------------------
(* New knobs *)

\* The parts of the invariant, after a step.
LEMMA PartsSuffice ==
  ASSUME t' \in TreeType,
         t'.nlknob = Cardinality(LiveKnobs'), t'.nlarm = Cardinality(LiveArms'),
         \A a \in LiveArms' : /\ t'.arms[a].kid \in LiveKnobs' /\ t'.arms[a].par \in LiveKnobs'
                              /\ t'.knobs[t'.arms[a].kid].inarm = a
                              /\ t'.knobs[t'.arms[a].kid].par = t'.arms[a].par,
         \A k \in LiveKnobs' :
           \/ t'.knobs[k].par = None /\ t'.knobs[k].inarm = None
           \/ t'.knobs[k].inarm \in LiveArms' /\ t'.arms[t'.knobs[k].inarm].kid = k,
         \A p \in LiveKnobs' :
           Siblings(t'.knobs[p].kids, t'.knobs[p].kidarms, KidsOf(p)', t'.knobs),
         NoCycle(Knob', Up')
  PROVE  MtreeInv'
  BY DEF MtreeInv, MtreeSound, Siblings, KidsOf, rootknob

\* A sequence with one more element at its end.
LEMMA LongerKids ==
  ASSUME NEW S, NEW s \in Seq(S), NEW e \in S, NEW n, n = Len(s) + 1, NEW new, new = Append(s, e)
  PROVE  /\ new \in Seq(S) /\ n \in Nat /\ n # 0 /\ n \notin DOMAIN s
         /\ DOMAIN new = DOMAIN s \cup {n} /\ new[n] = e
         /\ \A i \in DOMAIN s : new[i] = s[i]
  <1>1. Len(s) \in Nat /\ DOMAIN s = 1..Len(s)
    BY LenProperties
  <1>2. /\ new \in Seq(S) /\ Len(new) = n /\ new[n] = e
        /\ \A i \in 1..Len(s) : new[i] = s[i]
    BY AppendProperties
  <1>3. DOMAIN new = 1..n
    BY <1>2, LenProperties
  <1> QED BY <1>1, <1>2, <1>3

LEMMA NoSiblings == ASSUME NEW ks PROVE Siblings(<<>>, <<>>, {}, ks)
  <1>1. <<>> = [i \in {} |-> ks[i].inarm] /\ DOMAIN <<>> = {}
    OBVIOUS
  <1> QED BY <1>1 DEF Siblings, IsInjective, ToSet

LEMMA RootKeeps == ASSUME MtreeInv, mtroot PROVE MtreeInv' /\ MtreeIdsKept
  <1>1. PICK n, rec, ks : /\ n = Len(t.knobs) + 1 /\ rec = NewKnob(None, None)
                          /\ ks = Append(t.knobs, rec)
    OBVIOUS
  <1>2. /\ rec \in KnobRec /\ rec.par = None /\ rec.inarm = None /\ rec.live
        /\ rec.kids = <<>> /\ rec.kidarms = <<>>
    BY <1>1, EmptySeq DEF NewKnob, KnobRec, None
  <1>3. /\ ks \in Seq(KnobRec) /\ n \in Nat /\ n # None /\ n \notin Knob
        /\ DOMAIN ks = Knob \cup {n} /\ ks[n] = rec
        /\ \A k \in Knob : ks[k] = t.knobs[k]
    BY <1>1, <1>2, MtreeShapes, LongerKids DEF MtreeInv, Knob, None
  <1>4. PICK i \in Nat : i = t.nlknob + 1
    BY MtreeShapes DEF MtreeInv
  <1>5. t' = [t EXCEPT !.knobs = ks, !.nlknob = i]
    BY <1>1, <1>4 DEF mtroot
  <1>6. /\ t' \in TreeType /\ t'.live = t.live /\ t'.knobs = ks /\ t'.nlknob = i
        /\ t'.arms = t.arms /\ t'.nlarm = t.nlarm
    BY <1>3, <1>5 DEF MtreeInv, TreeType
  <1>7. Knob' = Knob \cup {n} /\ LiveKnobs' = LiveKnobs \cup {n} /\ LiveArms' = LiveArms
    BY <1>2, <1>3, <1>6 DEF Knob, LiveKnobs, LiveArms
  <1>8. \A k \in LiveKnobs : k \in Knob /\ t'.knobs[k] = t.knobs[k] /\ t.knobs[k].par # n
    <2>1. \A k \in LiveKnobs : t.knobs[k].par \in Knob \cup {None}
      BY WhereItHangs, MtreeShapes DEF MtreeInv
    <2> QED BY <1>3, <1>6, <2>1 DEF LiveKnobs
  <1>9. t'.nlknob = Cardinality(LiveKnobs')
    <2>1. IsFiniteSet(LiveKnobs) /\ n \notin LiveKnobs /\ t.nlknob = Cardinality(LiveKnobs)
      BY <1>3, MtreeShapes, SoundParts DEF MtreeInv
    <2>2. Cardinality(LiveKnobs \cup {n}) = Cardinality(LiveKnobs) + 1
      BY <2>1, FS_AddElement
    <2> QED BY <1>4, <1>6, <1>7, <2>1, <2>2
  <1>10. \A a \in LiveArms' : /\ t'.arms[a].kid \in LiveKnobs' /\ t'.arms[a].par \in LiveKnobs'
                              /\ t'.knobs[t'.arms[a].kid].inarm = a
                              /\ t'.knobs[t'.arms[a].kid].par = t'.arms[a].par
    BY <1>6, <1>7, <1>8, SoundParts DEF MtreeInv
  <1>11. \A k \in LiveKnobs' :
           \/ t'.knobs[k].par = None /\ t'.knobs[k].inarm = None
           \/ t'.knobs[k].inarm \in LiveArms' /\ t'.arms[t'.knobs[k].inarm].kid = k
    BY <1>2, <1>3, <1>6, <1>7, <1>8, WhereItHangs
  <1>12. ASSUME NEW p \in LiveKnobs'
         PROVE  Siblings(t'.knobs[p].kids, t'.knobs[p].kidarms, KidsOf(p)', t'.knobs)
    <2>1. CASE p \in LiveKnobs
      <3>1. p # n /\ p # None
        BY <1>3, <1>8, <2>1, MtreeShapes DEF MtreeInv
      <3>2. KidsOf(p)' = KidsOf(p) /\ \A k \in KidsOf(p) : t'.knobs[k].inarm = t.knobs[k].inarm
        BY <1>2, <1>3, <1>6, <1>7, <1>8, <3>1 DEF KidsOf
      <3>3. Siblings(t.knobs[p].kids, t.knobs[p].kidarms, KidsOf(p), t.knobs)
        BY <2>1, SoundParts DEF MtreeInv
      <3>4. Siblings(t.knobs[p].kids, t.knobs[p].kidarms, KidsOf(p), t'.knobs)
        BY <3>2, <3>3, SiblingsSame
      <3> QED BY <1>8, <2>1, <3>2, <3>4
    <2>2. CASE p = n
      <3>1. KidsOf(p)' = {}
        BY <1>2, <1>3, <1>6, <1>7, <1>8, <2>2 DEF KidsOf
      <3> QED BY <1>2, <1>3, <1>6, <2>2, <3>1, NoSiblings
    <2> QED BY <1>7, <2>1, <2>2
  <1>13. NoCycle(Knob', Up')
    <2>1. Up' \subseteq Up
      BY <1>2, <1>3, <1>6, <1>7, <1>8 DEF Up
    <2>2. NoCycle(Knob, Up) /\ Up \in SUBSET (Knob \X Knob)
      BY WhereItHangs, SoundParts DEF MtreeInv
    <2> QED BY <1>7, <2>1, <2>2, FewerEdges
  <1>14. t'.nlarm = Cardinality(LiveArms')
    BY <1>6, <1>7, SoundParts DEF MtreeInv
  <1>15. MtreeIdsKept
    BY <1>3, <1>6, <1>7 DEF MtreeIdsKept, Knob
  <1> QED BY <1>6, <1>9, <1>10, <1>11, <1>12, <1>13, <1>14, <1>15, PartsSuffice

LEMMA KnobKeeps == ASSUME MtreeInv, NEW par, mtknob(par) PROVE MtreeInv' /\ MtreeIdsKept
  <1>0. par \in LiveKnobs /\ par \in Knob
    BY DEF mtknob, LiveKnobs
  <1>1. PICK n, m, rec, arec :
          /\ n = Len(t.knobs) + 1 /\ m = Len(t.arms) + 1
          /\ rec = NewKnob(par, m) /\ arec = [par |-> par, kid |-> n, live |-> TRUE]
    OBVIOUS
  <1>2. PICK x : x = append_kid(t, par, n, m)
    OBVIOUS
  <1>3. PICK ks, list : ks = Append(x.knobs, rec) /\ list = Append(t.arms, arec)
    OBVIOUS
  <1>4. n \in Nat /\ m \in Nat /\ par \in Nat
    BY <1>0, <1>1, MtreeShapes DEF MtreeInv
  <1>5. Relisted(x, t, par, Append(t.knobs[par].kids, n), Append(t.knobs[par].kidarms, m))
    BY <1>0, <1>2, <1>4, KidAppended DEF MtreeInv, Knob
  <1>6. /\ rec \in KnobRec /\ rec.par = par /\ rec.inarm = m /\ rec.live
        /\ rec.kids = <<>> /\ rec.kidarms = <<>>
    BY <1>1, <1>4, EmptySeq DEF NewKnob, KnobRec
  <1>7. arec \in ArmRec /\ arec.par = par /\ arec.kid = n /\ arec.live
    BY <1>1, <1>4 DEF ArmRec
  <1>8. /\ ks \in Seq(KnobRec) /\ n # None /\ n \notin Knob
        /\ DOMAIN ks = Knob \cup {n} /\ ks[n] = rec
        /\ \A k \in Knob : ks[k] = x.knobs[k]
    <2>1. x.knobs \in Seq(KnobRec) /\ DOMAIN x.knobs = Knob
      BY <1>5 DEF Relisted, TreeType, Knob
    <2>2. Len(x.knobs) = Len(t.knobs)
      BY <2>1, MtreeShapes, LenProperties DEF MtreeInv, Knob
    <2>3. n = Len(x.knobs) + 1
      BY <1>1, <2>2
    <2> QED BY <1>3, <1>6, <2>1, <2>3, LongerKids DEF None
  <1>9. /\ list \in Seq(ArmRec) /\ m # None /\ m \notin DOMAIN t.arms
        /\ DOMAIN list = DOMAIN t.arms \cup {m} /\ list[m] = arec
        /\ \A a \in DOMAIN t.arms : list[a] = t.arms[a]
    <2>1. PICK s \in Seq(ArmRec) : s = t.arms
      BY MtreeShapes DEF MtreeInv
    <2>2. m = Len(s) + 1 /\ list = Append(s, arec) /\ arec \in ArmRec
      BY <1>1, <1>3, <1>7, <2>1
    <2>3. /\ list \in Seq(ArmRec) /\ m # 0 /\ m \notin DOMAIN s
          /\ DOMAIN list = DOMAIN s \cup {m} /\ list[m] = arec
          /\ \A a \in DOMAIN s : list[a] = s[a]
      BY ONLY <2>2, s \in Seq(ArmRec), LongerKids
    <2> QED BY <2>1, <2>3 DEF None
  <1>10. PICK i \in Nat, j \in Nat : i = t.nlknob + 1 /\ j = t.nlarm + 1
    BY MtreeShapes DEF MtreeInv
  <1>11. t' = [x EXCEPT !.knobs = ks, !.nlknob = i, !.arms = list, !.nlarm = j]
    <2>1. x.nlknob = t.nlknob /\ x.nlarm = t.nlarm /\ x.arms = t.arms
      BY <1>5 DEF Relisted
    <2> QED BY <1>1, <1>2, <1>3, <1>10, <2>1 DEF mtknob
  <1>12. /\ t' \in TreeType /\ t'.live = t.live /\ t'.knobs = ks /\ t'.nlknob = i
         /\ t'.arms = list /\ t'.nlarm = j
    BY <1>5, <1>8, <1>9, <1>10, <1>11 DEF Relisted, TreeType
  <1>13. \A k \in Knob : /\ t'.knobs[k].par = t.knobs[k].par /\ t'.knobs[k].inarm = t.knobs[k].inarm
                         /\ t'.knobs[k].live <=> t.knobs[k].live
    <2>1. ASSUME NEW k \in Knob
          PROVE  /\ t'.knobs[k].par = t.knobs[k].par /\ t'.knobs[k].inarm = t.knobs[k].inarm
                 /\ t'.knobs[k].live <=> t.knobs[k].live
      <3>1. t'.knobs[k] = x.knobs[k]
        BY <1>8, <1>12
      <3>2. CASE k = par
        BY <1>5, <3>1, <3>2 DEF Relisted
      <3>3. CASE k # par
        BY <1>5, <3>1, <3>3 DEF Relisted, Knob
      <3> QED BY <3>2, <3>3
    <2> QED BY <2>1
  <1>14. Knob' = Knob \cup {n} /\ LiveKnobs' = LiveKnobs \cup {n} /\ LiveArms' = LiveArms \cup {m}
    <2>1. Knob' = Knob \cup {n}
      BY <1>8, <1>12 DEF Knob
    <2>2. LiveKnobs' = LiveKnobs \cup {n}
      BY <1>6, <1>8, <1>12, <1>13, <2>1 DEF LiveKnobs
    <2>3. LiveArms' = LiveArms \cup {m}
      BY <1>7, <1>9, <1>12 DEF LiveArms
    <2> QED BY <2>1, <2>2, <2>3
  <1>15. t'.knobs[n].par = par /\ t'.knobs[n].inarm = m /\ t'.arms[m].kid = n /\ t'.arms[m].par = par
    BY <1>6, <1>7, <1>8, <1>9, <1>12
  <1>16. \A k \in LiveKnobs : k \in Knob /\ t'.knobs[k].par # n
    <2>1. \A k \in LiveKnobs : k \in Knob /\ t.knobs[k].par \in Knob \cup {None}
      BY WhereItHangs, MtreeShapes DEF MtreeInv
    <2> QED BY <1>8, <1>13, <2>1
  <1>17. t'.nlknob = Cardinality(LiveKnobs') /\ t'.nlarm = Cardinality(LiveArms')
    <2>1. /\ IsFiniteSet(LiveKnobs) /\ n \notin LiveKnobs /\ t.nlknob = Cardinality(LiveKnobs)
          /\ IsFiniteSet(LiveArms) /\ m \notin LiveArms /\ t.nlarm = Cardinality(LiveArms)
      BY <1>8, <1>9, MtreeShapes, SoundParts DEF MtreeInv
    <2>2. /\ Cardinality(LiveKnobs \cup {n}) = Cardinality(LiveKnobs) + 1
          /\ Cardinality(LiveArms \cup {m}) = Cardinality(LiveArms) + 1
      BY <2>1, FS_AddElement
    <2> QED BY <1>10, <1>12, <1>14, <2>1, <2>2
  <1>18. \A a \in LiveArms' : /\ t'.arms[a].kid \in LiveKnobs' /\ t'.arms[a].par \in LiveKnobs'
                              /\ t'.knobs[t'.arms[a].kid].inarm = a
                              /\ t'.knobs[t'.arms[a].kid].par = t'.arms[a].par
    <2>1. ASSUME NEW a \in LiveArms
          PROVE  /\ t'.arms[a].kid \in LiveKnobs' /\ t'.arms[a].par \in LiveKnobs'
                 /\ t'.knobs[t'.arms[a].kid].inarm = a
                 /\ t'.knobs[t'.arms[a].kid].par = t'.arms[a].par
      <3>1. t'.arms[a] = t.arms[a]
        BY <1>9, <1>12 DEF LiveArms
      <3>2. t.arms[a].kid \in LiveKnobs
        BY SoundParts DEF MtreeInv
      <3> QED BY <1>13, <1>14, <1>16, <3>1, <3>2, SoundParts DEF MtreeInv
    <2> QED BY <1>0, <1>14, <1>15, <2>1
  <1>19. \A k \in LiveKnobs' :
           \/ t'.knobs[k].par = None /\ t'.knobs[k].inarm = None
           \/ t'.knobs[k].inarm \in LiveArms' /\ t'.arms[t'.knobs[k].inarm].kid = k
    <2>1. ASSUME NEW k \in LiveKnobs
          PROVE  \/ t'.knobs[k].par = None /\ t'.knobs[k].inarm = None
                 \/ t'.knobs[k].inarm \in LiveArms' /\ t'.arms[t'.knobs[k].inarm].kid = k
      <3>1. t'.knobs[k].par = t.knobs[k].par /\ t'.knobs[k].inarm = t.knobs[k].inarm
        BY <1>13, <1>16
      <3>2. \A a \in LiveArms : t'.arms[a] = t.arms[a]
        BY <1>9, <1>12 DEF LiveArms
      <3> QED BY <1>14, <3>1, <3>2, WhereItHangs
    <2> QED BY <1>14, <1>15, <2>1
  <1>20. ASSUME NEW p \in LiveKnobs'
         PROVE  Siblings(t'.knobs[p].kids, t'.knobs[p].kidarms, KidsOf(p)', t'.knobs)
    <2>1. ASSUME p \in LiveKnobs
          PROVE  /\ Siblings(t.knobs[p].kids, t.knobs[p].kidarms, KidsOf(p), t'.knobs)
                 /\ p \in Knob /\ p # n
      <3>1. \A k \in KidsOf(p) : t'.knobs[k].inarm = t.knobs[k].inarm
        BY <1>13, <1>16 DEF KidsOf
      <3>2. Siblings(t.knobs[p].kids, t.knobs[p].kidarms, KidsOf(p), t.knobs)
        BY <2>1, SoundParts DEF MtreeInv
      <3> QED BY <1>8, <1>16, <2>1, <3>1, <3>2, SiblingsSame
    <2>2. CASE p = n
      <3>1. KidsOf(p)' = {}
        BY <1>0, <1>8, <1>14, <1>15, <1>16, <2>2 DEF KidsOf
      <3> QED BY <1>6, <1>8, <1>12, <2>2, <3>1, NoSiblings
    <2>3. CASE p = par
      <3>1. KidsOf(par)' = KidsOf(par) \cup {n} /\ n \notin KidsOf(par)
        BY <1>8, <1>13, <1>14, <1>15, <1>16 DEF KidsOf
      <3>2. t.knobs[par].kids \in Seq(Nat) /\ t.knobs[par].kidarms \in Seq(Nat)
        BY <1>0, MtreeShapes DEF MtreeInv
      <3>3. /\ t'.knobs[par].kids = Append(t.knobs[par].kids, n)
            /\ t'.knobs[par].kidarms = Append(t.knobs[par].kidarms, m)
        BY <1>0, <1>5, <1>8, <1>12 DEF Relisted
      <3>4. PICK kl, al, S, h : /\ kl = t.knobs[par].kids /\ al = t.knobs[par].kidarms
                                /\ S = KidsOf(par) /\ h = t'.knobs
        OBVIOUS
      <3>5. /\ kl \in Seq(Nat) /\ al \in Seq(Nat) /\ Siblings(kl, al, S, h) /\ n \notin S
            /\ n \in Nat /\ m \in Nat /\ h[n].inarm = m
        BY <1>0, <1>4, <1>15, <2>1, <2>3, <3>1, <3>2, <3>4
      <3>6. Siblings(Append(kl, n), Append(al, m), S \cup {n}, h)
        BY ONLY <3>5, SiblingAdded
      <3> QED BY <2>3, <3>1, <3>3, <3>4, <3>6
    <2>4. CASE p \in LiveKnobs \ {par}
      <3>1. KidsOf(p)' = KidsOf(p)
        BY <1>13, <1>14, <1>15, <1>16, <2>4 DEF KidsOf
      <3>2. t'.knobs[p] = t.knobs[p]
        BY <1>5, <1>8, <1>12, <1>16, <2>4 DEF Relisted, Knob
      <3> QED BY <2>1, <2>4, <3>1, <3>2
    <2> QED BY <1>14, <2>2, <2>3, <2>4
  <1>21. NoCycle(Knob', Up')
    <2>1. Up' \subseteq Up \cup {<<n, par>>}
      BY <1>13, <1>14, <1>15, <1>16 DEF Up
    <2>2. NoCycle(Knob, Up) /\ Up \in SUBSET (Knob \X Knob)
      BY WhereItHangs, SoundParts DEF MtreeInv
    <2>3. n \notin Reach(Knob, Up, par)
      BY <1>8 DEF Reach
    <2> QED BY <1>0, <1>14, <2>1, <2>2, <2>3, Hung
  <1>22. MtreeIdsKept
    BY <1>8, <1>9, <1>12, <1>13, <1>14 DEF MtreeIdsKept, Knob
  <1> QED BY <1>12, <1>17, <1>18, <1>19, <1>20, <1>21, <1>22, PartsSuffice

-----------------------------------------------------------------------------
(* Knobs that leave their place *)

LEMMA NotItsOwnParent == ASSUME MtreeInv, NEW k \in LiveKnobs PROVE t.knobs[k].par # k
  <1> SUFFICES ASSUME t.knobs[k].par = k PROVE FALSE
    OBVIOUS
  <1>1. k \in Knob /\ k # None
    BY MtreeShapes DEF MtreeInv, LiveKnobs
  <1>2. <<k, k>> \in Up /\ k \in Reach(Knob, Up, k)
    BY <1>1 DEF Up, Reach
  <1> QED BY <1>2, SoundParts DEF MtreeInv, NoCycle

\* One knob has another parent and arm; nothing else changes.
Rehung(y, x, k, p, a) ==
  /\ y \in TreeType
  /\ y.live = x.live /\ y.nlknob = x.nlknob /\ y.arms = x.arms /\ y.nlarm = x.nlarm
  /\ DOMAIN y.knobs = DOMAIN x.knobs
  /\ y.knobs[k].par = p /\ y.knobs[k].inarm = a
  /\ y.knobs[k].kids = x.knobs[k].kids /\ y.knobs[k].kidarms = x.knobs[k].kidarms
  /\ y.knobs[k].live <=> x.knobs[k].live
  /\ \A c \in DOMAIN x.knobs \ {k} : y.knobs[c] = x.knobs[c]

LEMMA KnobRehung ==
  ASSUME NEW x \in TreeType, NEW k \in DOMAIN x.knobs, NEW p \in Nat, NEW a \in Nat,
         NEW y, y = [x EXCEPT !.knobs[k].par = p, !.knobs[k].inarm = a]
  PROVE  Rehung(y, x, k, p, a)
  <1> DEFINE rec == [x.knobs[k] EXCEPT !.par = p, !.inarm = a]
             ks == [x.knobs EXCEPT ![k] = rec]
  <1>1. x.knobs \in Seq(KnobRec) /\ DOMAIN x.knobs = 1..Len(x.knobs)
    BY LenProperties DEF TreeType
  <1>2. x.knobs[k] \in KnobRec
    BY <1>1, ElementOfSeq
  <1>3. y = [x EXCEPT !.knobs = ks]
    BY <1>1, <1>2 DEF TreeType, KnobRec
  <1>4. /\ rec \in KnobRec /\ rec.par = p /\ rec.inarm = a /\ rec.live = x.knobs[k].live
        /\ rec.kids = x.knobs[k].kids /\ rec.kidarms = x.knobs[k].kidarms
    BY <1>2 DEF KnobRec
  <1> HIDE DEF rec
  <1>5. /\ ks \in Seq(KnobRec) /\ DOMAIN ks = DOMAIN x.knobs /\ ks[k] = rec
        /\ \A c \in DOMAIN x.knobs \ {k} : ks[c] = x.knobs[c]
    BY <1>1, <1>4, ExceptSeq
  <1> HIDE DEF ks
  <1>6. /\ y \in TreeType /\ y.knobs = ks /\ y.live = x.live /\ y.nlknob = x.nlknob
        /\ y.arms = x.arms /\ y.nlarm = x.nlarm
    BY <1>3, <1>5 DEF TreeType
  <1> QED BY <1>4, <1>5, <1>6 DEF Rehung

LEMMA KidLeaves ==
  ASSUME MtreeInv, NEW p \in LiveKnobs, NEW k \in KidsOf(p), NEW a, a = t.knobs[k].inarm,
         NEW x, x = remove_kid(t, p, k, a)
  PROVE  \E l \in Seq(Nat), m \in Seq(Nat) :
           Relisted(x, t, p, l, m) /\ Siblings(l, m, KidsOf(p) \ {k}, t.knobs)
  <1>1. Siblings(t.knobs[p].kids, t.knobs[p].kidarms, KidsOf(p), t.knobs)
    BY SoundParts DEF MtreeInv
  <1>2. p \in DOMAIN t.knobs /\ t \in TreeType
    BY DEF LiveKnobs, Knob, MtreeInv
  <1> QED BY <1>1, <1>2, KidRemoved

LEMMA DetachKeeps == ASSUME MtreeInv, NEW k, mtdetach(k) PROVE MtreeInv' /\ MtreeIdsKept
  <1>1. PICK p, a : p = t.knobs[k].par /\ a = t.knobs[k].inarm
    OBVIOUS
  <1>2. PICK x : x = remove_kid(t, p, k, a)
    OBVIOUS
  <1>3. PICK w : w = WithoutArms(x, {a})
    OBVIOUS
  <1>4. /\ k \in LiveKnobs /\ k \in Knob /\ ~rootknob(k)
        /\ t' = [w EXCEPT !.knobs[k].par = None, !.knobs[k].inarm = None]
    BY <1>1, <1>2, <1>3 DEF mtdetach, LiveKnobs
  <1>5. /\ p \in LiveKnobs /\ p \in Knob /\ p # None /\ k \in KidsOf(p)
        /\ a \in LiveArms /\ a \in DOMAIN t.arms /\ p # k /\ t.arms[a].kid = k
    BY <1>1, <1>4, WhereItHangs, MtreeShapes, NotItsOwnParent DEF MtreeInv
  <1>6. PICK l \in Seq(Nat), m \in Seq(Nat) :
          Relisted(x, t, p, l, m) /\ Siblings(l, m, KidsOf(p) \ {k}, t.knobs)
    BY <1>1, <1>2, <1>5, KidLeaves
  <1>7. ThinnedKids(w, x, {a})
    <2>1. x \in TreeType /\ x.arms = t.arms /\ x.nlarm = t.nlarm
      BY <1>6 DEF Relisted
    <2> QED BY <1>3, <1>5, <2>1, ArmsThinned, SoundParts DEF MtreeInv
  <1>8. Rehung(t', w, k, None, None)
    <2>1. w \in TreeType /\ k \in DOMAIN w.knobs
      BY <1>4, <1>6, <1>7 DEF ThinnedKids, Relisted, Knob
    <2> QED BY <1>4, <2>1, KnobRehung DEF None
  <1>9. /\ t' \in TreeType /\ t'.live = t.live /\ t'.nlknob = t.nlknob /\ Knob' = Knob
        /\ t'.arms = w.arms /\ t'.nlarm = Cardinality(LiveArms \ {a}) /\ w.knobs = x.knobs
    BY <1>6, <1>7, <1>8 DEF ThinnedKids, Relisted, Rehung, Knob
  <1>10. /\ t'.knobs[k].par = None /\ t'.knobs[k].inarm = None
         /\ \A c \in Knob \ {k} : /\ t'.knobs[c].par = t.knobs[c].par
                                  /\ t'.knobs[c].inarm = t.knobs[c].inarm
         /\ \A c \in Knob : t'.knobs[c].live <=> t.knobs[c].live
         /\ t'.knobs[p].kids = l /\ t'.knobs[p].kidarms = m
         /\ \A c \in Knob \ {p} : /\ t'.knobs[c].kids = t.knobs[c].kids
                                  /\ t'.knobs[c].kidarms = t.knobs[c].kidarms
    <2>1. x.knobs[k] = t.knobs[k]
      BY <1>4, <1>5, <1>6 DEF Relisted, Knob
    <2>2. t'.knobs[p] = x.knobs[p]
      BY <1>5, <1>6, <1>8, <1>9 DEF Rehung, Relisted, Knob
    <2>3. \A c \in Knob \ {k, p} : t'.knobs[c] = t.knobs[c]
      BY <1>6, <1>8, <1>9 DEF Rehung, Relisted, Knob
    <2>4. /\ t'.knobs[k].par = None /\ t'.knobs[k].inarm = None
          /\ t'.knobs[k].live <=> t.knobs[k].live
          /\ t'.knobs[k].kids = t.knobs[k].kids /\ t'.knobs[k].kidarms = t.knobs[k].kidarms
      BY <1>8, <1>9, <2>1 DEF Rehung
    <2>5. /\ t'.knobs[p].par = t.knobs[p].par /\ t'.knobs[p].inarm = t.knobs[p].inarm
          /\ t'.knobs[p].live <=> t.knobs[p].live
          /\ t'.knobs[p].kids = l /\ t'.knobs[p].kidarms = m
      BY <1>6, <2>2 DEF Relisted
    <2> QED BY <2>3, <2>4, <2>5
  <1>11. /\ DOMAIN t'.arms = DOMAIN t.arms
         /\ \A e \in DOMAIN t.arms : /\ t'.arms[e].par = t.arms[e].par
                                     /\ t'.arms[e].kid = t.arms[e].kid
                                     /\ t'.arms[e].live <=> t.arms[e].live /\ e # a
    BY <1>7, <1>9 DEF ThinnedKids
  <1>12. LiveKnobs' = LiveKnobs /\ LiveArms' = LiveArms \ {a}
    BY <1>9, <1>10, <1>11 DEF LiveKnobs, LiveArms
  <1>13. \A e \in LiveArms' : e \in LiveArms /\ e \in DOMAIN t.arms /\ t.arms[e].kid # k
    BY <1>1, <1>12, MtreeShapes, SoundParts DEF MtreeInv
  <1>14. \A e \in LiveArms' : /\ t'.arms[e].kid \in LiveKnobs' /\ t'.arms[e].par \in LiveKnobs'
                              /\ t'.knobs[t'.arms[e].kid].inarm = e
                              /\ t'.knobs[t'.arms[e].kid].par = t'.arms[e].par
    <2>1. \A c \in LiveKnobs : c \in Knob
      BY DEF LiveKnobs
    <2> QED BY <1>10, <1>11, <1>12, <1>13, <2>1, SoundParts DEF MtreeInv
  <1>15. ASSUME NEW c \in LiveKnobs'
         PROVE  \/ t'.knobs[c].par = None /\ t'.knobs[c].inarm = None
                \/ t'.knobs[c].inarm \in LiveArms' /\ t'.arms[t'.knobs[c].inarm].kid = c
    <2>1. CASE c = k
      BY <1>10, <2>1
    <2>2. CASE c # k
      <3>1. c \in LiveKnobs /\ c \in Knob
        BY <1>12 DEF LiveKnobs
      <3>2. CASE t.knobs[c].par = None
        BY <1>10, <2>2, <3>1, <3>2, WhereItHangs
      <3>3. CASE t.knobs[c].par # None
        <4>1. /\ t.knobs[c].inarm \in LiveArms /\ t.arms[t.knobs[c].inarm].kid = c
              /\ t.knobs[c].inarm \in DOMAIN t.arms
          BY <3>1, <3>3, WhereItHangs, MtreeShapes DEF MtreeInv
        <4>2. t.knobs[c].inarm # a
          BY <1>5, <2>2, <4>1
        <4> QED BY <1>10, <1>11, <1>12, <2>2, <3>1, <4>1, <4>2
      <3> QED BY <3>2, <3>3
    <2> QED BY <2>1, <2>2
  <1>16. ASSUME NEW q \in LiveKnobs'
         PROVE  Siblings(t'.knobs[q].kids, t'.knobs[q].kidarms, KidsOf(q)', t'.knobs)
    <2>1. q \in LiveKnobs /\ q \in Knob /\ q # None
      BY <1>12, MtreeShapes DEF MtreeInv
    <2>2. KidsOf(q)' = KidsOf(q) \ {k}
      BY <1>10, <1>12, <2>1 DEF KidsOf, LiveKnobs
    <2>3. \A c \in KidsOf(q) \ {k} : t'.knobs[c].inarm = t.knobs[c].inarm
      BY <1>10 DEF KidsOf, LiveKnobs
    <2>4. CASE q = p
      BY <1>6, <1>10, <2>2, <2>3, <2>4, SiblingsSame
    <2>5. CASE q # p
      <3>1. k \notin KidsOf(q)
        BY <1>1, <2>5 DEF KidsOf
      <3>2. Siblings(t.knobs[q].kids, t.knobs[q].kidarms, KidsOf(q), t.knobs)
        BY <2>1, SoundParts DEF MtreeInv
      <3>3. KidsOf(q) \ {k} = KidsOf(q)
        BY <3>1
      <3>4. Siblings(t.knobs[q].kids, t.knobs[q].kidarms, KidsOf(q), t'.knobs)
        BY <2>3, <3>2, <3>3, SiblingsSame
      <3> QED BY <1>10, <2>1, <2>2, <2>5, <3>3, <3>4
    <2> QED BY <2>4, <2>5
  <1>17. NoCycle(Knob', Up')
    <2>1. Up' \subseteq Up
      BY <1>10, <1>12 DEF Up, LiveKnobs
    <2>2. NoCycle(Knob, Up) /\ Up \in SUBSET (Knob \X Knob)
      BY WhereItHangs, SoundParts DEF MtreeInv
    <2> QED BY <1>9, <2>1, <2>2, FewerEdges
  <1>18. t'.nlknob = Cardinality(LiveKnobs') /\ t'.nlarm = Cardinality(LiveArms')
    BY <1>9, <1>12, SoundParts DEF MtreeInv
  <1>19. MtreeIdsKept
    BY <1>9, <1>10, <1>11 DEF MtreeIdsKept, Knob
  <1> QED BY <1>9, <1>14, <1>15, <1>16, <1>17, <1>18, <1>19, PartsSuffice

LEMMA MoveKeeps == ASSUME MtreeInv, NEW k, NEW q \in Knob, mtmove(k, q) PROVE MtreeInv' /\ MtreeIdsKept
  <1>1. PICK p, a : p = t.knobs[k].par /\ a = t.knobs[k].inarm
    OBVIOUS
  <1>2. PICK y : y = remove_kid(t, p, k, a)
    OBVIOUS
  <1>3. PICK x : x = append_kid(y, q, k, a)
    OBVIOUS
  <1>4. /\ k \in LiveKnobs /\ k \in Knob /\ ~rootknob(k)
        /\ q \in LiveKnobs /\ q # k /\ k \notin Reach(Knob, Up, q) /\ q # p
        /\ t' = [x EXCEPT !.knobs[k].par = q, !.arms[a].par = q]
    BY <1>1, <1>2, <1>3 DEF mtmove, LiveKnobs, UnderItself, ancestor_live
  <1>5. /\ p \in LiveKnobs /\ p \in Knob /\ p # None /\ k \in KidsOf(p)
        /\ a \in LiveArms /\ a \in DOMAIN t.arms /\ p # k /\ t.arms[a].kid = k
    BY <1>1, <1>4, WhereItHangs, MtreeShapes, NotItsOwnParent DEF MtreeInv
  <1>6. k \in Nat /\ a \in Nat /\ q \in Nat
    BY <1>4, <1>5, MtreeShapes DEF MtreeInv
  <1>7. PICK l \in Seq(Nat), m \in Seq(Nat) :
          Relisted(y, t, p, l, m) /\ Siblings(l, m, KidsOf(p) \ {k}, t.knobs)
    BY <1>1, <1>2, <1>5, KidLeaves
  <1>8. y.knobs[q] = t.knobs[q] /\ y.knobs[k] = t.knobs[k]
    BY <1>4, <1>5, <1>7 DEF Relisted, Knob
  <1>9. Relisted(x, y, q, Append(t.knobs[q].kids, k), Append(t.knobs[q].kidarms, a))
    <2>1. y \in TreeType /\ q \in DOMAIN y.knobs
      BY <1>7 DEF Relisted, Knob
    <2> QED BY <1>3, <1>6, <1>8, <2>1, KidAppended
  <1>10. x.knobs[k] = t.knobs[k] /\ x.knobs[p] = y.knobs[p] /\ x.arms = t.arms
         /\ DOMAIN x.knobs = Knob /\ x \in TreeType
    BY <1>4, <1>5, <1>7, <1>8, <1>9 DEF Relisted, Knob
  <1>11. PICK z : z = [x EXCEPT !.knobs[k].par = q, !.knobs[k].inarm = a]
    OBVIOUS
  <1>12. Rehung(z, x, k, q, a)
    BY <1>4, <1>6, <1>10, <1>11, KnobRehung
  <1> DEFINE arec == [t.arms[a] EXCEPT !.par = q]
             list == [t.arms EXCEPT ![a] = arec]
  <1>13. t' = [z EXCEPT !.arms = list]
    <2>1. x.knobs[k] \in KnobRec /\ x.knobs[k].inarm = a
      BY <1>1, <1>4, <1>10, MtreeShapes DEF MtreeInv
    <2>2. [x.knobs[k] EXCEPT !.par = q, !.inarm = a] = [x.knobs[k] EXCEPT !.par = q]
      BY <2>1 DEF KnobRec
    <2>3. z = [x EXCEPT !.knobs[k].par = q]
      BY <1>11, <2>2
    <2>4. t' = [x EXCEPT !.knobs[k].par = q, !.arms = list]
      BY <1>4, <1>10
    <2> QED BY <1>10, <2>3, <2>4 DEF TreeType
  <1>14. arec \in ArmRec /\ arec.par = q /\ arec.kid = k /\ arec.live
    <2>1. t.arms[a] \in ArmRec /\ t.arms[a].live
      BY <1>5, MtreeShapes DEF MtreeInv, LiveArms
    <2> QED BY <1>5, <1>6, <2>1 DEF ArmRec
  <1> HIDE DEF arec
  <1>15. /\ list \in Seq(ArmRec) /\ DOMAIN list = DOMAIN t.arms /\ list[a] = arec
         /\ \A e \in DOMAIN t.arms \ {a} : list[e] = t.arms[e]
    <2>1. t.arms \in Seq(ArmRec) /\ DOMAIN t.arms = 1..Len(t.arms)
      BY MtreeShapes DEF MtreeInv
    <2> QED BY <1>5, <1>14, <2>1, ExceptSeq
  <1> HIDE DEF list
  <1>16. /\ t' \in TreeType /\ t'.live = t.live /\ t'.nlknob = t.nlknob /\ Knob' = Knob
         /\ t'.arms = list /\ t'.nlarm = t.nlarm /\ t'.knobs = z.knobs
    <2>1. z \in TreeType /\ z.live = t.live /\ z.nlknob = t.nlknob /\ DOMAIN z.knobs = Knob
          /\ z.nlarm = t.nlarm
      BY <1>7, <1>9, <1>12 DEF Relisted, Rehung, Knob
    <2>2. /\ t' \in TreeType /\ t'.live = z.live /\ t'.nlknob = z.nlknob
          /\ t'.arms = list /\ t'.nlarm = z.nlarm /\ t'.knobs = z.knobs
      BY <1>13, <1>15, <2>1 DEF TreeType
    <2> QED BY <2>1, <2>2 DEF Knob
  <1>17. /\ t'.knobs[k].par = q /\ t'.knobs[k].inarm = a
         /\ \A c \in Knob \ {k} : t'.knobs[c].par = t.knobs[c].par
         /\ \A c \in Knob : /\ t'.knobs[c].inarm = t.knobs[c].inarm
                            /\ t'.knobs[c].live <=> t.knobs[c].live
         /\ t'.knobs[p].kids = l /\ t'.knobs[p].kidarms = m
         /\ t'.knobs[q].kids = Append(t.knobs[q].kids, k)
         /\ t'.knobs[q].kidarms = Append(t.knobs[q].kidarms, a)
         /\ \A c \in Knob \ {p, q} : /\ t'.knobs[c].kids = t.knobs[c].kids
                                     /\ t'.knobs[c].kidarms = t.knobs[c].kidarms
    <2>1. \A c \in Knob \ {k, p, q} : t'.knobs[c] = t.knobs[c]
      BY <1>7, <1>9, <1>12, <1>16 DEF Rehung, Relisted, Knob
    <2>2. /\ t'.knobs[k].par = q /\ t'.knobs[k].inarm = a
          /\ t'.knobs[k].live <=> t.knobs[k].live
          /\ t'.knobs[k].kids = t.knobs[k].kids /\ t'.knobs[k].kidarms = t.knobs[k].kidarms
      BY <1>10, <1>12, <1>16 DEF Rehung
    <2>3. /\ t'.knobs[p].par = t.knobs[p].par /\ t'.knobs[p].inarm = t.knobs[p].inarm
          /\ t'.knobs[p].live <=> t.knobs[p].live
          /\ t'.knobs[p].kids = l /\ t'.knobs[p].kidarms = m
      <3>1. t'.knobs[p] = y.knobs[p]
        BY <1>5, <1>10, <1>12, <1>16 DEF Rehung
      <3> QED BY <1>7, <3>1 DEF Relisted
    <2>4. /\ t'.knobs[q].par = t.knobs[q].par /\ t'.knobs[q].inarm = t.knobs[q].inarm
          /\ t'.knobs[q].live <=> t.knobs[q].live
          /\ t'.knobs[q].kids = Append(t.knobs[q].kids, k)
          /\ t'.knobs[q].kidarms = Append(t.knobs[q].kidarms, a)
      <3>1. t'.knobs[q] = x.knobs[q]
        BY <1>4, <1>10, <1>12, <1>16 DEF Rehung
      <3>2. /\ x.knobs[q].par = y.knobs[q].par /\ x.knobs[q].inarm = y.knobs[q].inarm
            /\ x.knobs[q].live <=> y.knobs[q].live
        BY <1>9 DEF Relisted
      <3>3. /\ x.knobs[q].kids = Append(t.knobs[q].kids, k)
            /\ x.knobs[q].kidarms = Append(t.knobs[q].kidarms, a)
        BY <1>9 DEF Relisted
      <3> QED BY ONLY <1>8, <3>1, <3>2, <3>3
    <2>5. \A c \in Knob : c \in Knob \ {k, p, q} \/ c = k \/ c = p \/ c = q
      OBVIOUS
    <2>6. \A c \in Knob \ {k} : t'.knobs[c].par = t.knobs[c].par
      BY ONLY <2>1, <2>3, <2>4, <2>5
    <2>7. \A c \in Knob : t'.knobs[c].inarm = t.knobs[c].inarm
      BY ONLY <1>1, <2>1, <2>2, <2>3, <2>4, <2>5
    <2>8. \A c \in Knob : t'.knobs[c].live <=> t.knobs[c].live
      BY ONLY <2>1, <2>2, <2>3, <2>4, <2>5
    <2>9. \A c \in Knob \ {p, q} : /\ t'.knobs[c].kids = t.knobs[c].kids
                                    /\ t'.knobs[c].kidarms = t.knobs[c].kidarms
      BY ONLY <2>1, <2>2, <2>5
    <2> QED BY ONLY <2>2, <2>3, <2>4, <2>6, <2>7, <2>8, <2>9
  <1>18. /\ DOMAIN t'.arms = DOMAIN t.arms
         /\ t'.arms[a].par = q
         /\ \A e \in DOMAIN t.arms : /\ e # a => t'.arms[e].par = t.arms[e].par
                                     /\ t'.arms[e].kid = t.arms[e].kid
                                     /\ t'.arms[e].live <=> t.arms[e].live
    BY <1>5, <1>14, <1>15, <1>16 DEF LiveArms
  <1>19. LiveKnobs' = LiveKnobs /\ LiveArms' = LiveArms
    BY <1>16, <1>17, <1>18 DEF LiveKnobs, LiveArms
  <1>20. \A e \in LiveArms' : /\ t'.arms[e].kid \in LiveKnobs' /\ t'.arms[e].par \in LiveKnobs'
                              /\ t'.knobs[t'.arms[e].kid].inarm = e
                              /\ t'.knobs[t'.arms[e].kid].par = t'.arms[e].par
    <2>1. ASSUME NEW e \in LiveArms
          PROVE  /\ t'.arms[e].kid \in LiveKnobs' /\ t'.arms[e].par \in LiveKnobs'
                 /\ t'.knobs[t'.arms[e].kid].inarm = e
                 /\ t'.knobs[t'.arms[e].kid].par = t'.arms[e].par
      <3>1. /\ t.arms[e].kid \in LiveKnobs /\ t.arms[e].kid \in Knob /\ e \in DOMAIN t.arms
            /\ t.knobs[t.arms[e].kid].inarm = e /\ t.arms[e].par \in LiveKnobs
            /\ t.knobs[t.arms[e].kid].par = t.arms[e].par
        BY SoundParts, MtreeShapes DEF MtreeInv
      <3>2. CASE e = a
        BY <1>4, <1>5, <1>17, <1>18, <1>19, <3>1, <3>2
      <3>3. CASE e # a
        <4>1. t.arms[e].kid # k
          BY <1>1, <3>1, <3>3
        <4> QED BY <1>17, <1>18, <1>19, <3>1, <3>3, <4>1
      <3> QED BY <3>2, <3>3
    <2> QED BY <1>19, <2>1
  <1>21. ASSUME NEW c \in LiveKnobs'
         PROVE  \/ t'.knobs[c].par = None /\ t'.knobs[c].inarm = None
                \/ t'.knobs[c].inarm \in LiveArms' /\ t'.arms[t'.knobs[c].inarm].kid = c
    <2>1. c \in LiveKnobs /\ c \in Knob
      BY <1>19 DEF LiveKnobs
    <2>2. CASE c = k
      BY <1>5, <1>17, <1>18, <1>19, <2>2
    <2>3. CASE c # k /\ t.knobs[c].par = None
      BY <1>17, <2>1, <2>3, WhereItHangs
    <2>4. CASE c # k /\ t.knobs[c].par # None
      <3>1. /\ t.knobs[c].inarm \in LiveArms /\ t.arms[t.knobs[c].inarm].kid = c
            /\ t.knobs[c].inarm \in DOMAIN t.arms
        BY <2>1, <2>4, WhereItHangs, MtreeShapes DEF MtreeInv
      <3> QED BY <1>17, <1>18, <1>19, <2>1, <3>1
    <2> QED BY <2>2, <2>3, <2>4
  <1>22. ASSUME NEW c \in LiveKnobs'
         PROVE  Siblings(t'.knobs[c].kids, t'.knobs[c].kidarms, KidsOf(c)', t'.knobs)
    <2>1. c \in LiveKnobs /\ c \in Knob
      BY <1>19 DEF LiveKnobs
    <2>2. \A i \in LiveKnobs : i \in Knob
      BY DEF LiveKnobs
    <2>3. /\ Siblings(t.knobs[c].kids, t.knobs[c].kidarms, KidsOf(c), t.knobs)
          /\ t.knobs[c].kids \in Seq(Nat) /\ t.knobs[c].kidarms \in Seq(Nat)
      BY <2>1, SoundParts, MtreeShapes DEF MtreeInv
    <2>4. \A i \in KidsOf(c) : t'.knobs[i].inarm = t.knobs[i].inarm
      BY <1>17, <2>2 DEF KidsOf
    <2>5. Siblings(t.knobs[c].kids, t.knobs[c].kidarms, KidsOf(c), t'.knobs)
      BY <2>3, <2>4, SiblingsSame
    <2>6. CASE c = p
      <3>1. KidsOf(c)' = KidsOf(p) \ {k}
        BY <1>4, <1>17, <1>19, <2>2, <2>6 DEF KidsOf
      <3>2. \A i \in KidsOf(p) \ {k} : t'.knobs[i].inarm = t.knobs[i].inarm
        BY <2>4, <2>6
      <3>3. Siblings(l, m, KidsOf(p) \ {k}, t'.knobs)
        BY <1>7, <3>2, SiblingsSame
      <3> QED BY <1>17, <2>6, <3>1, <3>3
    <2>7. CASE c = q
      <3>1. KidsOf(c)' = KidsOf(q) \cup {k} /\ k \notin KidsOf(q)
        BY <1>1, <1>4, <1>17, <1>19, <2>2, <2>7 DEF KidsOf
      <3>2. t'.knobs[k].inarm = a
        BY <1>17
      <3>3. Siblings(Append(t.knobs[q].kids, k), Append(t.knobs[q].kidarms, a),
                     KidsOf(q) \cup {k}, t'.knobs)
        BY <1>6, <2>3, <2>5, <2>7, <3>1, <3>2, SiblingAdded
      <3> QED BY <1>17, <2>7, <3>1, <3>3
    <2>8. CASE c \notin {p, q}
      <3>1. KidsOf(c)' = KidsOf(c)
        BY <1>1, <1>17, <1>19, <2>2, <2>8 DEF KidsOf
      <3> QED BY <1>17, <2>1, <2>5, <2>8, <3>1
    <2> QED BY <2>6, <2>7, <2>8
  <1>23. NoCycle(Knob', Up')
    <2>1. Up' \subseteq Up \cup {<<k, q>>}
      BY <1>17, <1>19 DEF Up, LiveKnobs
    <2>2. NoCycle(Knob, Up) /\ Up \in SUBSET (Knob \X Knob)
      BY WhereItHangs, SoundParts DEF MtreeInv
    <2> QED BY <1>4, <1>16, <2>1, <2>2, Hung
  <1>24. t'.nlknob = Cardinality(LiveKnobs') /\ t'.nlarm = Cardinality(LiveArms')
    BY <1>16, <1>19, SoundParts DEF MtreeInv
  <1>25. MtreeIdsKept
    BY <1>16, <1>17, <1>18 DEF MtreeIdsKept, Knob
  <1> QED BY <1>16, <1>20, <1>21, <1>22, <1>23, <1>24, <1>25, PartsSuffice

-----------------------------------------------------------------------------
(* Subtrees *)

\* The lists lead down where the parents lead up.
LEMMA DownIsUp ==
  ASSUME MtreeInv
  PROVE  /\ Down \in SUBSET (Knob \X Knob)
         /\ \A e \in Down : e[1] \in LiveKnobs /\ e[2] \in LiveKnobs /\ t.knobs[e[2]].par = e[1]
         /\ \A c \in LiveKnobs : t.knobs[c].par # None => <<t.knobs[c].par, c>> \in Down
  <1>1. ASSUME NEW p \in LiveKnobs, NEW i \in Places(p)
        PROVE  t.knobs[p].kids[i] \in KidsOf(p)
    <2>1. Siblings(t.knobs[p].kids, t.knobs[p].kidarms, KidsOf(p), t.knobs)
      BY SoundParts DEF MtreeInv
    <2> QED BY <2>1 DEF Siblings, ToSet, Places
  <1>2. \A e \in Down : e[1] \in LiveKnobs /\ e[2] \in LiveKnobs /\ t.knobs[e[2]].par = e[1]
    BY <1>1 DEF Down, KidsOf
  <1>3. ASSUME NEW c \in LiveKnobs, t.knobs[c].par # None
        PROVE  <<t.knobs[c].par, c>> \in Down
    <2>1. PICK p : p = t.knobs[c].par
      OBVIOUS
    <2>2. p \in LiveKnobs /\ c \in KidsOf(p) /\ t.knobs[c].inarm \in LiveArms
      BY <1>3, <2>1, WhereItHangs
    <2>3. Siblings(t.knobs[p].kids, t.knobs[p].kidarms, KidsOf(p), t.knobs)
      BY <2>2, SoundParts DEF MtreeInv
    <2>4. PICK i \in DOMAIN t.knobs[p].kids : t.knobs[p].kids[i] = c
      BY <2>2, <2>3 DEF Siblings, ToSet
    <2>5. t.knobs[p].kidarms[i] = t.knobs[c].inarm
      BY <2>3, <2>4 DEF Siblings
    <2>6. i \in Places(p)
      BY <2>2, <2>4, <2>5 DEF Places
    <2> QED BY <2>1, <2>2, <2>4, <2>6 DEF Down
  <1>4. Down \in SUBSET (Knob \X Knob)
    <2>1. LiveKnobs \subseteq Knob
      BY DEF LiveKnobs
    <2>2. \A p \in LiveKnobs : \A i \in Places(p) : t.knobs[p].kids[i] \in Knob
      BY <1>1, <2>1 DEF KidsOf
    <2> QED BY <2>1, <2>2 DEF Down
  <1> QED BY <1>2, <1>3, <1>4

\* A subtree holds the kids of its knobs, and but for its root their parents.
LEMMA Subtree ==
  ASSUME MtreeInv, NEW k \in LiveKnobs, NEW xs, xs = collect_subtree(k)
  PROVE  /\ xs \subseteq LiveKnobs /\ k \in xs
         /\ \A c \in LiveKnobs : t.knobs[c].par \in xs => c \in xs
         /\ \A c \in xs : c # k => t.knobs[c].par \in xs
  <1> DEFINE R == Reach(Knob, Down, k)
             S == {c \in R : c = k \/ (t.knobs[c].par \in R /\ c \in LiveKnobs)}
  <1>1. k \in Knob /\ Down \in SUBSET (Knob \X Knob)
    BY DownIsUp DEF LiveKnobs
  <1>2. /\ R \in SUBSET Knob /\ k \in R /\ Closed(Down, R)
        /\ \A T \in SUBSET Knob : k \in T /\ Closed(Down, T) => R \subseteq T
    BY <1>1, LeastClosed
  <1> HIDE DEF R
  <1>3. Closed(Down, S)
    <2> SUFFICES ASSUME NEW e \in Down, e[1] \in S PROVE e[2] \in S
      BY DEF Closed
    <2>1. e[1] \in R
      OBVIOUS
    <2>2. e[2] \in R
      BY <1>2, <2>1 DEF Closed
    <2>3. t.knobs[e[2]].par = e[1] /\ e[2] \in LiveKnobs
      BY DownIsUp
    <2> QED BY <2>1, <2>2, <2>3
  <1>4. R \subseteq S
    BY <1>2, <1>3
  <1>5. R \subseteq LiveKnobs
    BY <1>4
  <1>6. xs = R
    BY <1>5 DEF collect_subtree, R
  <1>7. ASSUME NEW c \in LiveKnobs, t.knobs[c].par \in R PROVE c \in R
    <2>1. t.knobs[c].par # None
      BY <1>2, <1>7, MtreeShapes DEF MtreeInv
    <2>2. PICK e \in Down : e = <<t.knobs[c].par, c>>
      BY <2>1, DownIsUp
    <2>3. e[1] \in R => e[2] \in R
      BY <1>2 DEF Closed
    <2> QED BY <1>7, <2>2, <2>3
  <1> QED BY <1>2, <1>4, <1>5, <1>6, <1>7

\* A knob left the list it was in, if it was in one.
Pruned(x, k) ==
  /\ x \in TreeType
  /\ x.live = t.live /\ x.nlknob = t.nlknob /\ x.arms = t.arms /\ x.nlarm = t.nlarm
  /\ DOMAIN x.knobs = Knob
  /\ \A n \in Knob : /\ x.knobs[n].par = t.knobs[n].par /\ x.knobs[n].inarm = t.knobs[n].inarm
                     /\ x.knobs[n].live <=> t.knobs[n].live
  /\ \A n \in LiveKnobs :
       Siblings(x.knobs[n].kids, x.knobs[n].kidarms, KidsOf(n) \ {k}, t.knobs)

LEMMA ParentLeft ==
  ASSUME MtreeInv, NEW k \in LiveKnobs,
         NEW x, x = IF rootknob(k) THEN t
                    ELSE remove_kid(t, t.knobs[k].par, k, t.knobs[k].inarm)
  PROVE  Pruned(x, k)
  <1>1. \A n \in LiveKnobs : /\ Siblings(t.knobs[n].kids, t.knobs[n].kidarms, KidsOf(n), t.knobs)
                             /\ n \in Knob /\ n # None
    BY SoundParts, MtreeShapes DEF MtreeInv
  <1>2. \A n \in LiveKnobs : n # t.knobs[k].par => KidsOf(n) \ {k} = KidsOf(n)
    BY DEF KidsOf
  <1>3. CASE rootknob(k)
    <2>1. \A n \in LiveKnobs : KidsOf(n) \ {k} = KidsOf(n)
      BY <1>1, <1>2, <1>3 DEF rootknob
    <2>2. x = t
      BY <1>3
    <2> QED BY <1>1, <2>1, <2>2 DEF Pruned, MtreeInv, Knob
  <1>4. CASE ~rootknob(k)
    <2>1. PICK p, a : p = t.knobs[k].par /\ a = t.knobs[k].inarm
      OBVIOUS
    <2>2. p \in LiveKnobs /\ p \in Knob /\ k \in KidsOf(p)
      BY <1>1, <1>4, <2>1, WhereItHangs
    <2>3. x = remove_kid(t, p, k, a)
      BY <1>4, <2>1
    <2>4. PICK l \in Seq(Nat), m \in Seq(Nat) :
            Relisted(x, t, p, l, m) /\ Siblings(l, m, KidsOf(p) \ {k}, t.knobs)
      BY <2>1, <2>2, <2>3, KidLeaves
    <2>5. \A n \in Knob : /\ x.knobs[n].par = t.knobs[n].par
                          /\ x.knobs[n].inarm = t.knobs[n].inarm
                          /\ x.knobs[n].live <=> t.knobs[n].live
      <3>1. \A n \in Knob \ {p} : x.knobs[n] = t.knobs[n]
        BY <2>4 DEF Relisted, Knob
      <3> QED BY <2>4, <3>1 DEF Relisted
    <2>6. ASSUME NEW n \in LiveKnobs
          PROVE  Siblings(x.knobs[n].kids, x.knobs[n].kidarms, KidsOf(n) \ {k}, t.knobs)
      <3>1. CASE n = p
        BY <2>4, <3>1 DEF Relisted
      <3>2. CASE n # p
        <4>1. x.knobs[n] = t.knobs[n] /\ KidsOf(n) \ {k} = KidsOf(n)
          BY <1>1, <1>2, <2>1, <2>4, <3>2 DEF Relisted, Knob
        <4> QED BY <1>1, <4>1
      <3> QED BY <3>1, <3>2
    <2>7. /\ x \in TreeType /\ x.live = t.live /\ x.nlknob = t.nlknob /\ x.arms = t.arms
          /\ x.nlarm = t.nlarm /\ DOMAIN x.knobs = Knob
      BY <2>4 DEF Relisted, Knob
    <2> QED BY <2>5, <2>6, <2>7 DEF Pruned
  <1> QED BY <1>3, <1>4

\* The arms that mtdelknob finds at some knobs.
ArmsAt(x, xs) == UNION {({x.knobs[n].inarm} \cup ToSet(x.knobs[n].kidarms)) \ {None} : n \in xs}

\* The arms of a subtree are those that lead to its knobs.
LEMMA DeadArms ==
  ASSUME MtreeInv, NEW k \in LiveKnobs, NEW xs, xs = collect_subtree(k), NEW x, Pruned(x, k),
         NEW dead, dead = ArmsAt(x, xs)
  PROVE  dead = {a \in LiveArms : t.arms[a].kid \in xs}
  <1>0. dead = UNION {({x.knobs[n].inarm} \cup ToSet(x.knobs[n].kidarms)) \ {None} : n \in xs}
    BY DEF ArmsAt
  <1>1. /\ xs \subseteq LiveKnobs /\ \A c \in LiveKnobs : t.knobs[c].par \in xs => c \in xs
        /\ xs \subseteq Knob
    BY Subtree DEF LiveKnobs
  <1>2. ASSUME NEW n \in xs, NEW a, a # None,
               a = x.knobs[n].inarm \/ a \in ToSet(x.knobs[n].kidarms)
        PROVE  a \in LiveArms /\ t.arms[a].kid \in xs
    <2>1. n \in LiveKnobs /\ n \in Knob
      BY <1>1
    <2>2. CASE a = x.knobs[n].inarm
      <3>1. a = t.knobs[n].inarm
        BY <2>1, <2>2 DEF Pruned
      <3> QED BY <1>2, <2>1, <3>1, WhereItHangs
    <2>3. CASE a \in ToSet(x.knobs[n].kidarms)
      <3>1. Siblings(x.knobs[n].kids, x.knobs[n].kidarms, KidsOf(n) \ {k}, t.knobs)
        BY <2>1 DEF Pruned
      <3>0. PICK j \in DOMAIN x.knobs[n].kidarms : a = x.knobs[n].kidarms[j]
        BY <2>3 DEF ToSet
      <3>2. PICK i \in DOMAIN x.knobs[n].kids : a = t.knobs[x.knobs[n].kids[i]].inarm
        BY <3>0, <3>1 DEF Siblings
      <3>3. x.knobs[n].kids[i] \in KidsOf(n)
        BY <3>1 DEF Siblings, ToSet
      <3>4. PICK c \in KidsOf(n) : a = t.knobs[c].inarm
        BY <3>2, <3>3
      <3>5. c \in LiveKnobs /\ t.knobs[c].par = n /\ c \in xs
        BY <1>1, <3>4 DEF KidsOf
      <3> QED BY <1>2, <3>4, <3>5, WhereItHangs
    <2> QED BY <1>2, <2>2, <2>3
  <1>3. ASSUME NEW a \in LiveArms, t.arms[a].kid \in xs PROVE a \in dead
    <2>1. PICK c \in xs : c = t.arms[a].kid
      BY <1>3
    <2>2. t.knobs[c].inarm = a /\ a # None
      BY <2>1, SoundParts, MtreeShapes DEF MtreeInv
    <2>3. x.knobs[c].inarm = a
      BY <1>1, <2>2 DEF Pruned
    <2> QED BY <1>0, <2>2, <2>3
  <1>4. \A a \in dead : a \in LiveArms /\ t.arms[a].kid \in xs
    BY <1>0, <1>2
  <1> QED BY <1>3, <1>4

LEMMA DelknobKeeps == ASSUME MtreeInv, NEW k, mtdelknob(k) PROVE MtreeInv' /\ MtreeIdsKept
  <1>1. PICK xs : xs = collect_subtree(k)
    OBVIOUS
  <1>2. PICK x : x = IF rootknob(k) THEN t ELSE remove_kid(t, t.knobs[k].par, k, t.knobs[k].inarm)
    OBVIOUS
  <1>3. PICK dead : dead = ArmsAt(x, xs)
    OBVIOUS
  <1>4. PICK w : w = WithoutArms(x, dead)
    OBVIOUS
  <1>5. /\ k \in LiveKnobs
        /\ t' = [w EXCEPT
                   !.knobs = [n \in DOMAIN @ |->
                               [@[n] EXCEPT !.live = t.knobs[n].live /\ n \notin xs]],
                   !.nlknob = @ - Cardinality(xs)]
    <2>1. mtdelknob(k)
      OBVIOUS
    <2>2. dead = UNION {({x.knobs[n].inarm} \cup ToSet(x.knobs[n].kidarms)) \ {None} : n \in xs}
      BY <1>3 DEF ArmsAt
    <2>3. k \in LiveKnobs
      BY <2>1 DEF mtdelknob
    <2>4. t' = [WithoutArms(x, dead) EXCEPT
                  !.knobs = [n \in DOMAIN @ |->
                              [@[n] EXCEPT !.live = t.knobs[n].live /\ n \notin xs]],
                  !.nlknob = @ - Cardinality(xs)]
      BY ONLY <1>1, <1>2, <2>1, <2>2, ZenonT(60) DEF mtdelknob
    <2> QED BY ONLY <1>4, <2>3, <2>4
  <1>6. /\ xs \subseteq LiveKnobs /\ k \in xs /\ xs \subseteq Knob
        /\ \A c \in LiveKnobs : t.knobs[c].par \in xs => c \in xs
        /\ \A c \in xs : c # k => t.knobs[c].par \in xs
    BY <1>1, <1>5, Subtree DEF LiveKnobs
  <1>7. Pruned(x, k)
    BY <1>2, <1>5, ParentLeft
  <1>8. dead = {a \in LiveArms : t.arms[a].kid \in xs}
    BY <1>1, <1>3, <1>5, <1>7, DeadArms
  <1>9. ThinnedKids(w, x, dead)
    <2>1. dead \subseteq DOMAIN t.arms
      BY <1>8 DEF LiveArms
    <2>2. x \in TreeType /\ x.arms = t.arms /\ x.nlarm = t.nlarm
      BY <1>7 DEF Pruned
    <2>3. t \in TreeType /\ t.nlarm = Cardinality(LiveArms)
      BY SoundParts DEF MtreeInv
    <2> QED BY <1>4, <2>1, <2>2, <2>3, ArmsThinned
  <1> DEFINE ks == [n \in Knob |-> [x.knobs[n] EXCEPT !.live = t.knobs[n].live /\ n \notin xs]]
  <1>10. PICK i \in Nat : i = t.nlknob - Cardinality(xs) /\ i = Cardinality(LiveKnobs \ xs)
    <2>1. IsFiniteSet(LiveKnobs) /\ t.nlknob = Cardinality(LiveKnobs) /\ LiveKnobs \cap xs = xs
      BY <1>6, MtreeShapes, SoundParts DEF MtreeInv
    <2>2. /\ IsFiniteSet(LiveKnobs \ xs)
          /\ Cardinality(LiveKnobs \ xs) = Cardinality(LiveKnobs) - Cardinality(LiveKnobs \cap xs)
      BY <2>1, FS_Difference
    <2> QED BY <2>1, <2>2, FS_CardinalityType
  <1>11. /\ w \in TreeType /\ w.live = t.live /\ w.knobs = x.knobs /\ w.nlknob = t.nlknob
         /\ DOMAIN w.knobs = Knob
    BY <1>7, <1>9 DEF Pruned, ThinnedKids
  <1>12. t' = [w EXCEPT !.knobs = ks, !.nlknob = i]
    BY <1>5, <1>10, <1>11
  <1>13. \A n \in Knob : /\ ks[n] \in KnobRec
                         /\ ks[n].par = t.knobs[n].par /\ ks[n].inarm = t.knobs[n].inarm
                         /\ ks[n].kids = x.knobs[n].kids /\ ks[n].kidarms = x.knobs[n].kidarms
                         /\ ks[n].live <=> t.knobs[n].live /\ n \notin xs
    <2> SUFFICES ASSUME NEW n \in Knob
                 PROVE  /\ ks[n] \in KnobRec
                        /\ ks[n].par = t.knobs[n].par /\ ks[n].inarm = t.knobs[n].inarm
                        /\ ks[n].kids = x.knobs[n].kids /\ ks[n].kidarms = x.knobs[n].kidarms
                        /\ ks[n].live <=> t.knobs[n].live /\ n \notin xs
      OBVIOUS
    <2>1. x.knobs[n] \in KnobRec
      <3>1. x.knobs \in Seq(KnobRec) /\ DOMAIN x.knobs = Knob
        BY <1>7 DEF Pruned, TreeType
      <3> QED BY <3>1, LenProperties, ElementOfSeq
    <2>2. PICK b \in BOOLEAN : b <=> t.knobs[n].live /\ n \notin xs
      BY MtreeShapes DEF MtreeInv
    <2>3. ks[n] = [x.knobs[n] EXCEPT !.live = b]
      BY <2>2, MtreeShapes DEF MtreeInv
    <2>4. x.knobs[n].par = t.knobs[n].par /\ x.knobs[n].inarm = t.knobs[n].inarm
      BY <1>7 DEF Pruned
    <2> HIDE DEF ks
    <2> QED BY <2>1, <2>2, <2>3, <2>4 DEF KnobRec
  <1>14. ks \in Seq(KnobRec) /\ DOMAIN ks = Knob
    <2>1. ks \in [1..Len(t.knobs) -> KnobRec] /\ Len(t.knobs) \in Nat
      BY <1>13, MtreeShapes DEF MtreeInv
    <2> QED BY <2>1, SeqDef
  <1> HIDE DEF ks
  <1>15. /\ t' \in TreeType /\ t'.live = t.live /\ t'.knobs = ks /\ t'.nlknob = i
         /\ t'.arms = w.arms /\ t'.nlarm = w.nlarm /\ Knob' = Knob
    <2>1. /\ t' \in TreeType /\ t'.live = t.live /\ t'.knobs = ks /\ t'.nlknob = i
          /\ t'.arms = w.arms /\ t'.nlarm = w.nlarm
      BY <1>11, <1>12, <1>14 DEF TreeType
    <2> QED BY <1>14, <2>1 DEF Knob
  <1>16. \A n \in Knob : /\ t'.knobs[n].par = t.knobs[n].par /\ t'.knobs[n].inarm = t.knobs[n].inarm
                         /\ t'.knobs[n].kids = x.knobs[n].kids
                         /\ t'.knobs[n].kidarms = x.knobs[n].kidarms
                         /\ t'.knobs[n].live <=> t.knobs[n].live /\ n \notin xs
    BY <1>13, <1>15
  <1>17. /\ DOMAIN t'.arms = DOMAIN t.arms /\ t'.nlarm = Cardinality(LiveArms \ dead)
         /\ \A a \in DOMAIN t.arms : /\ t'.arms[a].par = t.arms[a].par
                                     /\ t'.arms[a].kid = t.arms[a].kid
                                     /\ t'.arms[a].live <=> t.arms[a].live /\ a \notin dead
    BY <1>9, <1>15 DEF ThinnedKids
  <1>18. LiveKnobs' = LiveKnobs \ xs /\ LiveArms' = LiveArms \ dead
    BY <1>15, <1>16, <1>17 DEF LiveKnobs, LiveArms
  <1>19. \A c \in LiveKnobs' : c \in LiveKnobs /\ c \in Knob /\ c \notin xs
    BY <1>18 DEF LiveKnobs
  <1>20. \A a \in LiveArms' : /\ t'.arms[a].kid \in LiveKnobs' /\ t'.arms[a].par \in LiveKnobs'
                              /\ t'.knobs[t'.arms[a].kid].inarm = a
                              /\ t'.knobs[t'.arms[a].kid].par = t'.arms[a].par
    <2> SUFFICES ASSUME NEW a \in LiveArms'
                 PROVE  /\ t'.arms[a].kid \in LiveKnobs' /\ t'.arms[a].par \in LiveKnobs'
                        /\ t'.knobs[t'.arms[a].kid].inarm = a
                        /\ t'.knobs[t'.arms[a].kid].par = t'.arms[a].par
      OBVIOUS
    <2>1. a \in LiveArms /\ a \in DOMAIN t.arms /\ t.arms[a].kid \notin xs
      BY <1>8, <1>18 DEF LiveArms
    <2>2. PICK c : c = t.arms[a].kid
      OBVIOUS
    <2>3. /\ c \in LiveKnobs /\ c \in Knob /\ t.knobs[c].inarm = a
          /\ t.knobs[c].par = t.arms[a].par /\ t.arms[a].par \in LiveKnobs
      BY <2>1, <2>2, SoundParts, MtreeShapes DEF MtreeInv
    <2>4. t.arms[a].par \notin xs
      BY <1>6, <2>1, <2>2, <2>3
    <2> QED BY <1>16, <1>17, <1>18, <2>1, <2>2, <2>3, <2>4
  <1>21. ASSUME NEW c \in LiveKnobs'
         PROVE  \/ t'.knobs[c].par = None /\ t'.knobs[c].inarm = None
                \/ t'.knobs[c].inarm \in LiveArms' /\ t'.arms[t'.knobs[c].inarm].kid = c
    <2>1. c \in LiveKnobs /\ c \in Knob /\ c \notin xs
      BY <1>19
    <2>2. CASE t.knobs[c].par = None
      BY <1>16, <2>1, <2>2, WhereItHangs
    <2>3. CASE t.knobs[c].par # None
      <3>1. /\ t.knobs[c].inarm \in LiveArms /\ t.arms[t.knobs[c].inarm].kid = c
            /\ t.knobs[c].inarm \in DOMAIN t.arms
        BY <2>1, <2>3, WhereItHangs, MtreeShapes DEF MtreeInv
      <3> QED BY <1>8, <1>16, <1>17, <1>18, <2>1, <3>1
    <2> QED BY <2>2, <2>3
  <1>22. ASSUME NEW q \in LiveKnobs'
         PROVE  Siblings(t'.knobs[q].kids, t'.knobs[q].kidarms, KidsOf(q)', t'.knobs)
    <2>1. q \in LiveKnobs /\ q \in Knob /\ q \notin xs
      BY <1>19
    <2>2. KidsOf(q)' = KidsOf(q) \ {k}
      <3>1. KidsOf(q)' = KidsOf(q) \ xs
        BY <1>16, <1>18, <1>19 DEF KidsOf
      <3>2. \A c \in KidsOf(q) : c \in xs <=> c = k
        BY <1>6, <2>1 DEF KidsOf
      <3> QED BY <3>1, <3>2
    <2>3. Siblings(x.knobs[q].kids, x.knobs[q].kidarms, KidsOf(q) \ {k}, t.knobs)
      BY <1>7, <2>1 DEF Pruned
    <2>4. \A c \in KidsOf(q) \ {k} : t'.knobs[c].inarm = t.knobs[c].inarm
      BY <1>16 DEF KidsOf, LiveKnobs
    <2>5. Siblings(x.knobs[q].kids, x.knobs[q].kidarms, KidsOf(q) \ {k}, t'.knobs)
      BY <2>3, <2>4, SiblingsSame
    <2> QED BY <1>16, <2>1, <2>2, <2>5
  <1>23. NoCycle(Knob', Up')
    <2>1. Up' \subseteq Up
      BY <1>16, <1>19 DEF Up
    <2>2. NoCycle(Knob, Up) /\ Up \in SUBSET (Knob \X Knob)
      BY WhereItHangs, SoundParts DEF MtreeInv
    <2> QED BY <1>15, <2>1, <2>2, FewerEdges
  <1>24. t'.nlknob = Cardinality(LiveKnobs') /\ t'.nlarm = Cardinality(LiveArms')
    BY <1>10, <1>15, <1>17, <1>18
  <1>25. MtreeIdsKept
    BY <1>15, <1>16, <1>17 DEF MtreeIdsKept, Knob
  <1> QED BY <1>15, <1>20, <1>21, <1>22, <1>23, <1>24, <1>25, PartsSuffice

-----------------------------------------------------------------------------
LEMMA EmptyMtree ==
  ASSUME NEW x \in {NoMtree, [NoMtree EXCEPT !.live = TRUE]}
  PROVE  /\ x \in TreeType /\ x.nlknob = 0 /\ x.nlarm = 0
         /\ DOMAIN x.knobs = {} /\ DOMAIN x.arms = {}
  <1>1. <<>> \in Seq(KnobRec) /\ <<>> \in Seq(ArmRec) /\ DOMAIN <<>> = {}
    BY EmptySeq
  <1>2. CASE x = NoMtree
    BY <1>1, <1>2 DEF NoMtree, TreeType
  <1>3. CASE x = [NoMtree EXCEPT !.live = TRUE]
    <2>1. x = [live |-> TRUE, knobs |-> <<>>, nlknob |-> 0, arms |-> <<>>, nlarm |-> 0]
      BY <1>3 DEF NoMtree
    <2> QED BY <1>1, <2>1 DEF TreeType
  <1> QED BY <1>2, <1>3

LEMMA MtreeInit == InitMtree => MtreeInv
  <1> SUFFICES ASSUME InitMtree PROVE MtreeInv
    OBVIOUS
  <1>1. /\ t \in TreeType /\ t.nlknob = 0 /\ t.nlarm = 0
        /\ DOMAIN t.knobs = {} /\ DOMAIN t.arms = {}
    BY EmptyMtree DEF InitMtree
  <1>2. Knob = {} /\ LiveKnobs = {} /\ LiveArms = {} /\ Up = {}
    BY <1>1 DEF Knob, LiveKnobs, LiveArms, Up
  <1> QED BY <1>1, <1>2, FS_EmptySet DEF MtreeInv, MtreeSound, NoCycle

\* The same after a step that makes or removes the forest.
LEMMA ClearedMtree ==
  ASSUME t' \in {NoMtree, [NoMtree EXCEPT !.live = TRUE]}
  PROVE  MtreeInv'
  <1>1. /\ t' \in TreeType /\ t'.nlknob = 0 /\ t'.nlarm = 0
        /\ DOMAIN t'.knobs = {} /\ DOMAIN t'.arms = {}
    BY EmptyMtree
  <1>2. Knob' = {} /\ LiveKnobs' = {} /\ LiveArms' = {} /\ Up' = {}
    BY <1>1 DEF Knob, LiveKnobs, LiveArms, Up
  <1> QED BY <1>1, <1>2, FS_EmptySet DEF MtreeInv, MtreeSound, NoCycle

LEMMA MtreeStep == ASSUME MtreeInv, [NextMtree]_t PROVE MtreeInv' /\ (MtreeIdsKept \/ t' = t)
  <1>1. CASE mkmtree
    <2>1. t' = [NoMtree EXCEPT !.live = TRUE] /\ ~t.live
      BY <1>1 DEF mkmtree
    <2>2. MtreeInv'
      BY <2>1, ClearedMtree
    <2> QED BY <2>1, <2>2 DEF MtreeIdsKept
  <1>2. CASE rmmtree
    <2>1. t' = NoMtree /\ ~t'.live
      BY <1>2 DEF rmmtree, NoMtree
    <2>2. MtreeInv'
      BY <2>1, ClearedMtree
    <2> QED BY <2>1, <2>2 DEF MtreeIdsKept
  <1>3. CASE mtroot
    BY <1>3, RootKeeps
  <1>4. ASSUME NEW k \in Knob, mtknob(k) PROVE MtreeInv' /\ MtreeIdsKept
    BY <1>4, KnobKeeps
  <1>5. ASSUME NEW k \in Knob, mtdelknob(k) PROVE MtreeInv' /\ MtreeIdsKept
    BY <1>5, DelknobKeeps
  <1>6. ASSUME NEW k \in Knob, mtdetach(k) PROVE MtreeInv' /\ MtreeIdsKept
    BY <1>6, DetachKeeps
  <1>7. ASSUME NEW k \in Knob, NEW p \in Knob, mtmove(k, p) PROVE MtreeInv' /\ MtreeIdsKept
    BY <1>7, MoveKeeps
  <1>8. CASE UNCHANGED t
    <2>1. Knob' = Knob /\ LiveKnobs' = LiveKnobs /\ LiveArms' = LiveArms /\ Up' = Up
      BY <1>8 DEF Knob, LiveKnobs, LiveArms, Up
    <2>2. MtreeSound'
      BY <1>8, <2>1 DEF MtreeInv, MtreeSound, rootknob
    <2> QED BY <1>8, <2>1, <2>2 DEF MtreeInv
  <1> QED BY <1>1, <1>2, <1>3, <1>4, <1>5, <1>6, <1>7, <1>8 DEF NextMtree

\* The live knobs of an mtree of any size are a forest that the lists, the
\* arms and the counts agree on, after any detaching, moving and deleting: no
\* move hangs a knob below itself, and mtdelknob leaves no arm behind.
THEOREM TreeSound == SpecMtree => []MtreeSound
  <1>1. InitMtree => MtreeInv
    BY MtreeInit
  <1>2. MtreeInv /\ [NextMtree]_t => MtreeInv'
    BY MtreeStep
  <1>3. MtreeInv => MtreeSound
    BY DEF MtreeInv
  <1> QED BY <1>1, <1>2, <1>3, PTL DEF SpecMtree

\* "Deletion leaves tombstones; ids are not reused" (nexus.h:105), in an
\* mtree of any size.
THEOREM TreeTombstonesStay == SpecMtree => MtreeTombstones
  <1>1. InitMtree => MtreeInv
    BY MtreeInit
  <1>2. MtreeInv /\ [NextMtree]_t => MtreeInv'
    BY MtreeStep
  <1>3. MtreeInv /\ [NextMtree]_t => [MtreeIdsKept]_t
    BY MtreeStep
  <1> QED BY <1>1, <1>2, <1>3, PTL DEF SpecMtree, MtreeTombstones

-----------------------------------------------------------------------------
(* Bitrees: walks *)

\* A set of numbers has a least one.
LEMMA LeastIn ==
  ASSUME NEW S, S \subseteq Nat, S # {}
  PROVE  \E n \in S : \A m \in S : n <= m
  <1>1. PICK n \in S : \A m \in S : ~ (<<m, n>> \in OpToRel(<, Nat))
    BY NatLessThanWellFounded, WFMin
  <1>2. \A m \in S : ~ (m < n)
    BY <1>1 DEF OpToRel
  <1> QED BY <1>2

\* The walks cut off after each number of steps up to m.
Going(order, zero, one, m, f) ==
  f = [n \in 0..m |->
        [x \in 0..Len(zero) |-> IF x = 0 \/ n = 0 THEN <<>>
                                ELSE Around(order, x, f[n - 1][zero[x]], f[n - 1][one[x]])]]

Further(order, zero, one, n, cut) ==
  [x \in 0..Len(zero) |-> IF x = 0 \/ n = 0 THEN <<>>
                          ELSE Around(order, x, cut[zero[x]], cut[one[x]])]

\* Some function is the one that WalkIs speaks of.
LEMMA GoingOnce ==
  ASSUME NEW order, NEW zero, NEW one, NEW c \in Nat
  PROVE  \E f : Going(order, zero, one, c, f)
  <1> DEFINE S == {m \in 0..c : ~ \E f : Going(order, zero, one, m, f)}
  <1>1. SUFFICES ASSUME S # {} PROVE FALSE
    OBVIOUS
  <1>2. S \subseteq Nat
    OBVIOUS
  <1>3. PICK m \in S : \A n \in S : m <= n
    BY <1>1, <1>2, LeastIn
  <1>4. m \in 0..c /\ ~ \E f : Going(order, zero, one, m, f)
    BY <1>3
  <1>5. CASE m = 0
    <2>1. Going(order, zero, one, 0, [n \in 0..0 |-> [x \in 0..Len(zero) |-> <<>>]])
      BY DEF Going
    <2> QED BY <1>4, <1>5, <2>1
  <1>6. CASE m # 0
    <2>1. m - 1 \in 0..c /\ m - 1 < m
      BY <1>4, <1>6
    <2>2. m - 1 \notin S
      BY <1>2, <1>3, <2>1
    <2>3. PICK f : Going(order, zero, one, m - 1, f)
      BY <2>1, <2>2
    <2> DEFINE next == Further(order, zero, one, m, f[m - 1])
               cut == [n \in 0..m |-> IF n = m THEN next ELSE f[n]]
    <2>4. cut[m] = next /\ \A n \in 0..(m - 1) : cut[n] = f[n]
      BY <1>4, <1>6
    <2>5. \A i \in 0..(m - 1) : f[i] = Further(order, zero, one, i, f[i - 1])
      BY <2>3 DEF Going, Further
    <2>6. DOMAIN cut = 0..m /\ cut = [n \in 0..m |-> cut[n]]
      OBVIOUS
    <2> HIDE DEF cut
    <2>7. \A n \in 0..m : cut[n] = Further(order, zero, one, n, cut[n - 1])
      <3> TAKE n \in 0..m
      <3>1. CASE n = 0
        <4>1. 0 \in 0..(m - 1)
          BY <1>4, <1>6
        <4> QED BY <2>4, <2>5, <3>1, <4>1 DEF Further
      <3>2. CASE n # 0
        <4>1. n - 1 \in 0..(m - 1)
          BY <1>4, <3>2
        <4>2. cut[n - 1] = f[n - 1]
          BY <2>4, <4>1
        <4>3. CASE n = m
          BY <2>4, <3>2, <4>2, <4>3
        <4>4. CASE n # m
          <5>1. n \in 0..(m - 1)
            BY <1>4, <4>4
          <5> QED BY <2>4, <2>5, <3>2, <4>2, <5>1
        <4> QED BY <4>3, <4>4
      <3> QED BY <3>1, <3>2
    <2>8. Going(order, zero, one, m, cut)
      BY <2>6, <2>7 DEF Going, Further
    <2> QED BY <1>4, <2>8
  <1> QED BY <1>5, <1>6

\* The recursive function in Walk is one.
LEMMA WalkIs ==
  ASSUME NEW order, NEW zero, Len(zero) \in Nat, NEW one
  PROVE  \E f : /\ Going(order, zero, one, Len(zero), f)
                /\ \A x : Walk(order, zero, one, x) = f[Len(zero)][x]
  <1> DEFINE f == CHOOSE f : Going(order, zero, one, Len(zero), f)
  <1>1. Going(order, zero, one, Len(zero), f)
    BY GoingOnce
  <1>2. \A x : Walk(order, zero, one, x) = f[Len(zero)][x]
    BY DEF Walk, Going
  <1> QED BY <1>1, <1>2

\* Links that lead down in rank.
Falling(n, zero, one, r) ==
  /\ n \in Nat /\ r \in [1..n -> 1..n]
  /\ zero \in [1..n -> 0..n] /\ one \in [1..n -> 0..n]
  /\ \A x \in 1..n : /\ zero[x] # 0 => r[zero[x]] < r[x]
                     /\ one[x] # 0 => r[one[x]] < r[x]

Unfolded(order, n, zero, one) ==
  /\ Walk(order, zero, one, 0) = <<>>
  /\ \A x \in 1..n : Walk(order, zero, one, x) =
       Around(order, x, Walk(order, zero, one, zero[x]), Walk(order, zero, one, one[x]))

\* Then no walk is cut off: it goes around a knod and on to what it leads to.
LEMMA WalkUnfolds ==
  ASSUME NEW order, NEW n, NEW zero, NEW one, NEW r, Falling(n, zero, one, r)
  PROVE  Unfolded(order, n, zero, one)
  <1>1. /\ n \in Nat /\ r \in [1..n -> 1..n]
        /\ zero \in [1..n -> 0..n] /\ one \in [1..n -> 0..n]
        /\ \A x \in 1..n : /\ zero[x] # 0 => r[zero[x]] < r[x]
                           /\ one[x] # 0 => r[one[x]] < r[x]
    BY DEF Falling
  <1>2. Len(zero) = n
    <2>1. zero \in Seq(0..n)
      BY <1>1
    <2> QED BY <1>1, <2>1
  <1>3. PICK f : Going(order, zero, one, n, f) /\ \A x : Walk(order, zero, one, x) = f[n][x]
    <2>1. Len(zero) \in Nat /\ n \in Nat
      BY <1>1, <1>2
    <2>2. \E f : /\ Going(order, zero, one, Len(zero), f)
                  /\ \A x : Walk(order, zero, one, x) = f[Len(zero)][x]
      BY <2>1, WalkIs
    <2> QED BY <1>2, <2>2
  <1>4. \A i \in 0..n, x \in 0..n :
          f[i][x] = IF x = 0 \/ i = 0 THEN <<>>
                    ELSE Around(order, x, f[i - 1][zero[x]], f[i - 1][one[x]])
    <2>1. \A i \in 0..n : f[i] = Further(order, zero, one, i, f[i - 1])
      BY <1>3, <1>2 DEF Going, Further
    <2> TAKE i \in 0..n, x \in 0..n
    <2>2. PICK cut : cut = f[i - 1]
      OBVIOUS
    <2>3. f[i] = Further(order, zero, one, i, cut)
      BY <2>1, <2>2
    <2>4. x \in 0..Len(zero)
      BY <1>2
    <2>5. f[i][x] = IF x = 0 \/ i = 0 THEN <<>> ELSE Around(order, x, cut[zero[x]], cut[one[x]])
      BY ONLY <2>3, <2>4 DEF Further
    <2> QED BY <2>2, <2>5
  <1>a. n \in Nat
    BY <1>1
  <1>b. \A x \in 0..n : x # 0 => x \in 1..n
    BY <1>a
  <1>c. \A x \in 1..n : r[x] \in 1..n
    BY <1>1
  <1> DEFINE Rank(x) == IF x = 0 THEN 0 ELSE r[x]
             Settled(x) == \A i \in 0..n : Rank(x) <= i => f[i][x] = f[n][x]
             S == {k \in 0..n : \E x \in 0..n : Rank(x) = k /\ ~Settled(x)}
  <1>5. \A x \in 0..n : Rank(x) \in 0..n /\ (x # 0 => Rank(x) # 0 /\ x \in 1..n)
    <2> TAKE x \in 0..n
    <2>1. CASE x = 0
      BY <1>a, <2>1
    <2>2. CASE x # 0
      <3>1. r[x] \in 1..n /\ x \in 1..n
        BY <1>b, <1>c, <2>2
      <3> QED BY <1>a, <2>2, <3>1
    <2> QED BY <2>1, <2>2
  <1>6. S = {}
    <2>1. SUFFICES ASSUME S # {} PROVE FALSE
      OBVIOUS
    <2>2. S \subseteq Nat
      OBVIOUS
    <2>3. PICK k \in S : \A m \in S : k <= m
      BY <2>1, <2>2, LeastIn
    <2>4. PICK x \in 0..n : Rank(x) = k /\ ~Settled(x)
      BY <2>3
    <2>5. PICK i \in 0..n : k <= i /\ f[i][x] # f[n][x]
      BY <2>4
    <2>6. n \in 0..n /\ k \in 0..n
      BY <1>1, <2>3
    <2>7. x # 0
      <3> SUFFICES ASSUME x = 0 PROVE FALSE
        OBVIOUS
      <3>1. f[i][x] = <<>> /\ f[n][x] = <<>>
        BY <1>4, <2>6
      <3> QED BY <2>5, <3>1
    <2>8. x \in 1..n /\ k # 0 /\ k = r[x]
      BY <1>5, <2>4, <2>7
    <2>9. i # 0 /\ n # 0 /\ i - 1 \in 0..n /\ n - 1 \in 0..n /\ k - 1 <= i - 1 /\ k - 1 <= n - 1
      BY <1>a, <2>5, <2>6, <2>8
    <2>10. ASSUME NEW y \in 0..n, y # 0 => r[y] < r[x]
           PROVE  f[i - 1][y] = f[n - 1][y]
      <3>1. Rank(y) < k /\ Rank(y) \in 0..n
        BY <1>5, <2>8, <2>10
      <3>2. Rank(y) \notin S
        BY <2>3, <2>6, <3>1
      <3>3. Settled(y)
        BY <3>1, <3>2
      <3>4. Rank(y) <= i - 1 /\ Rank(y) <= n - 1
        BY <2>6, <2>9, <3>1
      <3> QED BY <2>9, <3>3, <3>4
    <2>11. zero[x] \in 0..n /\ one[x] \in 0..n
      BY <1>1, <2>8
    <2>12. f[i - 1][zero[x]] = f[n - 1][zero[x]] /\ f[i - 1][one[x]] = f[n - 1][one[x]]
      BY <1>1, <2>8, <2>10, <2>11
    <2> HIDE DEF S, Rank
    <2> QED BY <1>4, <2>5, <2>6, <2>7, <2>9, <2>12
  <1>7. \A x \in 0..n : Settled(x)
    BY <1>5, <1>6
  <1>8. Walk(order, zero, one, 0) = <<>>
    <2>1. 0 \in 0..n /\ n \in 0..n
      BY <1>1
    <2> QED BY <1>3, <1>4, <2>1
  <1>9. ASSUME NEW x \in 1..n
        PROVE  Walk(order, zero, one, x) =
                 Around(order, x, Walk(order, zero, one, zero[x]), Walk(order, zero, one, one[x]))
    <2>1. x \in 0..n /\ x # 0 /\ n \in 0..n /\ n # 0 /\ n - 1 \in 0..n
      BY <1>a
    <2>2. f[n][x] = Around(order, x, f[n - 1][zero[x]], f[n - 1][one[x]])
      BY <1>4, <2>1
    <2>3. ASSUME NEW y \in 0..n, y # 0 => r[y] < r[x] PROVE f[n - 1][y] = f[n][y]
      <3>1. Rank(y) <= n - 1
        <4>1. CASE y = 0
          BY <2>1, <4>1
        <4>2. CASE y # 0
          <5>1. r[y] \in 1..n /\ r[x] \in 1..n /\ r[y] < r[x]
            BY <1>b, <1>c, <2>3, <4>2
          <5> QED BY <1>a, <4>2, <5>1
        <4> QED BY <4>1, <4>2
      <3> HIDE DEF Rank
      <3> QED BY <1>7, <2>1, <3>1
    <2>4. zero[x] \in 0..n /\ one[x] \in 0..n
      BY <1>1
    <2>5. f[n - 1][zero[x]] = f[n][zero[x]] /\ f[n - 1][one[x]] = f[n][one[x]]
      BY <1>1, <2>3, <2>4
    <2> QED BY <1>3, <2>2, <2>5
  <1> QED BY <1>8, <1>9 DEF Unfolded

-----------------------------------------------------------------------------
(* Trees *)

KnodRec == [par : Nat, kids : [0..1 -> Nat]]

\* All links lead to knods or to nothing.
IsKnods(b) ==
  /\ b \in Seq(KnodRec)
  /\ \A k \in DOMAIN b : /\ bt_par(b, k) \in 0..Len(b)
                         /\ \A s \in 0..1 : bt_kid(b, k, s) \in 0..Len(b)

\* A kid knows its parent and hangs on one side of it, and a parent its kid.
KidsKnow(b) ==
  \A k \in DOMAIN b, s \in 0..1 : bt_kid(b, k, s) # 0 =>
    bt_par(b, bt_kid(b, k, s)) = k /\ bt_kid(b, k, s) # bt_kid(b, k, 1 - s)

ParentsKnow(b) ==
  \A k \in DOMAIN b : bt_par(b, k) # 0 => \E s \in 0..1 : bt_kid(b, bt_par(b, k), s) = k

\* Knods have ranks that grow from parents to kids.
Ranks(b, r) ==
  /\ r \in [DOMAIN b -> Nat]
  /\ \A k \in DOMAIN b : bt_par(b, k) # 0 => r[bt_par(b, k)] < r[k]

AreTrees(b) == IsKnods(b) /\ KidsKnow(b) /\ ParentsKnow(b) /\ \E r : Ranks(b, r)

BitreeInv == AreTrees(bt) /\ gone \in SUBSET DOMAIN bt /\ \A k \in gone : bt[k] = new_knod

\* What the links of a knod can be.
LEMMA KnodShapes ==
  ASSUME NEW b, IsKnods(b)
  PROVE  /\ Len(b) \in Nat /\ DOMAIN b = 1..Len(b)
         /\ \A k \in 1..Len(b) : /\ b[k] \in KnodRec
                                 /\ bt_par(b, k) \in 0..Len(b) /\ bt_par(b, k) \in Nat
                                 /\ \A s \in 0..1 : bt_kid(b, k, s) \in 0..Len(b) /\ bt_kid(b, k, s) \in Nat
  <1>1. b \in Seq(KnodRec)
    BY DEF IsKnods
  <1>2. Len(b) \in Nat /\ DOMAIN b = 1..Len(b) /\ \A k \in 1..Len(b) : b[k] \in KnodRec
    BY <1>1
  <1> QED BY <1>2 DEF IsKnods

\* What a write of a kid changes.
LEMMA KidSet ==
  ASSUME NEW b, IsKnods(b), NEW k \in 1..Len(b), NEW s \in 0..1, NEW x \in 0..Len(b)
  PROVE  /\ IsKnods(bt_set_kid(b, k, s, x)) /\ Len(bt_set_kid(b, k, s, x)) = Len(b)
         /\ \A j \in 1..Len(b) :
              /\ bt_par(bt_set_kid(b, k, s, x), j) = bt_par(b, j)
              /\ \A i \in 0..1 : bt_kid(bt_set_kid(b, k, s, x), j, i) =
                                   IF j = k /\ i = s THEN x ELSE bt_kid(b, j, i)
  <1>1. /\ Len(b) \in Nat /\ DOMAIN b = 1..Len(b) /\ b \in Seq(KnodRec)
        /\ \A j \in 1..Len(b) : b[j] \in KnodRec
    BY KnodShapes DEF IsKnods
  <1> DEFINE z == [b[k] EXCEPT !.kids[s] = x]
             c == [b EXCEPT ![k] = z]
  <1>2. k # 0 /\ x \in Nat
    BY <1>1
  <1>3. bt_set_kid(b, k, s, x) = c
    BY <1>2 DEF bt_set_kid
  <1>4. z \in KnodRec /\ z.par = b[k].par /\ \A i \in 0..1 : z.kids[i] = IF i = s THEN x ELSE b[k].kids[i]
    BY <1>1, <1>2 DEF KnodRec
  <1> HIDE DEF z
  <1>5. c \in Seq(KnodRec) /\ Len(c) = Len(b) /\ DOMAIN c = 1..Len(b)
        /\ \A j \in 1..Len(b) : c[j] = IF j = k THEN z ELSE b[j]
    BY <1>1, <1>4
  <1> HIDE DEF c
  <1>6. \A j \in 1..Len(b) :
              /\ bt_par(c, j) = bt_par(b, j)
              /\ \A i \in 0..1 : bt_kid(c, j, i) = IF j = k /\ i = s THEN x ELSE bt_kid(b, j, i)
    BY <1>4, <1>5 DEF bt_par, bt_kid
  <1>7. IsKnods(c)
    BY <1>1, <1>5, <1>6 DEF IsKnods
  <1> QED BY <1>3, <1>5, <1>6, <1>7

\* What a write of a parent changes.
LEMMA ParSet ==
  ASSUME NEW b, IsKnods(b), NEW k \in 0..Len(b), NEW x \in 0..Len(b)
  PROVE  /\ IsKnods(bt_set_par(b, k, x)) /\ Len(bt_set_par(b, k, x)) = Len(b)
         /\ \A j \in 1..Len(b) :
              /\ bt_par(bt_set_par(b, k, x), j) = IF j = k THEN x ELSE bt_par(b, j)
              /\ \A i \in 0..1 : bt_kid(bt_set_par(b, k, x), j, i) = bt_kid(b, j, i)
  <1>1. /\ Len(b) \in Nat /\ DOMAIN b = 1..Len(b) /\ b \in Seq(KnodRec)
        /\ \A j \in 1..Len(b) : b[j] \in KnodRec
    BY KnodShapes DEF IsKnods
  <1>2. CASE k = 0
    BY <1>1, <1>2 DEF bt_set_par
  <1>3. CASE k # 0
    <2> DEFINE z == [b[k] EXCEPT !.par = x]
               c == [b EXCEPT ![k] = z]
    <2>1. k \in 1..Len(b) /\ x \in Nat
      BY <1>1, <1>3
    <2>2. bt_set_par(b, k, x) = c
      BY <1>3 DEF bt_set_par
    <2>3. z \in KnodRec /\ z.par = x /\ z.kids = b[k].kids
      BY <1>1, <2>1 DEF KnodRec
    <2> HIDE DEF z
    <2>4. c \in Seq(KnodRec) /\ Len(c) = Len(b) /\ DOMAIN c = 1..Len(b)
          /\ \A j \in 1..Len(b) : c[j] = IF j = k THEN z ELSE b[j]
      BY <1>1, <2>1, <2>3
    <2> HIDE DEF c
    <2>5. \A j \in 1..Len(b) :
              /\ bt_par(c, j) = IF j = k THEN x ELSE bt_par(b, j)
              /\ \A i \in 0..1 : bt_kid(c, j, i) = bt_kid(b, j, i)
      BY <2>3, <2>4 DEF bt_par, bt_kid
    <2>6. IsKnods(c)
      BY <1>1, <2>4, <2>5 DEF IsKnods
    <2> QED BY <2>2, <2>4, <2>5, <2>6
  <1> QED BY <1>2, <1>3

\* What attach_at changes: a kid of one knod, and that kid's parent.
LEMMA KidAttached ==
  ASSUME NEW b, IsKnods(b), NEW p \in 1..Len(b), NEW s \in 0..1, NEW k \in 0..Len(b)
  PROVE  /\ IsKnods(attach_at(b, p, s, k)) /\ Len(attach_at(b, p, s, k)) = Len(b)
         /\ \A j \in 1..Len(b) :
              /\ bt_par(attach_at(b, p, s, k), j) = IF j = k THEN p ELSE bt_par(b, j)
              /\ \A i \in 0..1 : bt_kid(attach_at(b, p, s, k), j, i) =
                                   IF j = p /\ i = s THEN k ELSE bt_kid(b, j, i)
  <1>1. PICK c : c = bt_set_kid(b, p, s, k)
    OBVIOUS
  <1>2. /\ IsKnods(c) /\ Len(c) = Len(b)
        /\ \A j \in 1..Len(b) :
              /\ bt_par(c, j) = bt_par(b, j)
              /\ \A i \in 0..1 : bt_kid(c, j, i) = IF j = p /\ i = s THEN k ELSE bt_kid(b, j, i)
    BY <1>1, KidSet
  <1>3. PICK d : d = bt_set_par(c, k, p)
    OBVIOUS
  <1>4. p \in 0..Len(c) /\ k \in 0..Len(c)
    BY <1>2, KnodShapes
  <1>5. /\ IsKnods(d) /\ Len(d) = Len(c)
        /\ \A j \in 1..Len(c) :
              /\ bt_par(d, j) = IF j = k THEN p ELSE bt_par(c, j)
              /\ \A i \in 0..1 : bt_kid(d, j, i) = bt_kid(c, j, i)
    BY <1>2, <1>3, <1>4, ParSet
  <1>6. attach_at(b, p, s, k) = d
    BY <1>1, <1>3 DEF attach_at
  <1> QED BY <1>2, <1>5, <1>6

\* A knod more hangs nowhere.
LEMMA KnodMade ==
  ASSUME NEW b, AreTrees(b)
  PROVE  /\ AreTrees(Append(b, new_knod)) /\ Len(Append(b, new_knod)) = Len(b) + 1
         /\ DOMAIN Append(b, new_knod) = 1..(Len(b) + 1)
         /\ \A k \in 1..Len(b) : Append(b, new_knod)[k] = b[k]
         /\ Append(b, new_knod)[Len(b) + 1] = new_knod
  <1> DEFINE n == Len(b)  c == Append(b, new_knod)
  <1>1. /\ n \in Nat /\ DOMAIN b = 1..n /\ b \in Seq(KnodRec) /\ IsKnods(b)
        /\ \A j \in 1..n : /\ b[j] \in KnodRec /\ bt_par(b, j) \in 0..n
                           /\ \A s \in 0..1 : bt_kid(b, j, s) \in 0..n
    BY KnodShapes DEF IsKnods, AreTrees
  <1>2. new_knod \in KnodRec /\ new_knod.par = 0 /\ \A s \in 0..1 : new_knod.kids[s] = 0
    BY DEF new_knod, Unlinked, KnodRec
  <1>3. /\ c \in Seq(KnodRec) /\ Len(c) = n + 1 /\ DOMAIN c = 1..(n + 1)
        /\ \A k \in 1..n : c[k] = b[k]
        /\ c[n + 1] = new_knod
    BY <1>1, <1>2, AppendProperties
  <1> HIDE DEF n, c
  <1>4. /\ \A k \in 1..n : bt_par(c, k) = bt_par(b, k) /\ \A s \in 0..1 : bt_kid(c, k, s) = bt_kid(b, k, s)
        /\ bt_par(c, n + 1) = 0 /\ \A s \in 0..1 : bt_kid(c, n + 1, s) = 0
    BY <1>2, <1>3 DEF bt_par, bt_kid
  <1>5. \A k \in 1..(n + 1) : k \in 1..n \/ k = n + 1
    BY <1>1
  <1>6. \A k \in 0..n : k \in 0..(n + 1) /\ (k # 0 => k \in 1..n)
    BY <1>1
  <1>7. IsKnods(c)
    <2>1. 0 \in 0..(n + 1)
      BY <1>1
    <2> QED BY <1>1, <1>3, <1>4, <1>5, <1>6, <2>1 DEF IsKnods
  <1>8. KidsKnow(c)
    <2> SUFFICES ASSUME NEW k \in 1..(n + 1), NEW s \in 0..1, bt_kid(c, k, s) # 0
                 PROVE  bt_par(c, bt_kid(c, k, s)) = k /\ bt_kid(c, k, s) # bt_kid(c, k, 1 - s)
      BY <1>3 DEF KidsKnow
    <2>1. k \in 1..n /\ 1 - s \in 0..1
      BY <1>4, <1>5
    <2>2. bt_kid(c, k, s) = bt_kid(b, k, s) /\ bt_kid(c, k, 1 - s) = bt_kid(b, k, 1 - s)
      BY <1>4, <2>1
    <2>3. bt_kid(b, k, s) \in 1..n
      BY <1>1, <1>6, <2>1, <2>2
    <2>4. bt_par(b, bt_kid(b, k, s)) = k /\ bt_kid(b, k, s) # bt_kid(b, k, 1 - s)
      BY <1>1, <2>1, <2>2 DEF AreTrees, KidsKnow, n
    <2> QED BY <1>4, <2>2, <2>3, <2>4
  <1>9. ParentsKnow(c)
    <2> SUFFICES ASSUME NEW k \in 1..(n + 1), bt_par(c, k) # 0
                 PROVE  \E s \in 0..1 : bt_kid(c, bt_par(c, k), s) = k
      BY <1>3 DEF ParentsKnow
    <2>1. k \in 1..n
      BY <1>4, <1>5
    <2>2. bt_par(c, k) = bt_par(b, k) /\ bt_par(b, k) \in 1..n
      BY <1>1, <1>4, <1>6, <2>1
    <2>3. \E s \in 0..1 : bt_kid(b, bt_par(b, k), s) = k
      BY <1>1, <2>1, <2>2 DEF AreTrees, ParentsKnow
    <2> QED BY <1>4, <2>2, <2>3
  <1>10. \E r : Ranks(c, r)
    <2>1. PICK r : Ranks(b, r)
      BY DEF AreTrees
    <2>2. \A k \in 1..n : r[k] \in Nat
      BY <1>1, <2>1 DEF Ranks
    <2> DEFINE q == [k \in 1..(n + 1) |-> IF k \in 1..n THEN r[k] ELSE 0]
    <2>3. q \in [1..(n + 1) -> Nat] /\ \A k \in 1..n : q[k] = r[k]
      BY <1>1, <2>2
    <2> HIDE DEF q
    <2>4. ASSUME NEW k \in 1..(n + 1), bt_par(c, k) # 0 PROVE q[bt_par(c, k)] < q[k]
      <3>1. k \in 1..n
        BY <1>4, <1>5, <2>4
      <3>2. bt_par(c, k) = bt_par(b, k) /\ bt_par(b, k) \in 1..n
        BY <1>1, <1>4, <1>6, <2>4, <3>1
      <3>3. r[bt_par(b, k)] < r[k]
        <4>1. k \in DOMAIN b /\ bt_par(b, k) # 0
          BY <1>1, <3>1, <3>2
        <4> QED BY <2>1, <4>1 DEF Ranks
      <3> QED BY <2>3, <3>1, <3>2, <3>3
    <2>5. Ranks(c, q)
      BY <1>3, <2>3, <2>4 DEF Ranks
    <2> QED BY <2>5
  <1>11. AreTrees(c)
    BY <1>7, <1>8, <1>9, <1>10 DEF AreTrees
  <1> QED BY <1>3, <1>11 DEF n, c

\* The links of a tree in the form the steps below use them.
LEMMA TreeLinks ==
  ASSUME NEW b, AreTrees(b)
  PROVE  /\ IsKnods(b) /\ Len(b) \in Nat /\ DOMAIN b = 1..Len(b)
         /\ \A k \in 1..Len(b) : bt_par(b, k) \in 0..Len(b) /\ (bt_par(b, k) # 0 => bt_par(b, k) \in 1..Len(b))
         /\ \A k \in 1..Len(b), s \in 0..1 :
              bt_kid(b, k, s) \in 0..Len(b) /\ (bt_kid(b, k, s) # 0 => bt_kid(b, k, s) \in 1..Len(b))
         /\ \A k \in 1..Len(b), s \in 0..1 : bt_kid(b, k, s) # 0 =>
              bt_par(b, bt_kid(b, k, s)) = k /\ bt_kid(b, k, s) # bt_kid(b, k, 1 - s)
         /\ \A k \in 1..Len(b) : bt_par(b, k) # 0 => \E s \in 0..1 : bt_kid(b, bt_par(b, k), s) = k
         /\ \E r : Ranks(b, r)
  <1>1. /\ Len(b) \in Nat /\ DOMAIN b = 1..Len(b)
        /\ \A k \in 1..Len(b) : /\ bt_par(b, k) \in 0..Len(b)
                                /\ \A s \in 0..1 : bt_kid(b, k, s) \in 0..Len(b)
    BY KnodShapes DEF AreTrees
  <1>2. \A x \in 0..Len(b) : x # 0 => x \in 1..Len(b)
    BY <1>1
  <1>3. \A k \in 1..Len(b), s \in 0..1 : bt_kid(b, k, s) # 0 =>
              bt_par(b, bt_kid(b, k, s)) = k /\ bt_kid(b, k, s) # bt_kid(b, k, 1 - s)
    BY <1>1 DEF AreTrees, KidsKnow
  <1>4. \A k \in 1..Len(b) : bt_par(b, k) # 0 => \E s \in 0..1 : bt_kid(b, bt_par(b, k), s) = k
    BY <1>1 DEF AreTrees, ParentsKnow
  <1> QED BY <1>1, <1>2, <1>3, <1>4 DEF AreTrees

\* And the other way about.
LEMMA LinksMakeTrees ==
  ASSUME NEW c, IsKnods(c),
         \A k \in 1..Len(c), s \in 0..1 : bt_kid(c, k, s) # 0 =>
           bt_par(c, bt_kid(c, k, s)) = k /\ bt_kid(c, k, s) # bt_kid(c, k, 1 - s),
         \A k \in 1..Len(c) : bt_par(c, k) # 0 => \E s \in 0..1 : bt_kid(c, bt_par(c, k), s) = k,
         NEW q \in [1..Len(c) -> Nat],
         \A k \in 1..Len(c) : bt_par(c, k) # 0 => q[bt_par(c, k)] < q[k]
  PROVE  AreTrees(c)
  <1>1. DOMAIN c = 1..Len(c)
    BY KnodShapes
  <1>2. Ranks(c, q)
    BY <1>1 DEF Ranks
  <1> QED BY <1>1, <1>2 DEF AreTrees, KidsKnow, ParentsKnow

\* Ranks fall from any knod to its parent, and rise to its kids.
LEMMA RanksFall ==
  ASSUME NEW b, AreTrees(b), NEW r, Ranks(b, r)
  PROVE  /\ r \in [1..Len(b) -> Nat]
         /\ \A k \in 1..Len(b) : r[k] \in Nat
         /\ \A k \in 1..Len(b) : bt_par(b, k) # 0 => r[bt_par(b, k)] < r[k]
         /\ \A k \in 1..Len(b), s \in 0..1 : bt_kid(b, k, s) # 0 => r[k] < r[bt_kid(b, k, s)]
  <1>1. DOMAIN b = 1..Len(b)
    BY TreeLinks
  <1>2. /\ r \in [1..Len(b) -> Nat]
        /\ \A k \in 1..Len(b) : bt_par(b, k) # 0 => r[bt_par(b, k)] < r[k]
    BY <1>1 DEF Ranks
  <1>3. ASSUME NEW k \in 1..Len(b), NEW s \in 0..1, bt_kid(b, k, s) # 0 PROVE r[k] < r[bt_kid(b, k, s)]
    <2>1. bt_kid(b, k, s) \in 1..Len(b) /\ bt_par(b, bt_kid(b, k, s)) = k /\ k # 0
      BY <1>3, TreeLinks
    <2> QED BY <1>2, <2>1
  <1> QED BY <1>2, <1>3

\* A parent lets go of the kid on a side, if there is one.
Dropped(b, c, p, s) ==
  /\ IsKnods(c) /\ Len(c) = Len(b)
  /\ \A j \in 1..Len(b) :
       /\ bt_par(c, j) = IF j = bt_kid(b, p, s) THEN 0 ELSE bt_par(b, j)
       /\ \A i \in 0..1 : bt_kid(c, j, i) = IF j = p /\ i = s THEN 0 ELSE bt_kid(b, j, i)

\* What is left are trees.
LEMMA DroppedTrees ==
  ASSUME NEW b, AreTrees(b), NEW p \in 1..Len(b), NEW s \in 0..1, NEW c, Dropped(b, c, p, s)
  PROVE  AreTrees(c)
  <1> DEFINE n == Len(b)  old == bt_kid(b, p, s)
  <1>1. /\ IsKnods(c) /\ Len(c) = n
        /\ \A j \in 1..n :
             /\ bt_par(c, j) = IF j = old THEN 0 ELSE bt_par(b, j)
             /\ \A i \in 0..1 : bt_kid(c, j, i) = IF j = p /\ i = s THEN 0 ELSE bt_kid(b, j, i)
    BY DEF Dropped
  <1>2. PICK r : Ranks(b, r)
    BY TreeLinks
  <1>3. r \in [1..n -> Nat] /\ \A k \in 1..n : bt_par(b, k) # 0 => r[bt_par(b, k)] < r[k]
    BY <1>2, RanksFall
  <1>4. old # 0 => bt_par(b, old) = p
    BY TreeLinks
  <1>5. ASSUME NEW k \in 1..n, NEW i \in 0..1, bt_kid(c, k, i) # 0
        PROVE  bt_par(c, bt_kid(c, k, i)) = k /\ bt_kid(c, k, i) # bt_kid(c, k, 1 - i)
    <2>1. bt_kid(c, k, i) = bt_kid(b, k, i) /\ ~(k = p /\ i = s) /\ 1 - i \in 0..1
      BY <1>1, <1>5
    <2>2. PICK x : x = bt_kid(b, k, i)
      OBVIOUS
    <2>3. x \in 1..n /\ bt_par(b, x) = k /\ x # bt_kid(b, k, 1 - i) /\ x # 0
      BY <1>5, <2>1, <2>2, TreeLinks
    <2>4. x # old
      <3> SUFFICES ASSUME x = old PROVE FALSE
        OBVIOUS
      <3>1. k = p
        BY <1>4, <2>3
      <3>2. i = 1 - s /\ 1 - i = s
        BY <2>1, <3>1
      <3> QED BY <2>3, <3>1, <3>2
    <2>5. bt_par(c, x) = k
      BY <1>1, <2>3, <2>4
    <2>6. bt_kid(c, k, 1 - i) = 0 \/ bt_kid(c, k, 1 - i) = bt_kid(b, k, 1 - i)
      BY <1>1, <2>1
    <2> QED BY <2>1, <2>2, <2>3, <2>5, <2>6
  <1>6. ASSUME NEW k \in 1..n, bt_par(c, k) # 0
        PROVE  /\ \E i \in 0..1 : bt_kid(c, bt_par(c, k), i) = k
               /\ bt_par(c, k) = bt_par(b, k)
    <2>1. k # old /\ bt_par(c, k) = bt_par(b, k) /\ bt_par(b, k) # 0
      BY <1>1, <1>6
    <2>2. PICK q : q = bt_par(b, k)
      OBVIOUS
    <2>3. q \in 1..n
      BY <2>1, <2>2, TreeLinks
    <2>4. PICK i \in 0..1 : bt_kid(b, q, i) = k
      BY <2>1, <2>2, TreeLinks
    <2>5. ~(q = p /\ i = s)
      BY <2>1, <2>4
    <2>6. bt_kid(c, q, i) = k
      BY <1>1, <2>3, <2>4, <2>5
    <2> QED BY <2>1, <2>2, <2>6
  <1>7. \A k \in 1..n : bt_par(c, k) # 0 => r[bt_par(c, k)] < r[k]
    BY <1>3, <1>6
  <1> HIDE DEF n, old
  <1> QED BY <1>1, <1>3, <1>5, <1>6, <1>7, LinksMakeTrees

\* A root is hung below a knod that it is not above, where there is none.
HungOn(b, c, p, s, k) ==
  /\ IsKnods(c) /\ Len(c) = Len(b)
  /\ \A j \in 1..Len(b) :
       /\ bt_par(c, j) = IF j = k THEN p ELSE bt_par(b, j)
       /\ \A i \in 0..1 : bt_kid(c, j, i) = IF j = p /\ i = s THEN k ELSE bt_kid(b, j, i)

\* So nothing leads round: the ranks of all it is not above stay, and the
\* others move past them.
LEMMA HungTrees ==
  ASSUME NEW b, AreTrees(b), NEW p \in 1..Len(b), NEW s \in 0..1, NEW k \in 1..Len(b),
         bt_kid(b, p, s) = 0, bt_par(b, k) = 0,
         NEW A \in SUBSET (1..Len(b)), p \in A, k \notin A,
         \A x \in A : bt_par(b, x) # 0 => bt_par(b, x) \in A,
         NEW c, HungOn(b, c, p, s, k)
  PROVE  AreTrees(c)
  <1> DEFINE n == Len(b)
  <1>1. /\ IsKnods(c) /\ Len(c) = n
        /\ \A j \in 1..n :
             /\ bt_par(c, j) = IF j = k THEN p ELSE bt_par(b, j)
             /\ \A i \in 0..1 : bt_kid(c, j, i) = IF j = p /\ i = s THEN k ELSE bt_kid(b, j, i)
    BY DEF HungOn
  <1>0. n \in Nat /\ k # 0 /\ p # 0
    BY TreeLinks
  <1>2. PICK r : Ranks(b, r)
    BY TreeLinks
  <1>3. /\ \A x \in 1..n : r[x] \in Nat
        /\ \A x \in 1..n : bt_par(b, x) # 0 => r[bt_par(b, x)] < r[x]
    BY <1>2, RanksFall
  <1>4. ASSUME NEW x \in 1..n, NEW i \in 0..1, bt_kid(c, x, i) # 0
        PROVE  bt_par(c, bt_kid(c, x, i)) = x /\ bt_kid(c, x, i) # bt_kid(c, x, 1 - i)
    <2>0. 1 - i \in 0..1
      OBVIOUS
    <2>1. ASSUME NEW j \in 1..n, NEW h \in 0..1, bt_kid(b, j, h) = k PROVE FALSE
      <3>0. bt_kid(b, j, h) # 0
        BY <1>0, <2>1
      <3>1. bt_par(b, bt_kid(b, j, h)) = j
        BY <3>0, TreeLinks
      <3>2. bt_par(b, k) = j
        BY <2>1, <3>1
      <3>3. j # 0
        BY <1>0
      <3> QED BY <3>2, <3>3
    <2>2. CASE x = p /\ i = s
      <3>1. bt_kid(c, x, i) = k /\ bt_par(c, k) = p
        BY <1>1, <2>2
      <3>2. bt_kid(c, x, 1 - i) = bt_kid(b, x, 1 - i)
        BY <1>1, <2>0, <2>2
      <3> QED BY <2>0, <2>1, <2>2, <3>1, <3>2
    <2>3. CASE ~(x = p /\ i = s)
      <3>1. bt_kid(c, x, i) = bt_kid(b, x, i)
        BY <1>1, <2>3
      <3>2. PICK y : y = bt_kid(b, x, i)
        OBVIOUS
      <3>3. y \in 1..n /\ bt_par(b, y) = x /\ y # bt_kid(b, x, 1 - i) /\ y # k
        BY <1>4, <2>1, <3>1, <3>2, TreeLinks
      <3>4. bt_par(c, y) = x
        BY <1>1, <3>3
      <3>5. bt_kid(c, x, 1 - i) = k \/ bt_kid(c, x, 1 - i) = bt_kid(b, x, 1 - i)
        BY <1>1, <2>0
      <3> QED BY <3>1, <3>2, <3>3, <3>4, <3>5
    <2> QED BY <2>2, <2>3
  <1>5. ASSUME NEW x \in 1..n, bt_par(c, x) # 0
        PROVE  \E i \in 0..1 : bt_kid(c, bt_par(c, x), i) = x
    <2>1. CASE x = k
      <3>1. bt_par(c, x) = p /\ bt_kid(c, p, s) = x
        BY <1>1, <2>1
      <3> QED BY <3>1
    <2>2. CASE x # k
      <3>1. PICK q : q = bt_par(b, x)
        OBVIOUS
      <3>2. bt_par(c, x) = q /\ q \in 1..n
        BY <1>1, <1>5, <2>2, <3>1, TreeLinks
      <3>3. PICK i \in 0..1 : bt_kid(b, q, i) = x
        BY <1>5, <3>1, <3>2, TreeLinks
      <3>4. ~(q = p /\ i = s)
        BY <1>0, <3>3
      <3>5. bt_kid(c, q, i) = x
        BY <1>1, <3>2, <3>3, <3>4
      <3> QED BY <3>2, <3>5
    <2> QED BY <2>1, <2>2
  <1> DEFINE q == [x \in 1..n |-> IF x \in A THEN r[x] ELSE r[x] + r[p] + 1]
  <1>6. q \in [1..n -> Nat] /\ \A x \in 1..n : q[x] = IF x \in A THEN r[x] ELSE r[x] + r[p] + 1
    BY <1>3
  <1> HIDE DEF q
  <1>7. ASSUME NEW x \in 1..n, bt_par(c, x) # 0 PROVE q[bt_par(c, x)] < q[x]
    <2>1. CASE x = k
      <3>1. bt_par(c, x) = p
        BY <1>1, <2>1
      <3>2. q[p] = r[p] /\ q[x] = r[x] + r[p] + 1
        BY <1>6, <2>1
      <3> QED BY <1>3, <3>1, <3>2
    <2>2. CASE x # k
      <3>1. PICK y : y = bt_par(b, x)
        OBVIOUS
      <3>2. bt_par(c, x) = y /\ y \in 1..n /\ r[y] < r[x] /\ r[x] \in Nat /\ r[y] \in Nat /\ r[p] \in Nat
        BY <1>1, <1>3, <1>7, <2>2, <3>1, TreeLinks
      <3>3. x \in A => y \in A
        BY <3>1, <3>2, <1>0
      <3>4. q[x] = IF x \in A THEN r[x] ELSE r[x] + r[p] + 1
        BY <1>6
      <3>5. q[y] = IF y \in A THEN r[y] ELSE r[y] + r[p] + 1
        BY <1>6, <3>2
      <3>6. CASE x \in A
        BY <3>2, <3>3, <3>4, <3>5, <3>6
      <3>7. CASE x \notin A
        BY <3>2, <3>4, <3>5, <3>7
      <3> QED BY <3>6, <3>7
    <2> QED BY <2>1, <2>2
  <1> HIDE DEF n
  <1> QED BY <1>1, <1>4, <1>5, <1>6, <1>7, LinksMakeTrees

\* A knod is on the side that btside finds it on, and on no other.
LEMMA SideIs ==
  ASSUME NEW b, AreTrees(b), NEW k \in 1..Len(b), NEW p, p = bt_par(b, k), p # 0
  PROVE  /\ child_side(b, p, k) \in 0..1 /\ bt_kid(b, p, child_side(b, p, k)) = k
         /\ \A j \in 1..Len(b), i \in 0..1 : bt_kid(b, j, i) = k <=> j = p /\ i = child_side(b, p, k)
  <1> DEFINE sides == {s \in 0..1 : p # 0 /\ k # 0 /\ bt_kid(b, p, s) = k}
             side == CHOOSE s \in sides : \A r \in sides : s <= r
  <1>0. Len(b) \in Nat /\ k # 0 /\ p \in 1..Len(b)
    BY TreeLinks
  <1>1. PICK s \in 0..1 : bt_kid(b, p, s) = k
    BY TreeLinks
  <1>2. sides # {} /\ sides \subseteq 0..1 /\ s \in sides
    BY <1>0, <1>1
  <1>3. \E a \in sides : \A r \in sides : a <= r
    <2>1. CASE 0 \in sides
      BY <1>2, <2>1
    <2>2. CASE 0 \notin sides
      <3>1. \A r \in sides : r = 1
        BY <1>2, <2>2
      <3> QED BY <1>2, <3>1
    <2> QED BY <2>1, <2>2
  <1>4. side \in sides
    BY <1>3
  <1>5. child_side(b, p, k) = side
    BY <1>2 DEF child_side
  <1>6. side \in 0..1 /\ bt_kid(b, p, side) = k
    BY <1>4
  <1> HIDE DEF side, sides
  <1>7. ASSUME NEW j \in 1..Len(b), NEW i \in 0..1, bt_kid(b, j, i) = k PROVE j = p /\ i = side
    <2>1. bt_kid(b, j, i) # 0
      BY <1>0, <1>7
    <2>2. bt_par(b, bt_kid(b, j, i)) = j
      BY <2>1, TreeLinks
    <2>3. j = p
      BY <1>7, <2>2
    <2>4. bt_kid(b, p, side) # bt_kid(b, p, 1 - side)
      BY <1>0, <1>6, TreeLinks
    <2>5. i = side \/ i = 1 - side
      BY <1>6
    <2> QED BY <1>6, <1>7, <2>3, <2>4, <2>5
  <1> QED BY <1>5, <1>6, <1>7

\* What a rotation makes of the links.
Rotated(b, c, k, s) ==
  LET y == bt_kid(b, k, s)
      z == bt_kid(b, y, 1 - s)
  IN  /\ IsKnods(c) /\ Len(c) = Len(b)
      /\ \A j \in 1..Len(b) :
           /\ bt_par(c, j) = CASE j = y -> bt_par(b, k) [] j = k -> y [] j = z -> k [] OTHER -> bt_par(b, j)
           /\ \A i \in 0..1 :
                bt_kid(c, j, i) = IF j = k /\ i = s THEN z
                                  ELSE IF j = y /\ i = 1 - s THEN k
                                  ELSE IF bt_kid(b, j, i) = k THEN y
                                  ELSE bt_kid(b, j, i)

\* The knods about a rotation, and which are different.
LEMMA AboutRotation ==
  ASSUME NEW b, AreTrees(b), NEW k \in 1..Len(b), NEW s \in 0..1, bt_kid(b, k, s) # 0,
         NEW r, Ranks(b, r),
         NEW y, y = bt_kid(b, k, s), NEW z, z = bt_kid(b, y, 1 - s), NEW p, p = bt_par(b, k)
  PROVE  /\ y \in 1..Len(b) /\ z \in 0..Len(b) /\ p \in 0..Len(b)
         /\ bt_par(b, y) = k /\ (z # 0 => z \in 1..Len(b) /\ bt_par(b, z) = y)
         /\ (p # 0 => p \in 1..Len(b) /\ r[p] < r[k]) /\ r[k] < r[y] /\ (z # 0 => r[y] < r[z])
         /\ k # y /\ k # z /\ y # z /\ p # k /\ p # y /\ (p # 0 => p # z)
  <1>0. Len(b) \in Nat /\ 1 - s \in 0..1 /\ k # 0
    BY TreeLinks
  <1>1. y \in 1..Len(b) /\ bt_par(b, y) = k
    BY TreeLinks
  <1>2. z \in 0..Len(b) /\ (z # 0 => z \in 1..Len(b) /\ bt_par(b, z) = y)
    BY <1>0, <1>1, TreeLinks
  <1>3. p \in 0..Len(b) /\ (p # 0 => p \in 1..Len(b))
    BY TreeLinks
  <1>4. r[k] < r[y] /\ (z # 0 => r[y] < r[z]) /\ (p # 0 => r[p] < r[k])
    BY <1>0, <1>1, <1>2, RanksFall
  <1>5. r[k] \in Nat /\ r[y] \in Nat /\ (z # 0 => r[z] \in Nat) /\ (p # 0 => r[p] \in Nat)
    BY <1>1, <1>2, <1>3, RanksFall
  <1>6. k # y /\ k # z /\ y # z /\ p # k /\ p # y /\ (p # 0 => p # z)
    <2>1. k # y /\ y # 0
      BY <1>0, <1>1, <1>4, <1>5
    <2>2. k # z /\ y # z
      BY <1>0, <2>1, <1>4, <1>5
    <2>3. p # k /\ p # y
      BY <1>0, <2>1, <1>4, <1>5
    <2>4. p # 0 => p # z
      <3> SUFFICES ASSUME p # 0, p = z PROVE FALSE
        OBVIOUS
      <3>1. r[p] < r[k] /\ r[k] < r[y] /\ r[y] < r[p] /\ r[p] \in Nat
        BY <1>4, <1>5
      <3> QED BY <1>5, <3>1
    <2> QED BY <2>1, <2>2, <2>3, <2>4
  <1> QED BY <1>1, <1>2, <1>3, <1>4, <1>6

\* btrot writes no other links, and none of them twice.
LEMMA RotationIs ==
  ASSUME NEW b, AreTrees(b), NEW k \in 1..Len(b), NEW s \in 0..1, bt_kid(b, k, s) # 0
  PROVE  Rotated(b, btrot(b, k, s), k, s)
  <1>1. PICK n, y, z, p : n = Len(b) /\ y = bt_kid(b, k, s) /\ z = bt_kid(b, y, 1 - s) /\ p = bt_par(b, k)
    OBVIOUS
  <1>2. PICK r : Ranks(b, r)
    BY TreeLinks
  <1>3. /\ y \in 1..n /\ z \in 0..n /\ p \in 0..n /\ (p # 0 => p \in 1..n) /\ n \in Nat
        /\ k # y /\ k # z /\ y # z /\ p # k /\ p # y /\ (p # 0 => p # z)
        /\ k \in 1..n /\ k \in 0..n /\ y \in 0..n /\ 1 - s \in 0..1 /\ IsKnods(b)
        /\ bt_par(b, y) = k
    <2>1. /\ y \in 1..n /\ z \in 0..n /\ p \in 0..n /\ (p # 0 => p \in 1..n)
          /\ k # y /\ k # z /\ y # z /\ p # k /\ p # y /\ (p # 0 => p # z)
          /\ bt_par(b, y) = k
      BY <1>1, <1>2, AboutRotation
    <2>2. n \in Nat /\ IsKnods(b)
      BY <1>1, TreeLinks
    <2>3. k \in 1..n /\ k \in 0..n /\ y \in 0..n /\ 1 - s \in 0..1
      BY <1>1, <2>1, <2>2
    <2> QED BY <2>1, <2>2, <2>3
  <1>4. PICK b1 : b1 = attach_at(b, k, s, z)
    OBVIOUS
  <1>5. /\ IsKnods(b1) /\ Len(b1) = n
        /\ \A j \in 1..n :
             /\ bt_par(b1, j) = IF j = z THEN k ELSE bt_par(b, j)
             /\ \A i \in 0..1 : bt_kid(b1, j, i) = IF j = k /\ i = s THEN z ELSE bt_kid(b, j, i)
    BY <1>1, <1>3, <1>4, KidAttached
  <1>6. PICK c1 : c1 = bt_set_kid(b1, y, 1 - s, k)
    OBVIOUS
  <1>7. /\ IsKnods(c1) /\ Len(c1) = n
        /\ \A j \in 1..n :
             /\ bt_par(c1, j) = bt_par(b1, j)
             /\ \A i \in 0..1 : bt_kid(c1, j, i) = IF j = y /\ i = 1 - s THEN k ELSE bt_kid(b1, j, i)
    BY <1>3, <1>5, <1>6, KidSet
  <1>8. PICK c2 : c2 = bt_set_par(c1, y, p)
    OBVIOUS
  <1>9. /\ IsKnods(c2) /\ Len(c2) = n
        /\ \A j \in 1..n :
             /\ bt_par(c2, j) = IF j = y THEN p ELSE bt_par(c1, j)
             /\ \A i \in 0..1 : bt_kid(c2, j, i) = bt_kid(c1, j, i)
    BY <1>3, <1>7, <1>8, ParSet
  <1>10. PICK b2 : b2 = bt_set_par(c2, k, y)
    OBVIOUS
  <1>11. /\ IsKnods(b2) /\ Len(b2) = n
         /\ \A j \in 1..n :
             /\ bt_par(b2, j) = IF j = k THEN y ELSE bt_par(c2, j)
             /\ \A i \in 0..1 : bt_kid(b2, j, i) = bt_kid(c2, j, i)
    BY <1>3, <1>9, <1>10, ParSet
  <1>12. btrot(b, k, s) = IF p = 0 THEN b2 ELSE bt_set_kid(b2, p, child_side(b, p, k), y)
    BY <1>1, <1>4, <1>6, <1>8, <1>10 DEF btrot
  <1>13. \A j \in 1..n :
             /\ bt_par(b2, j) = CASE j = y -> p [] j = k -> y [] j = z -> k [] OTHER -> bt_par(b, j)
             /\ \A i \in 0..1 : bt_kid(b2, j, i) = IF j = k /\ i = s THEN z
                                                   ELSE IF j = y /\ i = 1 - s THEN k ELSE bt_kid(b, j, i)
    BY <1>3, <1>5, <1>7, <1>9, <1>11
  <1>14. CASE p = 0
    <2>1. \A j \in 1..n, i \in 0..1 : bt_kid(b, j, i) # k
      <3> SUFFICES ASSUME NEW j \in 1..n, NEW i \in 0..1, bt_kid(b, j, i) = k PROVE FALSE
        OBVIOUS
      <3>1. bt_kid(b, j, i) # 0 /\ j # 0
        BY <1>3
      <3>2. bt_par(b, bt_kid(b, j, i)) = j
        BY <1>1, <3>1, TreeLinks
      <3> QED BY <1>1, <1>14, <3>1, <3>2
    <2>2. btrot(b, k, s) = b2
      BY <1>12, <1>14
    <2> QED BY <1>1, <1>11, <1>13, <2>1, <2>2 DEF Rotated
  <1>15. CASE p # 0
    <2>1. PICK q : q = child_side(b, p, k)
      OBVIOUS
    <2>2. /\ q \in 0..1 /\ p \in 1..n
          /\ \A j \in 1..n, i \in 0..1 : bt_kid(b, j, i) = k <=> j = p /\ i = q
      BY <1>1, <1>3, <1>15, <2>1, SideIs
    <2>3. PICK c : c = bt_set_kid(b2, p, q, y)
      OBVIOUS
    <2>4. /\ IsKnods(c) /\ Len(c) = n
          /\ \A j \in 1..n :
               /\ bt_par(c, j) = bt_par(b2, j)
               /\ \A i \in 0..1 : bt_kid(c, j, i) = IF j = p /\ i = q THEN y ELSE bt_kid(b2, j, i)
      BY <1>3, <1>11, <2>2, <2>3, KidSet
    <2>5. \A j \in 1..n, i \in 0..1 :
            bt_kid(c, j, i) = IF j = k /\ i = s THEN z
                              ELSE IF j = y /\ i = 1 - s THEN k
                              ELSE IF bt_kid(b, j, i) = k THEN y
                              ELSE bt_kid(b, j, i)
      <3> TAKE j \in 1..n, i \in 0..1
      <3>1. bt_kid(b, j, i) = k <=> j = p /\ i = q
        BY <2>2
      <3>2. bt_kid(c, j, i) = IF j = p /\ i = q THEN y ELSE bt_kid(b2, j, i)
        BY <2>4
      <3>3. bt_kid(b2, j, i) = IF j = k /\ i = s THEN z
                               ELSE IF j = y /\ i = 1 - s THEN k ELSE bt_kid(b, j, i)
        BY <1>13
      <3> QED BY <1>3, <3>1, <3>2, <3>3
    <2>6. btrot(b, k, s) = c
      BY <1>12, <1>15, <2>1, <2>3
    <2> QED BY <1>1, <1>13, <2>4, <2>5, <2>6 DEF Rotated
  <1> QED BY <1>14, <1>15

\* The kids and parents that Rotated leaves, for all that follows.
LEMMA RotatedTrees ==
  ASSUME NEW b, AreTrees(b), NEW k \in 1..Len(b), NEW s \in 0..1, bt_kid(b, k, s) # 0,
         NEW c, Rotated(b, c, k, s)
  PROVE  AreTrees(c)
  <1>1. PICK n, y, z, p : n = Len(b) /\ y = bt_kid(b, k, s) /\ z = bt_kid(b, y, 1 - s) /\ p = bt_par(b, k)
    OBVIOUS
  <1>2. PICK r : Ranks(b, r)
    BY TreeLinks
  <1>3. /\ y \in 1..n /\ z \in 0..n /\ p \in 0..n
        /\ bt_par(b, y) = k /\ (z # 0 => z \in 1..n /\ bt_par(b, z) = y)
        /\ (p # 0 => p \in 1..n /\ r[p] < r[k]) /\ r[k] < r[y] /\ (z # 0 => r[y] < r[z])
        /\ k # y /\ k # z /\ y # z /\ p # k /\ p # y /\ (p # 0 => p # z)
    BY <1>1, <1>2, AboutRotation
  <1>4. /\ IsKnods(c) /\ Len(c) = n
        /\ \A j \in 1..n : bt_par(c, j) = CASE j = y -> p [] j = k -> y [] j = z -> k [] OTHER -> bt_par(b, j)
        /\ \A j \in 1..n, i \in 0..1 :
              bt_kid(c, j, i) = IF j = k /\ i = s THEN z
                                ELSE IF j = y /\ i = 1 - s THEN k
                                ELSE IF bt_kid(b, j, i) = k THEN y
                                ELSE bt_kid(b, j, i)
    BY <1>1 DEF Rotated
  <1>5. /\ k \in 1..n /\ n \in Nat /\ k # 0 /\ y # 0 /\ 1 - s \in 0..1
        /\ \A j \in 1..n : r[j] \in Nat /\ (bt_par(b, j) # 0 => r[bt_par(b, j)] < r[j])
        /\ \A j \in 1..n : bt_par(b, j) \in 0..n /\ (bt_par(b, j) # 0 => bt_par(b, j) \in 1..n)
    <2>1. k \in 1..n /\ n \in Nat
      BY <1>1, TreeLinks
    <2>2. k # 0 /\ y # 0 /\ 1 - s \in 0..1
      BY <1>1, <1>3, <2>1
    <2>3. \A j \in 1..n : r[j] \in Nat /\ (bt_par(b, j) # 0 => r[bt_par(b, j)] < r[j])
      BY <1>1, <1>2, RanksFall
    <2>4. \A j \in 1..n : bt_par(b, j) \in 0..n /\ (bt_par(b, j) # 0 => bt_par(b, j) \in 1..n)
      BY <1>1, TreeLinks
    <2> QED BY <2>1, <2>2, <2>3, <2>4
  <1>6. ASSUME NEW j \in 1..n, NEW i \in 0..1, bt_kid(b, j, i) # 0
        PROVE  /\ bt_kid(b, j, i) \in 1..n /\ bt_par(b, bt_kid(b, j, i)) = j
               /\ bt_kid(b, j, i) # bt_kid(b, j, 1 - i)
    BY <1>1, <1>6, TreeLinks
  <1>7. ASSUME NEW j \in 1..n, NEW i \in 0..1, NEW x, x = bt_kid(c, j, i), x # 0
        PROVE  bt_par(c, x) = j /\ x # bt_kid(c, j, 1 - i)
    <2>0. 1 - i \in 0..1 /\ (i # s => i = 1 - s) /\ 1 - s \in 0..1 /\ s # 1 - s /\ 1 - (1 - s) = s /\ (1 - i = s <=> i = 1 - s)
      OBVIOUS
    <2>1. bt_kid(c, j, 1 - i) = IF j = k /\ 1 - i = s THEN z
                                ELSE IF j = y /\ 1 - i = 1 - s THEN k
                                ELSE IF bt_kid(b, j, 1 - i) = k THEN y
                                ELSE bt_kid(b, j, 1 - i)
      BY <1>4, <2>0
    <2>2. PICK w, u : w = bt_kid(b, j, i) /\ u = bt_kid(b, j, 1 - i)
      OBVIOUS
    <2>3. w # 0 => w \in 1..n /\ bt_par(b, w) = j /\ w # u
      BY <1>6, <2>2
    <2>4. u # 0 => u \in 1..n /\ bt_par(b, u) = j /\ u # w
      BY <1>6, <2>0, <2>2
    <2>5. CASE j = k /\ i = s
      <3>1. x = z /\ bt_par(c, z) = k /\ z \in 1..n
        BY <1>3, <1>4, <1>7, <2>5
      <3>2. bt_kid(c, j, 1 - i) = y \/ bt_kid(c, j, 1 - i) = u
        BY <1>3, <2>0, <2>1, <2>2, <2>5
      <3>3. u # z
        BY <1>3, <2>4, <2>5, <3>1
      <3> QED BY <1>3, <2>5, <3>1, <3>2, <3>3
    <2>6. CASE j = y /\ i = 1 - s
      <3>1. x = k /\ bt_par(c, k) = y
        BY <1>3, <1>4, <1>5, <1>7, <2>6
      <3>2. u # k
        <4> SUFFICES ASSUME u = k PROVE FALSE
          OBVIOUS
        <4>1. p = y
          BY <1>1, <1>5, <2>4, <2>6
        <4> QED BY <1>3, <4>1
      <3>3. bt_kid(c, j, 1 - i) = u
        BY <1>3, <2>0, <2>1, <2>2, <2>6, <3>2
      <3> QED BY <2>6, <3>1, <3>2, <3>3
    <2>7. CASE ~(j = k /\ i = s) /\ ~(j = y /\ i = 1 - s) /\ w = k
      <3>1. x = y /\ bt_par(c, y) = p
        BY <1>3, <1>4, <1>7, <2>2, <2>7
      <3>2. p = j
        BY <1>1, <1>5, <2>3, <2>7
      <3>3. u # k /\ j # k /\ j # y
        BY <1>3, <1>5, <2>3, <2>7, <3>2
      <3>4. bt_kid(c, j, 1 - i) = u
        BY <2>1, <2>2, <3>3
      <3>5. u # y
        BY <1>3, <1>5, <2>4, <3>3
      <3> QED BY <3>1, <3>2, <3>4, <3>5
    <2>8. CASE ~(j = k /\ i = s) /\ ~(j = y /\ i = 1 - s) /\ w # k
      <3>1. x = w /\ w \in 1..n /\ bt_par(b, w) = j /\ w # u
        BY <1>4, <1>7, <2>2, <2>3, <2>8
      <3>2. w # y
        <4> SUFFICES ASSUME w = y PROVE FALSE
          OBVIOUS
        <4>1. j = k /\ i = 1 - s
          BY <1>3, <2>0, <2>8, <3>1
        <4>2. u = y
          BY <1>1, <2>0, <2>2, <4>1
        <4> QED BY <3>1, <4>2
      <3>3. w # z
        <4> SUFFICES ASSUME w = z PROVE FALSE
          OBVIOUS
        <4>0. z # 0
          BY <1>7, <3>1
        <4>1. j = y /\ i = s
          BY <1>3, <2>0, <2>8, <3>1, <4>0
        <4>2. u = z
          BY <1>1, <2>0, <2>2, <4>1
        <4> QED BY <3>1, <4>2
      <3>4. bt_par(c, w) = j
        BY <1>4, <2>8, <3>1, <3>2, <3>3
      <3>5. bt_kid(c, j, 1 - i) \in {z, k, y, u}
        BY <2>1, <2>2
      <3> QED BY <2>8, <3>1, <3>2, <3>3, <3>4, <3>5
    <2> QED BY <2>5, <2>6, <2>7, <2>8
  <1>8. ASSUME NEW j \in 1..n, bt_par(c, j) # 0
        PROVE  \E i \in 0..1 : bt_kid(c, bt_par(c, j), i) = j
    <2>1. CASE j = y
      <3>1. bt_par(c, j) = p /\ p \in 1..n
        BY <1>3, <1>4, <1>8, <2>1
      <3>2. PICK i \in 0..1 : bt_kid(b, p, i) = k
        BY <1>1, <1>8, <3>1, TreeLinks
      <3>3. bt_kid(c, p, i) = y
        BY <1>3, <1>4, <3>1, <3>2
      <3> QED BY <2>1, <3>1, <3>3
    <2>2. CASE j = k
      <3>1. bt_par(c, j) = y /\ bt_kid(c, y, 1 - s) = k
        BY <1>3, <1>4, <1>5, <2>2
      <3> QED BY <1>5, <2>2, <3>1
    <2>3. CASE j = z
      <3>1. bt_par(c, j) = k /\ bt_kid(c, k, s) = z
        BY <1>3, <1>4, <1>5, <2>3
      <3> QED BY <2>3, <3>1
    <2>4. CASE j # y /\ j # k /\ j # z
      <3>1. PICK q : q = bt_par(b, j)
        OBVIOUS
      <3>2. bt_par(c, j) = q /\ q \in 1..n
        BY <1>4, <1>5, <1>8, <2>4, <3>1
      <3>3. PICK i \in 0..1 : bt_kid(b, q, i) = j
        BY <1>1, <1>8, <3>1, <3>2, TreeLinks
      <3>4. ~(q = k /\ i = s) /\ ~(q = y /\ i = 1 - s)
        BY <1>1, <2>4, <3>3
      <3>5. bt_kid(c, q, i) = j
        BY <1>4, <2>4, <3>2, <3>3, <3>4
      <3> QED BY <3>2, <3>5
    <2> QED BY <2>1, <2>2, <2>3, <2>4
  <1> DEFINE q == [x \in 1..n |-> CASE x = y -> 2 * r[k] [] x = k -> 2 * r[k] + 1 [] OTHER -> 2 * r[x]]
  <1>9. /\ q \in [1..n -> Nat] /\ q[y] = 2 * r[k] /\ q[k] = 2 * r[k] + 1
        /\ \A x \in 1..n : x # y /\ x # k => q[x] = 2 * r[x]
    <2>1. \A x \in 1..n : 2 * r[x] \in Nat /\ 2 * r[k] + 1 \in Nat /\ 2 * r[k] \in Nat
      BY <1>5
    <2> QED BY <1>3, <1>5, <2>1
  <1> HIDE DEF q
  <1>10. ASSUME NEW j \in 1..n, bt_par(c, j) # 0 PROVE q[bt_par(c, j)] < q[j]
    <2>1. CASE j = y
      <3>1. bt_par(c, j) = p /\ p \in 1..n /\ q[p] = 2 * r[p] /\ r[p] < r[k] /\ r[p] \in Nat /\ r[k] \in Nat
        BY <1>3, <1>4, <1>5, <1>9, <1>10, <2>1
      <3> QED BY <1>9, <2>1, <3>1
    <2>2. CASE j = k
      <3>1. bt_par(c, j) = y /\ r[k] \in Nat
        BY <1>3, <1>4, <1>5, <2>2
      <3> QED BY <1>9, <2>2, <3>1
    <2>3. CASE j = z
      <3>1. /\ bt_par(c, j) = k /\ q[j] = 2 * r[j] /\ r[k] < r[y] /\ r[y] < r[j]
            /\ r[k] \in Nat /\ r[y] \in Nat /\ r[j] \in Nat
        BY <1>3, <1>4, <1>5, <1>9, <2>3
      <3> QED BY <1>9, <3>1
    <2>4. CASE j # y /\ j # k /\ j # z
      <3>1. PICK o : o = bt_par(b, j)
        OBVIOUS
      <3>2. /\ bt_par(c, j) = o /\ o \in 1..n /\ r[o] < r[j] /\ r[o] \in Nat /\ r[j] \in Nat
            /\ q[j] = 2 * r[j] /\ r[k] \in Nat /\ r[k] < r[y] /\ r[y] \in Nat
        BY <1>3, <1>4, <1>5, <1>9, <1>10, <2>4, <3>1
      <3>3. CASE o = y
        BY <1>9, <3>2, <3>3
      <3>4. CASE o = k
        BY <1>9, <3>2, <3>4
      <3>5. CASE o # y /\ o # k
        BY <1>9, <3>2, <3>5
      <3> QED BY <3>3, <3>4, <3>5
    <2> QED BY <2>1, <2>2, <2>3, <2>4
  <1> QED BY <1>4, <1>7, <1>8, <1>9, <1>10, LinksMakeTrees

-----------------------------------------------------------------------------
(* Walks *)

\* Ranks no greater than the number of knods.
LEMMA Levels ==
  ASSUME NEW b, AreTrees(b)
  PROVE  \E d \in [1..Len(b) -> 1..Len(b)] :
           \A k \in 1..Len(b) : bt_par(b, k) # 0 => d[bt_par(b, k)] < d[k]
  <1>1. PICK n \in Nat : n = Len(b)
    BY TreeLinks
  <1>2. PICK r : Ranks(b, r)
    BY TreeLinks
  <1>3. /\ \A k \in 1..n : r[k] \in Nat
        /\ \A k \in 1..n : bt_par(b, k) # 0 => r[bt_par(b, k)] < r[k] /\ bt_par(b, k) \in 1..n
    BY <1>1, <1>2, RanksFall, TreeLinks
  <1> DEFINE Below(x) == {y \in 1..n : r[y] <= r[x]}
             d == [x \in 1..n |-> Cardinality(Below(x))]
  <1>4. IsFiniteSet(1..n) /\ Cardinality(1..n) = n
    <2>1. IsFiniteSet(1..n) /\ Cardinality(1..n) = IF 1 > n THEN 0 ELSE n - 1 + 1
      BY FS_Interval
    <2> QED BY <2>1
  <1>5. ASSUME NEW x \in 1..n PROVE IsFiniteSet(Below(x)) /\ Cardinality(Below(x)) \in 1..n
    <2>1. Below(x) \in SUBSET (1..n)
      OBVIOUS
    <2>2. x \in Below(x)
      BY <1>3
    <2> HIDE DEF Below
    <2>3. IsFiniteSet(Below(x)) /\ Cardinality(Below(x)) <= n
      BY <1>4, <2>1, FS_Subset
    <2>4. Cardinality(Below(x)) \in Nat /\ Cardinality(Below(x)) # 0
      BY <2>2, <2>3, FS_CardinalityType, FS_EmptySet
    <2> QED BY <2>3, <2>4
  <1>6. d \in [1..n -> 1..n] /\ \A x \in 1..n : d[x] = Cardinality(Below(x))
    BY <1>5
  <1>7. ASSUME NEW k \in 1..n, bt_par(b, k) # 0 PROVE d[bt_par(b, k)] < d[k]
    <2>1. PICK p : p = bt_par(b, k)
      OBVIOUS
    <2>2. p \in 1..n /\ r[p] < r[k]
      BY <1>3, <1>7, <2>1
    <2>3. Below(p) \in SUBSET Below(k) /\ k \in Below(k) /\ k \notin Below(p)
      BY <1>3, <2>2
    <2>4. d[p] = Cardinality(Below(p)) /\ d[k] = Cardinality(Below(k)) /\ d[p] \in Nat /\ d[k] \in Nat
      BY <1>5, <1>6, <2>2
    <2>5. IsFiniteSet(Below(k))
      BY <1>5
    <2> HIDE DEF Below, d
    <2>6. Cardinality(Below(p)) <= Cardinality(Below(k)) /\ Cardinality(Below(p)) # Cardinality(Below(k))
      BY <2>3, <2>5, FS_Subset
    <2> QED BY <2>1, <2>4, <2>6
  <1> HIDE DEF d
  <1> QED BY <1>1, <1>6, <1>7

\* What holds of a knod when it holds of its kids holds of all knods,
LEMMA UpFromLeaves ==
  ASSUME NEW b, AreTrees(b), NEW T,
         \A x \in 1..Len(b) :
           (\A s \in 0..1 : bt_kid(b, x, s) # 0 => bt_kid(b, x, s) \in T) => x \in T
  PROVE  \A x \in 1..Len(b) : x \in T
  <1>1. PICK n \in Nat : n = Len(b)
    BY TreeLinks
  <1>2. PICK d \in [1..n -> 1..n] : \A k \in 1..n : bt_par(b, k) # 0 => d[bt_par(b, k)] < d[k]
    BY <1>1, Levels
  <1> DEFINE S == {m \in 0..n : \E x \in 1..n : m = n - d[x] /\ x \notin T}
  <1>3. SUFFICES ASSUME NEW o \in 1..n, o \notin T PROVE FALSE
    BY <1>1
  <1>4. n - d[o] \in S
    <2>1. d[o] \in 1..n
      OBVIOUS
    <2> QED BY <1>3, <2>1
  <1>5. S \subseteq Nat /\ S # {}
    BY <1>4
  <1>6. PICK m \in S : \A i \in S : m <= i
    BY <1>5, LeastIn
  <1>7. PICK x \in 1..n : m = n - d[x] /\ x \notin T
    BY <1>6
  <1>8. PICK s \in 0..1 : bt_kid(b, x, s) # 0 /\ bt_kid(b, x, s) \notin T
    BY <1>1, <1>7
  <1>9. PICK y : y = bt_kid(b, x, s)
    OBVIOUS
  <1>10. y \in 1..n /\ bt_par(b, y) = x /\ x # 0
    BY <1>1, <1>8, <1>9, TreeLinks
  <1>11. d[x] < d[y] /\ d[x] \in 1..n /\ d[y] \in 1..n
    <2>1. bt_par(b, y) # 0
      BY <1>10
    <2>2. d[bt_par(b, y)] < d[y]
      BY <1>2, <1>10, <2>1
    <2> QED BY <1>10, <2>2
  <1>12. n - d[y] \in S
    <2>1. n - d[y] \in 0..n
      <3>1. PICK i : i = d[y] /\ i \in 1..n
        BY <1>11
      <3>2. n - i \in 0..n
        BY ONLY <3>1, n \in Nat
      <3> QED BY <3>1, <3>2
    <2> QED BY <1>8, <1>9, <1>10, <2>1
  <1> HIDE DEF S
  <1> QED BY <1>6, <1>7, <1>11, <1>12

\* and what holds of a knod when it holds of its parent.
LEMMA DownFromRoots ==
  ASSUME NEW b, AreTrees(b), NEW T,
         \A x \in 1..Len(b) : (bt_par(b, x) # 0 => bt_par(b, x) \in T) => x \in T
  PROVE  \A x \in 1..Len(b) : x \in T
  <1>1. PICK n \in Nat : n = Len(b)
    BY TreeLinks
  <1>2. PICK r : Ranks(b, r)
    BY TreeLinks
  <1>3. /\ \A k \in 1..n : r[k] \in Nat
        /\ \A k \in 1..n : bt_par(b, k) # 0 => r[bt_par(b, k)] < r[k] /\ bt_par(b, k) \in 1..n
    BY <1>1, <1>2, RanksFall, TreeLinks
  <1> DEFINE S == {r[x] : x \in {x \in 1..n : x \notin T}}
  <1>4. SUFFICES ASSUME S # {} PROVE FALSE
    BY <1>1
  <1>5. S \subseteq Nat
    BY <1>3
  <1>6. PICK m \in S : \A i \in S : m <= i
    BY <1>4, <1>5, LeastIn
  <1>7. PICK x \in 1..n : m = r[x] /\ x \notin T
    BY <1>6
  <1>8. bt_par(b, x) # 0 /\ bt_par(b, x) \notin T
    BY <1>1, <1>7
  <1>9. PICK y : y = bt_par(b, x)
    OBVIOUS
  <1>10. y \in 1..n /\ r[y] < r[x] /\ y \notin T /\ r[y] \in Nat /\ r[x] \in Nat
    BY <1>3, <1>8, <1>9
  <1>11. r[y] \in S
    BY <1>10
  <1> HIDE DEF S
  <1> QED BY <1>6, <1>7, <1>10, <1>11

\* The walk below a knod, itself included.
Below(order, b, x) == Walk(order, KidsAt(b, 0), KidsAt(b, 1), x)

GoesAround(order, b) ==
  \A k \in 1..Len(b) :
    Below(order, b, k) = Around(order, k, Below(order, b, bt_kid(b, k, 0)), Below(order, b, bt_kid(b, k, 1)))

\* In a tree no walk is cut off.
LEMMA WalksOfTrees ==
  ASSUME NEW b, AreTrees(b)
  PROVE  /\ Ancestors(b, 0) = <<>>
         /\ \A k \in 1..Len(b) : Ancestors(b, k) = <<k>> \o Ancestors(b, bt_par(b, k)) \o <<>>
         /\ \A order : Below(order, b, 0) = <<>>
         /\ \A order : GoesAround(order, b)
  <1>1. PICK n \in Nat : n = Len(b)
    BY TreeLinks
  <1>2. PICK d \in [1..n -> 1..n] : \A k \in 1..n : bt_par(b, k) # 0 => d[bt_par(b, k)] < d[k]
    BY <1>1, Levels
  <1>3. DOMAIN b = 1..n
    BY <1>1, TreeLinks
  <1>4. Falling(n, Parents(b), [x \in DOMAIN b |-> 0], d)
    <2>1. Parents(b) \in [1..n -> 0..n] /\ \A x \in 1..n : Parents(b)[x] = bt_par(b, x)
      BY <1>1, <1>3, TreeLinks DEF Parents
    <2>2. [x \in DOMAIN b |-> 0] \in [1..n -> 0..n]
      BY <1>1, <1>3
    <2> QED BY <1>1, <1>2, <1>3, <2>1, <2>2 DEF Falling
  <1>5. /\ Ancestors(b, 0) = <<>>
        /\ \A k \in 1..n : Ancestors(b, k) = <<k>> \o Ancestors(b, bt_par(b, k)) \o <<>>
    <2> DEFINE none == [x \in DOMAIN b |-> 0]
    <2>1. /\ Walk("pre", Parents(b), none, 0) = <<>>
          /\ \A x \in 1..n : Walk("pre", Parents(b), none, x) =
               Around("pre", x, Walk("pre", Parents(b), none, Parents(b)[x]), Walk("pre", Parents(b), none, none[x]))
      BY <1>4, WalkUnfolds DEF Unfolded
    <2>2. \A x \in 1..n : none[x] = 0 /\ Parents(b)[x] = bt_par(b, x)
      BY <1>3 DEF Parents
    <2>3. \A x : Ancestors(b, x) = Walk("pre", Parents(b), none, x)
      BY DEF Ancestors
    <2> HIDE DEF none
    <2> QED BY <2>1, <2>2, <2>3 DEF Around
  <1>6. PICK e : e \in [1..n -> 1..n] /\ \A x \in 1..n : e[x] = n + 1 - d[x]
    <2>1. \A x \in 1..n : d[x] \in 1..n
      OBVIOUS
    <2>2. \A x \in 1..n : n + 1 - d[x] \in 1..n
      BY <2>1
    <2> DEFINE f == [x \in 1..n |-> n + 1 - d[x]]
    <2>3. f \in [1..n -> 1..n] /\ \A x \in 1..n : f[x] = n + 1 - d[x]
      BY <2>2
    <2> QED BY <2>3
  <1>7. Falling(n, KidsAt(b, 0), KidsAt(b, 1), e)
    <2>1. ASSUME NEW s \in 0..1
          PROVE  /\ KidsAt(b, s) \in [1..n -> 0..n] /\ \A x \in 1..n : KidsAt(b, s)[x] = bt_kid(b, x, s)
      BY <1>1, <1>3, TreeLinks DEF KidsAt
    <2>2. ASSUME NEW s \in 0..1, NEW x \in 1..n, bt_kid(b, x, s) # 0 PROVE e[bt_kid(b, x, s)] < e[x]
      <3>1. PICK y : y = bt_kid(b, x, s)
        OBVIOUS
      <3>2. y \in 1..n /\ bt_par(b, y) = x /\ x # 0
        BY <1>1, <2>2, <3>1, TreeLinks
      <3>3. d[x] < d[y] /\ d[x] \in 1..n /\ d[y] \in 1..n
        BY <1>2, <3>2
      <3> QED BY <1>6, <3>1, <3>2, <3>3
    <2> QED BY <1>1, <1>6, <2>1, <2>2 DEF Falling
  <1>8. ASSUME NEW order
        PROVE  Below(order, b, 0) = <<>> /\ GoesAround(order, b)
    <2>1. PICK zero, one : zero = KidsAt(b, 0) /\ one = KidsAt(b, 1)
      OBVIOUS
    <2>2. Falling(n, zero, one, e)
      BY <1>7, <2>1
    <2>3. /\ Walk(order, zero, one, 0) = <<>>
          /\ \A x \in 1..n : Walk(order, zero, one, x) =
               Around(order, x, Walk(order, zero, one, zero[x]), Walk(order, zero, one, one[x]))
      <3>1. Unfolded(order, n, zero, one)
        BY <2>2, WalkUnfolds
      <3> QED BY <3>1 DEF Unfolded
    <2>4. \A x \in 1..n : zero[x] = bt_kid(b, x, 0) /\ one[x] = bt_kid(b, x, 1)
      BY <1>3, <2>1 DEF KidsAt
    <2>5. \A x : Below(order, b, x) = Walk(order, zero, one, x)
      BY <2>1 DEF Below
    <2> QED BY <1>1, <2>3, <2>4, <2>5 DEF GoesAround
  <1> QED BY <1>1, <1>5, <1>8

Orders == {"pre", "in", "post"}

\* A concatenation v has what its parts have, once if they have it once.
Joins(S, u, w, v) ==
  /\ v \in Seq(S) /\ Len(v) = Len(u) + Len(w) /\ Len(u) \in Nat /\ Len(w) \in Nat
  /\ ToSet(v) = ToSet(u) \cup ToSet(w)
  /\ IsInjective(u) /\ IsInjective(w) /\ ToSet(u) \cap ToSet(w) = {} => IsInjective(v)

\* Every concatenation does.
LEMMA Joined ==
  ASSUME NEW S, NEW u \in Seq(S), NEW w \in Seq(S)
  PROVE  Joins(S, u, w, u \o w)
  <1>1. PICK m \in Nat, n \in Nat : m = Len(u) /\ n = Len(w) /\ DOMAIN u = 1..m /\ DOMAIN w = 1..n
    OBVIOUS
  <1>2. PICK v : v = u \o w
    OBVIOUS
  <1>3. /\ v \in Seq(S) /\ Len(v) = m + n /\ DOMAIN v = 1..(m + n)
        /\ \A i \in 1..(m + n) : v[i] = IF i <= m THEN u[i] ELSE w[i - m]
    BY <1>1, <1>2, ConcatProperties
  <1>4. \A i \in 1..(m + n) : (i <= m => i \in 1..m) /\ (~(i <= m) => i - m \in 1..n)
    OBVIOUS
  <1>5. \A i \in 1..m : i \in 1..(m + n) /\ i <= m
    OBVIOUS
  <1>6. \A i \in 1..n : m + i \in 1..(m + n) /\ ~(m + i <= m) /\ (m + i) - m = i
    OBVIOUS
  <1>7. ToSet(v) = ToSet(u) \cup ToSet(w)
    <2>1. \A i \in 1..(m + n) : v[i] \in ToSet(u) \cup ToSet(w)
      BY <1>1, <1>3, <1>4 DEF ToSet
    <2>2. \A i \in 1..m : u[i] \in ToSet(v)
      BY <1>1, <1>3, <1>5 DEF ToSet
    <2>3. \A i \in 1..n : w[i] \in ToSet(v)
      <3> TAKE i \in 1..n
      <3>1. m + i \in DOMAIN v /\ v[m + i] = w[(m + i) - m] /\ (m + i) - m = i
        BY <1>3, <1>6
      <3>2. v[m + i] = w[i]
        BY <3>1
      <3> QED BY <3>1, <3>2 DEF ToSet
    <2> QED BY <1>1, <1>3, <2>1, <2>2, <2>3 DEF ToSet
  <1>8. ASSUME IsInjective(u), IsInjective(w), ToSet(u) \cap ToSet(w) = {}
        PROVE  IsInjective(v)
    <2> SUFFICES ASSUME NEW i \in 1..(m + n), NEW j \in 1..(m + n), v[i] = v[j] PROVE i = j
      BY <1>3 DEF IsInjective
    <2>1. CASE i <= m /\ j <= m
      BY <1>1, <1>3, <1>4, <1>8, <2>1 DEF IsInjective
    <2>2. CASE ~(i <= m) /\ ~(j <= m)
      <3>1. i - m \in 1..n /\ j - m \in 1..n /\ w[i - m] = w[j - m]
        BY <1>3, <1>4, <2>2
      <3>2. i - m = j - m
        BY <1>1, <1>8, <3>1 DEF IsInjective
      <3> QED BY <3>2
    <2>3. CASE i <= m /\ ~(j <= m)
      <3>1. v[i] \in ToSet(u) /\ v[j] \in ToSet(w)
        BY <1>1, <1>3, <1>4, <2>3 DEF ToSet
      <3> QED BY <1>8, <3>1
    <2>4. CASE ~(i <= m) /\ j <= m
      <3>1. v[i] \in ToSet(w) /\ v[j] \in ToSet(u)
        BY <1>1, <1>3, <1>4, <2>4 DEF ToSet
      <3> QED BY <1>8, <3>1
    <2> QED BY <2>1, <2>2, <2>3, <2>4
  <1> QED BY <1>1, <1>2, <1>3, <1>7, <1>8 DEF Joins

\* A walk that comes by one knod,
LEMMA OneKnod ==
  ASSUME NEW S, NEW x \in S
  PROVE  <<x>> \in Seq(S) /\ Len(<<x>>) = 1 /\ ToSet(<<x>>) = {x} /\ IsInjective(<<x>>)
  <1>1. <<x>> \in Seq(S) /\ Len(<<x>>) = 1 /\ DOMAIN <<x>> = {1} /\ <<x>>[1] = x
    OBVIOUS
  <1> QED BY <1>1 DEF ToSet, IsInjective

\* and one that comes by none.
LEMMA NoKnods ==
  ASSUME NEW S
  PROVE  <<>> \in Seq(S) /\ Len(<<>>) = 0 /\ ToSet(<<>>) = {} /\ IsInjective(<<>>)
  BY DEF ToSet, IsInjective

\* Each order comes by the knod and by what is on both sides.
Surrounds(S, x, u, w, v) ==
  /\ v \in Seq(S) /\ Len(v) = 1 + Len(u) + Len(w)
  /\ ToSet(v) = {x} \cup ToSet(u) \cup ToSet(w)
  /\ IsInjective(u) /\ IsInjective(w) /\ ToSet(u) \cap ToSet(w) = {} /\ x \notin ToSet(u) \cup ToSet(w)
       => IsInjective(v)

\* All three orders do.
LEMMA AroundIs ==
  ASSUME NEW S, NEW order \in Orders, NEW x \in S, NEW u \in Seq(S), NEW w \in Seq(S)
  PROVE  Surrounds(S, x, u, w, Around(order, x, u, w))
  <1>1. PICK e : e = <<x>>
    OBVIOUS
  <1>2. e \in Seq(S) /\ Len(e) = 1 /\ ToSet(e) = {x} /\ IsInjective(e)
    BY <1>1, OneKnod
  <1>3. Len(u) \in Nat /\ Len(w) \in Nat
    OBVIOUS
  <1>4. CASE order = "pre"
    <2>1. PICK a, v : a = e \o u /\ v = a \o w
      OBVIOUS
    <2>2. Around(order, x, u, w) = v
      BY <1>1, <1>4, <2>1 DEF Around
    <2>3. Joins(S, e, u, a)
      BY <1>2, <2>1, Joined
    <2>4. a \in Seq(S)
      BY <2>3 DEF Joins
    <2>5. Joins(S, a, w, v)
      BY <2>1, <2>4, Joined
    <2> QED BY ONLY <1>2, <1>3, <2>2, <2>3, <2>5 DEF Joins, Surrounds
  <1>5. CASE order = "in"
    <2>1. PICK a, v : a = u \o e /\ v = a \o w
      OBVIOUS
    <2>2. Around(order, x, u, w) = v
      BY <1>1, <1>5, <2>1 DEF Around
    <2>3. Joins(S, u, e, a)
      BY <1>2, <2>1, Joined
    <2>4. a \in Seq(S)
      BY <2>3 DEF Joins
    <2>5. Joins(S, a, w, v)
      BY <2>1, <2>4, Joined
    <2> QED BY ONLY <1>2, <1>3, <2>2, <2>3, <2>5 DEF Joins, Surrounds
  <1>6. CASE order = "post"
    <2>1. PICK a, v : a = u \o w /\ v = a \o e
      OBVIOUS
    <2>2. Around(order, x, u, w) = v
      BY <1>1, <1>6, <2>1 DEF Around
    <2>3. Joins(S, u, w, a)
      BY <2>1, Joined
    <2>4. a \in Seq(S)
      BY <2>3 DEF Joins
    <2>5. Joins(S, a, e, v)
      BY <1>2, <2>1, <2>4, Joined
    <2> QED BY ONLY <1>2, <1>3, <2>2, <2>3, <2>5 DEF Joins, Surrounds
  <1> QED BY <1>4, <1>5, <1>6 DEF Orders

\* What a walk comes by, step by step.
BelowStep(order, b, x) ==
  Surrounds(1..Len(b), x, Below(order, b, bt_kid(b, x, 0)), Below(order, b, bt_kid(b, x, 1)), Below(order, b, x))

\* Every walk of a tree surrounds each knod so, and comes by knods only.
LEMMA BelowIs ==
  ASSUME NEW b, AreTrees(b), NEW order \in Orders
  PROVE  /\ Below(order, b, 0) = <<>>
         /\ \A x \in 1..Len(b) : BelowStep(order, b, x)
         /\ \A x \in 0..Len(b) : Below(order, b, x) \in Seq(1..Len(b))
  <1>1. PICK n \in Nat : n = Len(b)
    BY TreeLinks
  <1>2. Below(order, b, 0) = <<>>
    BY WalksOfTrees
  <1> DEFINE T == {x \in 1..n : Below(order, b, x) \in Seq(1..n)}
  <1>3. ASSUME NEW x \in 1..n, \A s \in 0..1 : bt_kid(b, x, s) # 0 => bt_kid(b, x, s) \in T
        PROVE  x \in T /\ BelowStep(order, b, x)
    <2>1. PICK l, r : l = bt_kid(b, x, 0) /\ r = bt_kid(b, x, 1)
      OBVIOUS
    <2>2. PICK u, w, v : u = Below(order, b, l) /\ w = Below(order, b, r) /\ v = Below(order, b, x)
      OBVIOUS
    <2>3. (l # 0 => l \in T) /\ (r # 0 => r \in T)
      BY <1>3, <2>1
    <2>4. <<>> \in Seq(1..n)
      BY NoKnods
    <2>5. u \in Seq(1..n) /\ w \in Seq(1..n)
      BY <1>2, <2>2, <2>3, <2>4
    <2>6. Below(order, b, x) = Around(order, x, Below(order, b, bt_kid(b, x, 0)), Below(order, b, bt_kid(b, x, 1)))
      BY <1>1, WalksOfTrees DEF GoesAround
    <2>7. v = Around(order, x, u, w)
      BY <2>1, <2>2, <2>6
    <2>8. Surrounds(1..n, x, u, w, v)
      BY <2>5, <2>7, AroundIs
    <2>9. BelowStep(order, b, x)
      BY <1>1, <2>1, <2>2, <2>8 DEF BelowStep
    <2> QED BY <2>2, <2>8, <2>9 DEF Surrounds
  <1> HIDE DEF T
  <1>4. \A x \in 1..n : x \in T
    BY <1>1, <1>3, UpFromLeaves
  <1>5. \A x \in 1..n, s \in 0..1 : bt_kid(b, x, s) # 0 => bt_kid(b, x, s) \in 1..n
    BY <1>1, TreeLinks
  <1>6. \A x \in 1..n : BelowStep(order, b, x)
    BY <1>3, <1>4, <1>5
  <1>7. \A x \in 0..n : x # 0 => x \in 1..n
    BY <1>1
  <1>8. \A x \in 0..n : Below(order, b, x) \in Seq(1..n)
    BY <1>2, <1>4, <1>7, NoKnods DEF T
  <1> QED BY <1>1, <1>2, <1>6, <1>8

\* All orders come by the same knods.
LEMMA OrdersAgree ==
  ASSUME NEW b, AreTrees(b), NEW order \in Orders, NEW x \in 0..Len(b)
  PROVE  /\ ToSet(Below(order, b, x)) = ToSet(Below("pre", b, x))
         /\ Len(Below(order, b, x)) = Len(Below("pre", b, x))
  <1>1. PICK n \in Nat : n = Len(b)
    BY TreeLinks
  <1>2. "pre" \in Orders
    BY DEF Orders
  <1> DEFINE Same(y) == /\ ToSet(Below(order, b, y)) = ToSet(Below("pre", b, y))
                         /\ Len(Below(order, b, y)) = Len(Below("pre", b, y))
             T == {y \in 1..n : Same(y)}
  <1>3. Same(0)
    BY <1>2, BelowIs
  <1>4. ASSUME NEW y \in 1..n, \A s \in 0..1 : bt_kid(b, y, s) # 0 => bt_kid(b, y, s) \in T
        PROVE  y \in T
    <2>1. PICK l, r : l = bt_kid(b, y, 0) /\ r = bt_kid(b, y, 1)
      OBVIOUS
    <2>2. Same(l) /\ Same(r)
      BY <1>3, <1>4, <2>1
    <2>3. BelowStep(order, b, y) /\ BelowStep("pre", b, y)
      BY <1>1, <1>2, BelowIs
    <2>4. /\ Surrounds(1..n, y, Below(order, b, l), Below(order, b, r), Below(order, b, y))
          /\ Surrounds(1..n, y, Below("pre", b, l), Below("pre", b, r), Below("pre", b, y))
      BY <1>1, <2>1, <2>3 DEF BelowStep
    <2>5. Same(y)
      BY <2>2, <2>4 DEF Surrounds
    <2> QED BY <2>5
  <1> HIDE DEF T
  <1>5. \A y \in 1..n : y \in T
    BY <1>1, <1>4, UpFromLeaves
  <1>6. \A y \in 0..n : y # 0 => y \in 1..n
    BY <1>1
  <1> QED BY <1>1, <1>3, <1>5, <1>6 DEF T

\* The knods a walk comes by.
Members(b, x) == ToSet(Below("pre", b, x))

\* A knod and what is below its kids is what is below it.
LEMMA MembersAre ==
  ASSUME NEW b, AreTrees(b)
  PROVE  /\ Members(b, 0) = {}
         /\ \A x \in 1..Len(b) : Members(b, x) = {x} \cup Members(b, bt_kid(b, x, 0)) \cup Members(b, bt_kid(b, x, 1))
  <1>1. "pre" \in Orders
    BY DEF Orders
  <1>2. Below("pre", b, 0) = <<>> /\ \A x \in 1..Len(b) : BelowStep("pre", b, x)
    BY <1>1, BelowIs
  <1> QED BY <1>2, NoKnods DEF Members, BelowStep, Surrounds

\* They are below its start, hang together, and take their kids along.
LEMMA MembersHang ==
  ASSUME NEW b, AreTrees(b), NEW r, Ranks(b, r), NEW x \in 1..Len(b), NEW z \in Members(b, x)
  PROVE  /\ z \in 1..Len(b) /\ r[x] <= r[z]
         /\ z # x => bt_par(b, z) # 0 /\ bt_par(b, z) \in Members(b, x)
         /\ \A s \in 0..1 : bt_kid(b, z, s) # 0 => bt_kid(b, z, s) \in Members(b, x)
  <1>1. PICK n \in Nat : n = Len(b)
    BY TreeLinks
  <1> DEFINE Hangs(y, w) == /\ w \in 1..n /\ r[y] <= r[w]
                            /\ w # y => bt_par(b, w) # 0 /\ bt_par(b, w) \in Members(b, y)
                            /\ \A s \in 0..1 : bt_kid(b, w, s) # 0 => bt_kid(b, w, s) \in Members(b, y)
             T == {y \in 1..n : \A w \in Members(b, y) : Hangs(y, w)}
  <1>2. /\ Members(b, 0) = {}
        /\ \A y \in 1..n : Members(b, y) = {y} \cup Members(b, bt_kid(b, y, 0)) \cup Members(b, bt_kid(b, y, 1))
    BY <1>1, MembersAre
  <1>3. \A y \in 1..n : y \in Members(b, y)
    BY <1>2
  <1>4. \A y \in 1..n, s \in 0..1 : Members(b, bt_kid(b, y, s)) \in SUBSET Members(b, y)
    <2> TAKE y \in 1..n, s \in 0..1
    <2>1. s = 0 \/ s = 1
      OBVIOUS
    <2>2. Members(b, y) = {y} \cup Members(b, bt_kid(b, y, 0)) \cup Members(b, bt_kid(b, y, 1))
      BY <1>2
    <2> QED BY <2>1, <2>2
  <1>5. \A y \in 1..n : r[y] \in Nat
    BY <1>1, RanksFall
  <1>6. ASSUME NEW y \in 1..n, NEW s \in 0..1, bt_kid(b, y, s) # 0
        PROVE  bt_kid(b, y, s) \in 1..n /\ bt_par(b, bt_kid(b, y, s)) = y /\ r[y] < r[bt_kid(b, y, s)] /\ y # 0
    BY <1>1, <1>6, TreeLinks, RanksFall
  <1>7. ASSUME NEW y \in 1..n, \A s \in 0..1 : bt_kid(b, y, s) # 0 => bt_kid(b, y, s) \in T
        PROVE  y \in T
    <2> SUFFICES ASSUME NEW w \in Members(b, y) PROVE Hangs(y, w)
      OBVIOUS
    <2>1. CASE w = y
      <3>1. \A s \in 0..1 : bt_kid(b, y, s) # 0 => bt_kid(b, y, s) \in Members(b, y)
        BY <1>3, <1>4, <1>6
      <3> QED BY <1>5, <2>1, <3>1
    <2>2. CASE w # y
      <3>1. PICK s \in 0..1 : w \in Members(b, bt_kid(b, y, s))
        <4>1. w \in Members(b, bt_kid(b, y, 0)) \/ w \in Members(b, bt_kid(b, y, 1))
          BY <1>2, <2>2
        <4> QED BY <4>1
      <3>2. PICK k : k = bt_kid(b, y, s)
        OBVIOUS
      <3>3. k # 0
        BY <1>2, <3>1, <3>2
      <3>4. k \in 1..n /\ bt_par(b, k) = y /\ r[y] < r[k] /\ y # 0 /\ k \in T
        BY <1>6, <1>7, <3>2, <3>3
      <3>5. Hangs(k, w)
        BY <3>1, <3>2, <3>4
      <3>6. Members(b, k) \in SUBSET Members(b, y)
        BY <1>4, <3>2
      <3>7. r[y] <= r[w]
        BY <1>5, <3>4, <3>5
      <3>8. bt_par(b, w) # 0 /\ bt_par(b, w) \in Members(b, y)
        BY <1>3, <3>4, <3>5, <3>6
      <3> QED BY <3>5, <3>6, <3>7, <3>8
    <2> QED BY <2>1, <2>2
  <1> HIDE DEF T
  <1>8. \A y \in 1..n : y \in T
    BY <1>1, <1>7, UpFromLeaves
  <1> QED BY <1>1, <1>8 DEF T

\* No knod is below both kids of another.
LEMMA SidesApart ==
  ASSUME NEW b, AreTrees(b), NEW x \in 1..Len(b)
  PROVE  /\ Members(b, bt_kid(b, x, 0)) \cap Members(b, bt_kid(b, x, 1)) = {}
         /\ x \notin Members(b, bt_kid(b, x, 0)) \cup Members(b, bt_kid(b, x, 1))
  <1>1. PICK n, k, m : n = Len(b) /\ k = bt_kid(b, x, 0) /\ m = bt_kid(b, x, 1)
    OBVIOUS
  <1>2. PICK r : Ranks(b, r)
    BY TreeLinks
  <1>3. /\ (k # 0 => k \in 1..n /\ bt_par(b, k) = x /\ r[x] < r[k] /\ k # m)
        /\ (m # 0 => m \in 1..n /\ bt_par(b, m) = x /\ r[x] < r[m])
    <2>1. k # 0 => k \in 1..n /\ bt_par(b, k) = x /\ r[x] < r[k]
      BY <1>1, <1>2, TreeLinks, RanksFall
    <2>2. m # 0 => m \in 1..n /\ bt_par(b, m) = x /\ r[x] < r[m]
      BY <1>1, <1>2, TreeLinks, RanksFall
    <2>3. k # 0 => k # m
      <3>1. k # 0 => bt_kid(b, x, 0) # bt_kid(b, x, 1 - 0)
        BY <1>1, TreeLinks
      <3>2. 1 - 0 = 1
        OBVIOUS
      <3> QED BY <1>1, <3>1, <3>2
    <2> QED BY <2>1, <2>2, <2>3
  <1>4. Members(b, 0) = {}
    BY MembersAre
  <1>5. \A y \in 1..n : r[y] \in Nat
    BY <1>1, <1>2, RanksFall
  <1>6. \A y \in Members(b, k) : k # 0 /\ y \in 1..n /\ r[k] <= r[y] /\ (y # k => bt_par(b, y) \in Members(b, k))
    BY <1>1, <1>2, <1>3, <1>4, MembersHang
  <1>7. \A y \in Members(b, m) : m # 0 /\ y \in 1..n /\ r[m] <= r[y] /\ (y # m => bt_par(b, y) \in Members(b, m) /\ bt_par(b, y) # 0)
    BY <1>1, <1>2, <1>3, <1>4, MembersHang
  <1>8. x \notin Members(b, k) \cup Members(b, m)
    <2> SUFFICES ASSUME x \in Members(b, k) \cup Members(b, m) PROVE FALSE
      OBVIOUS
    <2>1. r[x] \in Nat
      BY <1>1, <1>5
    <2>2. CASE x \in Members(b, k)
      <3>1. r[k] <= r[x] /\ r[x] < r[k] /\ r[k] \in Nat
        BY <1>3, <1>5, <1>6, <2>2
      <3> QED BY <2>1, <3>1
    <2>3. CASE x \in Members(b, m)
      <3>1. r[m] <= r[x] /\ r[x] < r[m] /\ r[m] \in Nat
        BY <1>3, <1>5, <1>7, <2>3
      <3> QED BY <2>1, <3>1
    <2> QED BY <2>2, <2>3
  <1> DEFINE S == {r[y] : y \in Members(b, k) \cap Members(b, m)}
  <1>9. S = {}
    <2> SUFFICES ASSUME S # {} PROVE FALSE
      OBVIOUS
    <2>1. S \subseteq Nat
      BY <1>5, <1>6
    <2>2. PICK i \in S : \A j \in S : i <= j
      BY <2>1, LeastIn
    <2>3. PICK y \in Members(b, k) \cap Members(b, m) : i = r[y]
      BY <2>2
    <2>4. y # k
      <3> SUFFICES ASSUME y = k PROVE FALSE
        OBVIOUS
      <3>1. k # 0 /\ k # m /\ bt_par(b, k) = x
        BY <1>3, <1>6, <2>3
      <3>2. x \in Members(b, m)
        BY <1>7, <2>3, <3>1
      <3> QED BY <1>8, <3>2
    <2>5. y # m
      <3> SUFFICES ASSUME y = m PROVE FALSE
        OBVIOUS
      <3>1. m # 0 /\ k # m /\ bt_par(b, m) = x
        BY <1>3, <1>6, <1>7, <2>3
      <3>2. x \in Members(b, k)
        BY <1>6, <2>3, <3>1
      <3> QED BY <1>8, <3>2
    <2>6. bt_par(b, y) \in Members(b, k) \cap Members(b, m) /\ bt_par(b, y) # 0 /\ y \in 1..n
      BY <1>6, <1>7, <2>3, <2>4, <2>5
    <2>7. r[bt_par(b, y)] \in S /\ r[bt_par(b, y)] < r[y]
      BY <1>1, <1>2, <2>6, RanksFall
    <2>8. r[bt_par(b, y)] \in Nat /\ r[y] \in Nat
      BY <1>5, <1>6, <2>3, <2>6
    <2> HIDE DEF S
    <2> QED BY <2>2, <2>3, <2>7, <2>8
  <1> QED BY <1>1, <1>8, <1>9

\* A walk comes by no knod twice.
LEMMA BelowOnce ==
  ASSUME NEW b, AreTrees(b), NEW x \in 1..Len(b)
  PROVE  IsInjective(Below("pre", b, x))
  <1>1. PICK n \in Nat : n = Len(b)
    BY TreeLinks
  <1>2. "pre" \in Orders
    BY DEF Orders
  <1> DEFINE T == {y \in 1..n : IsInjective(Below("pre", b, y))}
  <1>3. IsInjective(Below("pre", b, 0))
    BY <1>2, BelowIs, NoKnods
  <1>4. ASSUME NEW y \in 1..n, \A s \in 0..1 : bt_kid(b, y, s) # 0 => bt_kid(b, y, s) \in T
        PROVE  y \in T
    <2>1. PICK l, r : l = bt_kid(b, y, 0) /\ r = bt_kid(b, y, 1)
      OBVIOUS
    <2>2. IsInjective(Below("pre", b, l)) /\ IsInjective(Below("pre", b, r))
      BY <1>3, <1>4, <2>1
    <2>3. Surrounds(1..n, y, Below("pre", b, l), Below("pre", b, r), Below("pre", b, y))
      BY <1>1, <1>2, <2>1, BelowIs DEF BelowStep
    <2>4. /\ Members(b, l) \cap Members(b, r) = {}
          /\ y \notin Members(b, l) \cup Members(b, r)
      BY <1>1, <2>1, SidesApart
    <2> QED BY <2>2, <2>3, <2>4 DEF Surrounds, Members
  <1> HIDE DEF T
  <1>5. \A y \in 1..n : y \in T
    BY <1>1, <1>4, UpFromLeaves
  <1> QED BY <1>1, <1>5 DEF T

-----------------------------------------------------------------------------
(* What a rotation keeps *)

InOrder(b, x) == Below("in", b, x)

\* Inorder, a knod comes between what is below its kids.
LEMMA InOrderIs ==
  ASSUME NEW b, AreTrees(b)
  PROVE  /\ InOrder(b, 0) = <<>>
         /\ \A x \in 0..Len(b) : InOrder(b, x) \in Seq(1..Len(b))
         /\ \A x \in 1..Len(b) :
              InOrder(b, x) = InOrder(b, bt_kid(b, x, 0)) \o <<x>> \o InOrder(b, bt_kid(b, x, 1))
  <1>1. "in" \in Orders
    BY DEF Orders
  <1>2. Below("in", b, 0) = <<>> /\ \A x \in 0..Len(b) : Below("in", b, x) \in Seq(1..Len(b))
    BY <1>1, BelowIs
  <1>3. \A x, u, w : Around("in", x, u, w) = u \o <<x>> \o w
    BY DEF Around
  <1>4. GoesAround("in", b)
    BY WalksOfTrees
  <1> QED BY <1>2, <1>3, <1>4 DEF GoesAround, InOrder

\* The order of the knods on both sides of a turned link.
LEMMA TurnKeeps ==
  ASSUME NEW S, NEW u \in Seq(S), NEW v \in Seq(S), NEW w \in Seq(S), NEW x \in S, NEW y \in S
  PROVE  u \o <<x>> \o (v \o <<y>> \o w) = (u \o <<x>> \o v) \o <<y>> \o w
  <1>1. PICK e, f : e = <<x>> /\ f = <<y>>
    OBVIOUS
  <1>2. e \in Seq(S) /\ f \in Seq(S)
    BY <1>1
  <1>3. PICK a, c : a = u \o e /\ c = f \o w
    OBVIOUS
  <1>4. a \in Seq(S) /\ c \in Seq(S)
    BY <1>2, <1>3, ConcatProperties
  <1>5. (v \o f) \o w = v \o c
    BY <1>2, <1>3, ConcatAssociative
  <1>6. a \o (v \o c) = (a \o v) \o c
    BY <1>4, ConcatAssociative
  <1>7. PICK d : d = a \o v
    OBVIOUS
  <1>8. d \in Seq(S)
    BY <1>4, <1>7, ConcatProperties
  <1>9. (d \o f) \o w = d \o (f \o w)
    BY <1>2, <1>8, ConcatAssociative
  <1> QED BY <1>1, <1>3, <1>5, <1>6, <1>7, <1>9

\* The knods in order below each knod of a turned tree.
Turned(b, k, s, x) ==
  LET y == bt_kid(b, k, s)
      z == bt_kid(b, y, 1 - s)
      u == bt_kid(b, k, 1 - s)
  IN  IF x = y THEN InOrder(b, k)
      ELSE IF x = k /\ s = 0 THEN InOrder(b, z) \o <<k>> \o InOrder(b, u)
      ELSE IF x = k THEN InOrder(b, u) \o <<k>> \o InOrder(b, z)
      ELSE InOrder(b, x)

\* The kid comes in the place of the knod that was above it, and the rest
\* in its own, since concatenation is associative.
LEMMA OrderTurned ==
  ASSUME NEW b, AreTrees(b), NEW k \in 1..Len(b), NEW s \in 0..1, bt_kid(b, k, s) # 0,
         NEW c, Rotated(b, c, k, s)
  PROVE  \A x \in 1..Len(b) : InOrder(c, x) = Turned(b, k, s, x)
  <1>1. PICK n, y, z, p, u, v : /\ n = Len(b) /\ y = bt_kid(b, k, s) /\ z = bt_kid(b, y, 1 - s) /\ p = bt_par(b, k)
                                /\ u = bt_kid(b, k, 1 - s) /\ v = bt_kid(b, y, s)
    OBVIOUS
  <1>2. PICK r : Ranks(b, r)
    BY TreeLinks
  <1>3. /\ y \in 1..n /\ z \in 0..n /\ p \in 0..n
        /\ bt_par(b, y) = k /\ (z # 0 => z \in 1..n /\ bt_par(b, z) = y)
        /\ (p # 0 => p \in 1..n /\ r[p] < r[k]) /\ r[k] < r[y] /\ (z # 0 => r[y] < r[z])
        /\ k # y /\ k # z /\ y # z /\ p # k /\ p # y /\ (p # 0 => p # z)
    BY <1>1, <1>2, AboutRotation
  <1>4. /\ Len(c) = n
        /\ \A j \in 1..n, i \in 0..1 :
              bt_kid(c, j, i) = IF j = k /\ i = s THEN z
                                ELSE IF j = y /\ i = 1 - s THEN k
                                ELSE IF bt_kid(b, j, i) = k THEN y
                                ELSE bt_kid(b, j, i)
    BY <1>1 DEF Rotated
  <1>5. AreTrees(c)
    BY RotatedTrees
  <1>6. n \in Nat /\ k \in 1..n /\ k # 0 /\ y # 0 /\ 1 - s \in 0..1 /\ s # 1 - s
    <2>1. n \in Nat
      BY <1>1, TreeLinks
    <2> QED BY <1>1, <1>3, <2>1
  <1>7. /\ u \in 0..n /\ u # y /\ u # k /\ v \in 0..n /\ v # k /\ v # y
    <2>1. u \in 0..n /\ (u # 0 => bt_par(b, u) = k)
      BY <1>1, <1>6, TreeLinks
    <2>2. u # y
      BY <1>1, TreeLinks
    <2>3. v \in 0..n /\ (v # 0 => bt_par(b, v) = y)
      BY <1>1, <1>3, TreeLinks
    <2>4. u # k
      BY <1>1, <1>3, <1>6, <2>1
    <2>5. v # k
      BY <1>1, <1>3, <1>6, <2>3
    <2>6. v # y
      BY <1>3, <1>6, <2>3
    <2> QED BY <2>1, <2>2, <2>3, <2>4, <2>5, <2>6
  <1>8. /\ InOrder(b, 0) = <<>>
        /\ \A x \in 0..n : InOrder(b, x) \in Seq(1..n)
        /\ \A x \in 1..n : InOrder(b, x) = InOrder(b, bt_kid(b, x, 0)) \o <<x>> \o InOrder(b, bt_kid(b, x, 1))
    BY <1>1, InOrderIs
  <1>9. /\ InOrder(c, 0) = <<>>
        /\ \A x \in 1..n : InOrder(c, x) = InOrder(c, bt_kid(c, x, 0)) \o <<x>> \o InOrder(c, bt_kid(c, x, 1))
    BY <1>4, <1>5, InOrderIs
  <1>10. /\ Turned(b, k, s, y) = InOrder(b, k)
         /\ s = 0 => Turned(b, k, s, k) = InOrder(b, z) \o <<k>> \o InOrder(b, u)
         /\ s = 1 => Turned(b, k, s, k) = InOrder(b, u) \o <<k>> \o InOrder(b, z)
         /\ \A x : x # y /\ x # k => Turned(b, k, s, x) = InOrder(b, x)
    BY <1>1, <1>3 DEF Turned
  <1> DEFINE T == {x \in 1..n : InOrder(c, x) = Turned(b, k, s, x)}
  <1>11. ASSUME NEW x \in 1..n, \A i \in 0..1 : bt_kid(c, x, i) # 0 => bt_kid(c, x, i) \in T
         PROVE  x \in T
    <2>1. PICK l, h : l = bt_kid(c, x, 0) /\ h = bt_kid(c, x, 1)
      OBVIOUS
    <2>2. InOrder(c, x) = InOrder(c, l) \o <<x>> \o InOrder(c, h)
      BY <1>9, <2>1
    <2>3. InOrder(c, l) = Turned(b, k, s, l) /\ InOrder(c, h) = Turned(b, k, s, h)
      <3>1. 0 # y /\ 0 # k
        BY <1>6
      <3>2. Turned(b, k, s, 0) = InOrder(c, 0)
        BY <1>8, <1>9, <1>10, <3>1
      <3>3. (l # 0 => l \in T) /\ (h # 0 => h \in T)
        BY <1>11, <2>1
      <3> QED BY <3>2, <3>3
    <2>4. CASE x = k /\ s = 0
      <3>1. l = z /\ h = u
        BY <1>1, <1>3, <1>4, <1>6, <1>7, <2>1, <2>4
      <3> QED BY <1>3, <1>7, <1>10, <2>2, <2>3, <2>4, <3>1
    <2>5. CASE x = k /\ s = 1
      <3>1. h = z /\ l = u
        BY <1>1, <1>3, <1>4, <1>6, <1>7, <2>1, <2>5
      <3> QED BY <1>3, <1>7, <1>10, <2>2, <2>3, <2>5, <3>1
    <2>6. CASE x = y /\ s = 0
      <3>1. h = k /\ l = v
        BY <1>1, <1>3, <1>4, <1>6, <1>7, <2>1, <2>6
      <3>2. InOrder(c, x) = InOrder(b, v) \o <<y>> \o (InOrder(b, z) \o <<k>> \o InOrder(b, u))
        BY <1>3, <1>7, <1>10, <2>2, <2>3, <2>6, <3>1
      <3>0. bt_kid(b, k, 0) = y /\ bt_kid(b, k, 1) = u /\ bt_kid(b, y, 0) = v /\ bt_kid(b, y, 1) = z
        BY <1>1, <2>6
      <3>3. InOrder(b, k) = InOrder(b, y) \o <<k>> \o InOrder(b, u)
        BY <1>6, <1>8, <3>0
      <3>4. InOrder(b, y) = InOrder(b, v) \o <<y>> \o InOrder(b, z)
        BY <1>3, <1>8, <3>0
      <3>5. PICK o, q, m : o = InOrder(b, v) /\ q = InOrder(b, z) /\ m = InOrder(b, u)
        OBVIOUS
      <3>6. o \in Seq(1..n) /\ q \in Seq(1..n) /\ m \in Seq(1..n)
        BY <1>3, <1>7, <1>8, <3>5
      <3>7. o \o <<y>> \o (q \o <<k>> \o m) = (o \o <<y>> \o q) \o <<k>> \o m
        <4>1. k \in 1..n /\ y \in 1..n
          BY <1>3, <1>6
        <4> QED BY ONLY <3>6, <4>1, TurnKeeps
      <3> QED BY <1>10, <2>6, <3>2, <3>3, <3>4, <3>5, <3>7
    <2>7. CASE x = y /\ s = 1
      <3>1. l = k /\ h = v
        BY <1>1, <1>3, <1>4, <1>6, <1>7, <2>1, <2>7
      <3>2. InOrder(c, x) = (InOrder(b, u) \o <<k>> \o InOrder(b, z)) \o <<y>> \o InOrder(b, v)
        BY <1>3, <1>7, <1>10, <2>2, <2>3, <2>7, <3>1
      <3>0. bt_kid(b, k, 1) = y /\ bt_kid(b, k, 0) = u /\ bt_kid(b, y, 1) = v /\ bt_kid(b, y, 0) = z
        <4>1. 1 - s = 0
          BY <2>7
        <4> QED BY <1>1, <2>7, <4>1
      <3>3. InOrder(b, k) = InOrder(b, u) \o <<k>> \o InOrder(b, y)
        BY <1>6, <1>8, <3>0
      <3>4. InOrder(b, y) = InOrder(b, z) \o <<y>> \o InOrder(b, v)
        BY <1>3, <1>8, <3>0
      <3>5. PICK o, q, m : o = InOrder(b, v) /\ q = InOrder(b, z) /\ m = InOrder(b, u)
        OBVIOUS
      <3>6. o \in Seq(1..n) /\ q \in Seq(1..n) /\ m \in Seq(1..n)
        BY <1>3, <1>7, <1>8, <3>5
      <3>7. m \o <<k>> \o (q \o <<y>> \o o) = (m \o <<k>> \o q) \o <<y>> \o o
        <4>1. k \in 1..n /\ y \in 1..n
          BY <1>3, <1>6
        <4> QED BY ONLY <3>6, <4>1, TurnKeeps
      <3> QED BY <1>10, <2>7, <3>2, <3>3, <3>4, <3>5, <3>7
    <2>8. CASE x # k /\ x # y
      <3>1. ASSUME NEW i \in 0..1 PROVE Turned(b, k, s, bt_kid(c, x, i)) = InOrder(b, bt_kid(b, x, i))
        <4>1. PICK w, m : w = bt_kid(b, x, i) /\ m = bt_kid(c, x, i)
          OBVIOUS
        <4>2. m = IF w = k THEN y ELSE w
          BY <1>4, <2>8, <4>1
        <4>3. w # 0 => bt_par(b, w) = x
          BY <1>1, <4>1, TreeLinks
        <4>4. w # y
          BY <1>3, <1>6, <2>8, <4>3
        <4> QED BY <1>10, <4>1, <4>2, <4>4
      <3>2. /\ InOrder(c, l) = InOrder(b, bt_kid(b, x, 0))
            /\ InOrder(c, h) = InOrder(b, bt_kid(b, x, 1))
        BY <2>1, <2>3, <3>1
      <3>3. InOrder(b, x) = InOrder(b, bt_kid(b, x, 0)) \o <<x>> \o InOrder(b, bt_kid(b, x, 1))
        BY <1>8
      <3> QED BY <1>10, <2>2, <2>8, <3>2, <3>3
    <2>9. s = 0 \/ s = 1
      OBVIOUS
    <2> QED BY <2>4, <2>5, <2>6, <2>7, <2>8, <2>9
  <1> HIDE DEF T
  <1>12. \A x \in 1..n : x \in T
    BY <1>4, <1>5, <1>11, UpFromLeaves
  <1> QED BY <1>1, <1>12 DEF T

\* The knods above one, the last of which has no parent.
Root(b, x) == Last(Ancestors(b, x))

\* The way up from a knod starts there, and ends where there is no parent.
LEMMA AncestorsAre ==
  ASSUME NEW b, AreTrees(b), NEW r, Ranks(b, r)
  PROVE  \A x \in 1..Len(b) :
           /\ Ancestors(b, x) \in Seq(1..Len(b)) /\ Len(Ancestors(b, x)) > 0
           /\ ToSet(Ancestors(b, x)) = {x} \cup ToSet(Ancestors(b, bt_par(b, x)))
           /\ Root(b, x) = (IF bt_par(b, x) = 0 THEN x ELSE Root(b, bt_par(b, x)))
           /\ Root(b, x) \in 1..Len(b) /\ bt_par(b, Root(b, x)) = 0 /\ r[Root(b, x)] <= r[x]
  <1>1. PICK n \in Nat : n = Len(b)
    BY TreeLinks
  <1>2. /\ Ancestors(b, 0) = <<>>
        /\ \A x \in 1..n : Ancestors(b, x) = <<x>> \o Ancestors(b, bt_par(b, x)) \o <<>>
    BY <1>1, WalksOfTrees
  <1> DEFINE Good(x) ==
           /\ Ancestors(b, x) \in Seq(1..n) /\ Len(Ancestors(b, x)) > 0
           /\ ToSet(Ancestors(b, x)) = {x} \cup ToSet(Ancestors(b, bt_par(b, x)))
           /\ Root(b, x) = (IF bt_par(b, x) = 0 THEN x ELSE Root(b, bt_par(b, x)))
           /\ Root(b, x) \in 1..n /\ bt_par(b, Root(b, x)) = 0 /\ r[Root(b, x)] <= r[x]
         T == {x \in 1..n : Good(x)}
  <1>3. ASSUME NEW x \in 1..n, bt_par(b, x) # 0 => bt_par(b, x) \in T
        PROVE  x \in T
    <2>1. PICK p, e, w, a, v : p = bt_par(b, x) /\ e = <<x>> /\ w = Ancestors(b, p) /\ a = e \o w /\ v = a \o <<>>
      OBVIOUS
    <2>2. Ancestors(b, x) = v
      BY <1>2, <2>1
    <2>3. w \in Seq(1..n) /\ (p # 0 => Len(w) > 0 /\ Good(p)) /\ (p = 0 => w = <<>>)
      BY <1>2, <1>3, <2>1, NoKnods
    <2>4. e \in Seq(1..n) /\ Len(e) = 1 /\ ToSet(e) = {x} /\ e[1] = x
      BY <2>1, OneKnod
    <2>5. /\ a \in Seq(1..n) /\ Len(a) = 1 + Len(w) /\ Len(w) \in Nat
          /\ \A i \in 1..(1 + Len(w)) : a[i] = IF i <= 1 THEN e[i] ELSE w[i - 1]
      BY <2>1, <2>3, <2>4, ConcatProperties
    <2>6. v = a
      BY <2>1, <2>5
    <2>12. Ancestors(b, x) \in Seq(1..n) /\ Len(Ancestors(b, x)) > 0
      <3>1. Ancestors(b, x) = a
        BY <2>2, <2>6
      <3>2. Len(a) > 0
        BY <2>5
      <3> QED BY <2>5, <3>1, <3>2
    <2>7. ToSet(a) = {x} \cup ToSet(w)
      <3>1. Joins(1..n, e, w, a)
        BY <2>1, <2>3, <2>4, Joined
      <3> QED BY <2>4, <3>1 DEF Joins
    <2>8. Root(b, x) = a[1 + Len(w)]
      BY <2>2, <2>5, <2>6 DEF Root, Last
    <2>9. r[x] \in Nat /\ (p # 0 => p \in 1..n /\ r[p] < r[x] /\ r[p] \in Nat)
      BY <1>1, <2>1, TreeLinks, RanksFall
    <2>10. CASE p = 0
      <3>1. Root(b, x) = x
        <4>1. Len(w) = 0
          BY <2>3, <2>10
        <4>2. a[1] = e[1]
          BY <2>5, <4>1
        <4> QED BY <2>4, <2>8, <4>1, <4>2
      <3>2. ToSet(Ancestors(b, x)) = {x} \cup ToSet(Ancestors(b, p))
        BY <2>1, <2>2, <2>6, <2>7
      <3>3. r[Root(b, x)] <= r[x]
        BY <2>9, <3>1
      <3> QED BY <2>1, <2>10, <2>12, <3>1, <3>2, <3>3
    <2>11. CASE p # 0
      <3>1. Root(b, x) = Root(b, p)
        <4>1. Root(b, p) = w[Len(w)]
          BY <2>1 DEF Root, Last
        <4>2. 1 + Len(w) \in 1..(1 + Len(w)) /\ ~(1 + Len(w) <= 1) /\ 1 + Len(w) - 1 = Len(w)
          BY <2>3, <2>5, <2>11
        <4>3. a[1 + Len(w)] = w[1 + Len(w) - 1]
          BY <2>5, <4>2
        <4> QED BY <2>8, <4>1, <4>2, <4>3
      <3>2. Good(p)
        BY <2>3, <2>11
      <3>3. Root(b, p) \in 1..n /\ bt_par(b, Root(b, p)) = 0 /\ r[Root(b, p)] <= r[p]
        BY <3>2
      <3>4. r[Root(b, p)] \in Nat
        BY <1>1, <3>3, RanksFall
      <3>5. r[Root(b, p)] <= r[x]
        BY <2>9, <2>11, <3>3, <3>4
      <3>6. Len(Ancestors(b, x)) > 0 /\ Ancestors(b, x) \in Seq(1..n) /\ ToSet(Ancestors(b, x)) = {x} \cup ToSet(Ancestors(b, p))
        BY <2>1, <2>2, <2>6, <2>7, <2>12
      <3> HIDE DEF Good
      <3>7. Good(x)
        BY <2>1, <2>11, <3>1, <3>3, <3>5, <3>6 DEF Good
      <3> QED BY <3>7
    <2> QED BY <2>10, <2>11
  <1> HIDE DEF T
  <1>4. \A x \in 1..n : x \in T
    BY <1>1, <1>3, DownFromRoots
  <1> QED BY <1>1, <1>4 DEF T

\* A turned tree starts with the knods of the old one, in the same order.
LEMMA OrderKept ==
  ASSUME NEW b, AreTrees(b), NEW k \in 1..Len(b), NEW s \in 0..1, bt_kid(b, k, s) # 0,
         NEW c, Rotated(b, c, k, s)
  PROVE  InOrder(c, Root(c, k)) = InOrder(b, Root(b, k))
  <1>1. PICK n, y, z, p : n = Len(b) /\ y = bt_kid(b, k, s) /\ z = bt_kid(b, y, 1 - s) /\ p = bt_par(b, k)
    OBVIOUS
  <1>2. PICK r : Ranks(b, r)
    BY TreeLinks
  <1>3. /\ y \in 1..n /\ z \in 0..n /\ p \in 0..n
        /\ bt_par(b, y) = k /\ (z # 0 => z \in 1..n /\ bt_par(b, z) = y)
        /\ (p # 0 => p \in 1..n /\ r[p] < r[k]) /\ r[k] < r[y] /\ (z # 0 => r[y] < r[z])
        /\ k # y /\ k # z /\ y # z /\ p # k /\ p # y /\ (p # 0 => p # z)
    BY <1>1, <1>2, AboutRotation
  <1>4. /\ Len(c) = n
        /\ \A j \in 1..n : bt_par(c, j) = CASE j = y -> p [] j = k -> y [] j = z -> k [] OTHER -> bt_par(b, j)
    BY <1>1 DEF Rotated
  <1>5. AreTrees(c)
    BY RotatedTrees
  <1>6. PICK q : Ranks(c, q)
    BY <1>5, TreeLinks
  <1>7. \A x \in 1..n : /\ Root(b, x) = (IF bt_par(b, x) = 0 THEN x ELSE Root(b, bt_par(b, x)))
                        /\ Root(b, x) \in 1..n /\ r[Root(b, x)] <= r[x]
    BY <1>1, <1>2, AncestorsAre
  <1>8. \A x \in 1..n : Root(c, x) = (IF bt_par(c, x) = 0 THEN x ELSE Root(c, bt_par(c, x)))
    BY <1>4, <1>5, <1>6, AncestorsAre
  <1>9. \A x \in 1..n : InOrder(c, x) = Turned(b, k, s, x)
    BY <1>1, OrderTurned
  <1>10. n \in Nat /\ k \in 1..n /\ y # 0 /\ k # 0
    <2>1. n \in Nat
      BY <1>1, TreeLinks
    <2> QED BY <1>1, <1>3, <2>1
  <1>11. \A x \in 1..n : r[x] \in Nat /\ (bt_par(b, x) # 0 => r[bt_par(b, x)] < r[x] /\ bt_par(b, x) \in 1..n)
    BY <1>1, <1>2, RanksFall, TreeLinks
  <1> DEFINE T == {x \in 1..n : r[x] < r[k] => Root(c, x) = Root(b, x)}
  <1>12. ASSUME NEW x \in 1..n, bt_par(b, x) # 0 => bt_par(b, x) \in T
         PROVE  x \in T
    <2> SUFFICES ASSUME r[x] < r[k] PROVE Root(c, x) = Root(b, x)
      OBVIOUS
    <2>1. x # k /\ x # y /\ x # z
      BY <1>3, <1>10, <1>11
    <2>2. PICK m : m = bt_par(b, x) /\ m = bt_par(c, x)
      BY <1>4, <2>1
    <2>3. m # 0 => r[m] < r[k]
      <3>1. m # 0 => m \in 1..n /\ r[m] < r[x] /\ r[m] \in Nat
        BY <1>11, <2>2
      <3>2. r[x] \in Nat /\ r[k] \in Nat /\ r[x] < r[k]
        BY <1>10, <1>11
      <3> QED BY <3>1, <3>2
    <2>4. m # 0 => Root(c, m) = Root(b, m)
      BY <1>12, <2>2, <2>3
    <2> QED BY <1>7, <1>8, <2>2, <2>4
  <1> HIDE DEF T
  <1>13. \A x \in 1..n : x \in T
    BY <1>1, <1>12, DownFromRoots
  <1>14. Root(c, k) = Root(c, y) /\ bt_par(c, y) = p
    <2>1. bt_par(c, k) = y /\ bt_par(c, y) = p
      BY <1>3, <1>4, <1>10
    <2> QED BY <1>8, <1>10, <2>1
  <1>15. CASE p = 0
    <2>1. Root(c, k) = y /\ Root(b, k) = k
      BY <1>1, <1>3, <1>7, <1>8, <1>10, <1>14, <1>15
    <2>2. Turned(b, k, s, y) = InOrder(b, k)
      BY <1>1 DEF Turned
    <2> QED BY <1>3, <1>9, <2>1, <2>2
  <1>16. CASE p # 0
    <2>1. Root(c, k) = Root(c, p) /\ Root(b, k) = Root(b, p)
      BY <1>1, <1>3, <1>7, <1>8, <1>10, <1>14, <1>16
    <2>2. Root(c, p) = Root(b, p)
      BY <1>3, <1>13, <1>16 DEF T
    <2>3. PICK o : o = Root(b, p)
      OBVIOUS
    <2>4. o \in 1..n /\ r[o] <= r[p] /\ p \in 1..n
      BY <1>3, <1>7, <1>16, <2>3
    <2>5. o # k /\ o # y
      BY <1>3, <1>10, <1>11, <1>16, <2>4
    <2>6. Turned(b, k, s, o) = InOrder(b, o)
      BY <1>1, <2>5 DEF Turned
    <2> QED BY <1>9, <2>1, <2>2, <2>3, <2>4, <2>6
  <1> QED BY <1>15, <1>16
-----------------------------------------------------------------------------
(* What the client's calls keep *)

\* The knods above one are closed under parents.
LEMMA AncestorsClosed ==
  ASSUME NEW b, AreTrees(b), NEW x \in 1..Len(b)
  PROVE  /\ ToSet(Ancestors(b, x)) \in SUBSET (1..Len(b)) /\ x \in ToSet(Ancestors(b, x))
         /\ \A w \in ToSet(Ancestors(b, x)) : bt_par(b, w) # 0 => bt_par(b, w) \in ToSet(Ancestors(b, x))
  <1>1. PICK n \in Nat : n = Len(b)
    BY TreeLinks
  <1>2. PICK r : Ranks(b, r)
    BY TreeLinks
  <1> DEFINE Above(y) == ToSet(Ancestors(b, y))
             Shut(y) == Above(y) \in SUBSET (1..n) /\ \A w \in Above(y) : bt_par(b, w) # 0 => bt_par(b, w) \in Above(y)
             T == {y \in 1..n : Shut(y)}
  <1>3. \A y \in 1..n : Above(y) = {y} \cup Above(bt_par(b, y))
    BY <1>1, <1>2, AncestorsAre
  <1>4. Above(0) = {}
    <2>1. Ancestors(b, 0) = <<>>
      BY WalksOfTrees
    <2> QED BY <2>1, NoKnods
  <1> HIDE DEF Above
  <1>5. ASSUME NEW y \in 1..n, bt_par(b, y) # 0 => bt_par(b, y) \in T PROVE y \in T
    <2>1. PICK p : p = bt_par(b, y)
      OBVIOUS
    <2>2. p # 0 => p \in 1..n /\ Shut(p) /\ p \in Above(p)
      BY <1>3, <1>5, <2>1
    <2>3. Above(y) = {y} \cup Above(p)
      BY <1>3, <2>1
    <2> QED BY <1>4, <2>1, <2>2, <2>3
  <1> HIDE DEF T
  <1>6. \A y \in 1..n : y \in T
    BY <1>1, <1>5, DownFromRoots
  <1>7. Shut(x) /\ x \in Above(x)
    BY <1>1, <1>3, <1>6 DEF T
  <1> QED BY <1>1, <1>7 DEF Above

\* A cleared knod is one that no link leads from.
Cleared(b, j) == bt_par(b, j) = 0 /\ \A s \in 0..1 : bt_kid(b, j, s) = 0

\* And the other way about: without links its record is a new one.
LEMMA ClearedIs ==
  ASSUME NEW b, IsKnods(b), NEW j \in 1..Len(b)
  PROVE  b[j] = new_knod <=> Cleared(b, j)
  <1>1. b[j] \in KnodRec
    BY KnodShapes
  <1>2. new_knod.par = 0 /\ new_knod.kids = [s \in 0..1 |-> 0] /\ new_knod = [par |-> 0, kids |-> [s \in 0..1 |-> 0]]
    BY DEF new_knod, Unlinked
  <1>3. ASSUME b[j] = new_knod PROVE Cleared(b, j)
    BY <1>2, <1>3 DEF Cleared, bt_par, bt_kid
  <1>4. ASSUME Cleared(b, j) PROVE b[j] = new_knod
    <2>1. PICK e : e = b[j]
      OBVIOUS
    <2>2. e.par = 0 /\ \A s \in 0..1 : e.kids[s] = 0
      BY <1>4, <2>1 DEF Cleared, bt_par, bt_kid
    <2>3. e.kids \in [0..1 -> Nat] /\ e = [par |-> e.par, kids |-> e.kids]
      BY <1>1, <2>1 DEF KnodRec
    <2>4. e.kids = [s \in 0..1 |-> 0]
      BY <2>2, <2>3
    <2> QED BY <1>2, <2>1, <2>2, <2>3, <2>4
  <1> QED BY <1>3, <1>4

\* What a step makes of the trees b, and of the knods dead that are cleared.
Sound(b, dead) == AreTrees(b) /\ dead \in SUBSET (1..Len(b)) /\ \A j \in dead : Cleared(b, j)

\* The invariant in terms of links.
LEMMA SoundIs ==
  BitreeInv <=> Sound(bt, gone)
  <1>1. ASSUME AreTrees(bt) PROVE DOMAIN bt = 1..Len(bt) /\ IsKnods(bt)
    BY <1>1, TreeLinks
  <1>2. ASSUME AreTrees(bt), gone \in SUBSET (1..Len(bt))
        PROVE  \A j \in gone : bt[j] = new_knod <=> Cleared(bt, j)
    BY <1>1, <1>2, ClearedIs
  <1> QED BY <1>1, <1>2 DEF BitreeInv, Sound

\* No knods are sound.
LEMMA NoTrees == Sound(<<>>, {})
  <1>1. IsKnods(<<>>) /\ DOMAIN <<>> = {}
    BY DEF IsKnods
  <1>2. Ranks(<<>>, [k \in {} |-> 0])
    BY <1>1 DEF Ranks
  <1> QED BY <1>1, <1>2 DEF Sound, AreTrees, KidsKnow, ParentsKnow

Made(b, c) ==
  /\ Len(c) = Len(b) + 1 /\ Cleared(c, Len(b) + 1)
  /\ \A j \in 1..Len(b) : bt_par(c, j) = bt_par(b, j) /\ \A s \in 0..1 : bt_kid(c, j, s) = bt_kid(b, j, s)

\* A knod more, which may as well be one for nobody.
LEMMA SoundMade ==
  ASSUME NEW b, NEW dead, Sound(b, dead), NEW c, c = Append(b, new_knod)
  PROVE  Sound(c, dead) /\ Sound(c, dead \cup {Len(b) + 1}) /\ Made(b, c)
  <1>1. PICK n \in Nat : n = Len(b)
    BY TreeLinks DEF Sound
  <1>2. /\ AreTrees(c) /\ Len(c) = n + 1 /\ IsKnods(c)
        /\ \A k \in 1..n : c[k] = b[k]
        /\ c[n + 1] = new_knod
    BY <1>1, KnodMade DEF Sound, AreTrees
  <1>3. \A j \in 1..n : bt_par(c, j) = bt_par(b, j) /\ \A s \in 0..1 : bt_kid(c, j, s) = bt_kid(b, j, s)
    BY <1>2 DEF bt_par, bt_kid
  <1>4. Cleared(c, n + 1)
    <2>1. n + 1 \in 1..Len(c)
      BY <1>2
    <2> QED BY <1>2, <2>1, ClearedIs
  <1>5. dead \in SUBSET (1..n) /\ \A j \in dead : Cleared(b, j)
    BY <1>1 DEF Sound
  <1>6. \A j \in dead : Cleared(c, j)
    BY <1>3, <1>5 DEF Cleared
  <1>7. dead \in SUBSET (1..(n + 1)) /\ n + 1 \in 1..(n + 1)
    BY <1>5
  <1>8. dead \cup {n + 1} \in SUBSET (1..(n + 1)) /\ \A j \in dead \cup {n + 1} : Cleared(c, j)
    BY <1>4, <1>6, <1>7
  <1> HIDE DEF Cleared
  <1> QED BY <1>1, <1>2, <1>3, <1>4, <1>6, <1>7, <1>8 DEF Sound, Made

\* A knod without links is hung on a free side of another.
LEMMA LeafHung ==
  ASSUME NEW b, NEW dead, Sound(b, dead), NEW p \in 1..Len(b), NEW s \in 0..1, NEW k \in 1..Len(b),
         p # k, p \notin dead, k \notin dead, bt_kid(b, p, s) = 0, Cleared(b, k),
         NEW c, c = attach_at(b, p, s, k)
  PROVE  Sound(c, dead) /\ HungOn(b, c, p, s, k)
  <1>1. PICK n \in Nat : n = Len(b)
    BY TreeLinks DEF Sound
  <1>2. AreTrees(b) /\ IsKnods(b) /\ dead \in SUBSET (1..n) /\ \A j \in dead : Cleared(b, j)
    BY <1>1, TreeLinks DEF Sound
  <1>3. /\ IsKnods(c) /\ Len(c) = n
        /\ \A j \in 1..n :
              /\ bt_par(c, j) = IF j = k THEN p ELSE bt_par(b, j)
              /\ \A i \in 0..1 : bt_kid(c, j, i) = IF j = p /\ i = s THEN k ELSE bt_kid(b, j, i)
    <2>1. k \in 0..Len(b)
      BY <1>1
    <2> QED BY <1>1, <1>2, <2>1, KidAttached
  <1>4. PICK A : A = (1..n) \ {k}
    OBVIOUS
  <1>5. A \in SUBSET (1..Len(b)) /\ p \in A /\ k \notin A /\ bt_par(b, k) = 0
    BY <1>1, <1>4 DEF Cleared
  <1>6. \A x \in A : bt_par(b, x) # 0 => bt_par(b, x) \in A
    <2> SUFFICES ASSUME NEW x \in A, bt_par(b, x) # 0 PROVE bt_par(b, x) \in A
      OBVIOUS
    <2>1. PICK q : q = bt_par(b, x)
      OBVIOUS
    <2>2. x \in 1..n /\ x # 0
      BY <1>4
    <2>3. q \in 1..n /\ \E i \in 0..1 : bt_kid(b, q, i) = x
      BY <1>1, <1>2, <2>1, <2>2, TreeLinks
    <2>4. q # k
      BY <2>2, <2>3 DEF Cleared
    <2> QED BY <1>4, <2>1, <2>3, <2>4
  <1>7. HungOn(b, c, p, s, k)
    BY <1>1, <1>3 DEF HungOn
  <1>8. AreTrees(c)
    BY <1>2, <1>5, <1>6, <1>7, HungTrees
  <1>9. \A j \in dead : Cleared(c, j)
    BY <1>2, <1>3 DEF Cleared
  <1> QED BY <1>1, <1>2, <1>3, <1>7, <1>8, <1>9 DEF Sound

\* A kid let go.
LEMMA SoundDropped ==
  ASSUME NEW b, NEW dead, Sound(b, dead), NEW p \in 1..Len(b), NEW s \in 0..1,
         NEW c, c = bt_set_par(bt_set_kid(b, p, s, 0), bt_kid(b, p, s), 0)
  PROVE  Sound(c, dead) /\ Dropped(b, c, p, s)
  <1>1. PICK n \in Nat : n = Len(b)
    BY TreeLinks DEF Sound
  <1>2. AreTrees(b) /\ IsKnods(b) /\ dead \in SUBSET (1..n) /\ \A j \in dead : Cleared(b, j)
    BY <1>1, TreeLinks DEF Sound
  <1>3. PICK old : old = bt_kid(b, p, s)
    OBVIOUS
  <1>4. old \in 0..n /\ 0 \in 0..n
    BY <1>1, <1>2, <1>3, TreeLinks
  <1>5. PICK d : d = bt_set_kid(b, p, s, 0)
    OBVIOUS
  <1>6. /\ IsKnods(d) /\ Len(d) = n
        /\ \A j \in 1..n :
              /\ bt_par(d, j) = bt_par(b, j)
              /\ \A i \in 0..1 : bt_kid(d, j, i) = IF j = p /\ i = s THEN 0 ELSE bt_kid(b, j, i)
    BY <1>1, <1>2, <1>4, <1>5, KidSet
  <1>7. /\ IsKnods(c) /\ Len(c) = n
        /\ \A j \in 1..n :
              /\ bt_par(c, j) = IF j = old THEN 0 ELSE bt_par(d, j)
              /\ \A i \in 0..1 : bt_kid(c, j, i) = bt_kid(d, j, i)
    BY <1>3, <1>4, <1>5, <1>6, ParSet
  <1>8. Dropped(b, c, p, s)
    BY <1>1, <1>3, <1>6, <1>7 DEF Dropped
  <1>9. AreTrees(c)
    BY <1>2, <1>8, DroppedTrees
  <1>10. \A j \in dead : Cleared(c, j)
    BY <1>2, <1>6, <1>7 DEF Cleared
  <1> QED BY <1>1, <1>2, <1>7, <1>8, <1>9, <1>10 DEF Sound

\* A root that is placed over another kid, when it is not above its parent.
LEMMA SoundPlaced ==
  ASSUME NEW b, NEW dead, Sound(b, dead), NEW p \in (1..Len(b)) \ dead, NEW s \in 0..1, NEW k \in (1..Len(b)) \ dead,
         bt_par(b, k) = 0, k \notin ToSet(Ancestors(b, p)),
         NEW c, c = attach_at(bt_set_par(b, bt_kid(b, p, s), 0), p, s, k)
  PROVE  Sound(c, dead)
  <1>1. PICK n \in Nat : n = Len(b)
    BY TreeLinks DEF Sound
  <1>2. AreTrees(b) /\ IsKnods(b) /\ dead \in SUBSET (1..n) /\ \A j \in dead : Cleared(b, j)
    BY <1>1, TreeLinks DEF Sound
  <1>3. PICK old, d, A : /\ old = bt_kid(b, p, s) /\ A = ToSet(Ancestors(b, p))
                         /\ d = bt_set_par(bt_set_kid(b, p, s, 0), bt_kid(b, p, s), 0)
    OBVIOUS
  <1>4. Dropped(b, d, p, s) /\ AreTrees(d)
    <2>1. Sound(d, dead) /\ Dropped(b, d, p, s)
      BY <1>3, SoundDropped
    <2> QED BY <2>1 DEF Sound
  <1>5. /\ IsKnods(d) /\ Len(d) = n
        /\ \A j \in 1..n :
             /\ bt_par(d, j) = IF j = old THEN 0 ELSE bt_par(b, j)
             /\ \A i \in 0..1 : bt_kid(d, j, i) = IF j = p /\ i = s THEN 0 ELSE bt_kid(b, j, i)
    BY <1>1, <1>3, <1>4 DEF Dropped
  <1>6. PICK e : e = bt_set_par(b, old, 0)
    OBVIOUS
  <1>7. old \in 0..n /\ 0 \in 0..n /\ k \in 0..n /\ k \in 1..n /\ p \in 1..n
    BY <1>1, <1>2, <1>3, TreeLinks
  <1>8. /\ IsKnods(e) /\ Len(e) = n
        /\ \A j \in 1..n :
              /\ bt_par(e, j) = IF j = old THEN 0 ELSE bt_par(b, j)
              /\ \A i \in 0..1 : bt_kid(e, j, i) = bt_kid(b, j, i)
    BY <1>1, <1>2, <1>6, <1>7, ParSet
  <1>9. c = attach_at(e, p, s, k)
    BY <1>3, <1>6
  <1>10. /\ IsKnods(c) /\ Len(c) = n
         /\ \A j \in 1..n :
              /\ bt_par(c, j) = IF j = k THEN p ELSE bt_par(e, j)
              /\ \A i \in 0..1 : bt_kid(c, j, i) = IF j = p /\ i = s THEN k ELSE bt_kid(e, j, i)
    BY <1>7, <1>8, <1>9, KidAttached
  <1>11. HungOn(d, c, p, s, k)
    BY <1>5, <1>8, <1>10 DEF HungOn
  <1>12. A \in SUBSET (1..n) /\ p \in A /\ \A w \in A : bt_par(b, w) # 0 => bt_par(b, w) \in A
    BY <1>1, <1>2, <1>3, AncestorsClosed
  <1>13. \A w \in A : bt_par(d, w) # 0 => bt_par(d, w) \in A
    BY <1>5, <1>12
  <1>14. bt_kid(d, p, s) = 0 /\ bt_par(d, k) = 0 /\ k \notin A
    BY <1>3, <1>5, <1>7
  <1>15. AreTrees(c)
    BY <1>4, <1>5, <1>7, <1>11, <1>12, <1>13, <1>14, HungTrees
  <1>16. \A j \in dead : Cleared(c, j)
    <2> TAKE j \in dead
    <2>1. j \in 1..n /\ j # k /\ j # p /\ bt_par(b, j) = 0 /\ \A i \in 0..1 : bt_kid(b, j, i) = 0
      BY <1>2 DEF Cleared
    <2> QED BY <1>8, <1>10, <2>1 DEF Cleared
  <1> QED BY <1>2, <1>10, <1>15, <1>16 DEF Sound

\* A rotation.
LEMMA SoundRotated ==
  ASSUME NEW b, NEW dead, Sound(b, dead), NEW k \in 1..Len(b), NEW s \in 0..1, bt_kid(b, k, s) # 0,
         NEW c, c = btrot(b, k, s)
  PROVE  Sound(c, dead) /\ Rotated(b, c, k, s)
  <1>1. PICK n, y, z, p : n = Len(b) /\ y = bt_kid(b, k, s) /\ z = bt_kid(b, y, 1 - s) /\ p = bt_par(b, k)
    OBVIOUS
  <1>2. AreTrees(b) /\ dead \in SUBSET (1..n) /\ \A j \in dead : Cleared(b, j)
    BY <1>1 DEF Sound
  <1>3. PICK r : Ranks(b, r)
    BY <1>2, TreeLinks
  <1>4. /\ y \in 1..n /\ bt_par(b, y) = k /\ (z # 0 => z \in 1..n /\ bt_par(b, z) = y)
    BY <1>1, <1>2, <1>3, AboutRotation
  <1>5. Rotated(b, c, k, s) /\ AreTrees(c)
    BY <1>2, RotationIs, RotatedTrees
  <1>6. /\ IsKnods(c) /\ Len(c) = n
        /\ \A j \in 1..n : bt_par(c, j) = CASE j = y -> p [] j = k -> y [] j = z -> k [] OTHER -> bt_par(b, j)
        /\ \A j \in 1..n, i \in 0..1 :
              bt_kid(c, j, i) = IF j = k /\ i = s THEN z
                                ELSE IF j = y /\ i = 1 - s THEN k
                                ELSE IF bt_kid(b, j, i) = k THEN y
                                ELSE bt_kid(b, j, i)
    BY <1>1, <1>5 DEF Rotated
  <1>7. k # 0 /\ y # 0 /\ k \in 1..n
    <2>1. n \in Nat
      BY <1>1, <1>2, TreeLinks
    <2> QED BY <1>1, <2>1
  <1>8. \A j \in dead : Cleared(c, j)
    <2> TAKE j \in dead
    <2>1. j \in 1..n /\ bt_par(b, j) = 0 /\ \A i \in 0..1 : bt_kid(b, j, i) = 0
      BY <1>2 DEF Cleared
    <2>2. j # k
      BY <1>1, <1>7, <2>1
    <2>3. j # y /\ j # z
      <3>1. j # 0
        BY <1>1, <1>2, <2>1, TreeLinks
      <3> QED BY <1>4, <1>7, <2>1, <3>1
    <2>4. bt_par(c, j) = 0
      BY <1>6, <2>1, <2>2, <2>3
    <2>5. \A i \in 0..1 : bt_kid(c, j, i) = 0
      BY <1>6, <1>7, <2>1, <2>2, <2>3
    <2> QED BY <2>4, <2>5 DEF Cleared
  <1> QED BY <1>2, <1>5, <1>6, <1>8 DEF Sound
\* A tree is cleared, and its parent lets go: what is not below it hangs on
\* knods that are not below it either.
LEMMA SoundRemoved ==
  ASSUME NEW b, NEW dead, Sound(b, dead), NEW k \in (1..Len(b)) \ dead,
         NEW x, x = IF bt_par(b, k) = 0 THEN b ELSE bt_set_kid(b, bt_par(b, k), child_side(b, bt_par(b, k), k), 0),
         NEW tree, tree = ToSet(walk_post(b, k)),
         NEW c, c = [j \in DOMAIN x |-> IF j \in tree THEN new_knod ELSE x[j]]
  PROVE  Sound(c, dead \cup tree)
  <1>0. PICK n \in Nat : n = Len(b)
    BY TreeLinks DEF Sound
  <1>1. PICK p, side : n = Len(b) /\ p = bt_par(b, k) /\ side = child_side(b, p, k)
    BY <1>0
  <1>2. /\ AreTrees(b) /\ IsKnods(b) /\ dead \in SUBSET (1..n) /\ \A j \in dead : Cleared(b, j)
        /\ k \in 1..n /\ k # 0 /\ p \in 0..n /\ (p # 0 => p \in 1..n) /\ 0 \in 0..n
    BY <1>1, TreeLinks DEF Sound
  <1>3. PICK r : Ranks(b, r)
    BY <1>2, TreeLinks
  <1>4. tree = Members(b, k)
    <2>1. "post" \in Orders /\ k \in 0..Len(b)
      BY <1>1, <1>2 DEF Orders
    <2>2. ToSet(Below("post", b, k)) = ToSet(Below("pre", b, k))
      BY <1>2, <2>1, OrdersAgree
    <2> QED BY <2>2 DEF Members, Below, walk_post
  <1>5. \A z \in tree : /\ z \in 1..n
                        /\ z # k => bt_par(b, z) # 0 /\ bt_par(b, z) \in tree
                        /\ \A s \in 0..1 : bt_kid(b, z, s) # 0 => bt_kid(b, z, s) \in tree
    BY <1>1, <1>2, <1>3, <1>4, MembersHang
  <1>6. k \in tree
    BY <1>1, <1>2, <1>4, MembersAre
  <1>7. \A j \in 1..n, i \in 0..1 : bt_kid(b, j, i) = k => p # 0 /\ j = p /\ i = side
    <2>1. CASE p = 0
      <3> SUFFICES ASSUME NEW j \in 1..n, NEW i \in 0..1, bt_kid(b, j, i) = k PROVE FALSE
        OBVIOUS
      <3>1. bt_kid(b, j, i) # 0 /\ j # 0
        BY <1>2
      <3>2. bt_par(b, bt_kid(b, j, i)) = j
        BY <1>1, <1>2, <3>1, TreeLinks
      <3> QED BY <1>1, <2>1, <3>1, <3>2
    <2>2. CASE p # 0
      BY <1>1, <1>2, <2>2, SideIs
    <2> QED BY <2>1, <2>2
  <1>8. /\ IsKnods(x) /\ Len(x) = n
        /\ \A j \in 1..n :
             /\ bt_par(x, j) = bt_par(b, j)
             /\ \A i \in 0..1 : bt_kid(x, j, i) = IF p # 0 /\ j = p /\ i = side THEN 0 ELSE bt_kid(b, j, i)
    <2>1. CASE p = 0
      BY <1>1, <1>2, <2>1
    <2>2. CASE p # 0
      <3>1. side \in 0..1
        BY <1>1, <1>2, <2>2, SideIs
      <3>2. x = bt_set_kid(b, p, side, 0)
        BY <1>1, <2>2
      <3>3. p \in 1..Len(b) /\ 0 \in 0..Len(b)
        BY <1>1, <1>2, <2>2
      <3> QED BY <1>1, <1>2, <2>2, <3>1, <3>2, <3>3, KidSet
    <2> QED BY <2>1, <2>2
  <1>9. DOMAIN x = 1..n /\ \A j \in 1..n : x[j] \in KnodRec
    BY <1>8, KnodShapes
  <1>10. new_knod \in KnodRec /\ new_knod.par = 0 /\ \A s \in 0..1 : new_knod.kids[s] = 0
    BY DEF new_knod, Unlinked, KnodRec
  <1>11. c \in Seq(KnodRec) /\ Len(c) = n /\ DOMAIN c = 1..n
         /\ \A j \in 1..n : c[j] = IF j \in tree THEN new_knod ELSE x[j]
    <2>1. c \in [1..n -> KnodRec]
      BY <1>9, <1>10
    <2>2. c \in Seq(KnodRec)
      BY <2>1
    <2> QED BY <1>9, <2>1, <2>2
  <1>12. \A j \in 1..n :
             /\ bt_par(c, j) = IF j \in tree THEN 0 ELSE bt_par(b, j)
             /\ \A i \in 0..1 : bt_kid(c, j, i) =
                  IF j \in tree \/ (p # 0 /\ j = p /\ i = side) THEN 0 ELSE bt_kid(b, j, i)
    BY <1>8, <1>10, <1>11 DEF bt_par, bt_kid
  <1>13. \A j \in 1..n : bt_par(b, j) \in 0..n /\ \A i \in 0..1 : bt_kid(b, j, i) \in 0..n
    BY <1>1, <1>2, TreeLinks
  <1>14. IsKnods(c)
    <2>1. \A j \in 1..n : bt_par(c, j) \in 0..n /\ \A i \in 0..1 : bt_kid(c, j, i) \in 0..n
      BY <1>2, <1>12, <1>13
    <2> QED BY <1>11, <2>1 DEF IsKnods
  <1>15. ASSUME NEW j \in 1..n, NEW i \in 0..1, bt_kid(c, j, i) # 0
         PROVE  bt_par(c, bt_kid(c, j, i)) = j /\ bt_kid(c, j, i) # bt_kid(c, j, 1 - i)
    <2>1. PICK w : w = bt_kid(b, j, i)
      OBVIOUS
    <2>2. j \notin tree /\ ~(p # 0 /\ j = p /\ i = side) /\ bt_kid(c, j, i) = w
      BY <1>12, <1>15, <2>1
    <2>3. w \in 1..n /\ bt_par(b, w) = j /\ w # bt_kid(b, j, 1 - i)
      BY <1>1, <1>2, <1>15, <2>1, <2>2, TreeLinks
    <2>4. w # k
      BY <1>7, <2>1, <2>2
    <2>5. w \notin tree
      BY <1>5, <2>2, <2>3, <2>4
    <2>6. bt_par(c, w) = j
      BY <1>12, <2>3, <2>5
    <2>7. 1 - i \in 0..1
      OBVIOUS
    <2>8. bt_kid(c, j, 1 - i) \in {0, bt_kid(b, j, 1 - i)}
      BY <1>12, <2>7
    <2> QED BY <1>15, <2>2, <2>3, <2>6, <2>8
  <1>16. ASSUME NEW j \in 1..n, bt_par(c, j) # 0
         PROVE  /\ \E i \in 0..1 : bt_kid(c, bt_par(c, j), i) = j
                /\ bt_par(c, j) = bt_par(b, j)
    <2>1. PICK q : q = bt_par(b, j)
      OBVIOUS
    <2>2. j \notin tree /\ bt_par(c, j) = q /\ q # 0
      BY <1>12, <1>16, <2>1
    <2>3. q \in 1..n
      BY <1>1, <1>2, <2>1, <2>2, TreeLinks
    <2>4. PICK i \in 0..1 : bt_kid(b, q, i) = j
      BY <1>1, <1>2, <2>1, <2>2, TreeLinks
    <2>5. j # 0
      BY <1>1
    <2>6. q \notin tree
      BY <1>5, <2>2, <2>4, <2>5
    <2>7. ~(p # 0 /\ q = p /\ i = side)
      <3> SUFFICES ASSUME p # 0, q = p, i = side PROVE FALSE
        OBVIOUS
      <3>1. bt_kid(b, p, side) = k
        BY <1>1, <1>2, SideIs
      <3> QED BY <1>6, <2>2, <2>4, <3>1
    <2>8. bt_kid(c, q, i) = j
      BY <1>12, <2>3, <2>4, <2>6, <2>7
    <2> QED BY <2>1, <2>2, <2>8
  <1>17. r \in [1..n -> Nat] /\ \A j \in 1..n : bt_par(c, j) # 0 => r[bt_par(c, j)] < r[j]
    BY <1>1, <1>2, <1>3, <1>16, RanksFall
  <1>18. AreTrees(c)
    BY <1>11, <1>14, <1>15, <1>16, <1>17, LinksMakeTrees
  <1>19. \A j \in dead \cup tree : j \in 1..n /\ Cleared(c, j)
    <2> TAKE j \in dead \cup tree
    <2>1. CASE j \in tree
      BY <1>5, <1>12, <2>1 DEF Cleared
    <2>2. CASE j \in dead
      BY <1>2, <1>12, <2>2 DEF Cleared
    <2> QED BY <2>1, <2>2
  <1> QED BY <1>11, <1>18, <1>19 DEF Sound

\* One new kid on a free side.
LEMMA SoundKid ==
  ASSUME NEW b, NEW dead, Sound(b, dead), NEW k \in (1..Len(b)) \ dead, NEW s \in 0..1, bt_kid(b, k, s) = 0,
         NEW c, c = attach_at(Append(b, new_knod), k, s, Len(b) + 1)
  PROVE  Sound(c, dead)
  <1>0. PICK n \in Nat : n = Len(b)
    BY TreeLinks DEF Sound
  <1>1. PICK d : n = Len(b) /\ d = Append(b, new_knod)
    BY <1>0
  <1>2. /\ Sound(d, dead) /\ Len(d) = n + 1 /\ Cleared(d, n + 1)
        /\ \A j \in 1..n : bt_par(d, j) = bt_par(b, j) /\ \A i \in 0..1 : bt_kid(d, j, i) = bt_kid(b, j, i)
    <2>1. Sound(d, dead) /\ Made(b, d)
      BY <1>1, SoundMade
    <2> QED BY <1>1, <2>1 DEF Made
  <1>3. k \in 1..Len(d) /\ n + 1 \in 1..Len(d) /\ k # n + 1 /\ n + 1 \notin dead /\ k \in 1..n
    <2>1. dead \in SUBSET (1..n)
      BY <1>1 DEF Sound
    <2> QED BY <1>1, <1>2, <2>1
  <1>4. bt_kid(d, k, s) = 0
    BY <1>2, <1>3
  <1>5. c = attach_at(d, k, s, n + 1)
    BY <1>1
  <1> QED BY <1>2, <1>3, <1>4, <1>5, LeafHung

\* Two new kids, the second of which is still free of links when the first
\* is hung.
LEMMA SoundKids ==
  ASSUME NEW b, NEW dead, Sound(b, dead), NEW k \in (1..Len(b)) \ dead, \A s \in 0..1 : bt_kid(b, k, s) = 0,
         NEW e, e = Append(Append(b, new_knod), new_knod),
         NEW c, c = attach_at(attach_at(e, k, 0, Len(b) + 1), k, 1, Len(b) + 2)
  PROVE  Sound(c, dead)
  <1>0. PICK n \in Nat : n = Len(b)
    BY TreeLinks DEF Sound
  <1>1. PICK d : n = Len(b) /\ d = Append(b, new_knod)
    BY <1>0
  <1>2. /\ Sound(d, dead) /\ Len(d) = n + 1 /\ Cleared(d, n + 1)
        /\ \A j \in 1..n : bt_par(d, j) = bt_par(b, j) /\ \A i \in 0..1 : bt_kid(d, j, i) = bt_kid(b, j, i)
    <2>1. Sound(d, dead) /\ Made(b, d)
      BY <1>1, SoundMade
    <2> QED BY <1>1, <2>1 DEF Made
  <1>3. /\ Sound(e, dead) /\ Len(e) = n + 2 /\ Cleared(e, n + 2)
        /\ \A j \in 1..(n + 1) : bt_par(e, j) = bt_par(d, j) /\ \A i \in 0..1 : bt_kid(e, j, i) = bt_kid(d, j, i)
    <2>1. e = Append(d, new_knod)
      BY <1>1
    <2>2. Sound(e, dead) /\ Made(d, e)
      BY <1>2, <2>1, SoundMade
    <2>3. Len(d) + 1 = n + 2 /\ Len(d) = n + 1
      BY <1>2
    <2> QED BY <2>2, <2>3 DEF Made
  <1>4. /\ dead \in SUBSET (1..n) /\ k \in 1..n /\ k \notin dead /\ k \in 1..(n + 2) /\ k \in 1..(n + 1)
        /\ n + 1 \in 1..(n + 1) /\ n + 1 \in 1..(n + 2) /\ n + 2 \in 1..(n + 2)
        /\ k # n + 1 /\ k # n + 2 /\ n + 1 # n + 2 /\ n + 1 \notin dead /\ n + 2 \notin dead
    <2>1. dead \in SUBSET (1..n) /\ k \in 1..n /\ k \notin dead
      BY <1>1 DEF Sound
    <2> QED BY <2>1
  <1>5. Cleared(e, n + 1) /\ \A s \in 0..1 : bt_kid(e, k, s) = 0
    BY <1>2, <1>3, <1>4 DEF Cleared
  <1>6. PICK h : h = attach_at(e, k, 0, n + 1)
    OBVIOUS
  <1>7. /\ Sound(h, dead) /\ Len(h) = n + 2
        /\ \A j \in 1..(n + 2) :
             /\ bt_par(h, j) = IF j = n + 1 THEN k ELSE bt_par(e, j)
             /\ \A i \in 0..1 : bt_kid(h, j, i) = IF j = k /\ i = 0 THEN n + 1 ELSE bt_kid(e, j, i)
    <2>1. k \in 1..Len(e) /\ n + 1 \in 1..Len(e) /\ 0 \in 0..1 /\ bt_kid(e, k, 0) = 0
      BY <1>3, <1>4, <1>5
    <2>2. Sound(h, dead) /\ HungOn(e, h, k, 0, n + 1)
      BY <1>3, <1>4, <1>5, <1>6, <2>1, LeafHung
    <2> QED BY <1>3, <2>2 DEF HungOn
  <1>8. Cleared(h, n + 2) /\ bt_kid(h, k, 1) = 0
    BY <1>3, <1>4, <1>5, <1>7 DEF Cleared
  <1>9. k \in 1..Len(h) /\ n + 2 \in 1..Len(h) /\ 1 \in 0..1
    BY <1>4, <1>7
  <1>10. c = attach_at(h, k, 1, n + 2)
    BY <1>1, <1>6
  <1> QED BY <1>4, <1>7, <1>8, <1>9, <1>10, LeafHung

\* Two knods more are one more and one more.
LEMMA OneByOne ==
  ASSUME NEW b \in Seq(KnodRec), NEW m \in 1..2
  PROVE  /\ m = 1 => b \o [i \in 1..m |-> new_knod] = Append(b, new_knod)
         /\ m = 2 => b \o [i \in 1..m |-> new_knod] = Append(Append(b, new_knod), new_knod)
  <1>0. PICK n \in Nat : n = Len(b)
    OBVIOUS
  <1>1. PICK w, v : n = Len(b) /\ w = [i \in 1..m |-> new_knod] /\ v = b \o w
    BY <1>0
  <1>2. new_knod \in KnodRec
    BY DEF new_knod, Unlinked, KnodRec
  <1>3. w \in Seq(KnodRec) /\ Len(w) = m /\ \A i \in 1..m : w[i] = new_knod
    <2>1. w \in [1..m -> KnodRec]
      BY <1>1, <1>2
    <2>2. m \in Nat
      OBVIOUS
    <2>3. w \in Seq(KnodRec)
      BY <2>1, <2>2
    <2> QED BY <1>1, <2>1, <2>2, <2>3
  <1>4. /\ v \in Seq(KnodRec) /\ Len(v) = n + m
        /\ \A i \in 1..(n + m) : v[i] = IF i <= n THEN b[i] ELSE w[i - n]
    BY <1>1, <1>3, ConcatProperties
  <1>5. \A i \in 1..(n + m) : v[i] = IF i <= n THEN b[i] ELSE new_knod
    <2> TAKE i \in 1..(n + m)
    <2>1. ~(i <= n) => i - n \in 1..m
      OBVIOUS
    <2> QED BY <1>3, <1>4, <2>1
  <1>6. PICK d : d = Append(b, new_knod)
    OBVIOUS
  <1>7. /\ d \in Seq(KnodRec) /\ Len(d) = n + 1
        /\ \A i \in 1..n : d[i] = b[i]
        /\ d[n + 1] = new_knod
    BY <1>1, <1>2, <1>6, AppendProperties
  <1>8. CASE m = 1
    <2>1. Len(v) = n + 1
      BY <1>4, <1>8
    <2>2. \A i \in 1..(n + 1) : v[i] = d[i]
      <3> TAKE i \in 1..(n + 1)
      <3>1. i \in 1..n \/ (i = n + 1 /\ ~(i <= n))
        OBVIOUS
      <3> QED BY <1>5, <1>7, <1>8, <3>1
    <2>3. v = d
      BY <1>4, <1>7, <2>1, <2>2
    <2> QED BY <1>1, <1>6, <1>8, <2>3
  <1>9. CASE m = 2
    <2>1. PICK e : e = Append(d, new_knod)
      OBVIOUS
    <2>2. /\ e \in Seq(KnodRec) /\ Len(e) = Len(d) + 1
          /\ \A i \in 1..Len(d) : e[i] = d[i]
          /\ e[Len(d) + 1] = new_knod
      BY <1>2, <1>7, <2>1, AppendProperties
    <2>3. /\ Len(e) = n + 2 /\ e[n + 2] = new_knod /\ \A i \in 1..(n + 1) : e[i] = d[i]
      <3>1. Len(d) + 1 = n + 2 /\ Len(d) = n + 1
        BY <1>7
      <3> QED BY <2>2, <3>1
    <2>4. \A i \in 1..(n + 2) : v[i] = e[i]
      <3> TAKE i \in 1..(n + 2)
      <3>1. (i \in 1..n /\ i \in 1..(n + 1)) \/ (i = n + 1 /\ i \in 1..(n + 1) /\ ~(i <= n)) \/ (i = n + 2 /\ ~(i <= n))
        OBVIOUS
      <3>2. i \in 1..(n + m)
        BY <1>9
      <3> QED BY <1>5, <1>7, <2>3, <3>1, <3>2
    <2>5. Len(v) = n + 2
      BY <1>4, <1>9
    <2>6. v = e
      BY <1>4, <2>2, <2>3, <2>4, <2>5
    <2> QED BY <1>1, <1>6, <1>9, <2>1, <2>6
  <1> QED BY <1>8, <1>9

-----------------------------------------------------------------------------

\* Whatever the client calls next, all knods stay in trees, with links that
\* agree both ways and lead round nowhere.
THEOREM BitreeStep ==
  ASSUME BitreeInv, [NextBitree]_<<bt, gone>>
  PROVE  BitreeInv'
  <1>1. Sound(bt, gone)
    BY SoundIs
  <1>2. PICK n \in Nat : n = Len(bt) /\ DOMAIN bt = 1..n /\ bt \in Seq(KnodRec)
    <2>1. IsKnods(bt) /\ Len(bt) \in Nat /\ DOMAIN bt = 1..Len(bt)
      BY <1>1, TreeLinks DEF Sound
    <2> QED BY <2>1 DEF IsKnods
  <1>3. Knod = (1..Len(bt)) \ gone
    BY <1>2 DEF Knod
  <1>4. SUFFICES Sound(bt', gone')
    <2>1. ASSUME AreTrees(bt') PROVE DOMAIN bt' = 1..Len(bt') /\ IsKnods(bt')
      BY <2>1, TreeLinks
    <2>2. ASSUME AreTrees(bt'), gone' \in SUBSET (1..Len(bt'))
          PROVE  \A j \in gone' : bt'[j] = new_knod <=> Cleared(bt', j)
      BY <2>1, <2>2, ClearedIs
    <2>3. Sound(bt', gone') => AreTrees(bt') /\ gone' \in SUBSET DOMAIN bt' /\ \A k \in gone' : bt'[k] = new_knod
      BY <2>1, <2>2 DEF Sound
    <2>4. AreTrees(bt)' = AreTrees(bt')
      BY DEF AreTrees, IsKnods, KidsKnow, ParentsKnow, Ranks, bt_par, bt_kid, KnodRec
    <2>5. new_knod' = new_knod
      BY DEF new_knod, Unlinked
    <2> QED BY <2>3, <2>4, <2>5 DEF BitreeInv
  <1>5. CASE mkbitree
    BY <1>1, <1>5, SoundMade DEF mkbitree
  <1>6. CASE rmarena
    BY <1>6, NoTrees DEF rmarena
  <1>7. ASSUME NEW k \in Knod, NEW sides \in {{0}, {1}, 0..1}, rbtkids(k, sides)
        PROVE  Sound(bt', gone')
    <2> DEFINE m == Cardinality(sides)
               kid(s) == Len(bt) + (IF s = 0 THEN 1 ELSE m)
               with(x, s) == IF s \in sides THEN attach_at(x, k, s, kid(s)) ELSE x
               grown == bt \o [i \in 1..m |-> new_knod]
    <2>1. /\ \A s \in sides : bt_kid(bt, k, s) = 0
          /\ \/ bt' = with(with(grown, 0), 1) /\ gone' = gone
             \/ sides = 0..1 /\ bt' = Append(bt, new_knod) /\ gone' = gone \cup {Len(bt) + 1}
      BY <1>7 DEF rbtkids
    <2>2. k \in (1..Len(bt)) \ gone
      BY <1>3
    <2>3. \A s \in 0..1 : Cardinality({s}) = 1
      BY FS_Singleton
    <2>4. Cardinality(0..1) = 2
      <3>1. \A i, j \in Int : Cardinality(i..j) = IF i > j THEN 0 ELSE j - i + 1
        BY FS_Interval
      <3>2. 0 \in Int /\ 1 \in Int /\ ~(0 > 1) /\ 1 - 0 + 1 = 2
        OBVIOUS
      <3> QED BY <3>1, <3>2
    <2>5. CASE bt' = with(with(grown, 0), 1) /\ gone' = gone /\ sides = {0}
      <3>1. m = 1 /\ m \in 1..2
        BY <2>3, <2>5
      <3>2. grown = Append(bt, new_knod)
        BY <1>2, <3>1, OneByOne
      <3>3. kid(0) = Len(bt) + 1 /\ 0 \in sides /\ 1 \notin sides
        BY <2>5
      <3>4. bt' = attach_at(Append(bt, new_knod), k, 0, Len(bt) + 1)
        BY <2>5, <3>2, <3>3
      <3>5. bt_kid(bt, k, 0) = 0 /\ 0 \in 0..1
        BY <2>1, <3>3
      <3> HIDE DEF m, kid, with, grown
      <3> QED BY <1>1, <2>2, <2>5, <3>4, <3>5, SoundKid
    <2>6. CASE bt' = with(with(grown, 0), 1) /\ gone' = gone /\ sides = {1}
      <3>1. m = 1 /\ m \in 1..2
        BY <2>3, <2>6
      <3>2. grown = Append(bt, new_knod)
        BY <1>2, <3>1, OneByOne
      <3>3. kid(1) = Len(bt) + 1 /\ 1 \in sides /\ 0 \notin sides
        BY <2>6, <3>1
      <3>4. bt' = attach_at(Append(bt, new_knod), k, 1, Len(bt) + 1)
        BY <2>6, <3>2, <3>3
      <3>5. bt_kid(bt, k, 1) = 0 /\ 1 \in 0..1
        BY <2>1, <3>3
      <3> HIDE DEF m, kid, with, grown
      <3> QED BY <1>1, <2>2, <2>6, <3>4, <3>5, SoundKid
    <2>7. CASE bt' = with(with(grown, 0), 1) /\ gone' = gone /\ sides = 0..1
      <3>1. m = 2 /\ m \in 1..2
        BY <2>4, <2>7
      <3>2. PICK e : e = Append(Append(bt, new_knod), new_knod)
        OBVIOUS
      <3>3. grown = e
        BY <1>2, <3>1, <3>2, OneByOne
      <3>4. kid(0) = Len(bt) + 1 /\ kid(1) = Len(bt) + 2 /\ 0 \in sides /\ 1 \in sides
        BY <2>7, <3>1
      <3>5. bt' = attach_at(attach_at(e, k, 0, Len(bt) + 1), k, 1, Len(bt) + 2)
        BY <2>7, <3>3, <3>4
      <3>6. \A s \in 0..1 : bt_kid(bt, k, s) = 0
        BY <2>1, <2>7
      <3> HIDE DEF m, kid, with, grown
      <3> QED BY <1>1, <2>2, <2>7, <3>2, <3>5, <3>6, SoundKids
    <2>8. CASE bt' = Append(bt, new_knod) /\ gone' = gone \cup {Len(bt) + 1}
      BY <1>1, <2>8, SoundMade
    <2> QED BY <1>7, <2>1, <2>5, <2>6, <2>7, <2>8
  <1>8. ASSUME NEW k \in Knod, NEW s \in 0..1, btdrop(k, s)
        PROVE  Sound(bt', gone')
    <2>1. bt' = bt_set_par(bt_set_kid(bt, k, s, 0), bt_kid(bt, k, s), 0) /\ gone' = gone
      BY <1>8 DEF btdrop
    <2> QED BY <1>1, <1>3, <2>1, SoundDropped
  <1>9. ASSUME NEW k \in Knod, NEW s \in 0..1, NEW j \in Knod, btplace(k, s, j)
        PROVE  Sound(bt', gone')
    <2>1. /\ bt_par(bt, j) = 0 /\ j \notin ToSet(Ancestors(bt, k))
          /\ bt' = attach_at(bt_set_par(bt, bt_kid(bt, k, s), 0), k, s, j) /\ gone' = gone
      BY <1>9 DEF btplace
    <2> QED BY <1>1, <1>3, <2>1, SoundPlaced
  <1>10. ASSUME NEW k \in Knod, NEW s \in 0..1, Rotate(k, s)
         PROVE  Sound(bt', gone')
    <2>1. bt_kid(bt, k, s) # 0 /\ bt' = btrot(bt, k, s) /\ gone' = gone
      BY <1>10 DEF Rotate
    <2> QED BY <1>1, <1>3, <2>1, SoundRotated
  <1>11. ASSUME NEW k \in Knod, NEW first \in 0..1, NEW second \in 0..1, btrrotte(k, first, second)
         PROVE  Sound(bt', gone')
    <2>1. PICK child, d : child = bt_kid(bt, k, second) /\ d = btrot(bt, child, first)
      OBVIOUS
    <2>2. child # 0 /\ bt_kid(bt, child, first) # 0 /\ bt' = btrot(d, k, second) /\ gone' = gone
      BY <1>11, <2>1 DEF btrrotte
    <2>3. child \in 1..Len(bt) /\ k \in 1..Len(bt) /\ AreTrees(bt) /\ bt_par(bt, child) = k
      BY <1>1, <1>3, <2>1, <2>2, TreeLinks DEF Sound
    <2>4. Sound(d, gone) /\ Rotated(bt, d, child, first)
      BY <1>1, <2>1, <2>2, <2>3, SoundRotated
    <2>5. PICK y, z : y = bt_kid(bt, child, first) /\ z = bt_kid(bt, y, 1 - first)
      OBVIOUS
    <2>6. PICK r : Ranks(bt, r)
      BY <2>3, TreeLinks
    <2>7. k # child /\ k # y
      BY <2>2, <2>3, <2>5, <2>6, AboutRotation
    <2>8. bt_kid(d, k, second) = y /\ Len(d) = Len(bt)
      BY <2>1, <2>3, <2>4, <2>5, <2>7 DEF Rotated
    <2>9. k \in 1..Len(d) /\ bt_kid(d, k, second) # 0
      BY <2>2, <2>3, <2>5, <2>8
    <2> QED BY <2>2, <2>4, <2>9, SoundRotated
  <1>12. ASSUME NEW k \in Knod, rmbitree(k)
         PROVE  Sound(bt', gone')
    <2>1. PICK x, tree : /\ x = IF bt_par(bt, k) = 0 THEN bt ELSE bt_set_kid(bt, bt_par(bt, k), child_side(bt, bt_par(bt, k), k), 0)
                         /\ tree = ToSet(walk_post(bt, k))
      OBVIOUS
    <2>2. bt' = [j \in DOMAIN x |-> IF j \in tree THEN new_knod ELSE x[j]] /\ gone' = gone \cup tree
      BY <1>12, <2>1 DEF rmbitree
    <2> QED BY <1>1, <1>3, <2>1, <2>2, SoundRemoved
  <1>13. CASE UNCHANGED <<bt, gone>>
    BY <1>1, <1>13
  <1> QED BY <1>5, <1>6, <1>7, <1>8, <1>9, <1>10, <1>11, <1>12, <1>13 DEF NextBitree

\* What the invariant means for the tree functions: links agree, the top of
\* each tree is above all, a rotation keeps the order, and all walks come by
\* the same knods, each of them once.
THEOREM BitreeMeaning ==
  ASSUME BitreeInv PROVE BitreeSound
  <1>1. AreTrees(bt) /\ \A k \in gone : bt[k] = new_knod
    BY DEF BitreeInv
  <1>2. PICK r : Ranks(bt, r)
    BY <1>1, TreeLinks
  <1>3. DOMAIN bt = 1..Len(bt) /\ Knod \in SUBSET (1..Len(bt)) /\ Len(bt) \in Nat
    BY <1>1, TreeLinks DEF Knod
  <1>4. \A k \in DOMAIN bt, s \in 0..1 : bt_kid(bt, k, s) # 0 =>
           bt_par(bt, bt_kid(bt, k, s)) = k /\ bt_kid(bt, k, s) # bt_kid(bt, k, 1 - s)
    BY <1>1 DEF AreTrees, KidsKnow
  <1>5. \A k \in DOMAIN bt : bt_par(bt, k) # 0 => \E s \in 0..1 : bt_kid(bt, bt_par(bt, k), s) = k
    BY <1>1 DEF AreTrees, ParentsKnow
  <1>6. \A k \in DOMAIN bt : bt_par(bt, Last(Ancestors(bt, k))) = 0
    BY <1>1, <1>2, <1>3, AncestorsAre DEF Root
  <1>7. ASSUME NEW k \in Knod, NEW s \in 0..1, bt_kid(bt, k, s) # 0, NEW c, c = btrot(bt, k, s)
        PROVE  walk_in(c, Last(Ancestors(c, k))) = walk_in(bt, Last(Ancestors(bt, k)))
    <2>1. Rotated(bt, c, k, s)
      BY <1>1, <1>3, <1>7, RotationIs
    <2>2. InOrder(c, Root(c, k)) = InOrder(bt, Root(bt, k))
      BY <1>1, <1>3, <1>7, <2>1, OrderKept
    <2> QED BY <2>2 DEF InOrder, Below, walk_in, Root
  <1>8. ASSUME NEW k \in Knod
        PROVE  /\ IsInjective(walk_pre(bt, k))
               /\ \A w \in {walk_in(bt, k), walk_post(bt, k)} :
                    Len(w) = Len(walk_pre(bt, k)) /\ ToSet(w) = ToSet(walk_pre(bt, k))
    <2>1. IsInjective(Below("pre", bt, k))
      BY <1>1, <1>3, BelowOnce
    <2>2. "in" \in Orders /\ "post" \in Orders /\ k \in 0..Len(bt)
      BY <1>3 DEF Orders
    <2>3. /\ Len(Below("in", bt, k)) = Len(Below("pre", bt, k)) /\ ToSet(Below("in", bt, k)) = ToSet(Below("pre", bt, k))
          /\ Len(Below("post", bt, k)) = Len(Below("pre", bt, k)) /\ ToSet(Below("post", bt, k)) = ToSet(Below("pre", bt, k))
      BY <1>1, <2>2, OrdersAgree
    <2> QED BY <2>1, <2>3 DEF Below, walk_pre, walk_in, walk_post
  <1> QED BY <1>1, <1>4, <1>5, <1>6, <1>7, <1>8 DEF BitreeSound

\* Every tree of bitree.c is one whatever calls a client makes.
THEOREM BitreesSound == SpecBitree => []BitreeSound
  <1>1. InitBitree => BitreeInv
    <2> SUFFICES ASSUME InitBitree PROVE BitreeInv
      OBVIOUS
    <2>1. Sound(bt, gone)
      BY NoTrees DEF InitBitree
    <2> QED BY <2>1, SoundIs
  <1>2. BitreeInv /\ [NextBitree]_<<bt, gone>> => BitreeInv'
    BY BitreeStep
  <1>3. BitreeInv => BitreeSound
    BY BitreeMeaning
  <1> QED BY <1>1, <1>2, <1>3, PTL DEF SpecBitree
-----------------------------------------------------------------------------
(* Lists *)

\* What is before and after a knot in a string, and the position there.
Prev(s, i) == IF i = 1 THEN {} ELSE {s[i - 1]}
After(s, i) == IF i = Len(s) THEN {} ELSE {s[i + 1]}
Stop(s, i) == [pre |-> Prev(s, i), k |-> {s[i]}]

\* The positions from the i-th knot to the last.
Route(s, i) == [n \in 1..(Len(s) - i + 1) |-> Stop(s, i + n - 1)]

\* Strings of knots, none of them twice.
Strand(n, s) == s \in Seq(1..n) /\ s # <<>> /\ IsInjective(s)

\* From the i-th on, knots store their neighbours.
Linked(w, s, i) == \A j \in i..Len(s) : w[s[j]] = Prev(s, j) \cup After(s, j)

\* A string is a sequence of different knots, at least one and no more than
\* there are.
LEMMA StrandShape ==
  ASSUME NEW n \in Nat, NEW s, Strand(n, s)
  PROVE  /\ s \in Seq(1..n) /\ Len(s) \in Nat /\ Len(s) >= 1 /\ DOMAIN s = 1..Len(s)
         /\ \A i \in 1..Len(s) : s[i] \in 1..n
         /\ \A i, j \in 1..Len(s) : s[i] = s[j] => i = j
         /\ Len(s) <= n
  <1>1. s \in Seq(1..n) /\ Len(s) \in Nat /\ s # <<>> /\ DOMAIN s = 1..Len(s) /\ s \in [1..Len(s) -> 1..n]
    BY DEF Strand
  <1>2. Len(s) >= 1
    BY <1>1, EmptySeq
  <1>3. \A i, j \in 1..Len(s) : s[i] = s[j] => i = j
    BY <1>1 DEF Strand, IsInjective
  <1>4. s \in Injection(1..Len(s), 1..n)
    BY <1>1, <1>3 DEF Injection, IsInjective
  <1>5. \A i, j \in Int : IsFiniteSet(i..j) /\ Cardinality(i..j) = IF i > j THEN 0 ELSE j - i + 1
    BY FS_Interval
  <1>6. IsFiniteSet(1..n) /\ Cardinality(1..n) = n /\ Cardinality(1..Len(s)) = Len(s)
    <2>1. IsFiniteSet(1..n) /\ Cardinality(1..n) = IF 1 > n THEN 0 ELSE n - 1 + 1
      BY <1>5
    <2>2. Cardinality(1..Len(s)) = IF 1 > Len(s) THEN 0 ELSE Len(s) - 1 + 1
      BY <1>1, <1>5
    <2> QED BY <1>1, <2>1, <2>2
  <1>7. Cardinality(1..Len(s)) <= Cardinality(1..n)
    BY ONLY <1>4, <1>6, FS_Injection
  <1> QED BY <1>1, <1>2, <1>3, <1>6, <1>7

\* A handle is one knot.
LEMMA Handled == ASSUME NEW x PROVE as_knot({x}) = x /\ {x} # {}
  BY DEF as_knot

\* From the one side comes the other.
LEMMA OtherSide ==
  ASSUME NEW A, NEW B, A \cap B = {}
  PROVE  Xor(A \cup B, A) = B /\ Xor(A \cup B, B) = A
  BY DEF Xor

\* One step from a knot of a string goes to the one after it.
LEMMA NextStop ==
  ASSUME NEW n \in Nat, NEW w, NEW s, Strand(n, s), NEW i \in 1..Len(s),
         w[s[i]] = Prev(s, i) \cup After(s, i)
  PROVE  step_raw(w, Prev(s, i), {s[i]}) = After(s, i)
  <1>1. Prev(s, i) \cap After(s, i) = {}
    <2>1. \A j, l \in 1..Len(s) : s[j] = s[l] => j = l
      BY StrandShape
    <2>2. Len(s) \in Nat
      BY StrandShape
    <2>3. i # 1 /\ i # Len(s) => i - 1 \in 1..Len(s) /\ i + 1 \in 1..Len(s) /\ i - 1 # i + 1
      BY <2>2
    <2> QED BY <2>1, <2>3 DEF Prev, After
  <1>2. step_raw(w, Prev(s, i), {s[i]}) = Xor(w[s[i]], Prev(s, i))
    BY Handled DEF step_raw
  <1> QED BY <1>1, <1>2, OtherSide

\* The walks cut off after each number of steps up to m.
WalkTable(w, m, f) ==
  f = [n \in 0..m |->
        [p \in [pre : SUBSET DOMAIN w, k : SUBSET DOMAIN w] |->
           IF step_raw(w, p.pre, p.k) = {} \/ n = 0 THEN <<p>>
           ELSE <<p>> \o f[n - 1][[pre |-> p.k, k |-> step_raw(w, p.pre, p.k)]]]]

\* The walks with n more steps, from those with one less.
WalkRow(w, n, f2) ==
  [p \in [pre : SUBSET DOMAIN w, k : SUBSET DOMAIN w] |->
     IF step_raw(w, p.pre, p.k) = {} \/ n = 0 THEN <<p>>
     ELSE <<p>> \o f2[[pre |-> p.k, k |-> step_raw(w, p.pre, p.k)]]]

\* There is such a function for each cut-off.
LEMMA WalkTableIs ==
  ASSUME NEW w, NEW c \in Nat
  PROVE  \E f : WalkTable(w, c, f)
  <1> DEFINE S == {m \in 0..c : ~ \E f : WalkTable(w, m, f)}
  <1>1. SUFFICES ASSUME S # {} PROVE FALSE
    OBVIOUS
  <1>2. S \subseteq Nat
    OBVIOUS
  <1>3. PICK m \in S : \A n \in S : m <= n
    BY <1>1, <1>2, LeastIn
  <1>4. m \in 0..c /\ ~ \E f : WalkTable(w, m, f)
    BY <1>3
  <1>5. CASE m = 0
    <2>1. WalkTable(w, 0, [n \in 0..0 |-> [p \in [pre : SUBSET DOMAIN w, k : SUBSET DOMAIN w] |-> <<p>>]])
      BY DEF WalkTable
    <2> QED BY <1>4, <1>5, <2>1
  <1>6. CASE m # 0
    <2>1. m - 1 \in 0..c /\ m - 1 < m
      BY <1>4, <1>6
    <2>2. m - 1 \notin S
      BY <1>2, <1>3, <2>1
    <2>3. PICK f : WalkTable(w, m - 1, f)
      BY <2>1, <2>2
    <2> DEFINE next == WalkRow(w, m, f[m - 1])
               cut == [n \in 0..m |-> IF n = m THEN next ELSE f[n]]
    <2>4. cut[m] = next /\ \A n \in 0..(m - 1) : cut[n] = f[n]
      BY <1>4, <1>6
    <2>5. \A i \in 0..(m - 1) : f[i] = WalkRow(w, i, f[i - 1])
      BY <2>3 DEF WalkTable, WalkRow
    <2>6. DOMAIN cut = 0..m /\ cut = [n \in 0..m |-> cut[n]]
      OBVIOUS
    <2> HIDE DEF cut
    <2>7. \A n \in 0..m : cut[n] = WalkRow(w, n, cut[n - 1])
      <3> TAKE n \in 0..m
      <3>1. CASE n = 0
        <4>1. 0 \in 0..(m - 1)
          BY <1>4, <1>6
        <4> QED BY <2>4, <2>5, <3>1, <4>1 DEF WalkRow
      <3>2. CASE n # 0
        <4>1. n - 1 \in 0..(m - 1)
          BY <1>4, <3>2
        <4>2. cut[n - 1] = f[n - 1]
          BY <2>4, <4>1
        <4>3. CASE n = m
          BY <2>4, <3>2, <4>2, <4>3
        <4>4. CASE n # m
          <5>1. n \in 0..(m - 1)
            BY <1>4, <4>4
          <5> QED BY <2>4, <2>5, <3>2, <4>2, <5>1
        <4> QED BY <4>3, <4>4
      <3> QED BY <3>1, <3>2
    <2>8. WalkTable(w, m, cut)
      BY <2>6, <2>7 DEF WalkTable, WalkRow
    <2> QED BY <1>4, <2>8
  <1> QED BY <1>5, <1>6

\* lsknots takes its walks from it.
LEMMA KnotsIs ==
  ASSUME NEW w, Cardinality(DOMAIN w) \in Nat
  PROVE  \E f : /\ WalkTable(w, Cardinality(DOMAIN w), f)
                /\ \A a, b : lsknots(w, a, b) = f[Cardinality(DOMAIN w)][[pre |-> a, k |-> b]]
  <1> DEFINE f == CHOOSE f : WalkTable(w, Cardinality(DOMAIN w), f)
  <1>1. WalkTable(w, Cardinality(DOMAIN w), f)
    BY WalkTableIs
  <1>2. \A a, b : lsknots(w, a, b) = f[Cardinality(DOMAIN w)][[pre |-> a, k |-> b]]
    BY DEF lsknots, WalkTable
  <1> QED BY <1>1, <1>2

\* What is at each place of a route.
LEMMA RouteShape ==
  ASSUME NEW n \in Nat, NEW s, Strand(n, s), NEW i \in 1..Len(s)
  PROVE  /\ Len(Route(s, i)) = Len(s) - i + 1
         /\ DOMAIN Route(s, i) = 1..(Len(s) - i + 1)
         /\ \A m \in 1..(Len(s) - i + 1) : Route(s, i)[m] = Stop(s, i + m - 1)
         /\ Route(s, i) \in Seq({Stop(s, j) : j \in 1..Len(s)})
  <1>1. Len(s) \in Nat /\ Len(s) - i + 1 \in Nat
    BY StrandShape
  <1>2. \A m \in 1..(Len(s) - i + 1) : i + m - 1 \in 1..Len(s)
    BY <1>1
  <1>3. Route(s, i) \in [1..(Len(s) - i + 1) -> {Stop(s, j) : j \in 1..Len(s)}]
    BY <1>2 DEF Route
  <1>4. Route(s, i) \in Seq({Stop(s, j) : j \in 1..Len(s)})
    BY <1>1, <1>3
  <1>5. Len(Route(s, i)) = Len(s) - i + 1
    BY <1>1, <1>3, <1>4
  <1> QED BY <1>3, <1>4, <1>5 DEF Route

\* A route is its first position and the route from the next knot.
LEMMA RouteUnfolds ==
  ASSUME NEW n \in Nat, NEW s, Strand(n, s), NEW i \in 1..Len(s)
  PROVE  Route(s, i) = IF i = Len(s) THEN <<Stop(s, i)>> ELSE <<Stop(s, i)>> \o Route(s, i + 1)
  <1> DEFINE T == {Stop(s, j) : j \in 1..Len(s)}
             one == <<Stop(s, i)>>
  <1>1. Len(s) \in Nat
    BY StrandShape
  <1>2. one \in Seq(T) /\ Len(one) = 1 /\ one[1] = Stop(s, i)
    OBVIOUS
  <1>3. /\ Len(Route(s, i)) = Len(s) - i + 1 /\ Route(s, i) \in Seq(T)
        /\ \A m \in 1..(Len(s) - i + 1) : Route(s, i)[m] = Stop(s, i + m - 1)
    BY RouteShape
  <1>4. CASE i = Len(s)
    <2>1. Len(Route(s, i)) = Len(one) /\ \A m \in 1..Len(Route(s, i)) : Route(s, i)[m] = one[m]
      BY <1>1, <1>2, <1>3, <1>4
    <2> HIDE DEF T, one
    <2>2. Route(s, i) = one
      BY <1>2, <1>3, <2>1, SeqEqual
    <2> QED BY <1>4, <2>2 DEF one
  <1>5. CASE i # Len(s)
    <2>1. i + 1 \in 1..Len(s)
      BY <1>1, <1>5
    <2>2. /\ Len(Route(s, i + 1)) = Len(s) - i /\ Route(s, i + 1) \in Seq(T)
          /\ \A m \in 1..(Len(s) - i) : Route(s, i + 1)[m] = Stop(s, i + m)
      <3>1. PICK j : j = i + 1
        OBVIOUS
      <3>2. /\ Len(Route(s, j)) = Len(s) - j + 1 /\ Route(s, j) \in Seq(T)
            /\ \A m \in 1..(Len(s) - j + 1) : Route(s, j)[m] = Stop(s, j + m - 1)
        BY <2>1, <3>1, RouteShape
      <3>3. \A m \in 1..(Len(s) - i) : j + m - 1 = i + m /\ m \in 1..(Len(s) - j + 1)
        BY <1>1, <3>1
      <3>4. Len(s) - j + 1 = Len(s) - i
        BY <1>1, <3>1
      <3> QED BY <3>1, <3>2, <3>3, <3>4
    <2> HIDE DEF T, one
    <2>3. PICK r : r = Route(s, i + 1)
      OBVIOUS
    <2>4. /\ one \o r \in Seq(T) /\ Len(one \o r) = Len(one) + Len(r)
          /\ \A m \in 1..(Len(one) + Len(r)) : (one \o r)[m] = IF m <= Len(one) THEN one[m] ELSE r[m - Len(one)]
      BY <1>2, <2>2, <2>3, ConcatProperties
    <2>5. Len(Route(s, i)) = Len(one \o r)
      <3>1. Len(one) = 1 /\ Len(r) = Len(s) - i /\ Len(one \o r) = Len(one) + Len(r)
        BY <1>2, <2>2, <2>3, <2>4
      <3>2. Len(Route(s, i)) = Len(s) - i + 1 /\ i \in Nat
        BY <1>3
      <3> QED BY <1>1, <3>1, <3>2
    <2>6. ASSUME NEW m \in 1..Len(Route(s, i)) PROVE Route(s, i)[m] = (one \o r)[m]
      <3>1. m \in 1..(Len(s) - i + 1) /\ m \in 1..(Len(one) + Len(r))
        BY <1>3, <2>4, <2>5
      <3>2. CASE m = 1
        BY <1>1, <1>2, <1>3, <2>4, <3>1, <3>2
      <3>3. CASE m # 1
        <4>1. m - 1 \in 1..(Len(s) - i) /\ ~(m <= 1) /\ i + (m - 1) = i + m - 1
          BY <1>1, <3>1, <3>3
        <4>2. r[m - 1] = Stop(s, i + (m - 1))
          BY <2>2, <2>3, <4>1
        <4>3. (one \o r)[m] = r[m - 1]
          BY <1>2, <2>4, <3>1, <4>1
        <4> QED BY <1>3, <3>1, <4>1, <4>2, <4>3
      <3> QED BY <3>2, <3>3
    <2>7. Route(s, i) = one \o r
      BY <1>3, <2>4, <2>5, <2>6, SeqEqual
    <2> QED BY <1>5, <2>3, <2>7 DEF one
  <1> QED BY <1>4, <1>5

\* A walk goes from a knot on to the end of its string.
LEMMA Walking ==
  ASSUME NEW n \in Nat, NEW w, DOMAIN w = 1..n, NEW s, Strand(n, s), NEW i \in 1..Len(s),
         Linked(w, s, i)
  PROVE  lsknots(w, Prev(s, i), {s[i]}) = Route(s, i)
  <1> DEFINE H == [pre : SUBSET DOMAIN w, k : SUBSET DOMAIN w]
  <1>1. Len(s) \in Nat /\ Len(s) <= n /\ \A j \in 1..Len(s) : s[j] \in 1..n
    BY StrandShape
  <1>2. Cardinality(DOMAIN w) = n
    <2>1. \A a, b \in Int : Cardinality(a..b) = IF a > b THEN 0 ELSE b - a + 1
      BY FS_Interval
    <2>2. Cardinality(1..n) = IF 1 > n THEN 0 ELSE n - 1 + 1
      BY <2>1
    <2> QED BY <2>2
  <1>3. PICK f : WalkTable(w, n, f) /\ \A a, b : lsknots(w, a, b) = f[n][[pre |-> a, k |-> b]]
    <2>1. Cardinality(DOMAIN w) \in Nat
      BY <1>2
    <2>2. \E f : /\ WalkTable(w, Cardinality(DOMAIN w), f)
                 /\ \A a, b : lsknots(w, a, b) = f[Cardinality(DOMAIN w)][[pre |-> a, k |-> b]]
      BY <2>1, KnotsIs
    <2> QED BY <1>2, <2>2
  <1>4. \A m \in 0..n : f[m] = WalkRow(w, m, f[m - 1])
    BY <1>3 DEF WalkTable, WalkRow
  <1>5. \A j \in i..Len(s) : /\ j \in 1..Len(s) /\ Stop(s, j) \in H
                             /\ step_raw(w, Prev(s, j), {s[j]}) = After(s, j)
    <2> TAKE j \in i..Len(s)
    <2>1. j \in 1..Len(s)
      BY <1>1
    <2>2. w[s[j]] = Prev(s, j) \cup After(s, j)
      BY DEF Linked
    <2>3. step_raw(w, Prev(s, j), {s[j]}) = After(s, j)
      BY <2>1, <2>2, NextStop
    <2>4. j # 1 => s[j - 1] \in 1..n
      BY <1>1, <2>1
    <2>5. Prev(s, j) \in SUBSET DOMAIN w /\ {s[j]} \in SUBSET DOMAIN w
      BY <1>1, <2>1, <2>4 DEF Prev
    <2> QED BY <2>1, <2>3, <2>5 DEF Stop
  <1>6. ASSUME NEW m \in 0..n, NEW j \in i..Len(s), m >= Len(s) - j
        PROVE  f[m][Stop(s, j)] = IF j = Len(s) THEN <<Stop(s, j)>>
                                  ELSE <<Stop(s, j)>> \o f[m - 1][Stop(s, j + 1)]
    <2>1. PICK f2 : f2 = f[m - 1]
      OBVIOUS
    <2>2. f[m] = WalkRow(w, m, f2)
      BY <1>4, <2>1
    <2>3. PICK p : p = Stop(s, j)
      OBVIOUS
    <2>4. p \in H /\ p.pre = Prev(s, j) /\ p.k = {s[j]} /\ step_raw(w, p.pre, p.k) = After(s, j)
      BY <1>5, <2>3 DEF Stop
    <2>5. f[m][p] = IF step_raw(w, p.pre, p.k) = {} \/ m = 0 THEN <<p>>
                    ELSE <<p>> \o f2[[pre |-> p.k, k |-> step_raw(w, p.pre, p.k)]]
      BY <2>2, <2>4 DEF WalkRow
    <2>6. CASE j = Len(s)
      BY <2>3, <2>4, <2>5, <2>6 DEF After
    <2>7. CASE j # Len(s)
      <3>1. m # 0 /\ j + 1 # 1 /\ (j + 1) - 1 = j
        BY <1>1, <2>7, <1>6
      <3>2. After(s, j) = {s[j + 1]} /\ Prev(s, j + 1) = {s[j]}
        BY <2>7, <3>1 DEF After, Prev
      <3>3. [pre |-> p.k, k |-> step_raw(w, p.pre, p.k)] = Stop(s, j + 1)
        BY <2>4, <3>2 DEF Stop
      <3>4. step_raw(w, p.pre, p.k) # {}
        <4>1. {s[j + 1]} # {}
          BY Handled
        <4>2. step_raw(w, p.pre, p.k) = {s[j + 1]}
          BY <2>4, <3>2
        <4> QED BY <4>1, <4>2
      <3>5. f[m][p] = <<p>> \o f2[Stop(s, j + 1)]
        BY <2>5, <3>1, <3>3, <3>4
      <3> QED BY <2>1, <2>3, <2>7, <3>5
    <2> QED BY <2>6, <2>7
  <1> DEFINE Wrong(d) == \E j \in i..Len(s), m \in 0..n :
                           Len(s) - j = d /\ m >= d /\ f[m][Stop(s, j)] # Route(s, j)
             S == {d \in Nat : Wrong(d)}
  <1>7. S = {}
    <2>1. SUFFICES ASSUME S # {} PROVE FALSE
      OBVIOUS
    <2>2. S \subseteq Nat
      OBVIOUS
    <2>3. PICK d \in S : \A e \in S : d <= e
      BY <2>1, <2>2, LeastIn
    <2>4. PICK j \in i..Len(s), m \in 0..n :
            Len(s) - j = d /\ m >= d /\ f[m][Stop(s, j)] # Route(s, j)
      BY <2>3
    <2>5. j \in 1..Len(s)
      BY <1>1
    <2>6. CASE j = Len(s)
      <3>1. Route(s, j) = <<Stop(s, j)>>
        BY <2>5, <2>6, RouteUnfolds
      <3>2. f[m][Stop(s, j)] = <<Stop(s, j)>>
        BY <1>6, <2>4, <2>6
      <3> QED BY <2>4, <3>1, <3>2
    <2>7. CASE j # Len(s)
      <3>1. j + 1 \in i..Len(s) /\ m - 1 \in 0..n /\ m - 1 >= d - 1 /\ d - 1 \in Nat
             /\ Len(s) - (j + 1) = d - 1 /\ ~(d <= d - 1)
        BY <1>1, <2>4, <2>7
      <3>2. d - 1 \notin S
        BY <2>3, <3>1
      <3>3. f[m - 1][Stop(s, j + 1)] = Route(s, j + 1)
        BY <3>1, <3>2
      <3>4. Route(s, j) = <<Stop(s, j)>> \o Route(s, j + 1)
        BY <2>5, <2>7, RouteUnfolds
      <3>5. f[m][Stop(s, j)] = <<Stop(s, j)>> \o f[m - 1][Stop(s, j + 1)]
        BY <1>6, <2>4, <2>7
      <3> QED BY <2>4, <3>3, <3>4, <3>5
    <2> QED BY <2>6, <2>7
  <1>8. f[n][Stop(s, i)] = Route(s, i)
    <2>1. i \in i..Len(s) /\ n \in 0..n /\ n >= Len(s) - i /\ Len(s) - i \in Nat
      BY <1>1
    <2>2. Len(s) - i \notin S
      BY <1>7
    <2> QED BY <2>1, <2>2
  <1> QED BY <1>3, <1>8 DEF Stop

\* The lists of w are the strings of G, each in one direction.
Woven(n, w, G) ==
  /\ n \in Nat /\ w \in [1..n -> SUBSET (1..n)]
  /\ \A s \in G : Strand(n, s) /\ Linked(w, s, 1)
  /\ \A s, s2 \in G : s = s2 \/ ToSet(s) \cap ToSet(s2) = {}
  /\ \A k \in 1..n : \E s \in G : k \in ToSet(s)

\* The other direction of a string.
LEMMA ReverseShape ==
  ASSUME NEW n \in Nat, NEW s, Strand(n, s)
  PROVE  /\ Strand(n, Reverse(s)) /\ Len(Reverse(s)) = Len(s)
         /\ \A i \in 1..Len(s) : /\ Len(s) - i + 1 \in 1..Len(s)
                                 /\ Reverse(s)[i] = s[Len(s) - i + 1]
                                 /\ Prev(Reverse(s), i) = After(s, Len(s) - i + 1)
                                 /\ After(Reverse(s), i) = Prev(s, Len(s) - i + 1)
         /\ ToSet(Reverse(s)) = ToSet(s)
         /\ Reverse(Reverse(s)) = s
  <1>1. /\ s \in Seq(1..n) /\ Len(s) \in Nat /\ Len(s) >= 1 /\ DOMAIN s = 1..Len(s)
        /\ \A i \in 1..Len(s) : s[i] \in 1..n
        /\ \A i, j \in 1..Len(s) : s[i] = s[j] => i = j
    BY StrandShape
  <1>2. PICK r : r = Reverse(s)
    OBVIOUS
  <1>3. \A i \in 1..Len(s) : Len(s) - i + 1 \in 1..Len(s) /\ Len(s) - (Len(s) - i + 1) + 1 = i
    BY <1>1
  <1>4. r = [i \in 1..Len(s) |-> s[Len(s) - i + 1]]
    BY <1>2 DEF Reverse
  <1>5. r \in [1..Len(s) -> 1..n]
    BY <1>1, <1>3, <1>4
  <1>6. r \in Seq(1..n) /\ Len(r) = Len(s) /\ DOMAIN r = 1..Len(s)
    BY <1>1, <1>5
  <1>7. r # <<>>
    BY <1>1, <1>6
  <1>8. IsInjective(r)
    <2> SUFFICES ASSUME NEW i \in DOMAIN r, NEW j \in DOMAIN r, r[i] = r[j] PROVE i = j
      BY DEF IsInjective
    <2>1. i \in 1..Len(s) /\ j \in 1..Len(s) /\ s[Len(s) - i + 1] = s[Len(s) - j + 1]
      BY <1>4, <1>6
    <2>2. Len(s) - i + 1 = Len(s) - j + 1
      BY <1>1, <1>3, <2>1
    <2> QED BY <1>1, <2>1, <2>2
  <1>9. \A i \in 1..Len(s) : r[i] = s[Len(s) - i + 1]
    BY <1>4
  <1>10. ASSUME NEW i \in 1..Len(s)
         PROVE  Prev(r, i) = After(s, Len(s) - i + 1) /\ After(r, i) = Prev(s, Len(s) - i + 1)
    <2>0. Len(s) \in Nat /\ i \in Int /\ 1 <= i /\ i <= Len(s)
      BY <1>1
    <2>1. PICK j : j = Len(s) - i + 1
      OBVIOUS
    <2>2. j \in 1..Len(s) /\ (i = 1 <=> j = Len(s)) /\ (i = Len(s) <=> j = 1)
      BY ONLY <2>0, <2>1
    <2>3. i # 1 => i - 1 \in 1..Len(s) /\ Len(s) - (i - 1) + 1 = j + 1
      BY ONLY <2>0, <2>1
    <2>4. i # Len(s) => i + 1 \in 1..Len(s) /\ Len(s) - (i + 1) + 1 = j - 1
      BY ONLY <2>0, <2>1
    <2>5. i # 1 => r[i - 1] = s[j + 1]
      BY <1>9, <2>3
    <2>6. i # Len(s) => r[i + 1] = s[j - 1]
      BY <1>9, <2>4
    <2>7. Prev(r, i) = After(s, j)
      BY <2>2, <2>5 DEF Prev, After
    <2>8. After(r, i) = Prev(s, j)
      BY <1>6, <2>2, <2>6 DEF Prev, After
    <2> QED BY <2>1, <2>7, <2>8
  <1>11. ToSet(r) = ToSet(s)
    <2>1. ASSUME NEW i \in 1..Len(s) PROVE r[i] \in ToSet(s) /\ s[i] \in ToSet(r)
      <3>1. Len(s) - i + 1 \in 1..Len(s) /\ r[Len(s) - i + 1] = s[i] /\ r[i] = s[Len(s) - i + 1]
        BY <1>3, <1>9
      <3> QED BY <1>1, <1>6, <3>1 DEF ToSet
    <2>2. \A k \in ToSet(r) : \E i \in 1..Len(s) : k = r[i]
      BY <1>6 DEF ToSet
    <2>3. \A k \in ToSet(s) : \E i \in 1..Len(s) : k = s[i]
      BY <1>1 DEF ToSet
    <2> QED BY <2>1, <2>2, <2>3
  <1>12. Reverse(r) = s
    <2>1. Reverse(r) = [i \in 1..Len(s) |-> r[Len(s) - i + 1]]
      BY <1>6 DEF Reverse
    <2>2. \A i \in 1..Len(s) : r[Len(s) - i + 1] = s[i]
      BY <1>3, <1>9
    <2>3. s = [i \in 1..Len(s) |-> s[i]]
      BY <1>1
    <2> QED BY <2>1, <2>2, <2>3
  <1> QED BY <1>2, <1>3, <1>6, <1>7, <1>8, <1>9, <1>10, <1>11, <1>12 DEF Strand

\* Knots are linked in both directions.
LEMMA LinkedBack ==
  ASSUME NEW n \in Nat, NEW w, NEW s, Strand(n, s), Linked(w, s, 1)
  PROVE  Linked(w, Reverse(s), 1)
  <1>1. Len(s) \in Nat
    BY StrandShape
  <1>2. PICK r : r = Reverse(s)
    OBVIOUS
  <1>3. /\ Len(r) = Len(s)
        /\ \A i \in 1..Len(s) : /\ Len(s) - i + 1 \in 1..Len(s)
                                /\ r[i] = s[Len(s) - i + 1]
                                /\ Prev(r, i) = After(s, Len(s) - i + 1)
                                /\ After(r, i) = Prev(s, Len(s) - i + 1)
    BY <1>2, ReverseShape
  <1>4. ASSUME NEW i \in 1..Len(s) PROVE w[r[i]] = Prev(r, i) \cup After(r, i)
    <2>1. PICK j \in 1..Len(s) : j = Len(s) - i + 1
      BY <1>3
    <2>2. w[s[j]] = Prev(s, j) \cup After(s, j)
      BY DEF Linked
    <2>3. r[i] = s[j] /\ Prev(r, i) = After(s, j) /\ After(r, i) = Prev(s, j)
      BY <1>3, <2>1
    <2> QED BY <2>2, <2>3
  <1> QED BY <1>2, <1>3, <1>4 DEF Linked

\* Both directions of a string are alike.
LEMMA EitherWay ==
  ASSUME NEW n, NEW w, NEW G, Woven(n, w, G), NEW s \in TwoWays(G)
  PROVE  /\ Strand(n, s) /\ Linked(w, s, 1)
         /\ Reverse(s) \in TwoWays(G) /\ Reverse(Reverse(s)) = s
         /\ s \in G \/ Reverse(s) \in G
  <1>1. n \in Nat /\ \A s2 \in G : Strand(n, s2) /\ Linked(w, s2, 1)
    BY DEF Woven
  <1>2. CASE s \in G
    BY <1>1, <1>2, ReverseShape DEF TwoWays
  <1>3. CASE s \notin G
    <2>1. PICK s2 \in G : s = Reverse(s2)
      BY <1>3 DEF TwoWays
    <2>2. Strand(n, s2) /\ Linked(w, s2, 1)
      BY <1>1
    <2>3. Strand(n, s) /\ Reverse(s) = s2
      BY <1>1, <2>1, <2>2, ReverseShape
    <2>4. Linked(w, s, 1)
      BY <1>1, <2>1, <2>2, LinkedBack
    <2> QED BY <2>1, <2>3, <2>4 DEF TwoWays
  <1> QED BY <1>2, <1>3

\* Two strings are one, in one or the other direction, or have no knot in common.
LEMMA Apart ==
  ASSUME NEW n, NEW w, NEW G, Woven(n, w, G), NEW s \in TwoWays(G), NEW s2 \in TwoWays(G)
  PROVE  s2 \in {s, Reverse(s)} \/ ToSet(s) \cap ToSet(s2) = {}
  <1>1. /\ n \in Nat /\ \A x \in G : Strand(n, x)
        /\ \A x, y \in G : x = y \/ ToSet(x) \cap ToSet(y) = {}
    BY DEF Woven
  <1>2. ASSUME NEW x \in TwoWays(G)
        PROVE  \E y \in G : x \in {y, Reverse(y)} /\ ToSet(x) = ToSet(y) /\ Reverse(Reverse(y)) = y
    <2>1. PICK y \in G : x \in {y, Reverse(y)}
      BY DEF TwoWays
    <2>2. ToSet(Reverse(y)) = ToSet(y) /\ Reverse(Reverse(y)) = y
      BY <1>1, ReverseShape
    <2> QED BY <2>1, <2>2
  <1>3. PICK x \in G : s \in {x, Reverse(x)} /\ ToSet(s) = ToSet(x) /\ Reverse(Reverse(x)) = x
    BY <1>2
  <1>4. PICK y \in G : s2 \in {y, Reverse(y)} /\ ToSet(s2) = ToSet(y)
    BY <1>2
  <1>5. CASE x = y
    BY <1>3, <1>4, <1>5
  <1>6. CASE x # y
    BY <1>1, <1>3, <1>4, <1>6
  <1> QED BY <1>5, <1>6

\* So any of them may be taken in its other direction.
LEMMA Faced ==
  ASSUME NEW n, NEW w, NEW G, Woven(n, w, G), NEW s \in TwoWays(G)
  PROVE  \E F : Woven(n, w, F) /\ s \in F /\ G \ {Reverse(s)} \subseteq F /\ TwoWays(F) = TwoWays(G)
  <1>1. Strand(n, s) /\ Linked(w, s, 1) /\ Reverse(Reverse(s)) = s /\ (s \in G \/ Reverse(s) \in G)
    BY EitherWay
  <1>2. n \in Nat
    BY DEF Woven
  <1>3. CASE s \in G
    BY <1>3
  <1>4. CASE Reverse(s) \in G
    <2>1. PICK r : r = Reverse(s)
      OBVIOUS
    <2> DEFINE F == (G \ {r}) \cup {s}
    <2>2. ToSet(s) = ToSet(r) /\ Reverse(r) = s /\ r \in G
      BY <1>1, <1>2, <1>4, <2>1, ReverseShape
    <2>3. \A x \in F : Strand(n, x) /\ Linked(w, x, 1)
      BY <1>1 DEF Woven
    <2>4. ASSUME NEW x \in F, NEW y \in F PROVE x = y \/ ToSet(x) \cap ToSet(y) = {}
      <3>1. \A a, b \in G : a = b \/ ToSet(a) \cap ToSet(b) = {}
        BY DEF Woven
      <3>2. \A a \in F : a = s \/ (a \in G /\ a # r)
        OBVIOUS
      <3> QED BY <2>2, <3>1, <3>2
    <2>5. ASSUME NEW k \in 1..n PROVE \E x \in F : k \in ToSet(x)
      <3>1. PICK x \in G : k \in ToSet(x)
        BY DEF Woven
      <3> QED BY <2>2, <3>1
    <2>6. TwoWays(F) = TwoWays(G)
      <3>1. ASSUME NEW x PROVE x \in TwoWays(F) => x \in TwoWays(G)
        BY <2>1, <2>2 DEF TwoWays
      <3>2. ASSUME NEW x PROVE x \in TwoWays(G) => x \in TwoWays(F)
        BY <2>1, <2>2 DEF TwoWays
      <3> QED BY <3>1, <3>2
    <2>7. n \in Nat /\ w \in [1..n -> SUBSET (1..n)]
      BY DEF Woven
    <2>8. Woven(n, w, F)
      BY <2>3, <2>4, <2>5, <2>7 DEF Woven
    <2>9. s \in F /\ G \ {Reverse(s)} \subseteq F
      BY <2>1
    <2> QED BY <2>6, <2>8, <2>9
  <1> QED BY <1>1, <1>3, <1>4

\* A walk from any knot of a string, in either direction, goes along it.
LEMMA WalkAlong ==
  ASSUME NEW n, NEW w, NEW G, Woven(n, w, G), NEW s \in TwoWays(G), NEW i \in 1..Len(s)
  PROVE  lsknots(w, Prev(s, i), {s[i]}) = Route(s, i)
  <1>1. n \in Nat /\ DOMAIN w = 1..n /\ Strand(n, s) /\ Linked(w, s, 1)
    BY EitherWay DEF Woven
  <1>2. Linked(w, s, i)
    <2>1. Len(s) \in Nat
      BY <1>1, StrandShape
    <2>2. \A j \in i..Len(s) : j \in 1..Len(s)
      BY <2>1
    <2> QED BY <1>1, <2>2 DEF Linked
  <1> QED BY <1>1, <1>2, Walking

\* A knot with less than two neighbours is at an end.
LEMMA EndKnots ==
  ASSUME NEW n, NEW w, NEW G, Woven(n, w, G), NEW k
  PROVE  k \in Ends(w) <=> \E s \in TwoWays(G) : s[1] = k
  <1>1. n \in Nat /\ DOMAIN w = 1..n
    BY DEF Woven
  <1>2. ASSUME NEW s \in TwoWays(G) PROVE s[1] \in Ends(w)
    <2>1. Strand(n, s) /\ Linked(w, s, 1)
      BY EitherWay
    <2>2. Len(s) \in Nat /\ Len(s) >= 1 /\ \A i \in 1..Len(s) : s[i] \in 1..n
      BY <1>1, <2>1, StrandShape
    <2>3. 1 \in 1..Len(s)
      BY <2>2
    <2>4. w[s[1]] = After(s, 1)
      BY <2>1, <2>3 DEF Linked, Prev
    <2>5. Cardinality(w[s[1]]) <= 1
      <3>1. CASE Len(s) = 1
        BY <2>4, <3>1, FS_EmptySet DEF After
      <3>2. CASE Len(s) # 1
        <4>1. w[s[1]] = {s[1 + 1]}
          BY <2>4, <3>2 DEF After
        <4>2. Cardinality({s[1 + 1]}) = 1
          BY FS_Singleton
        <4> QED BY <4>1, <4>2
      <3> QED BY <3>1, <3>2
    <2> QED BY <1>1, <2>2, <2>3, <2>5 DEF Ends
  <1>3. ASSUME k \in Ends(w) PROVE \E s \in TwoWays(G) : s[1] = k
    <2>1. k \in 1..n /\ Cardinality(w[k]) <= 1
      BY <1>1, <1>3 DEF Ends
    <2>2. PICK s \in G : k \in ToSet(s)
      BY <2>1 DEF Woven
    <2>3. Strand(n, s) /\ Linked(w, s, 1) /\ s \in TwoWays(G) /\ Reverse(s) \in TwoWays(G)
      BY EitherWay DEF TwoWays, Woven
    <2>4. /\ Len(s) \in Nat /\ Len(s) >= 1 /\ DOMAIN s = 1..Len(s)
          /\ \A i, j \in 1..Len(s) : s[i] = s[j] => i = j
      BY <1>1, <2>3, StrandShape
    <2>5. PICK i \in 1..Len(s) : k = s[i]
      BY <2>2, <2>4 DEF ToSet
    <2>6. CASE i = 1
      BY <2>3, <2>5, <2>6
    <2>7. CASE i = Len(s)
      <3>1. 1 \in 1..Len(s) /\ Len(s) - 1 + 1 = i
        BY <2>4, <2>7
      <3>2. Reverse(s)[1] = s[i]
        BY <1>1, <2>3, <3>1, ReverseShape
      <3> QED BY <2>3, <2>5, <3>2
    <2>8. CASE i # 1 /\ i # Len(s)
      <3>0. Len(s) \in Nat /\ i \in Int /\ 1 <= i /\ i <= Len(s)
        BY <2>4
      <3>1. i - 1 \in 1..Len(s) /\ i + 1 \in 1..Len(s) /\ i - 1 # i + 1
        BY ONLY <2>8, <3>0
      <3>2. w[k] = {s[i - 1]} \cup {s[i + 1]}
        BY <2>3, <2>5, <2>8 DEF Linked, Prev, After
      <3>3. PICK a, b : a = s[i - 1] /\ b = s[i + 1]
        OBVIOUS
      <3>4. a # b
        BY <2>4, <3>1, <3>3
      <3>5. IsFiniteSet({a}) /\ Cardinality({a}) = 1
        BY FS_Singleton
      <3>6. Cardinality({a} \cup {b}) = IF b \in {a} THEN Cardinality({a}) ELSE Cardinality({a}) + 1
        BY ONLY <3>5, FS_AddElement
      <3>7. Cardinality(w[k]) = 2
        BY <3>2, <3>3, <3>4, <3>5, <3>6
      <3> QED BY <2>1, <3>7
    <2> QED BY <2>6, <2>7, <2>8
  <1> QED BY <1>2, <1>3

\* What a walk comes by, as knots, is the string from there.
LEMMA RouteKnots ==
  ASSUME NEW n \in Nat, NEW s, Strand(n, s), NEW i \in 1..Len(s), NEW m \in 1..(Len(s) - i + 1)
  PROVE  /\ i + m - 1 \in 1..Len(s)
         /\ Route(s, i)[m] = Stop(s, i + m - 1)
         /\ as_knot(Route(s, i)[m].k) = s[i + m - 1]
  <1>1. Len(s) \in Nat
    BY StrandShape
  <1>2. Route(s, i)[m] = Stop(s, i + m - 1)
    BY RouteShape
  <1>3. i \in Int /\ m \in Int /\ 1 <= i /\ i <= Len(s) /\ 1 <= m /\ m <= Len(s) - i + 1
    BY <1>1
  <1>4. i + m - 1 \in 1..Len(s)
    BY ONLY <1>1, <1>3
  <1>5. PICK x : x = i + m - 1
    OBVIOUS
  <1>6. Stop(s, x).k = {s[x]} /\ as_knot({s[x]}) = s[x]
    BY Handled DEF Stop
  <1> QED BY <1>2, <1>4, <1>5, <1>6

\* A walk from the end of a list reads the whole string.
LEMMA FromEnd ==
  ASSUME NEW n, NEW w, NEW G, Woven(n, w, G), NEW s \in TwoWays(G)
  PROVE  /\ lsknots(w, {}, {s[1]}) = Route(s, 1)
         /\ s = [i \in DOMAIN Route(s, 1) |-> as_knot(Route(s, 1)[i].k)]
  <1>1. n \in Nat /\ Strand(n, s)
    BY EitherWay DEF Woven
  <1>2. Len(s) \in Nat /\ Len(s) >= 1 /\ DOMAIN s = 1..Len(s) /\ s \in Seq(1..n)
    BY <1>1, StrandShape
  <1>3. 1 \in 1..Len(s) /\ Prev(s, 1) = {}
    BY <1>2 DEF Prev
  <1>4. lsknots(w, {}, {s[1]}) = Route(s, 1)
    BY <1>3, WalkAlong
  <1>5. DOMAIN Route(s, 1) = 1..(Len(s) - 1 + 1)
    BY <1>1, <1>3, RouteShape
  <1>6. Len(s) - 1 + 1 = Len(s)
    BY <1>2
  <1>7. ASSUME NEW i \in 1..Len(s) PROVE as_knot(Route(s, 1)[i].k) = s[i]
    <2>1. i \in 1..(Len(s) - 1 + 1) /\ 1 + i - 1 = i
      BY <1>2
    <2>2. as_knot(Route(s, 1)[i].k) = s[1 + i - 1]
      BY <1>1, <1>3, <2>1, RouteKnots
    <2> QED BY <2>1, <2>2
  <1>8. s = [i \in 1..Len(s) |-> s[i]]
    BY <1>2
  <1> QED BY <1>4, <1>5, <1>6, <1>7, <1>8

\* The strings that walks find are these.
LEMMA StringsAre ==
  ASSUME NEW n, NEW w, NEW G, Woven(n, w, G)
  PROVE  Strings(w) = TwoWays(G)
  <1> DEFINE Read(k) == [i \in DOMAIN lsknots(w, {}, {k}) |-> as_knot(lsknots(w, {}, {k})[i].k)]
  <1>1. ASSUME NEW s \in TwoWays(G) PROVE Read(s[1]) = s /\ s[1] \in Ends(w)
    BY FromEnd, EndKnots
  <1>2. ASSUME NEW k \in Ends(w) PROVE Read(k) \in TwoWays(G)
    <2>1. PICK s \in TwoWays(G) : s[1] = k
      BY EndKnots
    <2> QED BY <1>1, <2>1
  <1>3. Strings(w) = {Read(k) : k \in Ends(w)}
    BY DEF Strings
  <1> HIDE DEF Read
  <1> QED BY <1>1, <1>2, <1>3

\* The positions of lists are those on their strings.
LEMMA PositionsAre ==
  ASSUME NEW n, NEW w, NEW G, Woven(n, w, G), NEW p
  PROVE  p \in Positions(w) <=> \E s \in TwoWays(G) : \E i \in 1..Len(s) : p = Stop(s, i)
  <1>1. ASSUME NEW s \in TwoWays(G)
        PROVE  p \in ToSet(lsknots(w, {}, {s[1]})) <=> \E i \in 1..Len(s) : p = Stop(s, i)
    <2>1. n \in Nat /\ Strand(n, s)
      BY EitherWay DEF Woven
    <2>2. Len(s) \in Nat /\ Len(s) >= 1
      BY <2>1, StrandShape
    <2>3. 1 \in 1..Len(s) /\ Len(s) - 1 + 1 = Len(s) /\ \A i \in 1..Len(s) : 1 + i - 1 = i
      BY <2>2
    <2>4. /\ DOMAIN Route(s, 1) = 1..(Len(s) - 1 + 1)
          /\ \A m \in 1..(Len(s) - 1 + 1) : Route(s, 1)[m] = Stop(s, 1 + m - 1)
      BY <2>1, <2>3, RouteShape
    <2>5. lsknots(w, {}, {s[1]}) = Route(s, 1)
      BY FromEnd
    <2> QED BY <2>3, <2>4, <2>5 DEF ToSet
  <1>2. p \in Positions(w) <=> \E k \in Ends(w) : p \in ToSet(lsknots(w, {}, {k}))
    BY DEF Positions
  <1>3. ASSUME p \in Positions(w) PROVE \E s \in TwoWays(G) : \E i \in 1..Len(s) : p = Stop(s, i)
    <2>1. PICK k \in Ends(w) : p \in ToSet(lsknots(w, {}, {k}))
      BY <1>2, <1>3
    <2>2. PICK s \in TwoWays(G) : s[1] = k
      BY EndKnots
    <2> QED BY <1>1, <2>1, <2>2
  <1>4. ASSUME NEW s \in TwoWays(G), NEW i \in 1..Len(s), p = Stop(s, i) PROVE p \in Positions(w)
    <2>1. s[1] \in Ends(w)
      BY EndKnots
    <2> QED BY <1>1, <1>2, <1>4, <2>1
  <1> QED BY <1>3, <1>4

\* The bead from the i-th knot to the j-th.
Part(s, i, j) == [pre |-> Prev(s, i), fst |-> {s[i]}, lst |-> {s[j]}]

\* A bead is a part of a string.
LEMMA BeadsAre ==
  ASSUME NEW n, NEW w, NEW G, Woven(n, w, G), NEW b \in Beads(w)
  PROVE  \E s \in TwoWays(G) : \E i, j \in 1..Len(s) : i <= j /\ b = Part(s, i, j)
  <1>1. PICK p \in Positions(w) : \E q \in ToSet(lsknots(w, p.pre, p.k)) :
          b = [pre |-> p.pre, fst |-> p.k, lst |-> q.k]
    BY DEF Beads
  <1>2. PICK q \in ToSet(lsknots(w, p.pre, p.k)) : b = [pre |-> p.pre, fst |-> p.k, lst |-> q.k]
    BY <1>1
  <1>3. PICK s \in TwoWays(G) : \E i \in 1..Len(s) : p = Stop(s, i)
    BY PositionsAre
  <1>4. PICK i \in 1..Len(s) : p = Stop(s, i)
    BY <1>3
  <1>5. n \in Nat /\ Strand(n, s)
    BY EitherWay DEF Woven
  <1>6. p.pre = Prev(s, i) /\ p.k = {s[i]}
    BY <1>4 DEF Stop
  <1>7. lsknots(w, p.pre, p.k) = Route(s, i)
    BY <1>6, WalkAlong
  <1>8. DOMAIN Route(s, i) = 1..(Len(s) - i + 1)
    BY <1>5, RouteShape
  <1>9. PICK m \in 1..(Len(s) - i + 1) : q = Route(s, i)[m]
    BY <1>2, <1>7, <1>8 DEF ToSet
  <1>10. i + m - 1 \in 1..Len(s) /\ Route(s, i)[m] = Stop(s, i + m - 1)
    BY <1>5, RouteKnots
  <1>11. i <= i + m - 1
    OBVIOUS
  <1>12. q.k = {s[i + m - 1]}
    BY <1>9, <1>10 DEF Stop
  <1>13. b = Part(s, i, i + m - 1)
    BY <1>2, <1>6, <1>12 DEF Part
  <1> QED BY <1>10, <1>11, <1>13

\* What is read off a bead: its knots and where its last one is.
LEMMA BeadRead ==
  ASSUME NEW n, NEW w, NEW G, Woven(n, w, G), NEW s \in TwoWays(G),
         NEW i \in 1..Len(s), NEW j \in 1..Len(s), i <= j
  PROVE  /\ Of(w, Part(s, i, j)) = [m \in 1..(j - i + 1) |-> s[i + m - 1]]
         /\ LastOf(w, Part(s, i, j)) = Stop(s, j)
  <1>1. n \in Nat /\ Strand(n, s)
    BY EitherWay DEF Woven
  <1>2. Len(s) \in Nat /\ \A a, c \in 1..Len(s) : s[a] = s[c] => a = c
    BY <1>1, StrandShape
  <1>3. PICK b : b = Part(s, i, j)
    OBVIOUS
  <1>4. b.pre = Prev(s, i) /\ b.fst = {s[i]} /\ b.lst = {s[j]}
    BY <1>3 DEF Part
  <1>5. PICK r : r = Route(s, i)
    OBVIOUS
  <1>6. lsknots(w, b.pre, b.fst) = r
    BY <1>4, <1>5, WalkAlong
  <1>7. DOMAIN r = 1..(Len(s) - i + 1)
    BY <1>1, <1>5, RouteShape
  <1>8. \A m \in 1..(Len(s) - i + 1) : /\ i + m - 1 \in 1..Len(s)
                                      /\ r[m] = Stop(s, i + m - 1)
                                      /\ as_knot(r[m].k) = s[i + m - 1]
                                      /\ r[m].k = {s[i + m - 1]}
    BY <1>1, <1>5, RouteKnots DEF Stop
  <1>9. j - i + 1 \in 1..(Len(s) - i + 1) /\ i + (j - i + 1) - 1 = j
    <2>1. i \in Int /\ j \in Int /\ 1 <= i /\ i <= j /\ j <= Len(s) /\ Len(s) \in Nat
      BY <1>2
    <2> QED BY ONLY <2>1
  <1>10. \A m \in 1..(Len(s) - i + 1) : r[m].k = b.lst <=> m = j - i + 1
    <2> TAKE m \in 1..(Len(s) - i + 1)
    <2>1. r[m].k = b.lst <=> s[i + m - 1] = s[j]
      BY <1>4, <1>8
    <2>2. s[i + m - 1] = s[j] <=> i + m - 1 = j
      BY <1>2, <1>8
    <2>3. i \in Int /\ j \in Int /\ m \in Int
      OBVIOUS
    <2>4. i + m - 1 = j <=> m = j - i + 1
      BY ONLY <2>3
    <2> QED BY <2>1, <2>2, <2>4
  <1>11. (CHOOSE m \in DOMAIN r : r[m].k = b.lst) = j - i + 1
    BY <1>7, <1>9, <1>10
  <1>12. Of(w, b) = [m \in 1..(j - i + 1) |-> s[i + m - 1]]
    <2>1. Of(w, b) = [m \in 1..(j - i + 1) |-> as_knot(r[m].k)]
      BY <1>6, <1>11 DEF Of
    <2>2. \A m \in 1..(j - i + 1) : m \in 1..(Len(s) - i + 1)
      BY <1>2
    <2> QED BY <1>8, <2>1, <2>2
  <1>13. {m \in DOMAIN r : r[m].k = b.lst} = {j - i + 1}
    BY <1>7, <1>9, <1>10
  <1>14. Min({j - i + 1}) = j - i + 1
    <2>1. PICK l \in Int : l = j - i + 1
      OBVIOUS
    <2>2. l \in {l} /\ \A y \in {l} : l <= y
      OBVIOUS
    <2>3. Min({l}) = l
      BY <2>2 DEF Min
    <2> QED BY <2>1, <2>3
  <1>15. LastOf(w, b) = r[j - i + 1]
    <2>1. {j - i + 1} # {}
      OBVIOUS
    <2> QED BY <1>6, <1>13, <1>14, <2>1 DEF LastOf
  <1> QED BY <1>3, <1>8, <1>9, <1>12, <1>15

\* lsend comes to the last knot of the string.
LEMMA EndIs ==
  ASSUME NEW n, NEW w, NEW G, Woven(n, w, G), NEW s \in TwoWays(G), NEW i \in 1..Len(s)
  PROVE  lsend(w, Prev(s, i), {s[i]}) = Stop(s, Len(s))
  <1>1. n \in Nat /\ Strand(n, s)
    BY EitherWay DEF Woven
  <1>2. Len(s) \in Nat
    BY <1>1, StrandShape
  <1>3. Len(Route(s, i)) = Len(s) - i + 1
    BY <1>1, RouteShape
  <1>4. i \in Int /\ 1 <= i /\ i <= Len(s)
    BY <1>2
  <1>5. Len(s) - i + 1 \in 1..(Len(s) - i + 1) /\ i + (Len(s) - i + 1) - 1 = Len(s)
    BY ONLY <1>2, <1>4
  <1>6. Route(s, i)[Len(s) - i + 1] = Stop(s, i + (Len(s) - i + 1) - 1)
    BY <1>1, <1>5, RouteKnots
  <1>7. lsend(w, Prev(s, i), {s[i]}) = Last(Route(s, i))
    BY WalkAlong DEF lsend
  <1> QED BY <1>3, <1>5, <1>6, <1>7 DEF Last

\* An independent bead is a whole string.
LEMMA IndependentAre ==
  ASSUME NEW n, NEW w, NEW G, Woven(n, w, G), NEW b \in Independent(w)
  PROVE  \E s \in TwoWays(G) : b = Part(s, 1, Len(s))
  <1>1. PICK k \in Ends(w) : b = [pre |-> {}, fst |-> {k}, lst |-> lsend(w, {}, {k}).k]
    BY DEF Independent
  <1>2. PICK s \in TwoWays(G) : s[1] = k
    BY EndKnots
  <1>3. n \in Nat /\ Strand(n, s)
    BY EitherWay DEF Woven
  <1>4. 1 \in 1..Len(s) /\ Prev(s, 1) = {}
    BY <1>3, StrandShape DEF Prev
  <1>5. lsend(w, {}, {k}) = Stop(s, Len(s))
    BY <1>2, <1>4, EndIs
  <1>6. lsend(w, {}, {k}).k = {s[Len(s)]}
    BY <1>5 DEF Stop
  <1> QED BY <1>1, <1>2, <1>4, <1>6 DEF Part

\* A position is on one string in one direction.
LEMMA AlongIs ==
  ASSUME NEW n, NEW w, NEW G, Woven(n, w, G), NEW s \in TwoWays(G), NEW i \in 1..Len(s)
  PROVE  Along(w, Stop(s, i)) = s
  <1> DEFINE On(s2) == \E j \in DOMAIN s2 : /\ Stop(s, i).k = {s2[j]}
                                          /\ Stop(s, i).pre = IF j = 1 THEN {} ELSE {s2[j - 1]}
  <1>1. n \in Nat /\ Strand(n, s)
    BY EitherWay DEF Woven
  <1>2. /\ Len(s) \in Nat /\ DOMAIN s = 1..Len(s)
        /\ \A a, c \in 1..Len(s) : s[a] = s[c] => a = c
    BY <1>1, StrandShape
  <1>3. On(s)
    BY <1>2 DEF Stop, Prev
  <1>4. ASSUME NEW s2 \in TwoWays(G), On(s2) PROVE s2 = s
    <2>1. PICK j \in DOMAIN s2 : {s[i]} = {s2[j]} /\ Prev(s, i) = IF j = 1 THEN {} ELSE {s2[j - 1]}
      BY <1>4 DEF Stop
    <2>2. s[i] = s2[j]
      BY <2>1
    <2>3. s[i] \in ToSet(s) /\ s[i] \in ToSet(s2)
      BY <1>2, <2>2 DEF ToSet
    <2>4. s2 \in {s, Reverse(s)}
      BY <2>3, Apart
    <2>5. CASE s2 = Reverse(s)
      <3>1. Strand(n, s2) /\ Len(s2) = Len(s)
        BY <1>1, <2>5, ReverseShape
      <3>2. j \in 1..Len(s)
        BY <1>1, <3>1, StrandShape
      <3>3. PICK l \in 1..Len(s) : l = Len(s) - j + 1 /\ s2[j] = s[l] /\ Prev(s2, j) = After(s, l)
        BY <1>1, <2>5, <3>2, ReverseShape
      <3>4. l = i
        BY <1>2, <2>2, <3>3
      <3>5. Prev(s, i) = After(s, i)
        BY <2>1, <3>3, <3>4 DEF Prev
      <3>6. Prev(s, i) \cap After(s, i) = {}
        <4>1. \A a, c \in 1..Len(s) : s[a] = s[c] => a = c
          BY <1>2
        <4>2. Len(s) \in Nat /\ i \in Int /\ 1 <= i /\ i <= Len(s)
          BY <1>2
        <4>3. i # 1 /\ i # Len(s) => i - 1 \in 1..Len(s) /\ i + 1 \in 1..Len(s) /\ i - 1 # i + 1
          BY ONLY <4>2
        <4> QED BY <4>1, <4>3 DEF Prev, After
      <3>7. Prev(s, i) = {} /\ After(s, i) = {}
        BY <3>5, <3>6
      <3>8. i = 1 /\ i = Len(s)
        BY <3>7 DEF Prev, After
      <3>9. Len(s) = 1
        BY <3>8
      <3>10. s2[1] = s[1]
        BY <2>2, <3>2, <3>8, <3>9
      <3>11. s \in Seq(1..n) /\ s2 \in Seq(1..n)
        BY <1>1, <3>1 DEF Strand
      <3> QED BY <3>1, <3>9, <3>10, <3>11, SeqEqual
    <2> QED BY <2>4, <2>5
  <1>5. Strings(w) = TwoWays(G)
    BY StringsAre
  <1>6. Along(w, Stop(s, i)) = CHOOSE s2 \in TwoWays(G) : On(s2)
    BY <1>5 DEF Along
  <1> HIDE DEF On
  <1>7. \A s2 \in TwoWays(G) : On(s2) => s2 = s
    BY <1>4
  <1> QED BY <1>3, <1>6, <1>7

\* The lists of such knots are strings.
LEMMA WovenStrings ==
  ASSUME NEW n, NEW w, NEW G, Woven(n, w, G)
  PROVE  IsStrings(w)
  <1>1. Strings(w) = TwoWays(G)
    BY StringsAre
  <1>2. n \in Nat /\ DOMAIN w = 1..n
    BY DEF Woven
  <1>3. \A s \in TwoWays(G) : IsInjective(s) /\ Reverse(s) \in TwoWays(G)
    BY EitherWay DEF Strand
  <1>4. ASSUME NEW k \in DOMAIN w
        PROVE  \E s \in TwoWays(G) : k \in ToSet(s) /\ \A s2 \in TwoWays(G) \ TwoWays({s}) : k \notin ToSet(s2)
    <2>1. PICK s \in G : k \in ToSet(s)
      BY <1>2 DEF Woven
    <2>2. s \in TwoWays(G) /\ TwoWays({s}) = {s, Reverse(s)}
      BY DEF TwoWays
    <2>3. \A s2 \in TwoWays(G) : s2 \in {s, Reverse(s)} \/ ToSet(s) \cap ToSet(s2) = {}
      BY <2>2, Apart
    <2> QED BY <2>1, <2>2, <2>3
  <1>5. ASSUME NEW s \in TwoWays(G), NEW i \in DOMAIN s
        PROVE  w[s[i]] = {s[j] : j \in {i - 1, i + 1} \cap DOMAIN s}
    <2>1. Strand(n, s) /\ Linked(w, s, 1)
      BY EitherWay
    <2>2. Len(s) \in Nat /\ DOMAIN s = 1..Len(s)
      BY <1>2, <2>1, StrandShape
    <2>3. w[s[i]] = Prev(s, i) \cup After(s, i)
      BY <2>1, <2>2 DEF Linked
    <2>4. i \in Int /\ 1 <= i /\ i <= Len(s)
      BY <2>2
    <2>5. (i - 1 \in 1..Len(s) <=> i # 1) /\ (i + 1 \in 1..Len(s) <=> i # Len(s))
      BY ONLY <2>2, <2>4
    <2>6. \A x : x \in Prev(s, i) <=> i - 1 \in 1..Len(s) /\ x = s[i - 1]
      BY <2>5 DEF Prev
    <2>7. \A x : x \in After(s, i) <=> i + 1 \in 1..Len(s) /\ x = s[i + 1]
      BY <2>5 DEF After
    <2>8. \A x : x \in {s[j] : j \in {i - 1, i + 1} \cap DOMAIN s} <=>
                 (i - 1 \in 1..Len(s) /\ x = s[i - 1]) \/ (i + 1 \in 1..Len(s) /\ x = s[i + 1])
      BY <2>2
    <2> QED BY <2>3, <2>6, <2>7, <2>8
  <1> QED BY <1>1, <1>3, <1>4, <1>5 DEF IsStrings

\* A knot, or none, that stores one neighbour for another beside A.
Swappable(n, u, h, old, new, A) ==
  /\ u \in [1..n -> SUBSET (1..n)]
  /\ h \in SUBSET (1..n) /\ old \in SUBSET (1..n) /\ new \in SUBSET (1..n)
  /\ \A k \in h : h = {k} /\ u[k] = A \cup old /\ A \cap old = {} /\ A \cap new = {}

\* y has the new neighbour in its place.
Swapped(n, u, h, A, new, y) ==
  /\ y \in [1..n -> SUBSET (1..n)]
  /\ \A k \in 1..n : y[k] = IF k \in h THEN A \cup new ELSE u[k]

\* replace_neighbor changes this one knot and gives it the other neighbour.
LEMMA Replaced ==
  ASSUME NEW n, NEW u, NEW h, NEW old, NEW new, NEW A, Swappable(n, u, h, old, new, A)
  PROVE  Swapped(n, u, h, A, new, replace_neighbor(u, h, old, new))
  <1>0. /\ u \in [1..n -> SUBSET (1..n)]
        /\ h \in SUBSET (1..n) /\ old \in SUBSET (1..n) /\ new \in SUBSET (1..n)
        /\ \A k \in h : h = {k} /\ u[k] = A \cup old /\ A \cap old = {} /\ A \cap new = {}
    BY DEF Swappable
  <1>1. CASE h = {}
    BY <1>0, <1>1 DEF replace_neighbor, Swapped
  <1>2. CASE h # {}
    <2>1. PICK k \in 1..n : h = {k}
      BY <1>0, <1>2
    <2>2. replace_neighbor(u, h, old, new) = [u EXCEPT ![k] = Xor(u[k], Xor(old, new))]
      BY <2>1, Handled DEF replace_neighbor
    <2>3. u[k] = A \cup old /\ A \cap old = {} /\ A \cap new = {}
      BY <1>0, <2>1
    <2>4. Xor(u[k], Xor(old, new)) = A \cup new
      BY <2>3 DEF Xor
    <2>5. A \cup new \in SUBSET (1..n)
      <3>1. u[k] \in SUBSET (1..n)
        BY <1>0
      <3> QED BY <1>0, <2>3, <3>1
    <2>6. replace_neighbor(u, h, old, new) = [u EXCEPT ![k] = A \cup new]
      BY <2>2, <2>4
    <2>7. \A x : x \in h <=> x = k
      BY <2>1
    <2> QED BY <1>0, <2>5, <2>6, <2>7 DEF Swapped
  <1> QED BY <1>1, <1>2

\* Some strings are taken apart and others made of their knots.
LEMMA Rewoven ==
  ASSUME NEW n, NEW w, NEW G, Woven(n, w, G), NEW D \in SUBSET G, NEW E,
         NEW u \in [1..n -> SUBSET (1..n)],
         \A k \in 1..n : (\A s \in D : k \notin ToSet(s)) => u[k] = w[k],
         \A s \in E : Strand(n, s) /\ Linked(u, s, 1),
         \A s, s2 \in E : s = s2 \/ ToSet(s) \cap ToSet(s2) = {},
         \A s \in E : \A k \in ToSet(s) : \E s2 \in D : k \in ToSet(s2),
         \A s2 \in D : \A k \in ToSet(s2) : \E s \in E : k \in ToSet(s)
  PROVE  Woven(n, u, (G \ D) \cup E)
  <1>1. /\ n \in Nat
        /\ \A s \in G : Strand(n, s) /\ Linked(w, s, 1)
        /\ \A s, s2 \in G : s = s2 \/ ToSet(s) \cap ToSet(s2) = {}
        /\ \A k \in 1..n : \E s \in G : k \in ToSet(s)
    BY DEF Woven
  <1>2. ASSUME NEW s \in G \ D PROVE Linked(u, s, 1)
    <2>1. Strand(n, s) /\ Linked(w, s, 1)
      BY <1>1
    <2>2. DOMAIN s = 1..Len(s) /\ \A i \in 1..Len(s) : s[i] \in 1..n
      BY <1>1, <2>1, StrandShape
    <2>3. ASSUME NEW i \in 1..Len(s) PROVE u[s[i]] = w[s[i]]
      <3>1. s[i] \in ToSet(s)
        BY <2>2 DEF ToSet
      <3>2. \A s2 \in D : s2 \in G /\ s2 # s
        OBVIOUS
      <3>3. \A s2 \in D : s[i] \notin ToSet(s2)
        BY <1>1, <3>1, <3>2
      <3> QED BY <2>2, <3>3
    <2> QED BY <2>1, <2>3 DEF Linked
  <1>3. ASSUME NEW s \in (G \ D) \cup E, NEW s2 \in (G \ D) \cup E, s # s2
        PROVE  ToSet(s) \cap ToSet(s2) = {}
    <2>1. ASSUME NEW x \in G \ D, NEW y \in E PROVE ToSet(x) \cap ToSet(y) = {}
      <3>1. SUFFICES ASSUME NEW k \in ToSet(x), k \in ToSet(y) PROVE FALSE
        OBVIOUS
      <3>2. PICK z \in D : k \in ToSet(z)
        BY <3>1
      <3>3. z \in G /\ z # x
        OBVIOUS
      <3> QED BY <1>1, <3>1, <3>2, <3>3
    <2>2. CASE s \in G \ D /\ s2 \in G \ D
      BY <1>1, <1>3, <2>2
    <2>3. CASE s \in E /\ s2 \in E
      BY <1>3, <2>3
    <2> QED BY <2>1, <2>2, <2>3
  <1>4. ASSUME NEW k \in 1..n PROVE \E s \in (G \ D) \cup E : k \in ToSet(s)
    <2>1. PICK s \in G : k \in ToSet(s)
      BY <1>1
    <2> QED BY <2>1
  <1> QED BY <1>1, <1>2, <1>3, <1>4 DEF Woven

\* The neighbours of a knot by their place in the string.
LEMMA Sides ==
  ASSUME NEW n \in Nat, NEW s, Strand(n, s), NEW i \in 1..Len(s)
  PROVE  /\ \A k : k \in Prev(s, i) <=> i - 1 \in 1..Len(s) /\ k = s[i - 1]
         /\ \A k : k \in After(s, i) <=> i + 1 \in 1..Len(s) /\ k = s[i + 1]
         /\ Prev(s, i) \in SUBSET (1..n) /\ After(s, i) \in SUBSET (1..n) /\ {s[i]} \in SUBSET (1..n)
         /\ \A k \in Prev(s, i) : Prev(s, i) = {k}
         /\ \A k \in After(s, i) : After(s, i) = {k}
  <1>1. Len(s) \in Nat /\ \A a \in 1..Len(s) : s[a] \in 1..n
    BY StrandShape
  <1>2. i \in Int /\ 1 <= i /\ i <= Len(s)
    BY <1>1
  <1>3. (i - 1 \in 1..Len(s) <=> i # 1) /\ (i + 1 \in 1..Len(s) <=> i # Len(s))
    BY ONLY <1>1, <1>2
  <1>4. \A k : k \in Prev(s, i) <=> i - 1 \in 1..Len(s) /\ k = s[i - 1]
    BY <1>3 DEF Prev
  <1>5. \A k : k \in After(s, i) <=> i + 1 \in 1..Len(s) /\ k = s[i + 1]
    BY <1>3 DEF After
  <1> QED BY <1>1, <1>4, <1>5

\* What the i-th to the j-th knot of a string, and those beside them, store
\* when they are cut out.
CutAt(s, i, j, x) ==
  (IF x = i THEN {} ELSE IF x = j + 1 THEN Prev(s, i) ELSE Prev(s, x))
    \cup (IF x = j THEN {} ELSE IF x = i - 1 THEN After(s, j) ELSE After(s, x))

\* What lscut leaves in every knot.
LEMMA CutShape ==
  ASSUME NEW n, NEW w, NEW G, Woven(n, w, G), NEW s \in TwoWays(G),
         NEW i \in 1..Len(s), NEW j \in 1..Len(s), i <= j
  PROVE  /\ lscut(w, Part(s, i, j)) \in [1..n -> SUBSET (1..n)]
         /\ \A k \in 1..n : k \notin ToSet(s) => lscut(w, Part(s, i, j))[k] = w[k]
         /\ \A x \in 1..Len(s) : lscut(w, Part(s, i, j))[s[x]] = CutAt(s, i, j, x)
  <1>1. n \in Nat /\ w \in [1..n -> SUBSET (1..n)] /\ Strand(n, s) /\ Linked(w, s, 1)
    BY EitherWay DEF Woven
  <1>2. /\ Len(s) \in Nat /\ DOMAIN s = 1..Len(s)
        /\ \A a \in 1..Len(s) : s[a] \in 1..n
        /\ \A a, c \in 1..Len(s) : s[a] = s[c] => a = c
    BY <1>1, StrandShape
  <1>3. i \in Int /\ j \in Int /\ 1 <= i /\ i <= j /\ j <= Len(s) /\ Len(s) \in Nat
    BY <1>2
  <1>4. \A x \in 1..Len(s) : w[s[x]] = Prev(s, x) \cup After(s, x)
    BY <1>1 DEF Linked
  <1> DEFINE a == Prev(s, i)
             c == After(s, j)
             w1 == replace_neighbor(w, a, {s[i]}, c)
             w2 == replace_neighbor(w1, c, {s[j]}, a)
             w3 == replace_neighbor(w2, {s[i]}, a, {})
             w4 == replace_neighbor(w3, {s[j]}, c, {})
  <1>5. lscut(w, Part(s, i, j)) = w4
    <2>1. LastOf(w, Part(s, i, j)) = Stop(s, j)
      BY BeadRead
    <2>2. step_raw(w, Prev(s, j), {s[j]}) = After(s, j)
      BY <1>1, <1>4, NextStop
    <2>3. Stop(s, j).pre = Prev(s, j) /\ Stop(s, j).k = {s[j]}
      BY DEF Stop
    <2>4. Part(s, i, j).pre = a /\ Part(s, i, j).fst = {s[i]} /\ Part(s, i, j).lst = {s[j]}
      BY DEF Part
    <2>5. {s[i]} # {} /\ {s[j]} # {}
      BY Handled
    <2> QED BY <2>1, <2>2, <2>3, <2>4, <2>5 DEF lscut
  <1>6. /\ \A k : k \in a <=> i - 1 \in 1..Len(s) /\ k = s[i - 1]
        /\ a \in SUBSET (1..n) /\ {s[i]} \in SUBSET (1..n)
        /\ \A k \in a : a = {k}
    BY <1>1, Sides
  <1>7. /\ \A k : k \in c <=> j + 1 \in 1..Len(s) /\ k = s[j + 1]
        /\ c \in SUBSET (1..n) /\ {s[j]} \in SUBSET (1..n)
        /\ \A k \in c : c = {k}
    BY <1>1, Sides
  <1>8. \A x \in 1..Len(s) : /\ \A k : k \in Prev(s, x) <=> x - 1 \in 1..Len(s) /\ k = s[x - 1]
                             /\ \A k : k \in After(s, x) <=> x + 1 \in 1..Len(s) /\ k = s[x + 1]
    BY <1>1, Sides
  <1> HIDE DEF a, c
  <1>9. /\ w1 \in [1..n -> SUBSET (1..n)]
        /\ \A k \in 1..n : w1[k] = IF k \in a THEN Prev(s, i - 1) \cup c ELSE w[k]
    <2>1. ASSUME NEW k \in a
          PROVE  /\ w[k] = Prev(s, i - 1) \cup {s[i]}
                 /\ Prev(s, i - 1) \cap {s[i]} = {} /\ Prev(s, i - 1) \cap c = {}
      <3>1. i - 1 \in 1..Len(s) /\ k = s[i - 1]
        BY <1>6, <2>1
      <3>2. PICK y \in 1..Len(s) : y = i - 1 /\ y + 1 = i
        BY <1>3, <3>1
      <3>3. After(s, y) = {s[i]}
        BY <1>3, <3>2 DEF After
      <3>4. \A z : z \in Prev(s, y) <=> y - 1 \in 1..Len(s) /\ z = s[y - 1]
        BY <1>8
      <3>5. y - 1 # i /\ y - 1 # j + 1
        BY <1>3, <3>2
      <3>6. w[k] = Prev(s, y) \cup {s[i]}
        BY <1>4, <3>1, <3>2, <3>3
      <3> QED BY <1>2, <1>7, <3>2, <3>4, <3>5, <3>6
    <2>2. Swappable(n, w, a, {s[i]}, c, Prev(s, i - 1))
      BY <1>1, <1>6, <1>7, <2>1 DEF Swappable
    <2>3. Swapped(n, w, a, Prev(s, i - 1), c, w1)
      BY <2>2, Replaced
    <2> QED BY <2>3 DEF Swapped
  <1> HIDE DEF w1
  <1>10. ASSUME NEW x \in 1..Len(s), x # i - 1 PROVE s[x] \in 1..n /\ s[x] \notin a
    BY <1>2, <1>6, <1>10
  <1>11. ASSUME NEW x \in 1..Len(s), x # j + 1 PROVE s[x] \in 1..n /\ s[x] \notin c
    BY <1>2, <1>7, <1>11
  <1>12. /\ w2 \in [1..n -> SUBSET (1..n)]
         /\ \A k \in 1..n : w2[k] = IF k \in c THEN After(s, j + 1) \cup a ELSE w1[k]
    <2>1. ASSUME NEW k \in c
          PROVE  /\ w1[k] = After(s, j + 1) \cup {s[j]}
                 /\ After(s, j + 1) \cap {s[j]} = {} /\ After(s, j + 1) \cap a = {}
      <3>1. j + 1 \in 1..Len(s) /\ k = s[j + 1]
        BY <1>7, <2>1
      <3>2. PICK y \in 1..Len(s) : y = j + 1 /\ y - 1 = j /\ y # 1
        BY <1>3, <3>1
      <3>3. Prev(s, y) = {s[j]}
        BY <3>2 DEF Prev
      <3>4. \A z : z \in After(s, y) <=> y + 1 \in 1..Len(s) /\ z = s[y + 1]
        BY <1>8
      <3>5. y + 1 # j /\ y + 1 # i - 1 /\ y # i - 1
        BY <1>3, <3>2
      <3>6. w1[k] = After(s, y) \cup {s[j]}
        BY <1>4, <1>9, <1>10, <3>1, <3>2, <3>3, <3>5
      <3> QED BY <1>2, <1>6, <3>2, <3>4, <3>5, <3>6
    <2>2. Swappable(n, w1, c, {s[j]}, a, After(s, j + 1))
      BY <1>6, <1>7, <1>9, <2>1 DEF Swappable
    <2>3. Swapped(n, w1, c, After(s, j + 1), a, w2)
      BY <2>2, Replaced
    <2> QED BY <2>3 DEF Swapped
  <1> HIDE DEF w2
  <1>13. \A x \in i..j : /\ x \in 1..Len(s) /\ s[x] \in 1..n
                         /\ w2[s[x]] = Prev(s, x) \cup After(s, x)
    <2> TAKE x \in i..j
    <2>1. x \in 1..Len(s) /\ x # i - 1 /\ x # j + 1
      BY <1>3
    <2> QED BY <1>2, <1>4, <1>9, <1>10, <1>11, <1>12, <2>1
  <1>14. /\ w3 \in [1..n -> SUBSET (1..n)]
         /\ \A k \in 1..n : w3[k] = IF k = s[i] THEN After(s, i) ELSE w2[k]
    <2>1. w2[s[i]] = After(s, i) \cup a
      <3>1. i \in i..j
        BY <1>3
      <3> QED BY <1>13, <3>1 DEF a
    <2>2. After(s, i) \cap a = {}
      <3>1. i + 1 # i - 1
        BY <1>3
      <3> QED BY <1>2, <1>6, <1>8, <3>1
    <2>3. {} \in SUBSET (1..n) /\ After(s, i) \cap {} = {} /\ \A k \in {s[i]} : {s[i]} = {k}
      OBVIOUS
    <2>4. \A k \in {s[i]} : w2[k] = After(s, i) \cup a
      BY <2>1
    <2>5. Swappable(n, w2, {s[i]}, a, {}, After(s, i))
      BY <1>6, <1>12, <2>2, <2>3, <2>4 DEF Swappable
    <2>6. Swapped(n, w2, {s[i]}, After(s, i), {}, w3)
      BY <2>5, Replaced
    <2> QED BY <2>6 DEF Swapped
  <1> HIDE DEF w3
  <1> DEFINE last == IF i = j THEN {} ELSE Prev(s, j)
  <1>15. /\ w4 \in [1..n -> SUBSET (1..n)]
         /\ \A k \in 1..n : w4[k] = IF k = s[j] THEN last ELSE w3[k]
    <2>1. w3[s[j]] = last \cup c
      <3>1. CASE i = j
        BY <1>2, <1>14, <3>1 DEF c
      <3>2. CASE i # j
        <4>1. s[i] # s[j] /\ j \in i..j
          BY <1>2, <1>3, <3>2
        <4> QED BY <1>2, <1>13, <1>14, <3>2, <4>1 DEF c
      <3> QED BY <3>1, <3>2
    <2>2. last \cap c = {}
      <3>1. j - 1 # j + 1
        BY <1>3
      <3>2. Prev(s, j) \cap c = {}
        BY <1>2, <1>7, <1>8, <3>1
      <3> QED BY <3>2
    <2> HIDE DEF last
    <2>3. {} \in SUBSET (1..n) /\ last \cap {} = {} /\ \A k \in {s[j]} : {s[j]} = {k}
      OBVIOUS
    <2>4. \A k \in {s[j]} : w3[k] = last \cup c
      BY <2>1
    <2>5. Swappable(n, w3, {s[j]}, c, {}, last)
      BY <1>7, <1>14, <2>2, <2>3, <2>4 DEF Swappable
    <2>6. Swapped(n, w3, {s[j]}, last, {}, w4)
      BY <2>5, Replaced
    <2> QED BY <2>6 DEF Swapped
  <1> HIDE DEF w4
  <1>16. ASSUME NEW k \in 1..n, k \notin ToSet(s) PROVE w4[k] = w[k]
    <2>1. \A x \in 1..Len(s) : k # s[x]
      BY <1>2, <1>16 DEF ToSet
    <2>2. k \notin a /\ k \notin c /\ k # s[i] /\ k # s[j]
      BY <1>6, <1>7, <2>1
    <2> QED BY <1>9, <1>12, <1>14, <1>15, <2>2
  <1>17. ASSUME NEW x \in 1..Len(s) PROVE w4[s[x]] = CutAt(s, i, j, x)
    <2>0. s[x] \in 1..n /\ x \in Int
      BY <1>2
    <2>1. (s[x] = s[i] <=> x = i) /\ (s[x] = s[j] <=> x = j)
      BY <1>2
    <2>2. (s[x] \in a <=> x = i - 1) /\ (s[x] \in c <=> x = j + 1)
      BY <1>2, <1>6, <1>7
    <2>3. w4[s[x]] = IF x = j THEN last ELSE IF x = i THEN After(s, i)
                     ELSE IF x = j + 1 THEN After(s, j + 1) \cup a
                     ELSE IF x = i - 1 THEN Prev(s, i - 1) \cup c ELSE Prev(s, x) \cup After(s, x)
      <3> HIDE DEF last
      <3>1. w4[s[x]] = IF s[x] = s[j] THEN last ELSE IF s[x] = s[i] THEN After(s, i) ELSE w2[s[x]]
        BY <1>14, <1>15, <2>0
      <3>2. w2[s[x]] = IF s[x] \in c THEN After(s, j + 1) \cup a ELSE IF s[x] \in a THEN Prev(s, i - 1) \cup c ELSE w[s[x]]
        <4>1. PICK k \in 1..n : k = s[x]
          BY <2>0
        <4>2. w1[k] = IF k \in a THEN Prev(s, i - 1) \cup c ELSE w[k]
          BY <1>9
        <4>3. w2[k] = IF k \in c THEN After(s, j + 1) \cup a ELSE w1[k]
          BY <1>12
        <4> QED BY <4>1, <4>2, <4>3
      <3> QED BY <1>4, <2>1, <2>2, <3>1, <3>2
    <2>4. CASE x = j
      <3>1. x # j + 1
        BY <1>3, <2>4
      <3> QED BY <2>3, <2>4, <3>1 DEF CutAt
    <2>5. CASE x # j /\ x = i
      <3>1. x # i - 1
        BY <1>3, <2>5
      <3> QED BY <2>3, <2>5, <3>1 DEF CutAt
    <2>6. CASE x # j /\ x # i /\ x = j + 1
      <3>1. x # i - 1
        BY <1>3, <2>6
      <3> QED BY <2>3, <2>6, <3>1 DEF CutAt, a
    <2>7. CASE x # j /\ x # i /\ x # j + 1 /\ x = i - 1
      BY <2>3, <2>7 DEF CutAt, c
    <2>8. CASE x # j /\ x # i /\ x # j + 1 /\ x # i - 1
      BY <2>3, <2>8 DEF CutAt
    <2> QED BY <2>4, <2>5, <2>6, <2>7, <2>8
  <1> QED BY <1>5, <1>15, <1>16, <1>17

\* The i-th to the j-th knot of a string, and the string without them.
Cutting(s, i, j) == [x \in 1..(j - i + 1) |-> s[i + x - 1]]
Rest(s, i, j) == [x \in 1..(Len(s) - (j - i + 1)) |-> IF x < i THEN s[x] ELSE s[x + (j - i + 1)]]

\* m is such a cutting, of d knots.
IsCutting(n, s, i, j, d, m) ==
  /\ Strand(n, m) /\ Len(m) = d
  /\ \A x \in 1..d : i + x - 1 \in i..j /\ m[x] = s[i + x - 1]
  /\ \A k : k \in ToSet(m) <=> \E y \in i..j : k = s[y]

\* r is the rest without d knots.
IsRest(n, s, i, j, d, r) ==
  /\ r \in Seq(1..n) /\ Len(r) = Len(s) - d /\ Len(s) - d \in Nat /\ IsInjective(r)
  /\ \A x \in 1..(Len(s) - d) : IF x < i THEN x \in 1..Len(s) /\ r[x] = s[x]
                                ELSE x + d \in (j + 1)..Len(s) /\ r[x] = s[x + d]
  /\ \A k : k \in ToSet(r) <=> \E y \in (1..Len(s)) \ (i..j) : k = s[y]

\* A cutting is a string.
LEMMA CuttingShape ==
  ASSUME NEW n \in Nat, NEW s, Strand(n, s), NEW i \in 1..Len(s), NEW j \in 1..Len(s), i <= j
  PROVE  IsCutting(n, s, i, j, j - i + 1, Cutting(s, i, j))
  <1>1. /\ Len(s) \in Nat /\ \A a \in 1..Len(s) : s[a] \in 1..n
        /\ \A a, c \in 1..Len(s) : s[a] = s[c] => a = c
    BY StrandShape
  <1>2. i \in Int /\ j \in Int /\ 1 <= i /\ i <= j /\ j <= Len(s) /\ Len(s) \in Int
    BY <1>1
  <1>3. PICK d : d = j - i + 1
    OBVIOUS
  <1>4. d \in Nat /\ d >= 1
    BY ONLY <1>2, <1>3
  <1>5. \A x \in 1..d : i + x - 1 \in i..j /\ i + x - 1 \in 1..Len(s)
    BY ONLY <1>2, <1>3
  <1>6. \A y \in i..j : y - i + 1 \in 1..d /\ i + (y - i + 1) - 1 = y
    BY ONLY <1>2, <1>3
  <1>7. PICK m : m = Cutting(s, i, j)
    OBVIOUS
  <1>8. m = [x \in 1..d |-> s[i + x - 1]]
    BY <1>3, <1>7 DEF Cutting
  <1>9. m \in [1..d -> 1..n]
    BY <1>1, <1>5, <1>8
  <1>10. m \in Seq(1..n) /\ Len(m) = d /\ DOMAIN m = 1..d
    BY <1>4, <1>9
  <1>11. m # <<>>
    BY <1>4, <1>10
  <1>12. IsInjective(m)
    <2> SUFFICES ASSUME NEW x \in DOMAIN m, NEW y \in DOMAIN m, m[x] = m[y] PROVE x = y
      BY DEF IsInjective
    <2>1. x \in 1..d /\ y \in 1..d /\ s[i + x - 1] = s[i + y - 1]
      BY <1>8, <1>10
    <2>2. i + x - 1 = i + y - 1 /\ x \in Int /\ y \in Int
      BY <1>1, <1>5, <2>1
    <2> QED BY ONLY <1>2, <2>2
  <1>13. ASSUME NEW k PROVE k \in ToSet(m) <=> \E y \in i..j : k = s[y]
    <2>1. k \in ToSet(m) <=> \E x \in 1..d : k = m[x]
      BY <1>10 DEF ToSet
    <2>2. \A x \in 1..d : m[x] = s[i + x - 1] /\ i + x - 1 \in i..j
      BY <1>5, <1>8
    <2>3. \A y \in i..j : y - i + 1 \in 1..d /\ m[y - i + 1] = s[y]
      BY <1>6, <1>8
    <2> QED BY <2>1, <2>2, <2>3
  <1>14. Strand(n, m)
    BY <1>10, <1>11, <1>12 DEF Strand
  <1>15. IsCutting(n, s, i, j, d, m)
    BY <1>5, <1>8, <1>10, <1>13, <1>14 DEF IsCutting
  <1> QED BY <1>3, <1>7, <1>15

\* The rest is a string too, or nothing.
LEMMA RestShape ==
  ASSUME NEW n \in Nat, NEW s, Strand(n, s), NEW i \in 1..Len(s), NEW j \in 1..Len(s), i <= j,
         NEW d, d = j - i + 1
  PROVE  IsRest(n, s, i, j, d, Rest(s, i, j))
  <1>1. /\ Len(s) \in Nat /\ \A a \in 1..Len(s) : s[a] \in 1..n
        /\ \A a, c \in 1..Len(s) : s[a] = s[c] => a = c
    BY StrandShape
  <1>2. i \in Int /\ j \in Int /\ 1 <= i /\ i <= j /\ j <= Len(s) /\ Len(s) \in Int
    BY <1>1
  <1>3. PICK e : e = Len(s) - d
    OBVIOUS
  <1>4. e \in Nat /\ d \in Nat /\ d >= 1
    BY ONLY <1>2, <1>3, d = j - i + 1
  <1>5. \A x \in 1..e : IF x < i THEN x \in 1..Len(s) ELSE x + d \in (j + 1)..Len(s) /\ x + d \in 1..Len(s)
    BY ONLY <1>2, <1>3, <1>4, d = j - i + 1
  <1>7. PICK m : m = Rest(s, i, j)
    OBVIOUS
  <1>8. m = [x \in 1..e |-> IF x < i THEN s[x] ELSE s[x + d]]
    BY <1>3, <1>7 DEF Rest
  <1>9. m \in [1..e -> 1..n]
    BY <1>1, <1>5, <1>8
  <1>10. m \in Seq(1..n) /\ Len(m) = e /\ DOMAIN m = 1..e
    BY <1>4, <1>9
  <1>11. \A x \in 1..e : IF x < i THEN x \in 1..Len(s) /\ m[x] = s[x]
                         ELSE x + d \in (j + 1)..Len(s) /\ x + d \in 1..Len(s) /\ m[x] = s[x + d]
    BY <1>5, <1>8
  <1>12. IsInjective(m)
    <2> SUFFICES ASSUME NEW x \in DOMAIN m, NEW y \in DOMAIN m, m[x] = m[y] PROVE x = y
      BY DEF IsInjective
    <2>0. x \in 1..e /\ y \in 1..e /\ x \in Int /\ y \in Int
      BY <1>10
    <2>1. \A a, c \in 1..Len(s) : s[a] = s[c] => a = c
      BY <1>1
    <2>2. CASE x < i /\ y < i
      BY <1>11, <2>0, <2>1, <2>2
    <2>3. CASE ~(x < i) /\ ~(y < i)
      <3>1. x + d = y + d
        BY <1>11, <2>0, <2>1, <2>3
      <3> QED BY ONLY <1>4, <2>0, <3>1
    <2>4. CASE x < i /\ ~(y < i)
      <3>1. x = y + d
        BY <1>11, <2>0, <2>1, <2>4
      <3> QED BY ONLY <1>4, <2>0, <2>4, <3>1
    <2>5. CASE ~(x < i) /\ y < i
      <3>1. y = x + d
        BY <1>11, <2>0, <2>1, <2>5
      <3> QED BY ONLY <1>4, <2>0, <2>5, <3>1
    <2> QED BY <2>2, <2>3, <2>4, <2>5
  <1>13. ASSUME NEW k PROVE k \in ToSet(m) <=> \E y \in (1..Len(s)) \ (i..j) : k = s[y]
    <2>1. k \in ToSet(m) <=> \E x \in 1..e : k = m[x]
      BY <1>10 DEF ToSet
    <2>2. ASSUME NEW x \in 1..e PROVE \E y \in (1..Len(s)) \ (i..j) : m[x] = s[y]
      <3>1. CASE x < i
        <4>1. x \notin i..j
          BY <1>2, <3>1
        <4> QED BY <1>11, <3>1, <4>1
      <3>2. CASE ~(x < i)
        <4>1. x + d \in (j + 1)..Len(s) /\ x + d \in 1..Len(s) /\ m[x] = s[x + d]
          BY <1>11, <3>2
        <4>2. x + d \notin i..j
          BY <1>2, <4>1
        <4> QED BY <4>1, <4>2
      <3> QED BY <3>1, <3>2
    <2>3. ASSUME NEW y \in (1..Len(s)) \ (i..j) PROVE \E x \in 1..e : m[x] = s[y]
      <3>0. y \in Int /\ 1 <= y /\ y <= Len(s) /\ (y < i \/ j < y)
        BY <1>2
      <3>1. CASE y < i
        <4>1. y \in 1..e
          BY ONLY <1>2, <1>3, <3>0, <3>1, d = j - i + 1
        <4> QED BY <1>11, <3>1, <4>1
      <3>2. CASE j < y
        <4>1. y - d \in 1..e /\ ~(y - d < i) /\ (y - d) + d = y
          BY ONLY <1>2, <1>3, <3>0, <3>2, d = j - i + 1
        <4> QED BY <1>11, <4>1
      <3> QED BY <3>0, <3>1, <3>2
    <2> QED BY <2>1, <2>2, <2>3
  <1>14. \A x \in 1..e : IF x < i THEN x \in 1..Len(s) /\ m[x] = s[x]
                         ELSE x + d \in (j + 1)..Len(s) /\ m[x] = s[x + d]
    BY <1>11
  <1>15. IsRest(n, s, i, j, d, m)
    BY <1>3, <1>4, <1>10, <1>12, <1>13, <1>14 DEF IsRest
  <1> QED BY <1>7, <1>15

\* Leaving out the knots of a bead leaves the rest.
LEMMA SkippingIs ==
  ASSUME NEW n \in Nat, NEW s, Strand(n, s), NEW i \in 1..Len(s), NEW j \in 1..Len(s), i <= j
  PROVE  Skipping(s, Cutting(s, i, j)) = Rest(s, i, j)
  <1>1. /\ s \in Seq(1..n) /\ Len(s) \in Nat /\ DOMAIN s = 1..Len(s)
        /\ \A a \in 1..Len(s) : s[a] \in 1..n
        /\ \A a, c \in 1..Len(s) : s[a] = s[c] => a = c
    BY StrandShape
  <1>2. i \in Int /\ j \in Int /\ 1 <= i /\ i <= j /\ j <= Len(s) /\ Len(s) \in Int
    BY <1>1
  <1>3. PICK d : d = j - i + 1
    OBVIOUS
  <1>4. PICK m : m = Cutting(s, i, j)
    OBVIOUS
  <1>5. Len(m) = d /\ m[1] = s[i]
    <2>1. 1 \in 1..(j - i + 1) /\ i + 1 - 1 = i
      BY ONLY <1>2
    <2>0. IsCutting(n, s, i, j, j - i + 1, m)
      BY <1>4, CuttingShape
    <2>2. Len(m) = j - i + 1 /\ m[1] = s[i + 1 - 1]
      BY <2>0, <2>1 DEF IsCutting
    <2> QED BY <1>3, <2>1, <2>2
  <1>6. (CHOOSE a \in DOMAIN s : s[a] = m[1]) = i
    BY <1>1, <1>5
  <1>7. i + d = j + 1 /\ d \in Int
    BY ONLY <1>2, <1>3
  <1>8. Skipping(s, m) = SubSeq(s, 1, i - 1) \o SubSeq(s, j + 1, Len(s))
    BY <1>5, <1>6, <1>7 DEF Skipping
  <1>9. PICK p, q : p = SubSeq(s, 1, i - 1) /\ q = SubSeq(s, j + 1, Len(s))
    OBVIOUS
  <1>10. p \in Seq(1..n) /\ Len(p) = i - 1 /\ \A x \in 1..(i - 1) : p[x] = s[x]
    <2>1. 1 \in Int /\ i - 1 \in Int /\ \A x \in 1..(i - 1) : s[x] \in 1..n
      BY <1>1
    <2>2. /\ p \in Seq(1..n) /\ Len(p) = IF 1 <= i - 1 THEN (i - 1) - 1 + 1 ELSE 0
          /\ \A x \in 1..((i - 1) - 1 + 1) : p[x] = s[1 + x - 1]
      BY <1>9, <2>1, SubSeqProperties
    <2>3. (i - 1) - 1 + 1 = i - 1 /\ \A x \in 1..(i - 1) : 1 + x - 1 = x
      BY ONLY <1>2
    <2>4. Len(p) = i - 1
      BY <1>2, <2>2
    <2> QED BY <2>2, <2>3, <2>4
  <1>11. q \in Seq(1..n) /\ Len(q) = Len(s) - j /\ \A x \in 1..(Len(s) - j) : q[x] = s[j + x]
    <2>1. j + 1 \in Int /\ Len(s) \in Int /\ \A x \in (j + 1)..Len(s) : s[x] \in 1..n
      BY <1>1
    <2>2. /\ q \in Seq(1..n) /\ Len(q) = IF j + 1 <= Len(s) THEN Len(s) - (j + 1) + 1 ELSE 0
          /\ \A x \in 1..(Len(s) - (j + 1) + 1) : q[x] = s[(j + 1) + x - 1]
      BY <1>9, <2>1, SubSeqProperties
    <2>3. Len(s) - (j + 1) + 1 = Len(s) - j /\ \A x \in 1..(Len(s) - j) : (j + 1) + x - 1 = j + x
      BY ONLY <1>2
    <2>4. Len(q) = Len(s) - j
      BY <1>2, <2>2
    <2> QED BY <2>2, <2>3, <2>4
  <1>12. PICK r : r = Rest(s, i, j)
    OBVIOUS
  <1>13. /\ r \in Seq(1..n) /\ Len(r) = Len(s) - d
         /\ \A x \in 1..(Len(s) - d) : r[x] = IF x < i THEN s[x] ELSE s[x + d]
    <2>1. IsRest(n, s, i, j, d, r)
      BY <1>3, <1>12, RestShape
    <2> QED BY <2>1 DEF IsRest
  <1>14. /\ p \o q \in Seq(1..n) /\ Len(p \o q) = Len(p) + Len(q)
         /\ \A x \in 1..(Len(p) + Len(q)) : (p \o q)[x] = IF x <= Len(p) THEN p[x] ELSE q[x - Len(p)]
    BY <1>10, <1>11, ConcatProperties
  <1>15. Len(p \o q) = Len(r) /\ Len(r) = Len(p) + Len(q)
    <2>1. (i - 1) + (Len(s) - j) = Len(s) - d
      BY ONLY <1>2, <1>3
    <2> QED BY <1>10, <1>11, <1>13, <1>14, <2>1
  <1>16. ASSUME NEW x \in 1..Len(p \o q) PROVE (p \o q)[x] = r[x]
    <2>1. x \in 1..(Len(p) + Len(q)) /\ x \in 1..(Len(s) - d) /\ x \in Int
      BY <1>13, <1>14, <1>15
    <2>2. CASE x < i
      <3>1. x <= Len(p) /\ x \in 1..(i - 1)
        BY <1>2, <1>10, <2>1, <2>2
      <3> QED BY <1>10, <1>13, <1>14, <2>1, <2>2, <3>1
    <2>3. CASE ~(x < i)
      <3>1. ~(x <= Len(p)) /\ x - Len(p) \in 1..(Len(s) - j) /\ j + (x - Len(p)) = x + d
        <4>1. ~(x <= i - 1) /\ x - (i - 1) \in 1..(Len(s) - j) /\ j + (x - (i - 1)) = x + d
          BY ONLY <1>2, <1>3, <2>1, <2>3
        <4> QED BY <1>10, <4>1
      <3>2. (p \o q)[x] = q[x - Len(p)]
        BY <1>14, <2>1, <3>1
      <3>3. q[x - Len(p)] = s[j + (x - Len(p))]
        BY <1>11, <3>1
      <3>4. r[x] = s[x + d]
        BY <1>13, <2>1, <2>3
      <3> QED BY <3>1, <3>2, <3>3, <3>4
    <2> QED BY <2>2, <2>3
  <1>17. p \o q = r
    BY <1>13, <1>14, <1>15, <1>16, SeqEqual
  <1> QED BY <1>4, <1>8, <1>9, <1>12, <1>17

\* After the cut both are linked.
LEMMA CutLinked ==
  ASSUME NEW n \in Nat, NEW s, Strand(n, s), NEW i \in 1..Len(s), NEW j \in 1..Len(s), i <= j,
         NEW u, \A x \in 1..Len(s) : u[s[x]] = CutAt(s, i, j, x)
  PROVE  Linked(u, Cutting(s, i, j), 1) /\ Linked(u, Rest(s, i, j), 1)
  <1>1. Len(s) \in Nat
    BY StrandShape
  <1>2. i \in Int /\ j \in Int /\ 1 <= i /\ i <= j /\ j <= Len(s) /\ Len(s) \in Int
    BY <1>1
  <1>3. PICK d : d = j - i + 1
    OBVIOUS
  <1>4. PICK m : m = Cutting(s, i, j)
    OBVIOUS
  <1>5. Len(m) = d /\ \A x \in 1..d : i + x - 1 \in i..j /\ m[x] = s[i + x - 1]
    <2>1. IsCutting(n, s, i, j, d, m)
      BY <1>3, <1>4, CuttingShape
    <2> QED BY <2>1 DEF IsCutting
  <1>6. PICK r : r = Rest(s, i, j)
    OBVIOUS
  <1>7. /\ Len(r) = Len(s) - d
        /\ \A x \in 1..(Len(s) - d) : IF x < i THEN x \in 1..Len(s) /\ r[x] = s[x]
                                      ELSE x + d \in (j + 1)..Len(s) /\ r[x] = s[x + d]
    <2>1. IsRest(n, s, i, j, d, r)
      BY <1>3, <1>6, RestShape
    <2> QED BY <2>1 DEF IsRest
  <1>8. ASSUME NEW x \in 1..Len(m) PROVE u[m[x]] = Prev(m, x) \cup After(m, x)
    <2>1. PICK y : y = i + x - 1
      OBVIOUS
    <2>2. x \in 1..d /\ y \in i..j /\ m[x] = s[y]
      BY <1>5, <2>1
    <2>3. x \in Int /\ 1 <= x /\ x <= d /\ y \in Int
      BY <2>2, <1>3, <1>2
    <2>4. /\ y \in 1..Len(s) /\ y # j + 1 /\ y # i - 1 /\ (y = i <=> x = 1) /\ (y = j <=> x = d)
          /\ (x # 1 => x - 1 \in 1..d /\ i + (x - 1) - 1 = y - 1 /\ y # 1)
          /\ (x # d => x + 1 \in 1..d /\ i + (x + 1) - 1 = y + 1 /\ y # Len(s))
      BY ONLY <1>2, <1>3, <2>1, <2>3
    <2>5. x # 1 => m[x - 1] = s[y - 1]
      BY <1>5, <2>4
    <2>6. x # d => m[x + 1] = s[y + 1]
      BY <1>5, <2>4
    <2>7. Prev(m, x) = IF y = i THEN {} ELSE Prev(s, y)
      BY <2>4, <2>5 DEF Prev
    <2>8. After(m, x) = IF y = j THEN {} ELSE After(s, y)
      BY <1>5, <2>4, <2>6 DEF After
    <2>9. u[m[x]] = CutAt(s, i, j, y)
      BY <2>2, <2>4
    <2> QED BY <2>4, <2>7, <2>8, <2>9 DEF CutAt
  <1>9. ASSUME NEW x \in 1..Len(r) PROVE u[r[x]] = Prev(r, x) \cup After(r, x)
    <2>0. x \in 1..(Len(s) - d) /\ x \in Int /\ 1 <= x /\ x <= Len(s) - d
      BY <1>2, <1>3, <1>7
    <2>1. CASE x < i
      <3>1. x \in 1..Len(s) /\ r[x] = s[x] /\ u[r[x]] = CutAt(s, i, j, x)
        BY <1>7, <2>0, <2>1
      <3>2. /\ x # i /\ x # j + 1 /\ x # j
            /\ (x # 1 => x - 1 \in 1..(Len(s) - d) /\ x - 1 < i)
            /\ (x # Len(s) - d => x + 1 \in 1..(Len(s) - d) /\ x # Len(s))
            /\ (x # i - 1 => x + 1 < i /\ x # Len(s) - d)
            /\ (x = i - 1 => ~(x + 1 < i) /\ x + 1 + d = j + 1 /\ (x = Len(s) - d <=> j = Len(s)))
        BY ONLY <1>2, <1>3, <2>0, <2>1
      <3>3. Prev(r, x) = Prev(s, x)
        BY <1>7, <3>2 DEF Prev
      <3>4. After(r, x) = IF x = i - 1 THEN After(s, j) ELSE After(s, x)
        <4>1. CASE x = i - 1
          <5>1. x # Len(s) - d => r[x + 1] = s[j + 1]
            BY <1>7, <3>2, <4>1
          <5> QED BY <1>7, <3>2, <4>1, <5>1 DEF After
        <4>2. CASE x # i - 1
          <5>1. r[x + 1] = s[x + 1]
            BY <1>7, <3>2, <4>2
          <5> QED BY <1>7, <3>2, <4>2, <5>1 DEF After
        <4> QED BY <4>1, <4>2
      <3> QED BY <3>1, <3>2, <3>3, <3>4 DEF CutAt
    <2>2. CASE ~(x < i)
      <3>1. PICK y : y = x + d
        OBVIOUS
      <3>2. y \in (j + 1)..Len(s) /\ r[x] = s[y]
        BY <1>7, <2>0, <2>2, <3>1
      <3>3. /\ y \in 1..Len(s) /\ y # i /\ y # j /\ y # i - 1 /\ y # 1
            /\ (x = Len(s) - d <=> y = Len(s))
            /\ (x # Len(s) - d => x + 1 \in 1..(Len(s) - d) /\ ~(x + 1 < i) /\ x + 1 + d = y + 1)
            /\ (y = j + 1 <=> x = i)
            /\ (x # i => x - 1 \in 1..(Len(s) - d) /\ ~(x - 1 < i) /\ x - 1 + d = y - 1 /\ x # 1)
            /\ (x = i /\ x # 1 => x - 1 \in 1..(Len(s) - d) /\ x - 1 < i)
        BY ONLY <1>2, <1>3, <2>0, <2>2, <3>1
      <3>4. u[r[x]] = CutAt(s, i, j, y)
        BY <3>2, <3>3
      <3>5. After(r, x) = After(s, y)
        BY <1>7, <3>3 DEF After
      <3>6. Prev(r, x) = IF y = j + 1 THEN Prev(s, i) ELSE Prev(s, y)
        <4>1. CASE x = i
          <5>1. x # 1 => r[x - 1] = s[i - 1]
            BY <1>7, <3>3, <4>1
          <5> QED BY <3>3, <4>1, <5>1 DEF Prev
        <4>2. CASE x # i
          <5>1. r[x - 1] = s[y - 1]
            BY <1>7, <3>3, <4>2
          <5> QED BY <3>3, <4>2, <5>1 DEF Prev
        <4> QED BY <4>1, <4>2
      <3> QED BY <3>3, <3>4, <3>5, <3>6 DEF CutAt
    <2> QED BY <2>1, <2>2
  <1> QED BY <1>4, <1>6, <1>8, <1>9 DEF Linked

\* The strings made by a cut.
CutUp(s, i, j) == {Cutting(s, i, j)} \cup ({Rest(s, i, j)} \ {<<>>})

\* lscut makes a string of the bead and one of the rest, and keeps the others.
LEMMA CutWoven ==
  ASSUME NEW n, NEW w, NEW G, Woven(n, w, G), NEW s \in G,
         NEW i \in 1..Len(s), NEW j \in 1..Len(s), i <= j
  PROVE  Woven(n, lscut(w, Part(s, i, j)), (G \ {s}) \cup CutUp(s, i, j))
  <1>1. n \in Nat /\ Strand(n, s) /\ s \in TwoWays(G)
    BY DEF Woven, TwoWays
  <1>2. PICK u : u = lscut(w, Part(s, i, j))
    OBVIOUS
  <1>3. /\ u \in [1..n -> SUBSET (1..n)]
        /\ \A k \in 1..n : k \notin ToSet(s) => u[k] = w[k]
        /\ \A x \in 1..Len(s) : u[s[x]] = CutAt(s, i, j, x)
    BY <1>1, <1>2, CutShape
  <1>4. PICK m, r : m = Cutting(s, i, j) /\ r = Rest(s, i, j)
    OBVIOUS
  <1>5. Strand(n, m) /\ Linked(u, m, 1) /\ Linked(u, r, 1) /\ \A k : k \in ToSet(m) <=> \E y \in i..j : k = s[y]
    <2>1. Linked(u, Cutting(s, i, j), 1) /\ Linked(u, Rest(s, i, j), 1)
      BY <1>1, <1>3, CutLinked
    <2>2. Strand(n, m) /\ \A k : k \in ToSet(m) <=> \E y \in i..j : k = s[y]
      <3>1. IsCutting(n, s, i, j, j - i + 1, m)
        BY <1>1, <1>4, CuttingShape
      <3> QED BY <3>1 DEF IsCutting
    <2> QED BY <1>4, <2>1, <2>2
  <1>6. r \in Seq(1..n) /\ IsInjective(r) /\ \A k : k \in ToSet(r) <=> \E y \in (1..Len(s)) \ (i..j) : k = s[y]
    <2>1. PICK d : d = j - i + 1
      OBVIOUS
    <2>2. IsRest(n, s, i, j, d, r)
      BY <1>1, <1>4, <2>1, RestShape
    <2> QED BY <2>2 DEF IsRest
  <1>7. /\ Len(s) \in Nat /\ DOMAIN s = 1..Len(s)
        /\ \A a, c \in 1..Len(s) : s[a] = s[c] => a = c
    BY <1>1, StrandShape
  <1>8. \A y \in i..j : y \in 1..Len(s)
    BY <1>7
  <1>9. \A k : k \in ToSet(s) <=> \E y \in 1..Len(s) : k = s[y]
    BY <1>7 DEF ToSet
  <1>10. ToSet(m) \cap ToSet(r) = {}
    <2>1. SUFFICES ASSUME NEW k, k \in ToSet(m), k \in ToSet(r) PROVE FALSE
      OBVIOUS
    <2>2. PICK y \in i..j : k = s[y]
      BY <1>5, <2>1
    <2>3. PICK z \in (1..Len(s)) \ (i..j) : k = s[z]
      BY <1>6, <2>1
    <2>4. y = z
      BY <1>7, <1>8, <2>2, <2>3
    <2> QED BY <2>3, <2>4
  <1>11. ToSet(s) = ToSet(m) \cup ToSet(r)
    BY <1>5, <1>6, <1>8, <1>9
  <1>12. ToSet(<<>>) = {}
    BY DEF ToSet
  <1> DEFINE E == {m} \cup ({r} \ {<<>>})
             D == {s}
  <1>13. D \in SUBSET G
    OBVIOUS
  <1>14. \A k \in 1..n : (\A s2 \in D : k \notin ToSet(s2)) => u[k] = w[k]
    BY <1>3
  <1>15. \A s2 \in E : Strand(n, s2) /\ Linked(u, s2, 1)
    BY <1>5, <1>6 DEF Strand
  <1>16. \A s2, v \in E : s2 = v \/ ToSet(s2) \cap ToSet(v) = {}
    BY <1>10
  <1>17. \A s2 \in E : \A k \in ToSet(s2) : \E v \in D : k \in ToSet(v)
    BY <1>11
  <1>18. \A s2 \in D : \A k \in ToSet(s2) : \E v \in E : k \in ToSet(v)
    BY <1>11, <1>12
  <1> HIDE DEF D, E
  <1>19. Woven(n, u, (G \ D) \cup E)
    BY ONLY <1>3, <1>13, <1>14, <1>15, <1>16, <1>17, <1>18, Woven(n, w, G), Rewoven
  <1> QED BY <1>2, <1>4, <1>19 DEF D, E, CutUp

\* Of the others nothing is lost, in either direction.
SameButFor(G, D, E) == TwoWays((G \ D) \cup E) = (TwoWays(G) \ TwoWays(D)) \cup TwoWays(E)

\* What is taken apart is gone, and what is made is there, in both directions.
LEMMA BothRewoven ==
  ASSUME NEW n, NEW w, NEW G, Woven(n, w, G), NEW D, D \subseteq G, NEW E
  PROVE  SameButFor(G, D, E)
  <1>1. ASSUME NEW s \in G, NEW s2 \in G, s2 \in {s, Reverse(s)} \/ Reverse(s2) \in {s, Reverse(s)} PROVE s = s2
    <2>1. n \in Nat /\ Strand(n, s) /\ Strand(n, s2) /\ (s = s2 \/ ToSet(s) \cap ToSet(s2) = {})
      BY DEF Woven
    <2>2. ToSet(Reverse(s)) = ToSet(s) /\ ToSet(Reverse(s2)) = ToSet(s2)
      BY <2>1, ReverseShape
    <2>3. ToSet(s) # {}
      <3>1. Len(s) \in Nat /\ Len(s) >= 1 /\ DOMAIN s = 1..Len(s)
        BY <2>1, StrandShape
      <3>2. s[1] \in ToSet(s)
        BY <3>1 DEF ToSet
      <3> QED BY <3>2
    <2>4. ToSet(s) = ToSet(s2)
      BY <1>1, <2>2
    <2> QED BY <2>1, <2>3, <2>4
  <1>2. TwoWays(G \ D) = TwoWays(G) \ TwoWays(D)
    <2>1. ASSUME NEW x \in TwoWays(G \ D) PROVE x \in TwoWays(G) /\ x \notin TwoWays(D)
      <3>1. PICK s \in G \ D : x \in {s, Reverse(s)}
        BY DEF TwoWays
      <3>2. \A s2 \in D : x \notin {s2, Reverse(s2)}
        <4>1. SUFFICES ASSUME NEW s2 \in D, x \in {s2, Reverse(s2)} PROVE FALSE
          OBVIOUS
        <4>2. s \in G /\ s2 \in G /\ s # s2
          BY <3>1
        <4>3. n \in Nat /\ Strand(n, s) /\ Strand(n, s2)
          BY <4>2 DEF Woven
        <4>4. Reverse(Reverse(s)) = s /\ Reverse(Reverse(s2)) = s2
          BY <4>3, ReverseShape
        <4>5. s2 \in {s, Reverse(s)}
          BY <3>1, <4>1, <4>4
        <4> QED BY <1>1, <4>2, <4>5
      <3> QED BY <3>1, <3>2 DEF TwoWays
    <2>2. ASSUME NEW x \in TwoWays(G), x \notin TwoWays(D) PROVE x \in TwoWays(G \ D)
      BY <2>2 DEF TwoWays
    <2> QED BY <2>1, <2>2
  <1>3. TwoWays((G \ D) \cup E) = TwoWays(G \ D) \cup TwoWays(E)
    BY DEF TwoWays
  <1> QED BY <1>2, <1>3 DEF SameButFor

\* lscut moves beads as nexus.h promises.
LEMMA CutsExact ==
  ASSUME NEW n, NEW G, Woven(n, knots, G), NEW b \in Beads(knots)
  PROVE  CutExact(b)
  <1>1. PICK s \in TwoWays(G) : \E i, j \in 1..Len(s) : i <= j /\ b = Part(s, i, j)
    BY BeadsAre
  <1>2. PICK i \in 1..Len(s), j \in 1..Len(s) : i <= j /\ b = Part(s, i, j)
    BY <1>1
  <1>3. PICK F : Woven(n, knots, F) /\ s \in F /\ TwoWays(F) = TwoWays(G)
    BY Faced
  <1>4. n \in Nat /\ Strand(n, s) /\ s \in TwoWays(F)
    BY <1>3 DEF Woven
  <1>5. Of(knots, b) = Cutting(s, i, j)
    BY <1>2, BeadRead DEF Cutting
  <1>6. Along(knots, [pre |-> b.pre, k |-> b.fst]) = s
    <2>1. [pre |-> b.pre, k |-> b.fst] = Stop(s, i)
      BY <1>2 DEF Part, Stop
    <2> QED BY <2>1, AlongIs
  <1>7. Skipping(s, Cutting(s, i, j)) = Rest(s, i, j)
    BY <1>2, <1>4, SkippingIs
  <1>8. Woven(n, lscut(knots, b), (F \ {s}) \cup CutUp(s, i, j))
    BY <1>2, <1>3, CutWoven
  <1>9. Strings(lscut(knots, b)) = TwoWays((F \ {s}) \cup CutUp(s, i, j))
    BY <1>8, StringsAre
  <1>10. TwoWays((F \ {s}) \cup CutUp(s, i, j)) = (TwoWays(F) \ TwoWays({s})) \cup TwoWays(CutUp(s, i, j))
    <2>1. {s} \subseteq F
      BY <1>3
    <2>2. SameButFor(F, {s}, CutUp(s, i, j))
      BY <1>3, <2>1, BothRewoven
    <2> QED BY <2>2 DEF SameButFor
  <1>11. Strings(knots) = TwoWays(F)
    BY <1>3, StringsAre
  <1> QED BY <1>5, <1>6, <1>7, <1>9, <1>10, <1>11 DEF CutExact, CutUp

\* Two different strings can be taken as they are read.
LEMMA FacedBoth ==
  ASSUME NEW n, NEW w, NEW G, Woven(n, w, G), NEW s \in TwoWays(G), NEW s2 \in TwoWays(G),
         ToSet(s) \cap ToSet(s2) = {}
  PROVE  \E F : Woven(n, w, F) /\ s \in F /\ s2 \in F /\ s # s2 /\ TwoWays(F) = TwoWays(G)
  <1>1. PICK H : Woven(n, w, H) /\ s \in H /\ TwoWays(H) = TwoWays(G)
    BY Faced
  <1>2. PICK F : Woven(n, w, F) /\ s2 \in F /\ H \ {Reverse(s2)} \subseteq F /\ TwoWays(F) = TwoWays(H)
    BY <1>1, Faced
  <1>3. n \in Nat /\ Strand(n, s) /\ Strand(n, s2)
    BY EitherWay DEF Woven
  <1>4. ToSet(Reverse(s2)) = ToSet(s2)
    BY <1>3, ReverseShape
  <1>5. ToSet(s) # {}
    <2>1. 1 \in 1..Len(s) /\ DOMAIN s = 1..Len(s)
      BY <1>3, StrandShape
    <2>2. s[1] \in ToSet(s)
      BY <2>1 DEF ToSet
    <2> QED BY <2>2
  <1>6. s # s2 /\ s # Reverse(s2)
    BY <1>4, <1>5
  <1> QED BY <1>1, <1>2, <1>6

\* What a knot of s2, and one of s, stores when s is put behind the q-th of s2.
PutAtHost(s2, q, s, x) ==
  (IF x = q + 1 THEN {s[Len(s)]} ELSE Prev(s2, x)) \cup (IF x = q THEN {s[1]} ELSE After(s2, x))
PutAtGuest(s2, q, s, x) ==
  (IF x = 1 THEN {s2[q]} ELSE Prev(s, x)) \cup (IF x = Len(s) THEN After(s2, q) ELSE After(s, x))

\* What lsput leaves in every knot.
LEMMA PutShape ==
  ASSUME NEW n, NEW w, NEW G, Woven(n, w, G), NEW s \in TwoWays(G), NEW s2 \in TwoWays(G),
         ToSet(s) \cap ToSet(s2) = {}, NEW q \in 1..Len(s2)
  PROVE  /\ lsput(w, Prev(s2, q), {s2[q]}, Part(s, 1, Len(s))) \in [1..n -> SUBSET (1..n)]
         /\ \A k \in 1..n : k \notin ToSet(s) /\ k \notin ToSet(s2) =>
              lsput(w, Prev(s2, q), {s2[q]}, Part(s, 1, Len(s)))[k] = w[k]
         /\ \A x \in 1..Len(s2) :
              lsput(w, Prev(s2, q), {s2[q]}, Part(s, 1, Len(s)))[s2[x]] = PutAtHost(s2, q, s, x)
         /\ \A x \in 1..Len(s) :
              lsput(w, Prev(s2, q), {s2[q]}, Part(s, 1, Len(s)))[s[x]] = PutAtGuest(s2, q, s, x)
  <1>1. /\ n \in Nat /\ w \in [1..n -> SUBSET (1..n)]
        /\ Strand(n, s) /\ Linked(w, s, 1) /\ Strand(n, s2) /\ Linked(w, s2, 1)
    <2>1. Strand(n, s) /\ Linked(w, s, 1)
      BY EitherWay
    <2>2. Strand(n, s2) /\ Linked(w, s2, 1)
      BY EitherWay
    <2> QED BY <2>1, <2>2 DEF Woven
  <1>2. /\ Len(s) \in Nat /\ Len(s) >= 1 /\ DOMAIN s = 1..Len(s)
        /\ \A a \in 1..Len(s) : s[a] \in 1..n
        /\ \A a, c \in 1..Len(s) : s[a] = s[c] => a = c
    BY <1>1, StrandShape
  <1>3. /\ Len(s2) \in Nat /\ DOMAIN s2 = 1..Len(s2)
        /\ \A a \in 1..Len(s2) : s2[a] \in 1..n
        /\ \A a, c \in 1..Len(s2) : s2[a] = s2[c] => a = c
    BY <1>1, StrandShape
  <1>4. \A x \in 1..Len(s), y \in 1..Len(s2) : s[x] # s2[y]
    <2> TAKE x \in 1..Len(s), y \in 1..Len(s2)
    <2>1. s[x] \in ToSet(s) /\ s2[y] \in ToSet(s2)
      BY <1>2, <1>3 DEF ToSet
    <2> QED BY <2>1
  <1>5. /\ \A x \in 1..Len(s) : w[s[x]] = Prev(s, x) \cup After(s, x)
        /\ \A x \in 1..Len(s2) : w[s2[x]] = Prev(s2, x) \cup After(s2, x)
    BY <1>1 DEF Linked
  <1>6. PICK l \in 1..Len(s), o \in 1..Len(s) : l = Len(s) /\ o = 1
    <2>1. Len(s) \in 1..Len(s) /\ 1 \in 1..Len(s)
      BY <1>2
    <2> QED BY <2>1
  <1> DEFINE c == After(s2, q)
             w1 == replace_neighbor(w, {s2[q]}, c, {s[o]})
             w2 == replace_neighbor(w1, c, {s2[q]}, {s[l]})
             w3 == replace_neighbor(w2, {s[o]}, {}, {s2[q]})
             w4 == replace_neighbor(w3, {s[l]}, {}, c)
  <1>7. lsput(w, Prev(s2, q), {s2[q]}, Part(s, 1, Len(s))) = w4
    <2>1. step_raw(w, Prev(s2, q), {s2[q]}) = c
      BY <1>1, <1>5, NextStop
    <2>2. Part(s, 1, Len(s)).pre = {} /\ Part(s, 1, Len(s)).fst = {s[o]} /\ Part(s, 1, Len(s)).lst = {s[l]}
      BY <1>6 DEF Part, Prev
    <2>3. {s[o]} # {} /\ {s2[q]} # {}
      BY Handled
    <2> QED BY <2>1, <2>2, <2>3 DEF lsput
  <1>8. /\ \A k : k \in c <=> q + 1 \in 1..Len(s2) /\ k = s2[q + 1]
        /\ c \in SUBSET (1..n) /\ {s2[q]} \in SUBSET (1..n)
        /\ \A k \in c : c = {k}
    BY <1>1, Sides
  <1>9. {s[o]} \in SUBSET (1..n) /\ {s[l]} \in SUBSET (1..n)
    BY <1>2
  <1>10. /\ \A x \in 1..Len(s2) : /\ \A k : k \in Prev(s2, x) <=> x - 1 \in 1..Len(s2) /\ k = s2[x - 1]
                                 /\ \A k : k \in After(s2, x) <=> x + 1 \in 1..Len(s2) /\ k = s2[x + 1]
         /\ \A x \in 1..Len(s) : /\ \A k : k \in Prev(s, x) <=> x - 1 \in 1..Len(s) /\ k = s[x - 1]
                                 /\ \A k : k \in After(s, x) <=> x + 1 \in 1..Len(s) /\ k = s[x + 1]
    BY <1>1, Sides
  <1>11. q \in Int /\ 1 <= q /\ q <= Len(s2) /\ Len(s2) \in Int /\ Len(s) \in Int
    BY <1>2, <1>3
  <1>12. \A x : \A y \in {x} : {x} = {y}
    OBVIOUS
  <1> HIDE DEF c
  <1>13. /\ w1 \in [1..n -> SUBSET (1..n)]
         /\ \A k \in 1..n : w1[k] = IF k \in {s2[q]} THEN Prev(s2, q) \cup {s[o]} ELSE w[k]
    <2>1. w[s2[q]] = Prev(s2, q) \cup c
      BY <1>5 DEF c
    <2>2. Prev(s2, q) \cap c = {}
      <3>1. q - 1 # q + 1
        BY <1>11
      <3> QED BY <1>3, <1>8, <1>10, <3>1
    <2>3. Prev(s2, q) \cap {s[o]} = {}
      BY <1>4, <1>10
    <2>4. Swappable(n, w, {s2[q]}, c, {s[o]}, Prev(s2, q))
      BY <1>1, <1>8, <1>9, <1>12, <2>1, <2>2, <2>3 DEF Swappable
    <2>5. Swapped(n, w, {s2[q]}, Prev(s2, q), {s[o]}, w1)
      BY <2>4, Replaced
    <2> QED BY <2>5 DEF Swapped
  <1> HIDE DEF w1
  <1>14. /\ w2 \in [1..n -> SUBSET (1..n)]
         /\ \A k \in 1..n : w2[k] = IF k \in c THEN After(s2, q + 1) \cup {s[l]} ELSE w1[k]
    <2>1. ASSUME NEW k \in c
          PROVE  /\ w1[k] = After(s2, q + 1) \cup {s2[q]}
                 /\ After(s2, q + 1) \cap {s2[q]} = {} /\ After(s2, q + 1) \cap {s[l]} = {}
      <3>1. q + 1 \in 1..Len(s2) /\ k = s2[q + 1]
        BY <1>8, <2>1
      <3>2. PICK y \in 1..Len(s2) : y = q + 1 /\ y - 1 = q /\ y # 1 /\ y # q /\ y + 1 # q
        BY <1>11, <3>1
      <3>3. Prev(s2, y) = {s2[q]}
        BY <3>2 DEF Prev
      <3>4. w1[k] = w[k]
        BY <1>3, <1>13, <3>1, <3>2
      <3>5. w[k] = After(s2, y) \cup {s2[q]}
        BY <1>5, <3>1, <3>2, <3>3
      <3>6. After(s2, y) \cap {s2[q]} = {} /\ After(s2, y) \cap {s[l]} = {}
        BY <1>3, <1>4, <1>10, <3>2
      <3> QED BY <3>2, <3>4, <3>5, <3>6
    <2>2. Swappable(n, w1, c, {s2[q]}, {s[l]}, After(s2, q + 1))
      BY <1>8, <1>9, <1>13, <2>1 DEF Swappable
    <2>3. Swapped(n, w1, c, After(s2, q + 1), {s[l]}, w2)
      BY <2>2, Replaced
    <2> QED BY <2>3 DEF Swapped
  <1> HIDE DEF w2
  <1>15. \A x \in 1..Len(s) : s[x] \in 1..n /\ w2[s[x]] = Prev(s, x) \cup After(s, x)
    <2> TAKE x \in 1..Len(s)
    <2>1. PICK k \in 1..n : k = s[x]
      BY <1>2
    <2>2. k \notin c /\ k \notin {s2[q]}
      BY <1>4, <1>8, <2>1
    <2>3. w1[k] = w[k]
      BY <1>13, <2>2
    <2>4. w2[k] = w1[k]
      BY <1>14, <2>2
    <2> QED BY <1>5, <2>1, <2>3, <2>4
  <1>16. /\ w3 \in [1..n -> SUBSET (1..n)]
         /\ \A k \in 1..n : w3[k] = IF k \in {s[o]} THEN After(s, o) \cup {s2[q]} ELSE w2[k]
    <2>1. w2[s[o]] = After(s, o) \cup {}
      <3>1. Prev(s, o) = {}
        BY <1>6 DEF Prev
      <3> QED BY <1>15, <3>1
    <2>2. After(s, o) \cap {s2[q]} = {} /\ After(s, o) \cap {} = {} /\ {} \in SUBSET (1..n)
      BY <1>4, <1>10
    <2>3. Swappable(n, w2, {s[o]}, {}, {s2[q]}, After(s, o))
      BY <1>8, <1>9, <1>12, <1>14, <2>1, <2>2 DEF Swappable
    <2>4. Swapped(n, w2, {s[o]}, After(s, o), {s2[q]}, w3)
      BY <2>3, Replaced
    <2> QED BY <2>4 DEF Swapped
  <1> HIDE DEF w3
  <1> DEFINE last == IF l = o THEN {s2[q]} ELSE Prev(s, l)
  <1>17. /\ w4 \in [1..n -> SUBSET (1..n)]
         /\ \A k \in 1..n : w4[k] = IF k \in {s[l]} THEN last \cup c ELSE w3[k]
    <2>1. After(s, l) = {}
      BY <1>6 DEF After
    <2>2. PICK k \in 1..n : k = s[l]
      BY <1>2
    <2>3. w3[k] = last
      <3>1. CASE l = o
        <4>1. w3[k] = After(s, o) \cup {s2[q]}
          BY <1>16, <2>2, <3>1
        <4> QED BY <2>1, <3>1, <4>1
      <3>2. CASE l # o
        <4>1. k \notin {s[o]}
          BY <1>2, <2>2, <3>2
        <4>2. w3[k] = w2[k]
          BY <1>16, <4>1
        <4> QED BY <1>15, <2>1, <2>2, <3>2, <4>2
      <3> QED BY <3>1, <3>2
    <2>4. last \cap c = {}
      <3>1. s2[q] \notin c
        <4>1. q # q + 1
          BY <1>11
        <4> QED BY <1>3, <1>8, <4>1
      <3>2. Prev(s, l) \cap c = {}
        BY <1>4, <1>8, <1>10
      <3> QED BY <3>1, <3>2
    <2> HIDE DEF last
    <2>5. Swappable(n, w3, {s[l]}, {}, c, last)
      <3>1. w3[s[l]] = last \cup {} /\ last \cap {} = {} /\ {} \in SUBSET (1..n)
        BY <2>2, <2>3
      <3> QED BY <1>8, <1>9, <1>12, <1>16, <2>4, <3>1 DEF Swappable
    <2>6. Swapped(n, w3, {s[l]}, last, c, w4)
      BY <2>5, Replaced
    <2> QED BY <2>6 DEF Swapped
  <1> HIDE DEF w4
  <1>18. ASSUME NEW k \in 1..n, k \notin ToSet(s) PROVE w4[k] = w2[k]
    <2>1. k \notin {s[l]} /\ k \notin {s[o]}
      BY <1>2, <1>18 DEF ToSet
    <2>2. w4[k] = w3[k]
      BY <1>17, <2>1
    <2> QED BY <1>16, <2>1, <2>2
  <1>19. ASSUME NEW k \in 1..n, k \notin ToSet(s), k \notin ToSet(s2) PROVE w4[k] = w[k]
    <2>1. \A x \in 1..Len(s2) : k # s2[x]
      BY <1>3, <1>19 DEF ToSet
    <2>2. k \notin c /\ k \notin {s2[q]}
      BY <1>8, <2>1
    <2>3. w2[k] = w1[k]
      BY <1>14, <2>2
    <2>4. w1[k] = w[k]
      BY <1>13, <2>2
    <2> QED BY <1>18, <1>19, <2>3, <2>4
  <1>20. ASSUME NEW x \in 1..Len(s2) PROVE w4[s2[x]] = PutAtHost(s2, q, s, x)
    <2>1. PICK k \in 1..n : k = s2[x]
      BY <1>3
    <2>2. k \notin ToSet(s)
      BY <1>2, <1>4, <2>1 DEF ToSet
    <2>3. w4[k] = w2[k]
      BY <1>18, <2>2
    <2>4. (k \in c <=> x = q + 1) /\ (k \in {s2[q]} <=> x = q)
      BY <1>3, <1>8, <2>1
    <2>5. q # q + 1
      BY <1>11
    <2>6. w2[k] = IF k \in c THEN After(s2, q + 1) \cup {s[l]} ELSE w1[k]
      BY <1>14
    <2>7. w1[k] = IF k \in {s2[q]} THEN Prev(s2, q) \cup {s[o]} ELSE w[k]
      BY <1>13
    <2>8. w[k] = Prev(s2, x) \cup After(s2, x)
      BY <1>5, <2>1
    <2>9. CASE x = q + 1
      <3>1. w4[k] = After(s2, x) \cup {s[Len(s)]} /\ x # q
        BY <1>6, <2>3, <2>4, <2>5, <2>6, <2>9
      <3> QED BY <2>1, <2>9, <3>1 DEF PutAtHost
    <2>10. CASE x = q
      <3>1. w4[k] = Prev(s2, x) \cup {s[1]} /\ x # q + 1
        BY <1>6, <2>3, <2>4, <2>5, <2>6, <2>7, <2>10
      <3> QED BY <2>1, <2>10, <3>1 DEF PutAtHost
    <2>11. CASE x # q /\ x # q + 1
      <3>1. w4[k] = Prev(s2, x) \cup After(s2, x)
        BY <2>3, <2>4, <2>6, <2>7, <2>8, <2>11
      <3> QED BY <2>1, <2>11, <3>1 DEF PutAtHost
    <2> QED BY <2>9, <2>10, <2>11
  <1>21. ASSUME NEW x \in 1..Len(s) PROVE w4[s[x]] = PutAtGuest(s2, q, s, x)
    <2>1. PICK k \in 1..n : k = s[x]
      BY <1>2
    <2>2. (k \in {s[l]} <=> x = l) /\ (k \in {s[o]} <=> x = o)
      BY <1>2, <2>1
    <2>3. w4[k] = IF k \in {s[l]} THEN last \cup c ELSE w3[k]
      BY <1>17
    <2>4. w3[k] = IF k \in {s[o]} THEN After(s, o) \cup {s2[q]} ELSE w2[k]
      BY <1>16
    <2>5. w2[k] = Prev(s, x) \cup After(s, x)
      BY <1>15, <2>1
    <2>6. CASE x = l
      <3>1. w4[k] = (IF x = 1 THEN {s2[q]} ELSE Prev(s, x)) \cup After(s2, q)
        BY <1>6, <2>2, <2>3, <2>6 DEF c
      <3> QED BY <1>6, <2>1, <2>6, <3>1 DEF PutAtGuest
    <2>7. CASE x # l /\ x = o
      <3>1. w4[k] = After(s, x) \cup {s2[q]}
        BY <2>2, <2>3, <2>4, <2>7
      <3> QED BY <1>6, <2>1, <2>7, <3>1 DEF PutAtGuest
    <2>8. CASE x # l /\ x # o
      <3>1. w4[k] = Prev(s, x) \cup After(s, x)
        BY <2>2, <2>3, <2>4, <2>5, <2>8
      <3> QED BY <1>6, <2>1, <2>8, <3>1 DEF PutAtGuest
    <2> QED BY <2>6, <2>7, <2>8
  <1> QED BY <1>7, <1>17, <1>19, <1>20, <1>21

\* The string s2 with s put in behind its q-th knot.
PutIn(s2, q, s) ==
  [x \in 1..(Len(s2) + Len(s)) |-> IF x <= q THEN s2[x] ELSE IF x <= q + Len(s) THEN s[x - q] ELSE s2[x - Len(s)]]

\* r is that string.
IsPutIn(n, s2, q, s, r) ==
  /\ r \in Seq(1..n) /\ Len(r) = Len(s2) + Len(s)
  /\ \A x \in 1..(Len(s2) + Len(s)) :
       IF x <= q THEN x \in 1..Len(s2) /\ r[x] = s2[x]
       ELSE IF x <= q + Len(s) THEN x - q \in 1..Len(s) /\ r[x] = s[x - q]
       ELSE x - Len(s) \in 1..Len(s2) /\ r[x] = s2[x - Len(s)]

\* What is at each place of such a string.
LEMMA PutInShape ==
  ASSUME NEW n \in Nat, NEW s, Strand(n, s), NEW s2, Strand(n, s2), NEW q \in 1..Len(s2)
  PROVE  IsPutIn(n, s2, q, s, PutIn(s2, q, s))
  <1>1. Len(s) \in Nat /\ \A a \in 1..Len(s) : s[a] \in 1..n
    BY StrandShape
  <1>2. Len(s2) \in Nat /\ \A a \in 1..Len(s2) : s2[a] \in 1..n
    BY StrandShape
  <1>3. PICK e, l : e = Len(s2) + Len(s) /\ l = Len(s)
    OBVIOUS
  <1>4. e \in Nat /\ l \in Nat /\ q \in Int /\ 1 <= q /\ q <= Len(s2) /\ e = Len(s2) + l /\ Len(s2) \in Nat
    BY <1>1, <1>2, <1>3
  <1>5. \A x \in 1..e : IF x <= q THEN x \in 1..Len(s2)
                        ELSE IF x <= q + l THEN x - q \in 1..l ELSE x - l \in 1..Len(s2)
    BY ONLY <1>4
  <1>6. PICK r : r = PutIn(s2, q, s)
    OBVIOUS
  <1>7. r = [x \in 1..e |-> IF x <= q THEN s2[x] ELSE IF x <= q + l THEN s[x - q] ELSE s2[x - l]]
    BY <1>3, <1>6 DEF PutIn
  <1>8. r \in [1..e -> 1..n]
    BY <1>1, <1>2, <1>3, <1>5, <1>7
  <1>9. r \in Seq(1..n) /\ Len(r) = e
    BY <1>4, <1>8
  <1>10. \A x \in 1..e : IF x <= q THEN x \in 1..Len(s2) /\ r[x] = s2[x]
                         ELSE IF x <= q + l THEN x - q \in 1..l /\ r[x] = s[x - q]
                         ELSE x - l \in 1..Len(s2) /\ r[x] = s2[x - l]
    BY <1>5, <1>7
  <1>11. IsPutIn(n, s2, q, s, r)
    BY <1>3, <1>9, <1>10 DEF IsPutIn
  <1> QED BY <1>6, <1>11

\* It has the knots of both, none twice.
LEMMA PutInKnots ==
  ASSUME NEW n \in Nat, NEW s, Strand(n, s), NEW s2, Strand(n, s2), NEW q \in 1..Len(s2),
         ToSet(s) \cap ToSet(s2) = {}, NEW r, IsPutIn(n, s2, q, s, r)
  PROVE  Strand(n, r) /\ ToSet(r) = ToSet(s) \cup ToSet(s2)
  <1>1. /\ Len(s) \in Nat /\ DOMAIN s = 1..Len(s)
        /\ \A a, c \in 1..Len(s) : s[a] = s[c] => a = c
    BY StrandShape
  <1>2. /\ Len(s2) \in Nat /\ DOMAIN s2 = 1..Len(s2)
        /\ \A a, c \in 1..Len(s2) : s2[a] = s2[c] => a = c
    BY StrandShape
  <1>3. PICK e, l : e = Len(s2) + Len(s) /\ l = Len(s)
    OBVIOUS
  <1>4. e \in Nat /\ l \in Nat /\ q \in Int /\ 1 <= q /\ q <= Len(s2) /\ e = Len(s2) + l /\ Len(s2) \in Nat /\ e >= 1
    BY <1>1, <1>2, <1>3
  <1>5. /\ r \in Seq(1..n) /\ Len(r) = e
        /\ \A x \in 1..e : IF x <= q THEN x \in 1..Len(s2) /\ r[x] = s2[x]
                           ELSE IF x <= q + l THEN x - q \in 1..l /\ r[x] = s[x - q]
                           ELSE x - l \in 1..Len(s2) /\ r[x] = s2[x - l]
    BY <1>3 DEF IsPutIn
  <1>6. DOMAIN r = 1..e
    BY <1>5
  <1>7. \A x \in 1..Len(s), y \in 1..Len(s2) : s[x] # s2[y]
    <2> TAKE x \in 1..Len(s), y \in 1..Len(s2)
    <2>1. s[x] \in ToSet(s) /\ s2[y] \in ToSet(s2)
      BY <1>1, <1>2 DEF ToSet
    <2> QED BY <2>1
  \* Where a knot of it comes from: the one or the other string.
  <1> DEFINE Host(x) == IF x <= q THEN x ELSE x - l
  <1>8. \A x \in 1..e : \/ ~(x > q /\ x <= q + l) /\ Host(x) \in 1..Len(s2) /\ r[x] = s2[Host(x)]
                        \/ (x > q /\ x <= q + l) /\ x - q \in 1..l /\ r[x] = s[x - q]
    <2> TAKE x \in 1..e
    <2>1. x \in Int
      OBVIOUS
    <2>2. CASE x <= q
      <3>1. ~(x > q /\ x <= q + l)
        BY ONLY <1>4, <2>1, <2>2
      <3> QED BY <1>5, <2>2, <3>1
    <2>3. CASE ~(x <= q) /\ x <= q + l
      <3>1. x > q
        BY ONLY <1>4, <2>1, <2>3
      <3> QED BY <1>5, <2>3, <3>1
    <2>4. CASE ~(x <= q) /\ ~(x <= q + l)
      <3>1. ~(x > q /\ x <= q + l)
        BY <2>4
      <3> QED BY <1>5, <2>4, <3>1
    <2> QED BY <2>2, <2>3, <2>4
  <1>9. IsInjective(r)
    <2> SUFFICES ASSUME NEW x \in DOMAIN r, NEW y \in DOMAIN r, r[x] = r[y] PROVE x = y
      BY DEF IsInjective
    <2>1. x \in 1..e /\ y \in 1..e /\ x \in Int /\ y \in Int
      BY <1>6
    <2>2. CASE (x > q /\ x <= q + l) /\ (y > q /\ y <= q + l)
      <3>1. x - q \in 1..Len(s) /\ y - q \in 1..Len(s) /\ s[x - q] = s[y - q]
        BY <1>3, <1>8, <2>1, <2>2
      <3>2. x - q = y - q
        BY <1>1, <3>1
      <3> QED BY ONLY <1>4, <2>1, <3>2
    <2>3. CASE ~(x > q /\ x <= q + l) /\ ~(y > q /\ y <= q + l)
      <3>1. Host(x) \in 1..Len(s2) /\ Host(y) \in 1..Len(s2) /\ s2[Host(x)] = s2[Host(y)]
        BY <1>8, <2>1, <2>3
      <3> HIDE DEF Host
      <3>2. Host(x) = Host(y)
        BY <1>2, <3>1
      <3> USE DEF Host
      <3> QED BY ONLY <1>4, <2>1, <2>3, <3>2
    <2>4. CASE (x > q /\ x <= q + l) /\ ~(y > q /\ y <= q + l)
      <3>1. x - q \in 1..Len(s) /\ Host(y) \in 1..Len(s2) /\ s[x - q] = s2[Host(y)]
        BY <1>3, <1>8, <2>1, <2>4
      <3> QED BY <1>7, <3>1
    <2>5. CASE ~(x > q /\ x <= q + l) /\ (y > q /\ y <= q + l)
      <3>1. y - q \in 1..Len(s) /\ Host(x) \in 1..Len(s2) /\ s[y - q] = s2[Host(x)]
        BY <1>3, <1>8, <2>1, <2>5
      <3> QED BY <1>7, <3>1
    <2> QED BY <2>2, <2>3, <2>4, <2>5
  <1>10. ToSet(r) = ToSet(s) \cup ToSet(s2)
    <2>1. ASSUME NEW k \in ToSet(r) PROVE k \in ToSet(s) \cup ToSet(s2)
      <3>1. PICK x \in 1..e : k = r[x]
        BY <1>6 DEF ToSet
      <3>2. (\E a \in 1..Len(s2) : k = s2[a]) \/ (\E a \in 1..Len(s) : k = s[a])
        BY <1>3, <1>8, <3>1
      <3> QED BY <1>1, <1>2, <3>2 DEF ToSet
    <2>2. ASSUME NEW a \in 1..Len(s) PROVE s[a] \in ToSet(r)
      <3>1. a \in Int /\ 1 <= a /\ a <= l
        BY <1>1, <1>3
      <3>2. q + a \in 1..e /\ ~(q + a <= q) /\ q + a <= q + l /\ (q + a) - q = a
        BY ONLY <1>4, <3>1
      <3>3. r[q + a] = s[a]
        BY <1>5, <3>2
      <3> QED BY <1>6, <3>2, <3>3 DEF ToSet
    <2>3. ASSUME NEW a \in 1..Len(s2) PROVE s2[a] \in ToSet(r)
      <3>1. a \in Int /\ 1 <= a /\ a <= Len(s2)
        BY <1>2
      <3>2. CASE a <= q
        <4>1. a \in 1..e
          BY ONLY <1>4, <3>1
        <4>2. r[a] = s2[a]
          BY <1>5, <3>2, <4>1
        <4> QED BY <1>6, <4>1, <4>2 DEF ToSet
      <3>3. CASE ~(a <= q)
        <4>1. a + l \in 1..e /\ ~(a + l <= q) /\ ~(a + l <= q + l) /\ (a + l) - l = a
          BY ONLY <1>4, <3>1, <3>3
        <4>2. r[a + l] = s2[a]
          BY <1>5, <4>1
        <4> QED BY <1>6, <4>1, <4>2 DEF ToSet
      <3> QED BY <3>2, <3>3
    <2>4. \A k \in ToSet(s) : \E a \in 1..Len(s) : k = s[a]
      BY <1>1 DEF ToSet
    <2>5. \A k \in ToSet(s2) : \E a \in 1..Len(s2) : k = s2[a]
      BY <1>2 DEF ToSet
    <2> QED BY <2>1, <2>2, <2>3, <2>4, <2>5
  <1>11. r # <<>>
    BY <1>4, <1>5
  <1> QED BY <1>5, <1>9, <1>10, <1>11 DEF Strand

\* After the put it is linked.
LEMMA PutLinked ==
  ASSUME NEW n \in Nat, NEW s, Strand(n, s), NEW s2, Strand(n, s2), NEW q \in 1..Len(s2),
         NEW r, IsPutIn(n, s2, q, s, r),
         NEW u, \A x \in 1..Len(s2) : u[s2[x]] = PutAtHost(s2, q, s, x),
         \A x \in 1..Len(s) : u[s[x]] = PutAtGuest(s2, q, s, x)
  PROVE  Linked(u, r, 1)
  <1>1. Len(s) \in Nat /\ Len(s) >= 1
    BY StrandShape
  <1>2. Len(s2) \in Nat
    BY StrandShape
  <1>3. PICK e, l : e = Len(s2) + Len(s) /\ l = Len(s)
    OBVIOUS
  <1>4. /\ e \in Nat /\ l \in Nat /\ l >= 1 /\ q \in Int /\ 1 <= q /\ q <= Len(s2) /\ e = Len(s2) + l
        /\ Len(s2) \in Nat
    BY <1>1, <1>2, <1>3
  <1>5. /\ Len(r) = e
        /\ \A x \in 1..e : IF x <= q THEN x \in 1..Len(s2) /\ r[x] = s2[x]
                           ELSE IF x <= q + l THEN x - q \in 1..l /\ r[x] = s[x - q]
                           ELSE x - l \in 1..Len(s2) /\ r[x] = s2[x - l]
    BY <1>3 DEF IsPutIn
  <1>6. ASSUME NEW x \in 1..e PROVE u[r[x]] = Prev(r, x) \cup After(r, x)
    <2>1. x \in Int /\ 1 <= x /\ x <= e
      BY <1>4
    <2>2. CASE x <= q
      <3>1. /\ x # q + 1 /\ x # e
            /\ (x # 1 => x - 1 \in 1..e /\ x - 1 <= q)
            /\ (x # q => x + 1 \in 1..e /\ x + 1 <= q /\ x # Len(s2))
            /\ (x = q => x + 1 \in 1..e /\ ~(x + 1 <= q) /\ x + 1 <= q + l /\ (x + 1) - q = 1)
        BY ONLY <1>4, <2>1, <2>2
      <3>2. Prev(r, x) = Prev(s2, x)
        BY <1>5, <3>1 DEF Prev
      <3>3. After(r, x) = IF x = q THEN {s[1]} ELSE After(s2, x)
        <4>1. CASE x = q
          <5>1. r[x + 1] = s[1]
            BY <1>5, <3>1, <4>1
          <5> QED BY <1>5, <3>1, <4>1, <5>1 DEF After
        <4>2. CASE x # q
          <5>1. r[x + 1] = s2[x + 1]
            BY <1>5, <3>1, <4>2
          <5> QED BY <1>5, <3>1, <4>2, <5>1 DEF After
        <4> QED BY <4>1, <4>2
      <3>4. u[r[x]] = PutAtHost(s2, q, s, x)
        BY <1>5, <2>2
      <3> QED BY <3>1, <3>2, <3>3, <3>4 DEF PutAtHost
    <2>3. CASE ~(x <= q) /\ x <= q + l
      <3>1. PICK y : y = x - q
        OBVIOUS
      <3>2. /\ y \in Int /\ x # 1 /\ x - 1 \in 1..e /\ (y = 1 <=> x - 1 = q) /\ (y = 1 <=> x - 1 <= q)
            /\ (y # 1 => ~(x - 1 <= q) /\ x - 1 <= q + l /\ (x - 1) - q = y - 1)
            /\ (y # l => x + 1 \in 1..e /\ ~(x + 1 <= q) /\ x + 1 <= q + l /\ (x + 1) - q = y + 1 /\ x # e)
            /\ (y = l => (x = e <=> q = Len(s2)))
            /\ (y = l /\ x # e => x + 1 \in 1..e /\ ~(x + 1 <= q) /\ ~(x + 1 <= q + l) /\ (x + 1) - l = q + 1)
        BY ONLY <1>4, <2>1, <2>3, <3>1
      <3>3. Prev(r, x) = IF y = 1 THEN {s2[q]} ELSE Prev(s, y)
        <4>1. CASE y = 1
          <5>1. x - 1 = q /\ r[x - 1] = s2[q]
            BY <1>5, <3>2, <4>1
          <5> QED BY <3>2, <4>1, <5>1 DEF Prev
        <4>2. CASE y # 1
          <5>1. r[x - 1] = s[y - 1]
            BY <1>5, <3>2, <4>2
          <5> QED BY <3>2, <4>2, <5>1 DEF Prev
        <4> QED BY <4>1, <4>2
      <3>4. After(r, x) = IF y = Len(s) THEN After(s2, q) ELSE After(s, y)
        <4>1. CASE y = l
          <5>1. x # e => r[x + 1] = s2[q + 1]
            BY <1>5, <3>2, <4>1
          <5> QED BY <1>3, <1>5, <3>2, <4>1, <5>1 DEF After
        <4>2. CASE y # l
          <5>1. r[x + 1] = s[y + 1]
            BY <1>5, <3>2, <4>2
          <5> QED BY <1>3, <1>5, <3>2, <4>2, <5>1 DEF After
        <4> QED BY <4>1, <4>2
      <3>5. y \in 1..Len(s) /\ r[x] = s[y]
        BY <1>3, <1>5, <2>3, <3>1
      <3>6. u[r[x]] = PutAtGuest(s2, q, s, y)
        BY <3>5
      <3> QED BY <3>3, <3>4, <3>6 DEF PutAtGuest
    <2>4. CASE ~(x <= q) /\ ~(x <= q + l)
      <3>1. PICK y : y = x - l
        OBVIOUS
      <3>2. /\ y \in Int /\ x # 1 /\ y # 1 /\ y # q /\ x - 1 \in 1..e /\ ~(x - 1 <= q)
            /\ (y = q + 1 <=> x - 1 <= q + l)
            /\ (y = q + 1 => (x - 1) - q = l)
            /\ (y # q + 1 => (x - 1) - l = y - 1)
            /\ (x = e <=> y = Len(s2))
            /\ (x # e => x + 1 \in 1..e /\ ~(x + 1 <= q) /\ ~(x + 1 <= q + l) /\ (x + 1) - l = y + 1)
        BY ONLY <1>4, <2>1, <2>4, <3>1
      <3>3. Prev(r, x) = IF y = q + 1 THEN {s[Len(s)]} ELSE Prev(s2, y)
        <4>1. CASE y = q + 1
          <5>1. r[x - 1] = s[l]
            BY <1>5, <3>2, <4>1
          <5> QED BY <1>3, <3>2, <4>1, <5>1 DEF Prev
        <4>2. CASE y # q + 1
          <5>1. r[x - 1] = s2[y - 1]
            BY <1>5, <3>2, <4>2
          <5> QED BY <3>2, <4>2, <5>1 DEF Prev
        <4> QED BY <4>1, <4>2
      <3>4. After(r, x) = After(s2, y)
        <4>1. x # e => r[x + 1] = s2[y + 1]
          BY <1>5, <3>2
        <4> QED BY <1>5, <3>2, <4>1 DEF After
      <3>5. y \in 1..Len(s2) /\ r[x] = s2[y]
        BY <1>5, <2>4, <3>1
      <3>6. u[r[x]] = PutAtHost(s2, q, s, y)
        BY <3>5
      <3> QED BY <3>2, <3>3, <3>4, <3>6 DEF PutAtHost
    <2> QED BY <2>2, <2>3, <2>4
  <1> QED BY <1>5, <1>6 DEF Linked

\* lsput makes one string of two, and keeps the others.
LEMMA PutWoven ==
  ASSUME NEW n, NEW w, NEW G, Woven(n, w, G), NEW s \in G, NEW s2 \in G, s # s2, NEW q \in 1..Len(s2)
  PROVE  Woven(n, lsput(w, Prev(s2, q), {s2[q]}, Part(s, 1, Len(s))), (G \ {s, s2}) \cup {PutIn(s2, q, s)})
  <1>1. /\ n \in Nat /\ Strand(n, s) /\ Strand(n, s2) /\ s \in TwoWays(G) /\ s2 \in TwoWays(G)
        /\ ToSet(s) \cap ToSet(s2) = {}
    BY DEF Woven, TwoWays
  <1>2. PICK u : u = lsput(w, Prev(s2, q), {s2[q]}, Part(s, 1, Len(s)))
    OBVIOUS
  <1>3. /\ u \in [1..n -> SUBSET (1..n)]
        /\ \A k \in 1..n : k \notin ToSet(s) /\ k \notin ToSet(s2) => u[k] = w[k]
        /\ \A x \in 1..Len(s2) : u[s2[x]] = PutAtHost(s2, q, s, x)
        /\ \A x \in 1..Len(s) : u[s[x]] = PutAtGuest(s2, q, s, x)
    BY <1>1, <1>2, PutShape
  <1>4. PICK r : r = PutIn(s2, q, s)
    OBVIOUS
  <1>5. IsPutIn(n, s2, q, s, r)
    BY <1>1, <1>4, PutInShape
  <1>6. Strand(n, r) /\ ToSet(r) = ToSet(s) \cup ToSet(s2)
    BY <1>1, <1>5, PutInKnots
  <1>7. Linked(u, r, 1)
    BY <1>1, <1>3, <1>5, PutLinked
  <1> DEFINE D == {s, s2}
             E == {r}
  <1>8. D \in SUBSET G
    OBVIOUS
  <1>9. \A k \in 1..n : (\A x \in D : k \notin ToSet(x)) => u[k] = w[k]
    BY <1>3
  <1>10. \A x \in E : Strand(n, x) /\ Linked(u, x, 1)
    BY <1>6, <1>7
  <1>11. \A x, y \in E : x = y \/ ToSet(x) \cap ToSet(y) = {}
    OBVIOUS
  <1>12. \A x \in E : \A k \in ToSet(x) : \E y \in D : k \in ToSet(y)
    BY <1>6
  <1>13. \A x \in D : \A k \in ToSet(x) : \E y \in E : k \in ToSet(y)
    BY <1>6
  <1> HIDE DEF D, E
  <1>14. Woven(n, u, (G \ D) \cup E)
    BY ONLY <1>3, <1>8, <1>9, <1>10, <1>11, <1>12, <1>13, Woven(n, w, G), Rewoven
  <1> QED BY <1>2, <1>4, <1>14 DEF D, E

\* To put in behind a knot is to put in behind its place.
LEMMA PutInReads ==
  ASSUME NEW n \in Nat, NEW s, Strand(n, s), NEW s2, Strand(n, s2), NEW q \in 1..Len(s2)
  PROVE  Behind(s2, s2[q], s) = PutIn(s2, q, s)
  <1>1. /\ s2 \in Seq(1..n) /\ Len(s2) \in Nat /\ DOMAIN s2 = 1..Len(s2)
        /\ \A a \in 1..Len(s2) : s2[a] \in 1..n
        /\ \A a, c \in 1..Len(s2) : s2[a] = s2[c] => a = c
    BY StrandShape
  <1>2. s \in Seq(1..n) /\ Len(s) \in Nat
    BY StrandShape
  <1>3. q \in Int /\ 1 <= q /\ q <= Len(s2) /\ Len(s2) \in Int /\ Len(s) \in Int /\ Len(s) >= 0
    BY <1>1, <1>2
  <1>4. (CHOOSE a \in DOMAIN s2 : s2[a] = s2[q]) = q
    BY <1>1
  <1>5. Behind(s2, s2[q], s) = SubSeq(s2, 1, q) \o s \o SubSeq(s2, q + 1, Len(s2))
    BY <1>4 DEF Behind
  <1>6. PICK f, f2 : f = SubSeq(s2, 1, q) /\ f2 = SubSeq(s2, q + 1, Len(s2))
    OBVIOUS
  <1>7. f \in Seq(1..n) /\ Len(f) = q /\ \A x \in 1..q : f[x] = s2[x]
    <2>1. 1 \in Int /\ q \in Int /\ \A x \in 1..q : s2[x] \in 1..n
      BY <1>1
    <2>2. /\ f \in Seq(1..n) /\ Len(f) = IF 1 <= q THEN q - 1 + 1 ELSE 0
          /\ \A x \in 1..(q - 1 + 1) : f[x] = s2[1 + x - 1]
      BY <1>6, <2>1, SubSeqProperties
    <2>3. q - 1 + 1 = q /\ \A x \in 1..q : 1 + x - 1 = x
      BY ONLY <1>3
    <2> QED BY <1>3, <2>2, <2>3
  <1>8. f2 \in Seq(1..n) /\ Len(f2) = Len(s2) - q /\ \A x \in 1..(Len(s2) - q) : f2[x] = s2[q + x]
    <2>1. q + 1 \in Int /\ Len(s2) \in Int /\ \A x \in (q + 1)..Len(s2) : s2[x] \in 1..n
      BY <1>1
    <2>2. /\ f2 \in Seq(1..n) /\ Len(f2) = IF q + 1 <= Len(s2) THEN Len(s2) - (q + 1) + 1 ELSE 0
          /\ \A x \in 1..(Len(s2) - (q + 1) + 1) : f2[x] = s2[(q + 1) + x - 1]
      BY <1>6, <2>1, SubSeqProperties
    <2>3. Len(s2) - (q + 1) + 1 = Len(s2) - q /\ \A x \in 1..(Len(s2) - q) : (q + 1) + x - 1 = q + x
      BY ONLY <1>3
    <2>4. Len(f2) = Len(s2) - q
      BY <1>3, <2>2
    <2> QED BY <2>2, <2>3, <2>4
  <1>9. /\ f \o s \in Seq(1..n) /\ Len(f \o s) = q + Len(s)
        /\ \A x \in 1..(q + Len(s)) : (f \o s)[x] = IF x <= q THEN f[x] ELSE s[x - q]
    BY <1>2, <1>7, ConcatProperties
  <1>10. PICK h : h = f \o s
    OBVIOUS
  <1>11. /\ h \o f2 \in Seq(1..n) /\ Len(h \o f2) = Len(h) + Len(f2)
         /\ \A x \in 1..(Len(h) + Len(f2)) : (h \o f2)[x] = IF x <= Len(h) THEN h[x] ELSE f2[x - Len(h)]
    <2>1. h \in Seq(1..n) /\ f2 \in Seq(1..n)
      BY <1>8, <1>9, <1>10
    <2> QED BY ONLY <2>1, ConcatProperties
  <1>12. PICK r : r = PutIn(s2, q, s)
    OBVIOUS
  <1>13. /\ r \in Seq(1..n) /\ Len(r) = Len(s2) + Len(s)
         /\ \A x \in 1..(Len(s2) + Len(s)) :
              r[x] = IF x <= q THEN s2[x] ELSE IF x <= q + Len(s) THEN s[x - q] ELSE s2[x - Len(s)]
    <2>1. IsPutIn(n, s2, q, s, r)
      BY <1>12, PutInShape
    <2> QED BY <2>1 DEF IsPutIn
  <1>14. Len(h) = q + Len(s) /\ Len(h) + Len(f2) = Len(s2) + Len(s)
    <2>1. (q + Len(s)) + (Len(s2) - q) = Len(s2) + Len(s)
      BY ONLY <1>3
    <2> QED BY <1>8, <1>9, <1>10, <2>1
  <1>15. ASSUME NEW x \in 1..(Len(s2) + Len(s)) PROVE (h \o f2)[x] = r[x]
    <2>1. x \in Int /\ 1 <= x /\ x <= Len(s2) + Len(s)
      BY <1>3
    <2>2. (h \o f2)[x] = IF x <= q + Len(s) THEN h[x] ELSE f2[x - (q + Len(s))]
      BY <1>11, <1>14
    <2>3. CASE x <= q
      <3>1. x <= q + Len(s) /\ x \in 1..(q + Len(s)) /\ x \in 1..q
        BY ONLY <1>3, <2>1, <2>3
      <3> QED BY <1>7, <1>9, <1>10, <1>13, <2>2, <2>3, <3>1
    <2>4. CASE ~(x <= q) /\ x <= q + Len(s)
      <3>1. x \in 1..(q + Len(s))
        BY ONLY <1>3, <2>1, <2>4
      <3> QED BY <1>9, <1>10, <1>13, <2>2, <2>4, <3>1
    <2>5. CASE ~(x <= q) /\ ~(x <= q + Len(s))
      <3>1. x - (q + Len(s)) \in 1..(Len(s2) - q) /\ q + (x - (q + Len(s))) = x - Len(s)
        BY ONLY <1>3, <2>1, <2>5
      <3>2. PICK y \in 1..(Len(s2) - q) : y = x - (q + Len(s)) /\ q + y = x - Len(s)
        BY <3>1
      <3>3. f2[y] = s2[x - Len(s)]
        BY <1>8, <3>2
      <3> QED BY <1>13, <2>2, <2>5, <3>2, <3>3
    <2> QED BY <2>3, <2>4, <2>5
  <1>16. Len(h \o f2) = Len(r) /\ \A x \in 1..Len(h \o f2) : (h \o f2)[x] = r[x]
    BY <1>11, <1>13, <1>14, <1>15
  <1>17. h \o f2 = r
    BY <1>11, <1>13, <1>16, SeqEqual
  <1> QED BY <1>5, <1>6, <1>10, <1>12, <1>17

\* To put in behind the last is to append.
LEMMA PutInLast ==
  ASSUME NEW n \in Nat, NEW s, Strand(n, s), NEW s2, Strand(n, s2)
  PROVE  s2 \o s = PutIn(s2, Len(s2), s)
  <1>1. s2 \in Seq(1..n) /\ Len(s2) \in Nat /\ Len(s2) >= 1
    BY StrandShape
  <1>2. s \in Seq(1..n) /\ Len(s) \in Nat
    BY StrandShape
  <1>3. /\ s2 \o s \in Seq(1..n) /\ Len(s2 \o s) = Len(s2) + Len(s)
        /\ \A x \in 1..(Len(s2) + Len(s)) : (s2 \o s)[x] = IF x <= Len(s2) THEN s2[x] ELSE s[x - Len(s2)]
    BY <1>1, <1>2, ConcatProperties
  <1>4. PICK q \in 1..Len(s2) : q = Len(s2)
    BY <1>1
  <1>5. PICK r : r = PutIn(s2, q, s)
    OBVIOUS
  <1>6. IsPutIn(n, s2, q, s, r)
    BY <1>5, PutInShape
  <1>7. /\ r \in Seq(1..n) /\ Len(r) = Len(s2) + Len(s)
        /\ \A x \in 1..(Len(s2) + Len(s)) :
             r[x] = IF x <= q THEN s2[x] ELSE IF x <= q + Len(s) THEN s[x - q] ELSE s2[x - Len(s)]
    BY <1>6 DEF IsPutIn
  <1>8. \A x \in 1..(Len(s2) + Len(s)) : x <= q + Len(s)
    BY <1>1, <1>2, <1>4
  <1>9. \A x \in 1..Len(r) : (s2 \o s)[x] = r[x]
    BY <1>3, <1>4, <1>7, <1>8
  <1>10. s2 \o s = r
    BY <1>3, <1>7, <1>9, SeqEqual
  <1> QED BY <1>4, <1>5, <1>10

\* A bead that is a whole list is read as that list.
LEMMA WholeRead ==
  ASSUME NEW n, NEW w, NEW G, Woven(n, w, G), NEW s \in TwoWays(G)
  PROVE  Of(w, Part(s, 1, Len(s))) = s
  <1>1. n \in Nat /\ Strand(n, s)
    BY EitherWay DEF Woven
  <1>2. Len(s) \in Nat /\ Len(s) >= 1 /\ DOMAIN s = 1..Len(s) /\ s \in Seq(1..n)
    BY <1>1, StrandShape
  <1>3. 1 \in 1..Len(s) /\ Len(s) \in 1..Len(s) /\ 1 <= Len(s)
    BY <1>2
  <1>4. Of(w, Part(s, 1, Len(s))) = [m \in 1..(Len(s) - 1 + 1) |-> s[1 + m - 1]]
    BY <1>3, BeadRead
  <1>5. Len(s) - 1 + 1 = Len(s) /\ \A m \in 1..Len(s) : 1 + m - 1 = m
    BY <1>2
  <1>6. s = [m \in 1..Len(s) |-> s[m]]
    BY <1>2
  <1> QED BY <1>4, <1>5, <1>6

\* Where such a bead may be put: on another string.
LEMMA PlaceIs ==
  ASSUME NEW n, NEW w, NEW G, Woven(n, w, G), NEW s \in TwoWays(G),
         NEW p \in PlacesFor(w, Part(s, 1, Len(s)))
  PROVE  \E s2 \in TwoWays(G) : \E q \in 1..Len(s2) : p = Stop(s2, q) /\ ToSet(s) \cap ToSet(s2) = {}
  <1>1. p \in Positions(w) /\ as_knot(p.k) \notin ToSet(s)
    BY WholeRead DEF PlacesFor
  <1>2. PICK s2 \in TwoWays(G) : \E q \in 1..Len(s2) : p = Stop(s2, q)
    BY <1>1, PositionsAre
  <1>3. PICK q \in 1..Len(s2) : p = Stop(s2, q)
    BY <1>2
  <1>4. as_knot(p.k) = s2[q]
    BY <1>3, Handled DEF Stop
  <1>5. n \in Nat /\ Strand(n, s) /\ Strand(n, s2)
    BY EitherWay DEF Woven
  <1>6. DOMAIN s2 = 1..Len(s2)
    BY <1>5, StrandShape
  <1>7. s2[q] \in ToSet(s2)
    BY <1>6 DEF ToSet
  <1>8. ToSet(Reverse(s)) = ToSet(s)
    BY <1>5, ReverseShape
  <1>9. s2 \in {s, Reverse(s)} \/ ToSet(s) \cap ToSet(s2) = {}
    BY Apart
  <1> QED BY <1>1, <1>3, <1>4, <1>7, <1>8, <1>9

\* lsput and lscat move beads as nexus.h promises.
LEMMA PutsExact ==
  ASSUME NEW n, NEW G, Woven(n, knots, G),
         NEW b \in Independent(knots), NEW p \in PlacesFor(knots, b)
  PROVE  PutExact(b, p)
  <1>1. PICK s \in TwoWays(G) : b = Part(s, 1, Len(s))
    BY IndependentAre
  <1>2. PICK s2 \in TwoWays(G) : \E q \in 1..Len(s2) : p = Stop(s2, q) /\ ToSet(s) \cap ToSet(s2) = {}
    BY <1>1, PlaceIs
  <1>3. PICK q \in 1..Len(s2) : p = Stop(s2, q) /\ ToSet(s) \cap ToSet(s2) = {}
    BY <1>2
  <1>4. PICK F : Woven(n, knots, F) /\ s \in F /\ s2 \in F /\ s # s2 /\ TwoWays(F) = TwoWays(G)
    BY <1>3, FacedBoth
  <1>5. n \in Nat /\ Strand(n, s) /\ Strand(n, s2)
    BY <1>4 DEF Woven
  <1>6. PICK l \in 1..Len(s2) : l = Len(s2)
    <2>1. Len(s2) \in 1..Len(s2)
      BY <1>5, StrandShape
    <2> QED BY <2>1
  <1>7. Of(knots, b) = s
    BY <1>1, WholeRead
  <1>8. Along(knots, p) = s2
    BY <1>3, AlongIs
  <1>9. p.pre = Prev(s2, q) /\ p.k = {s2[q]} /\ as_knot(p.k) = s2[q]
    BY <1>3, Handled DEF Stop
  <1>10. Strings(knots) = TwoWays(F)
    BY <1>4, StringsAre
  <1>11. ASSUME NEW x \in 1..Len(s2)
         PROVE  Strings(lsput(knots, Prev(s2, x), {s2[x]}, b)) = (TwoWays(F) \ TwoWays({s2, s})) \cup TwoWays({PutIn(s2, x, s)})
    <2>1. Woven(n, lsput(knots, Prev(s2, x), {s2[x]}, b), (F \ {s, s2}) \cup {PutIn(s2, x, s)})
      BY <1>1, <1>4, PutWoven
    <2>2. Strings(lsput(knots, Prev(s2, x), {s2[x]}, b)) = TwoWays((F \ {s, s2}) \cup {PutIn(s2, x, s)})
      BY <2>1, StringsAre
    <2>3. {s, s2} \subseteq F
      BY <1>4
    <2>4. SameButFor(F, {s, s2}, {PutIn(s2, x, s)})
      BY <1>4, <2>3, BothRewoven
    <2>5. {s, s2} = {s2, s}
      OBVIOUS
    <2> QED BY <2>2, <2>4, <2>5 DEF SameButFor
  <1>12. lscat(knots, p.pre, p.k, b) = lsput(knots, Prev(s2, l), {s2[l]}, b)
    <2>1. lsend(knots, p.pre, p.k) = Stop(s2, l)
      BY <1>6, <1>9, EndIs
    <2> QED BY <2>1 DEF lscat, Stop
  <1>13. Behind(s2, s2[q], s) = PutIn(s2, q, s) /\ s2 \o s = PutIn(s2, l, s)
    BY <1>5, <1>6, PutInReads, PutInLast
  <1>14. /\ Strings(lsput(knots, p.pre, p.k, b)) = (TwoWays(F) \ TwoWays({s2, s})) \cup TwoWays({Behind(s2, s2[q], s)})
         /\ Strings(lscat(knots, p.pre, p.k, b)) = (TwoWays(F) \ TwoWays({s2, s})) \cup TwoWays({s2 \o s})
    BY <1>9, <1>11, <1>12, <1>13
  <1> QED BY <1>7, <1>8, <1>9, <1>10, <1>14 DEF PutExact

\* A cut leaves lists behind.
LEMMA CutKeeps ==
  ASSUME NEW n, NEW w, NEW G, Woven(n, w, G), NEW b \in Beads(w)
  PROVE  \E H : Woven(n, lscut(w, b), H)
  <1>1. PICK s \in TwoWays(G) : \E i, j \in 1..Len(s) : i <= j /\ b = Part(s, i, j)
    BY BeadsAre
  <1>2. PICK i \in 1..Len(s), j \in 1..Len(s) : i <= j /\ b = Part(s, i, j)
    BY <1>1
  <1>3. PICK F : Woven(n, w, F) /\ s \in F
    BY Faced
  <1>4. Woven(n, lscut(w, b), (F \ {s}) \cup CutUp(s, i, j))
    BY <1>2, <1>3, CutWoven
  <1> QED BY <1>4

\* A list put in another or joined to it leaves lists behind.
LEMMA PutKeeps ==
  ASSUME NEW n, NEW w, NEW G, Woven(n, w, G), NEW s \in TwoWays(G), NEW b, b = Part(s, 1, Len(s)),
         NEW p \in PlacesFor(w, b)
  PROVE  (\E H : Woven(n, lsput(w, p.pre, p.k, b), H)) /\ (\E H : Woven(n, lscat(w, p.pre, p.k, b), H))
  <1>1. PICK s2 \in TwoWays(G) : \E q \in 1..Len(s2) : p = Stop(s2, q) /\ ToSet(s) \cap ToSet(s2) = {}
    BY PlaceIs
  <1>2. PICK q \in 1..Len(s2) : p = Stop(s2, q) /\ ToSet(s) \cap ToSet(s2) = {}
    BY <1>1
  <1>3. PICK F : Woven(n, w, F) /\ s \in F /\ s2 \in F /\ s # s2
    BY <1>2, FacedBoth
  <1>4. n \in Nat /\ Strand(n, s2)
    BY <1>3 DEF Woven
  <1>5. PICK l \in 1..Len(s2) : l = Len(s2)
    <2>1. Len(s2) \in 1..Len(s2)
      BY <1>4, StrandShape
    <2> QED BY <2>1
  <1>6. p.pre = Prev(s2, q) /\ p.k = {s2[q]}
    BY <1>2 DEF Stop
  <1>7. \A x \in 1..Len(s2) :
          Woven(n, lsput(w, Prev(s2, x), {s2[x]}, b), (F \ {s, s2}) \cup {PutIn(s2, x, s)})
    BY <1>3, PutWoven
  <1>8. lscat(w, p.pre, p.k, b) = lsput(w, Prev(s2, l), {s2[l]}, b)
    <2>1. lsend(w, p.pre, p.k) = Stop(s2, l)
      BY <1>5, <1>6, EndIs
    <2> QED BY <2>1 DEF lscat, Stop
  <1> QED BY <1>6, <1>7, <1>8

\* So does a bead that is spliced in.
LEMMA SpliceKeeps ==
  ASSUME NEW n, NEW w, NEW G, Woven(n, w, G), NEW b \in Beads(w),
         NEW p \in PlacesFor(lscut(w, b), Cut(b))
  PROVE  \E H : Woven(n, lssplice(w, p.pre, p.k, b), H)
  <1>1. PICK s \in TwoWays(G) : \E i, j \in 1..Len(s) : i <= j /\ b = Part(s, i, j)
    BY BeadsAre
  <1>2. PICK i \in 1..Len(s), j \in 1..Len(s) : i <= j /\ b = Part(s, i, j)
    BY <1>1
  <1>3. PICK F : Woven(n, w, F) /\ s \in F
    BY Faced
  <1>4. n \in Nat /\ Strand(n, s)
    BY <1>3 DEF Woven
  <1>5. PICK u : u = lscut(w, b)
    OBVIOUS
  <1>6. PICK m : m = Cutting(s, i, j)
    OBVIOUS
  <1>7. PICK H : Woven(n, u, H) /\ m \in H
    <2>1. Woven(n, u, (F \ {s}) \cup CutUp(s, i, j))
      BY <1>2, <1>3, <1>5, CutWoven
    <2> QED BY <1>6, <2>1 DEF CutUp
  <1>8. Cut(b) = Part(m, 1, Len(m))
    <2>1. PICK d : d = j - i + 1
      OBVIOUS
    <2>2. IsCutting(n, s, i, j, d, m)
      BY <1>2, <1>4, <1>6, <2>1, CuttingShape
    <2>3. Len(m) = d /\ \A x \in 1..d : m[x] = s[i + x - 1]
      BY <2>2 DEF IsCutting
    <2>4. Len(s) \in Nat
      BY <1>4, StrandShape
    <2>5. i \in Int /\ j \in Int /\ i <= j
      BY <1>2, <2>4
    <2>6. 1 \in 1..d /\ d \in 1..d /\ i + 1 - 1 = i /\ i + d - 1 = j
      BY ONLY <2>1, <2>5
    <2>7. m[1] = s[i] /\ m[Len(m)] = s[j]
      BY <2>3, <2>6
    <2>8. Part(m, 1, Len(m)) = [pre |-> {}, fst |-> {s[i]}, lst |-> {s[j]}]
      BY <2>7 DEF Part, Prev
    <2>9. Cut(b) = [pre |-> {}, fst |-> {s[i]}, lst |-> {s[j]}]
      <3>1. PICK x, y, z : x = Prev(s, i) /\ y = {s[i]} /\ z = {s[j]}
        OBVIOUS
      <3>2. b = [pre |-> x, fst |-> y, lst |-> z]
        BY <1>2, <3>1 DEF Part
      <3>3. [[pre |-> x, fst |-> y, lst |-> z] EXCEPT !.pre = {}] = [pre |-> {}, fst |-> y, lst |-> z]
        <4>1. PICK v : v = [pre |-> x, fst |-> y, lst |-> z]
          OBVIOUS
        <4>2. PICK q : q = [v EXCEPT !.pre = {}]
          OBVIOUS
        <4>3. v \in [pre : {x, {}}, fst : {y}, lst : {z}]
          BY <4>1
        <4>4. q \in [pre : {x, {}}, fst : {y}, lst : {z}] /\ q.pre = {} /\ q.fst = v.fst /\ q.lst = v.lst
          BY <4>2, <4>3
        <4>5. q = [pre |-> {}, fst |-> y, lst |-> z]
          BY <4>4
        <4> QED BY <4>1, <4>2, <4>5
      <3>4. Cut(b) = [[pre |-> x, fst |-> y, lst |-> z] EXCEPT !.pre = {}]
        BY ONLY <3>2 DEF Cut
      <3> QED BY <3>1, <3>3, <3>4
    <2> QED BY <2>8, <2>9
  <1>9. m \in TwoWays(H)
    BY <1>7 DEF TwoWays
  <1>10. PICK c : c = Cut(b)
    OBVIOUS
  <1>11. p \in PlacesFor(u, c) /\ c = Part(m, 1, Len(m))
    BY <1>5, <1>8, <1>10
  <1>12. \E I : Woven(n, lsput(u, p.pre, p.k, c), I)
    BY <1>7, <1>9, <1>11, PutKeeps
  <1>13. lssplice(w, p.pre, p.k, b) = lsput(u, p.pre, p.k, c)
    BY <1>5, <1>10 DEF lssplice, Cut
  <1> QED BY <1>12, <1>13

\* A walk that clears empties the knots from where it starts to the end.
LEMMA ClearFrom ==
  ASSUME NEW n \in Nat, NEW w, DOMAIN w = 1..n, NEW s, Strand(n, s), NEW i \in 1..Len(s), Linked(w, s, i)
  PROVE  clear_walk(w, Prev(s, i), {s[i]}) =
           [k \in 1..n |-> IF \E y \in i..Len(s) : k = s[y] THEN {} ELSE w[k]]
  <1>1. lsknots(w, Prev(s, i), {s[i]}) = Route(s, i)
    BY Walking
  <1>2. Len(s) \in Nat
    BY StrandShape
  <1>3. PICK r : r = Route(s, i)
    OBVIOUS
  <1>4. DOMAIN r = 1..(Len(s) - i + 1)
    BY <1>3, RouteShape
  <1>5. \A m \in 1..(Len(s) - i + 1) : i + m - 1 \in i..Len(s) /\ r[m].k = {s[i + m - 1]}
    <2> TAKE m \in 1..(Len(s) - i + 1)
    <2>1. i + m - 1 \in 1..Len(s) /\ r[m] = Stop(s, i + m - 1)
      BY <1>3, RouteKnots
    <2>2. i + m - 1 \in i..Len(s)
      BY <1>2
    <2> QED BY <2>1, <2>2 DEF Stop
  <1>6. \A y \in i..Len(s) : y - i + 1 \in 1..(Len(s) - i + 1) /\ i + (y - i + 1) - 1 = y
    <2>1. i \in Int /\ 1 <= i
      BY <1>2
    <2> QED BY ONLY <1>2, <2>1
  <1>7. \A k : (\E m \in DOMAIN r : r[m].k = {k}) <=> \E y \in i..Len(s) : k = s[y]
    <2> TAKE k
    <2>1. ASSUME NEW m \in DOMAIN r, r[m].k = {k} PROVE \E y \in i..Len(s) : k = s[y]
      BY <1>4, <1>5, <2>1
    <2>2. ASSUME NEW y \in i..Len(s), k = s[y] PROVE \E m \in DOMAIN r : r[m].k = {k}
      <3>1. PICK m \in 1..(Len(s) - i + 1) : i + m - 1 = y
        BY <1>6
      <3>2. r[m].k = {s[y]}
        BY <1>5, <3>1
      <3> QED BY <1>4, <2>2, <3>2
    <2> QED BY <2>1, <2>2
  <1>8. {s[i]} # {}
    BY Handled
  <1>9. clear_walk(w, Prev(s, i), {s[i]}) =
          [k \in DOMAIN w |-> IF \E m \in DOMAIN r : r[m].k = {k} THEN {} ELSE w[k]]
    BY <1>1, <1>3, <1>8 DEF clear_walk
  <1> QED BY <1>7, <1>9

\* Both walks together empty the whole list.
LEMMA RemoveKeeps ==
  ASSUME NEW n, NEW w, NEW G, Woven(n, w, G), NEW p \in Positions(w)
  PROVE  \E H : Woven(n, rmlist(w, p.pre, p.k), H)
  <1>1. PICK s \in TwoWays(G) : \E i \in 1..Len(s) : p = Stop(s, i)
    BY PositionsAre
  <1>2. PICK i \in 1..Len(s) : p = Stop(s, i)
    BY <1>1
  <1>3. PICK F : Woven(n, w, F) /\ s \in F
    BY Faced
  <1>4. n \in Nat /\ Strand(n, s) /\ Linked(w, s, 1) /\ w \in [1..n -> SUBSET (1..n)]
    BY <1>3 DEF Woven
  <1>5. /\ Len(s) \in Nat /\ DOMAIN s = 1..Len(s)
        /\ \A a \in 1..Len(s) : s[a] \in 1..n
        /\ \A a, c \in 1..Len(s) : s[a] = s[c] => a = c
    BY <1>4, StrandShape
  <1>6. i \in Int /\ 1 <= i /\ i <= Len(s) /\ Len(s) \in Int
    BY <1>5
  <1>7. p.pre = Prev(s, i) /\ p.k = {s[i]}
    BY <1>2 DEF Stop
  <1>8. PICK w1 : w1 = clear_walk(w, {s[i]}, Prev(s, i))
    OBVIOUS
  <1>9. w1 = [k \in 1..n |-> IF \E y \in 1..(i - 1) : k = s[y] THEN {} ELSE w[k]]
    <2>1. CASE i = 1
      <3>1. w1 = w
        BY <1>8, <2>1 DEF clear_walk, Prev
      <3>2. ~ \E y \in 1..(i - 1) : TRUE
        BY <2>1
      <3>3. w = [k \in 1..n |-> w[k]]
        BY <1>4
      <3> QED BY <3>1, <3>2, <3>3
    <2>2. CASE i # 1
      <3>1. PICK r : r = Reverse(s)
        OBVIOUS
      <3>2. /\ Strand(n, r) /\ Len(r) = Len(s)
            /\ \A x \in 1..Len(s) : r[x] = s[Len(s) - x + 1] /\ Prev(r, x) = After(s, Len(s) - x + 1)
        BY <1>4, <3>1, ReverseShape
      <3>3. Linked(w, r, 1)
        BY <1>4, <3>1, LinkedBack
      <3>4. PICK x : x = Len(s) - i + 2
        OBVIOUS
      <3>5. /\ x \in 1..Len(s) /\ Len(s) - x + 1 = i - 1 /\ i - 1 # Len(s) /\ (i - 1) + 1 = i
            /\ \A y \in x..Len(s) : y \in 1..Len(s) /\ Len(s) - y + 1 \in 1..(i - 1)
            /\ \A y \in 1..(i - 1) : Len(s) - y + 1 \in x..Len(s) /\ Len(s) - (Len(s) - y + 1) + 1 = y
        BY ONLY <1>6, <2>2, <3>4
      <3>6. r[x] = s[i - 1] /\ Prev(r, x) = {s[i]}
        BY <3>2, <3>5 DEF After
      <3>7. Linked(w, r, x)
        BY <3>2, <3>3, <3>5 DEF Linked
      <3>8. clear_walk(w, Prev(r, x), {r[x]}) =
              [k \in 1..n |-> IF \E y \in x..Len(r) : k = r[y] THEN {} ELSE w[k]]
        <4>1. n \in Nat /\ DOMAIN w = 1..n /\ Strand(n, r) /\ x \in 1..Len(r) /\ Linked(w, r, x)
          BY <1>4, <3>2, <3>5, <3>7
        <4> QED BY ONLY <4>1, ClearFrom
      <3>9. Prev(s, i) = {s[i - 1]}
        BY <2>2 DEF Prev
      <3>10. \A k : (\E y \in x..Len(r) : k = r[y]) <=> \E y \in 1..(i - 1) : k = s[y]
        <4> TAKE k
        <4>1. ASSUME NEW y \in x..Len(s), k = r[y] PROVE \E z \in 1..(i - 1) : k = s[z]
          <5>1. y \in 1..Len(s) /\ Len(s) - y + 1 \in 1..(i - 1)
            BY <3>5
          <5>2. r[y] = s[Len(s) - y + 1]
            BY <3>2, <5>1
          <5> QED BY <4>1, <5>1, <5>2
        <4>2. ASSUME NEW y \in 1..(i - 1), k = s[y] PROVE \E z \in x..Len(s) : k = r[z]
          <5>1. PICK z \in x..Len(s) : Len(s) - z + 1 = y
            BY <3>5
          <5>2. z \in 1..Len(s)
            BY <3>5
          <5>3. r[z] = s[y]
            BY <3>2, <5>1, <5>2
          <5> QED BY <4>2, <5>3
        <4> QED BY <3>2, <4>1, <4>2
      <3>11. w1 = clear_walk(w, Prev(r, x), {r[x]})
        BY <1>8, <3>6, <3>9
      <3>12. w1 = [k \in 1..n |-> IF \E y \in x..Len(r) : k = r[y] THEN {} ELSE w[k]]
        BY <3>8, <3>11
      <3> QED BY <3>10, <3>12
    <2> QED BY <2>1, <2>2
  <1>10. Linked(w1, s, i)
    <2>1. ASSUME NEW j \in i..Len(s) PROVE w1[s[j]] = Prev(s, j) \cup After(s, j)
      <3>1. j \in 1..Len(s) /\ \A y \in 1..(i - 1) : y \in 1..Len(s) /\ y # j
        BY <1>6
      <3>2. s[j] \in 1..n /\ ~ \E y \in 1..(i - 1) : s[j] = s[y]
        BY <1>5, <3>1
      <3>3. w1[s[j]] = w[s[j]]
        BY <1>9, <3>2
      <3> QED BY <1>4, <3>1, <3>3 DEF Linked
    <2> QED BY <2>1 DEF Linked
  <1>11. PICK u : u = rmlist(w, p.pre, p.k)
    OBVIOUS
  <1>12. u = [k \in 1..n |-> IF \E y \in i..Len(s) : k = s[y] THEN {} ELSE w1[k]]
    <2>1. u = clear_walk(w1, Prev(s, i), {s[i]})
      BY <1>7, <1>8, <1>11 DEF rmlist
    <2>2. DOMAIN w1 = 1..n
      BY <1>9
    <2> QED BY <1>4, <1>10, <2>1, <2>2, ClearFrom
  <1>13. \A k : k \in ToSet(s) <=> \E y \in 1..Len(s) : k = s[y]
    BY <1>5 DEF ToSet
  <1>14. \A k : k \in ToSet(s) <=> (\E y \in 1..(i - 1) : k = s[y]) \/ \E y \in i..Len(s) : k = s[y]
    <2>1. \A y : y \in 1..Len(s) <=> y \in 1..(i - 1) \/ y \in i..Len(s)
      BY ONLY <1>6
    <2> QED BY <1>13, <2>1
  <1>15. u = [k \in 1..n |-> IF k \in ToSet(s) THEN {} ELSE w[k]]
    BY <1>9, <1>12, <1>14
  <1> DEFINE D == {s}
             E == {<<k>> : k \in ToSet(s)}
  <1>16. u \in [1..n -> SUBSET (1..n)] /\ D \in SUBSET F
    BY <1>3, <1>4, <1>15
  <1>17. \A k \in 1..n : (\A s2 \in D : k \notin ToSet(s2)) => u[k] = w[k]
    BY <1>15
  <1>18. ASSUME NEW k \in ToSet(s) PROVE Strand(n, <<k>>) /\ Linked(u, <<k>>, 1) /\ ToSet(<<k>>) = {k}
    <2>1. k \in 1..n
      BY <1>5, <1>13
    <2>2. PICK s2 : s2 = <<k>>
      OBVIOUS
    <2>3. s2 \in Seq(1..n) /\ Len(s2) = 1 /\ DOMAIN s2 = 1..1 /\ s2[1] = k /\ s2 # <<>>
      BY <2>1, <2>2
    <2>4. \A x : x \in 1..1 <=> x = 1
      OBVIOUS
    <2>5. IsInjective(s2) /\ ToSet(s2) = {k}
      BY <2>3, <2>4 DEF IsInjective, ToSet
    <2>6. u[k] = {}
      BY <1>15, <1>18, <2>1
    <2>7. Linked(u, s2, 1)
      BY <2>3, <2>4, <2>6 DEF Linked, Prev, After
    <2> QED BY <2>2, <2>3, <2>5, <2>7 DEF Strand
  <1>19. \A s2 \in E : Strand(n, s2) /\ Linked(u, s2, 1)
    BY <1>18
  <1>20. \A s2, v \in E : s2 = v \/ ToSet(s2) \cap ToSet(v) = {}
    BY <1>18
  <1>21. \A s2 \in E : \A k \in ToSet(s2) : \E v \in D : k \in ToSet(v)
    BY <1>18
  <1>22. \A s2 \in D : \A k \in ToSet(s2) : \E v \in E : k \in ToSet(v)
    BY <1>18
  <1> HIDE DEF D, E
  <1>23. Woven(n, u, (F \ D) \cup E)
    BY ONLY <1>3, <1>16, <1>17, <1>19, <1>20, <1>21, <1>22, Rewoven
  <1> QED BY <1>11, <1>23

\* How many knots there are, and that the strings are found by walks.
LEMMA WovenKnots ==
  ASSUME NEW n, NEW w, NEW G, Woven(n, w, G)
  PROVE  w \in Seq(SUBSET (1..n)) /\ Len(w) = n /\ n \in Nat /\ G \in SUBSET Strings(w)
  <1>1. n \in Nat /\ w \in [1..n -> SUBSET (1..n)]
    BY DEF Woven
  <1>2. Strings(w) = TwoWays(G)
    BY StringsAre
  <1> QED BY <1>1, <1>2 DEF TwoWays

\* New knots are one more list.
LEMMA MakeKeeps ==
  ASSUME NEW n, NEW w, NEW G, Woven(n, w, G), NEW m \in 1..3
  PROVE  \E H : Woven(n + m, w \o [i \in 1..m |-> {Len(w) + j : j \in {i - 1, i + 1} \cap (1..m)}], H)
  <1>1. /\ n \in Nat /\ w \in [1..n -> SUBSET (1..n)]
        /\ \A s \in G : Strand(n, s) /\ Linked(w, s, 1)
        /\ \A s, s2 \in G : s = s2 \/ ToSet(s) \cap ToSet(s2) = {}
        /\ \A k \in 1..n : \E s \in G : k \in ToSet(s)
    BY DEF Woven
  <1>2. w \in Seq(SUBSET (1..n)) /\ Len(w) = n
    BY WovenKnots
  <1>3. n \in Int /\ n >= 0 /\ m \in Int /\ 1 <= m
    BY <1>1
  <1>4. PICK e : e = n + m
    OBVIOUS
  <1>5. /\ e \in Nat
        /\ \A k \in 1..n : k \in 1..e
        /\ \A i \in 1..m : n + i \in 1..e /\ n + i \notin 1..n
        /\ \A k \in (1..e) \ (1..n) : k - n \in 1..m /\ n + (k - n) = k
    BY ONLY <1>3, <1>4
  <1>6. PICK f : f = [i \in 1..m |-> {n + j : j \in {i - 1, i + 1} \cap (1..m)}]
    OBVIOUS
  <1>7. f \in Seq(SUBSET (1..e)) /\ Len(f) = m
    <2>1. \A i \in 1..m : {n + j : j \in {i - 1, i + 1} \cap (1..m)} \in SUBSET (1..e)
      BY <1>5
    <2>2. f \in [1..m -> SUBSET (1..e)]
      BY <1>6, <2>1
    <2>3. m \in Nat
      OBVIOUS
    <2> QED BY <2>2, <2>3
  <1>8. w \in Seq(SUBSET (1..e))
    <2>1. SUBSET (1..n) \subseteq SUBSET (1..e)
      BY <1>5
    <2>2. w \in [1..n -> SUBSET (1..e)]
      BY <1>1, <2>1
    <2> QED BY <1>1, <2>2
  <1>9. PICK u : u = w \o f
    OBVIOUS
  <1>10. /\ u \in Seq(SUBSET (1..e)) /\ Len(u) = n + m
         /\ \A x \in 1..(n + m) : u[x] = IF x <= n THEN w[x] ELSE f[x - n]
    <2>1. /\ w \o f \in Seq(SUBSET (1..e)) /\ Len(w \o f) = Len(w) + Len(f)
          /\ \A x \in 1..(Len(w) + Len(f)) : (w \o f)[x] = IF x <= Len(w) THEN w[x] ELSE f[x - Len(w)]
      BY ONLY <1>7, <1>8, ConcatProperties
    <2> QED BY <1>2, <1>7, <1>9, <2>1
  <1>11. u \in [1..e -> SUBSET (1..e)]
    BY <1>4, <1>10
  <1>12. \A k \in 1..n : u[k] = w[k]
    BY <1>4, <1>5, <1>10
  <1>13. \A i \in 1..m : u[n + i] = {n + j : j \in {i - 1, i + 1} \cap (1..m)}
    <2> TAKE i \in 1..m
    <2>1. n + i \in 1..(n + m) /\ ~(n + i <= n) /\ (n + i) - n = i
      BY ONLY <1>3
    <2> QED BY <1>6, <1>10, <2>1
  <1>14. PICK s2 : s2 = [i \in 1..m |-> n + i]
    OBVIOUS
  <1>15. s2 \in Seq(1..e) /\ Len(s2) = m /\ DOMAIN s2 = 1..m /\ \A i \in 1..m : s2[i] = n + i
    <2>1. s2 \in [1..m -> 1..e] /\ m \in Nat
      BY <1>5, <1>14
    <2> QED BY <1>14, <2>1
  <1>16. Strand(e, s2)
    <2>1. s2 # <<>>
      BY <1>3, <1>15
    <2>2. IsInjective(s2)
      <3> SUFFICES ASSUME NEW x \in DOMAIN s2, NEW y \in DOMAIN s2, s2[x] = s2[y] PROVE x = y
        BY DEF IsInjective
      <3>1. n + x = n + y /\ x \in Int /\ y \in Int
        BY <1>15
      <3> QED BY ONLY <1>3, <3>1
    <2> QED BY <1>15, <2>1, <2>2 DEF Strand
  <1>17. Linked(u, s2, 1)
    <2>1. ASSUME NEW i \in 1..m PROVE u[s2[i]] = Prev(s2, i) \cup After(s2, i)
      <3>1. \A k : k \in u[s2[i]] <=> (i - 1 \in 1..m /\ k = n + (i - 1)) \/ (i + 1 \in 1..m /\ k = n + (i + 1))
        BY <1>13, <1>15
      <3>2. \A k : k \in Prev(s2, i) <=> i - 1 \in 1..m /\ k = n + (i - 1)
        <4>1. PICK x \in 1..Len(s2) : x = i
          BY <1>15
        <4>2. \A k : k \in Prev(s2, x) <=> x - 1 \in 1..Len(s2) /\ k = s2[x - 1]
          BY <1>5, <1>16, Sides
        <4> QED BY <1>15, <4>1, <4>2
      <3>3. \A k : k \in After(s2, i) <=> i + 1 \in 1..m /\ k = n + (i + 1)
        <4>1. PICK x \in 1..Len(s2) : x = i
          BY <1>15
        <4>2. \A k : k \in After(s2, x) <=> x + 1 \in 1..Len(s2) /\ k = s2[x + 1]
          BY <1>5, <1>16, Sides
        <4> QED BY <1>15, <4>1, <4>2
      <3> QED BY <3>1, <3>2, <3>3
    <2> QED BY <1>15, <2>1 DEF Linked
  <1>18. ToSet(s2) = {n + i : i \in 1..m}
    BY <1>15 DEF ToSet
  <1>19. ASSUME NEW s \in G
         PROVE  Strand(e, s) /\ Linked(u, s, 1) /\ ToSet(s) \subseteq 1..n
    <2>1. Strand(n, s) /\ Linked(w, s, 1)
      BY <1>1
    <2>2. s \in Seq(1..n) /\ DOMAIN s = 1..Len(s) /\ Len(s) \in Nat /\ \A a \in 1..Len(s) : s[a] \in 1..n
      BY <1>1, <2>1, StrandShape
    <2>3. s \in Seq(1..e)
      BY <1>5, <2>2
    <2>4. Linked(u, s, 1)
      BY <1>12, <2>1, <2>2 DEF Linked
    <2> QED BY <2>1, <2>2, <2>3, <2>4 DEF Strand, ToSet
  <1> DEFINE H == G \cup {s2}
  <1>20. \A s \in H : Strand(e, s) /\ Linked(u, s, 1)
    BY <1>16, <1>17, <1>19
  <1>21. \A s, v \in H : s = v \/ ToSet(s) \cap ToSet(v) = {}
    <2>1. \A s \in G : ToSet(s) \cap ToSet(s2) = {}
      BY <1>5, <1>18, <1>19
    <2> QED BY <1>1, <2>1
  <1>22. \A k \in 1..e : \E s \in H : k \in ToSet(s)
    <2> TAKE k \in 1..e
    <2>1. CASE k \in 1..n
      BY <1>1, <2>1
    <2>2. CASE k \notin 1..n
      BY <1>5, <1>18, <2>2
    <2> QED BY <2>1, <2>2
  <1>23. Woven(e, u, H)
    BY <1>5, <1>11, <1>20, <1>21, <1>22 DEF Woven
  <1> QED BY <1>2, <1>4, <1>6, <1>9, <1>23

\* The inductive invariant: the knots are woven of some of the strings that
\* walks find, each list taken in one direction.
ListInv == \E G \in SUBSET Strings(knots) : Woven(Len(knots), knots, G)

\* Without knots there are no lists.
LEMMA ListInit == InitList => ListInv
  <1> SUFFICES ASSUME InitList PROVE ListInv
    OBVIOUS
  <1>1. knots = <<>> /\ Len(knots) = 0
    BY DEF InitList
  <1>2. 1..0 = {}
    OBVIOUS
  <1>3. knots \in [1..0 -> SUBSET (1..0)]
    BY <1>1
  <1>4. Woven(Len(knots), knots, {})
    BY <1>1, <1>2, <1>3 DEF Woven
  <1> QED BY <1>4 DEF ListInv

\* Whatever is made, cut, put, joined, spliced and removed, the knots form
\* strings that do not touch.
THEOREM ListStep == ListInv /\ [NextList]_knots => ListInv'
  <1> SUFFICES ASSUME ListInv, [NextList]_knots PROVE ListInv'
    OBVIOUS
  <1>1. PICK n, G : Woven(n, knots, G)
    BY DEF ListInv
  <1>2. \A m, H : Woven(m, knots', H) => ListInv'
    <2> TAKE m, H
    <2> SUFFICES ASSUME Woven(m, knots', H) PROVE ListInv'
      OBVIOUS
    <2>1. Len(knots') = m /\ H \in SUBSET Strings(knots')
      BY WovenKnots
    <2> QED BY <2>1 DEF ListInv
  <1>3. CASE UNCHANGED knots
    BY <1>1, <1>2, <1>3
  <1>4. ASSUME NEW m \in 1..3, mklist(m) PROVE ListInv'
    <2>1. knots' = knots \o [i \in 1..m |-> {Len(knots) + j : j \in {i - 1, i + 1} \cap (1..m)}]
      BY <1>4 DEF mklist
    <2>2. \E H : Woven(n + m, knots \o [i \in 1..m |-> {Len(knots) + j : j \in {i - 1, i + 1} \cap (1..m)}], H)
      BY <1>1, MakeKeeps
    <2> QED BY <1>2, <2>1, <2>2
  <1>5. ASSUME NEW b \in Beads(knots), knots' = lscut(knots, b) PROVE ListInv'
    BY <1>1, <1>2, <1>5, CutKeeps
  <1>6. ASSUME NEW b \in Independent(knots), NEW p \in PlacesFor(knots, b),
               knots' = lsput(knots, p.pre, p.k, b) \/ knots' = lscat(knots, p.pre, p.k, b)
        PROVE  ListInv'
    <2>1. PICK s \in TwoWays(G) : b = Part(s, 1, Len(s))
      BY <1>1, IndependentAre
    <2>2. /\ \E H : Woven(n, lsput(knots, p.pre, p.k, b), H)
          /\ \E H : Woven(n, lscat(knots, p.pre, p.k, b), H)
      BY <1>1, <2>1, PutKeeps
    <2> QED BY <1>2, <1>6, <2>2
  <1>7. ASSUME NEW b \in Beads(knots), NEW p \in PlacesFor(lscut(knots, b), Cut(b)),
               knots' = lssplice(knots, p.pre, p.k, b)
        PROVE  ListInv'
    BY <1>1, <1>2, <1>7, SpliceKeeps
  <1>8. ASSUME NEW p \in Positions(knots), knots' = rmlist(knots, p.pre, p.k) PROVE ListInv'
    BY <1>1, <1>2, <1>8, RemoveKeeps
  <1> QED BY <1>3, <1>4, <1>5, <1>6, <1>7, <1>8 DEF NextList

\* On such knots the walks of list.c find the strings from both sides, and
\* lscut, lsput and lscat do with every bead and place what they promise.
LEMMA ListMeaning == ListInv => ListExact
  <1> SUFFICES ASSUME ListInv PROVE ListExact
    OBVIOUS
  <1>1. PICK n, G : Woven(n, knots, G)
    BY DEF ListInv
  <1>2. IsStrings(knots)
    BY <1>1, WovenStrings
  <1>3. \A b \in Beads(knots) : CutExact(b)
    BY <1>1, CutsExact
  <1>4. \A b \in Independent(knots) : \A p \in PlacesFor(knots, b) : PutExact(b, p)
    BY <1>1, PutsExact
  <1> QED BY <1>2, <1>3, <1>4 DEF ListExact

\* A list's knots form strings, and cutting, putting and concatenating move
\* beads as nexus.h promises, whichever way the list is walked: for any
\* number of knots and after any calls.
THEOREM ListsExact == SpecList => []ListExact
  <1>1. InitList => ListInv
    BY ListInit
  <1>2. ListInv /\ [NextList]_knots => ListInv'
    BY ListStep
  <1>3. ListInv => ListExact
    BY ListMeaning
  <1> QED BY <1>1, <1>2, <1>3, PTL DEF SpecList
=============================================================================
