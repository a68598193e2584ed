---------------------------- MODULE XpedtMeaning ----------------------------
(***************************************************************************)
(* What the nodes of an expedition mean: functions from the inputs to      *)
(* sequences of values.  There are no buffers here and nothing points      *)
(* anywhere; a region is the numbers in it, and num tells whether it is    *)
(* one number that a resolver may replace.                                 *)
(***************************************************************************)
EXTENDS Xpedt

Seqn(type, items) == [type |-> type, items |-> items]
Fails == Seqn("fail", <<>>)

\* Of windows a stride apart that leaves no room for a second one nothing
\* is said: the code does not come to an end there.  Nor is anything said of
\* the order of different items that compare equal.
Unsaid == Seqn("unsaid", <<>>)
Means(v) == v \notin {Fails, Unsaid}

Region(xs, num) == [own |-> xs, num |-> num]

LeavesOf(type, x) ==
  CASE type = "uvlong" -> <<x>>
    [] type = "arrst"  -> x.own
    [] type = "pair"   -> x.b.own

Total(xs) == FoldLeft(+, 0, xs)
Numbers(v) == [i \in DOMAIN v.items |-> Total(LeavesOf(v.type, v.items[i]))]

Row(n, F(_)) == FlattenSeq([i \in 1..n |-> F(i)])
At(s, i) == IF i \in DOMAIN s THEN <<s[i]>> ELSE <<>>
Longer(a, b) == Max({Len(a.items), Len(b.items)})
Shorter(a, b) == Min({Len(a.items), Len(b.items)})

Tied(v) ==
  \E i, j \in DOMAIN v.items :
    v.items[i] # v.items[j] /\ Total(LeavesOf(v.type, v.items[i])) = Total(LeavesOf(v.type, v.items[j]))

\* Every window that fits, at the multiples of the stride.
WindowsOf(v, size, stride) ==
  LET starts == {k \in 0..Len(v.items) : k % stride = 0 /\ k + size <= Len(v.items)}
  IN  [j \in 1..Cardinality(starts) |->
         LET k == (j - 1) * stride
         IN  Region(Row(size, LAMBDA i : LeavesOf(v.type, v.items[k + i])),
                    size = 1 /\ v.type = "uvlong")]

\* For each key in the order of first use, all its values resolved in turn.
Resolved(v) ==
  LET pos(k) == {i \in DOMAIN v.items : v.items[i].a = k}
      firsts == SelectSeq([i \in DOMAIN v.items |-> i], LAMBDA i : Min(pos(v.items[i].a)) = i)
      More(b, p) == IF b.num THEN Region(<<Combine(b.own[1], Total(p.b.own))>>, TRUE) ELSE b
  IN  [j \in DOMAIN firsts |->
         LET p == v.items[firsts[j]]
         IN  Pair(p.a, FoldLeft(More, p.b, SelectSeq(SubSeq(v.items, firsts[j] + 1, Len(v.items)),
                                                    LAMBDA q : q.a = p.a)))]

\* Before each item of ys goes the longest run of xs not above it.
RECURSIVE MergeOf(_, _, _)
MergeOf(type, xs, ys) ==
  LET val(x) == Total(LeavesOf(type, x))
      runs == {n \in 0..Len(xs) : \A i \in 1..n : val(xs[i]) <= val(Head(ys))}
  IN  IF ys = <<>> THEN xs
      ELSE SubSeq(xs, 1, Max(runs)) \o <<Head(ys)>>
             \o MergeOf(type, SubSeq(xs, Max(runs) + 1, Len(xs)), Tail(ys))

Both(op, a, b) ==
  CASE op = "connex" -> Seqn("uvlong", [i \in 1..Shorter(a, b) |->
                                          Combine(Numbers(a)[i], Numbers(b)[i])])
    [] a.type # b.type -> Fails
    [] op = "catena" -> Seqn(a.type, a.items \o b.items)
    [] op = "immix"  -> Seqn(a.type, Row(Longer(a, b), LAMBDA i : At(a.items, i) \o At(b.items, i)))
    [] op = "merge"  -> Seqn(a.type, MergeOf(a.type, a.items, b.items))

\* The contents of a silo molded of v.
MoldOf(stype, v) ==
  LET key(i) == IF v.type = "pair" THEN <<v.items[i].a>> ELSE LeavesOf(v.type, v.items[i])
      pos(k) == {i \in DOMAIN v.items : key(i) = k}
      firsts == SelectSeq([i \in DOMAIN v.items |-> i], LAMBDA i : Min(pos(key(i))) = i)
      times(i) == IF stype = "set" THEN 1 ELSE Cardinality(pos(key(i)))
  IN  CASE stype = "map" /\ v.type # "pair" -> Fails
        [] v.items = <<>> -> v
        [] stype = "seq" -> IF v.type = "uvlong" THEN v ELSE Fails
        [] stype = "map" -> Seqn("pair", [j \in DOMAIN firsts |->
             Pair(v.items[firsts[j]].a, Region(v.items[Max(pos(key(firsts[j])))].b.own, FALSE))])
        [] OTHER -> Seqn("arrst", Row(Len(firsts), LAMBDA j :
             [n \in 1..times(firsts[j]) |-> Region(key(firsts[j]), FALSE)]))

Single(nd, v) ==
  LET nums == Numbers(v)
      hits == {i \in DOMAIN nums : Keep(nums[i])}
      Kept == SelectSeq([i \in DOMAIN nums |-> i], LAMBDA i : i \in hits)
      Acc[i \in 0..Len(nums)] == IF i = 0 THEN FirstAcc ELSE Combine(Acc[i - 1], nums[i])
  IN  CASE nd.op = "map"  -> Seqn("uvlong", [i \in DOMAIN nums |-> Fn(nums[i])])
        [] nd.op = "filt" -> Seqn(v.type, [j \in DOMAIN Kept |-> v.items[Kept[j]]])
        [] nd.op = "take" -> Seqn(v.type, [i \in 1..Min({nd.n, Len(v.items)}) |-> v.items[i]])
        [] nd.op = "drop" -> Seqn(v.type, Row(Len(v.items), LAMBDA i : At(v.items, i + nd.n)))
        [] nd.op = "recur" -> IF v.items = <<>> THEN v ELSE Fails
        [] nd.op = "orama" -> IF Len(v.items) - nd.n \in 0..(nd.stride - 1) THEN Unsaid
                              ELSE Seqn("arrst", WindowsOf(v, nd.n, nd.stride))
        [] nd.op = "any"  -> Seqn("uvlong", <<IF hits = {} THEN 0 ELSE 1>>)
        [] nd.op = "all"  -> Seqn("uvlong", <<IF hits = DOMAIN nums THEN 1 ELSE 0>>)
        [] nd.op = "find" -> Seqn(v.type, Row(Min({1, Len(Kept)}), LAMBDA j : <<v.items[Kept[j]]>>))
        [] nd.op = "sort" -> IF Tied(v) THEN Unsaid
                             ELSE Seqn(v.type, SortSeq(v.items, LAMBDA x, y :
                                    Total(LeavesOf(v.type, x)) < Total(LeavesOf(v.type, y))))
        [] nd.op = "aggroup" -> Seqn("pair", [i \in DOMAIN nums |->
             Pair(Class(nums[i]), Region(LeavesOf(v.type, v.items[i]), v.type = "uvlong"))])
        [] nd.op = "uniq"   -> Seqn("pair", Resolved(v))
        [] nd.op = "pare"   -> Seqn("uvlong", <<Acc[Len(nums)]>>)
        [] nd.op = "peruse" -> Seqn("uvlong", [i \in DOMAIN nums |-> Acc[i]])
        [] nd.op = "diffuse" -> IF v.items # <<>> /\ v.type # nd.type THEN Fails
                                ELSE Seqn(nd.type, [i \in DOMAIN nums |-> v.items[1]])
        [] nd.op = "flatmap" -> Seqn("uvlong", Row(Len(nums), LAMBDA i : Yields(nums[i])))

\* The children of a flatten one after the other, all of one type.
FlattenOf(children) ==
  LET full == SelectSeq(children, LAMBDA c : c.items # <<>> \/ c = Fails)
      types == {full[i].type : i \in DOMAIN full}
  IN  IF full = <<>> THEN Seqn("arrst", <<>>)
      ELSE IF "fail" \in types \/ Cardinality(types) > 1 THEN Fails
      ELSE Seqn(full[1].type, Row(Len(full), LAMBDA i : full[i].items))

RECURSIVE Needs(_)
Needs(sd) ==
  IF sd > 0 THEN {sd}
  ELSE Needs(nodes[-sd].dep) \cup
       (IF nodes[-sd].depb = 0 THEN {} ELSE Needs(nodes[-sd].depb))

\* "Missing positive sources are bound from the variadic input list in
\* ascending positive sd order" (xpedt.h:17).
Bound(target, sd, inputs) ==
  inputs[Cardinality({s \in Needs(target) : s <= sd})]

RECURSIVE Meaning(_, _, _)
Meaning(target, sd, inputs) ==
  LET nd == nodes[-sd]
      Of(s) == Meaning(target, s, inputs)
      again == Of(nodes[-nd.dep].dep)
      Child(d) == LET made == {k \in DOMAIN nodes : nodes[k].op = "mold" /\ Desc(-k) = d}
                      m == CHOOSE k \in made : TRUE
                  IN  IF made = {} THEN Fails ELSE MoldOf(nodes[m].stype, Of(nodes[m].dep))
  IN  CASE sd > 0 -> Seqn("uvlong", Bound(target, sd, inputs))
        [] sd < 0 /\ nd.op = "take" /\ nd.dep < 0 /\ nodes[-nd.dep].op = "recur" ->
             IF ~Means(again) \/ again.items = <<>> THEN again
             ELSE Seqn(again.type, [i \in 1..nd.n |-> again.items[((i - 1) % Len(again.items)) + 1]])
        [] OTHER ->
             LET a == Of(nd.dep)
                 b == IF nd.depb = 0 THEN a ELSE Of(nd.depb)
             IN  CASE Unsaid \in {a, b} -> Unsaid
                   [] Fails \in {a, b} -> Fails
                   [] nd.depb # 0 -> Both(nd.op, a, b)
                   [] nd.op = "mold" -> IF MoldOf(nd.stype, a) = Fails THEN Fails
                                        ELSE Seqn("uvlong", <<Desc(sd)>>)
                   [] nd.op = "flatten" ->
                        IF a.type # "uvlong" THEN IF a.items = <<>> THEN FlattenOf(<<>>) ELSE Fails
                        ELSE FlattenOf([i \in DOMAIN a.items |-> Child(a.items[i])])
                   [] OTHER -> Single(nd, a)

-----------------------------------------------------------------------------
MeaningOf(job) == Meaning(job.target, job.target, [i \in DOMAIN job.binds |-> Contents[job.binds[i]]])

RECURSIVE Needed(_)
Needed(sd) == IF ~nodeok(sd) THEN {} ELSE {sd} \cup Needed(nodes[-sd].dep) \cup Needed(nodes[-sd].depb)

Uses(target, s) ==
  Cardinality({<<sd, i>> \in Needed(target) \X {1, 2} : s = <<nodes[-sd].dep, nodes[-sd].depb>>[i]})

\* What uniq resolves it writes over the source's own item, and whoever else
\* reads that item reads the result: then the meaning is not defined.
Overwritten(target) ==
  /\ \E sd \in Needed(target) : nodes[-sd].op = "uniq"
  /\ \/ \E s \in 1..Width \cup Needed(target) : Uses(target, s) > 1
     \/ \E sd \in Needed(target) :
          \/ nodes[-sd].op = "diffuse"
          \/ nodes[-sd].op = "take" /\ nodeok(nodes[-sd].dep) /\ nodes[-nodes[-sd].dep].op = "recur"

Defined(job) == ~Overwritten(job.target) /\ MeaningOf(job) # Unsaid

\* What must come of a job: every item, or the first one.
ExpectedOf(job, v) ==
  LET key(x) == IF v.type = "pair" THEN <<x.a>> ELSE <<>>
  IN  [i \in 1..(IF job.kind = "calleach" THEN Len(v.items) ELSE Min({1, Len(v.items)})) |->
         key(v.items[i]) \o LeavesOf(v.type, v.items[i])]

Expected(job) == ExpectedOf(job, MeaningOf(job))

-----------------------------------------------------------------------------
\* What a client is handed is what the nodes mean, composed as functions of
\* the bound sources: every operation of eval_source through buffers that
\* point into one another yields it, whatever order nodes are evaluated in,
\* for the leaf there was when it asked, with inputs in ascending order of
\* their source.
EvalExact ==
  \A i \in DOMAIN heard.got :
    Defined(heard.due[i]) /\ heard.got[i] # <<"freed">> => heard.got[i] = Expected(heard.due[i])

\* A call serves the jobs registered, in that order, up to the first whose
\* nodes have no meaning, and none after it.
JobsServed ==
  (\A i \in DOMAIN heard.due : Defined(heard.due[i])) =>
    /\ \A i \in DOMAIN heard.got : MeaningOf(heard.due[i]) # Fails
    /\ \A i \in DOMAIN heard.due : i = Len(heard.got) + 1 => MeaningOf(heard.due[i]) = Fails
=============================================================================
