----------------------------- MODULE XpedtEval -----------------------------
(***************************************************************************)
(* The evaluator of xpedt.c: run_target and what it calls.  Nodes are      *)
(* evaluated into buffers, each when it is first asked for, and an item    *)
(* may point into the buffer it was made from.                             *)
(*                                                                         *)
(* A source is a number: above zero an input, below zero the node of that  *)
(* number.  Inputs are linear silos.  Runes are left out (they behave as   *)
(* uvlongs), and so is memory that runs out.  A set or map that is molded  *)
(* is walked in the order its keys came.                                   *)
(***************************************************************************)
EXTENDS Integers, SequencesExt, FiniteSetsExt

CONSTANTS Word,  \* uvlongs are below it
          Room   \* as many items as memory holds

-----------------------------------------------------------------------------
(* The client: the silos it binds, and the functions it gives the nodes,
   one of each kind.  They read numbers: of an item that is a region or a
   pair, those it points at, added up. *)

\* An item of type "arrst" owns its bytes or refers to the n items of a
\* buffer from the i-th; a key of a pair is its number.
Own(xs) == [own |-> xs]
Ref(sd, i, n) == [at |-> sd, i |-> i, n |-> n]
Pair(a, b) == [a |-> a, b |-> b]

\* The descriptor of the silo a node molds; it is no number of the client's.
Desc(sd) == 100 - 1000 * sd

\* The silos a client may bind to two sources, and how.
Contents == << <<1, 0, 2>>, <<3, 1>>, <<>> >>
Bindings == {<<1, 2>>, <<3, 1>>}

Fn(x) == (x + 1) % 3
Keep(x) == x > 0
Class(x) == x % 2
Combine(x, y) == x + 2 * y
Yields(x) == <<x, x + 1>>
FirstAcc == 1

-----------------------------------------------------------------------------
Buf(type, items) == [type |-> type, items |-> items, done |-> TRUE]
Fail == Buf("fail", <<>>)
NotYet == [type |-> "none", items |-> <<>>, done |-> FALSE]

Minus(x, y) == (x - y + Word) % Word

\* The numbers an item stands for, through whatever it points at.
RECURSIVE Leaves(_, _, _)
Leaves(mem, type, x) ==
  CASE type = "uvlong" -> <<x>>
    [] type = "pair"   -> Leaves(mem, "arrst", x.b)
    [] OTHER -> IF "own" \in DOMAIN x THEN x.own
                ELSE FlattenSeq([k \in 1..x.n |->
                       Leaves(mem, mem[x.at].type, mem[x.at].items[x.i + k - 1])])

\* What a client sees of an item: the key of a pair as well.
Shown(mem, type, x) ==
  IF type = "pair" THEN <<x.a>> \o Leaves(mem, "arrst", x.b) ELSE Leaves(mem, type, x)

\* A region that is one number of a buffer.
Number(mem, x) == "at" \in DOMAIN x /\ mem[x.at].type = "uvlong" /\ x.n = 1

Num(mem, type, x) == FoldLeft(+, 0, Leaves(mem, type, x))
Nums(mem, buf) == [i \in DOMAIN buf.items |-> Num(mem, buf.type, buf.items[i])]

-----------------------------------------------------------------------------
(* smoothsort: the array is a row of Leonardo heaps that grows by an item
   at a time and is taken apart again from its end.  The bits of p tell
   which orders of heaps there are, counted from pshift.  What is moved
   about are positions; val is what the comparator sees of the item at
   each.  Lengths of heaps are counted in items, not in bytes. *)

\* More orders than any array here needs (lp in the code has 96).
lp[i \in 0..12] == IF i < 2 THEN 1 ELSE lp[i - 2] + lp[i - 1] + 1

\* The zeros before the second one of p; shifts are of 128 bits.
pntz(p) == CHOOSE i \in 1..31 : (p - 1) % (2 ^ i) = 0 /\ ((p - 1) \div (2 ^ i)) % 2 = 1
pshl(p, n) == p * 2 ^ n
pshr(p, n) == p \div 2 ^ n

\* Along a path every position moves one back, the first to the end.
cycle_items(ar, path) ==
  [k \in DOMAIN ar |->
     IF ~Contains(path, k) THEN ar[k]
     ELSE LET i == CHOOSE j \in DOMAIN path : path[j] = k
          IN  ar[path[(i % Len(path)) + 1]]]

rt(head) == head - 1
lf(head, pshift) == head - 1 - lp[pshift - 2]

\* The way down of the item at the beginning of the path.
RECURSIVE Down(_, _, _, _)
Down(val, ar, path, pshift) ==
  LET head == Last(path)
      x == val[ar[Head(path)]]
      l == val[ar[lf(head, pshift)]]
      r == val[ar[rt(head)]]
  IN  IF pshift <= 1 \/ (x >= l /\ x >= r) THEN path
      ELSE IF l >= r THEN Down(val, ar, Append(path, lf(head, pshift)), pshift - 1)
           ELSE Down(val, ar, Append(path, rt(head)), pshift - 2)

smooth_sift(val, ar, head, pshift) == cycle_items(ar, Down(val, ar, <<head>>, pshift))

\* The roots to the left with a greater item than the one at the beginning.
RECURSIVE Left(_, _, _, _, _, _)
Left(val, ar, path, p, pshift, trusty) ==
  LET head == Last(path)
      stepson == head - lp[pshift]
      stays == \/ p = 1
               \/ val[ar[stepson]] <= val[ar[Head(path)]]
               \/ /\ ~trusty /\ pshift > 1
                  /\ \/ val[ar[rt(head)]] >= val[ar[stepson]]
                     \/ val[ar[lf(head, pshift)]] >= val[ar[stepson]]
  IN  IF stays THEN [path |-> path, pshift |-> pshift, trusty |-> trusty]
      ELSE Left(val, ar, Append(path, stepson), pshr(p, pntz(p)), pshift + pntz(p), FALSE)

Carried(val, ar, w) ==
  IF w.trusty THEN ar
  ELSE smooth_sift(val, cycle_items(ar, w.path), Last(w.path), w.pshift)

smooth_trinkle(val, ar, head, p, pshift, trusty) ==
  Carried(val, ar, Left(val, ar, <<head>>, p, pshift, trusty))

\* The item at head joins the row.
Joined(val, s, head) ==
  LET n == IF s.pshift = 1 THEN 1 ELSE s.pshift - 1
  IN  IF s.p % 4 = 3
      THEN [ar |-> smooth_sift(val, s.ar, head, s.pshift),
            p |-> pshr(s.p, 2) + 1 - (pshr(s.p, 2) % 2), pshift |-> s.pshift + 2]
      ELSE [ar |-> IF lp[s.pshift - 1] >= Len(val) - head
                   THEN smooth_trinkle(val, s.ar, head, s.p, s.pshift, FALSE)
                   ELSE smooth_sift(val, s.ar, head, s.pshift),
            p |-> pshl(s.p, n) + 1, pshift |-> IF s.pshift = 1 THEN 0 ELSE 1]

\* The item at head stays where it is; the heaps under it join the row.
Parted(val, s, head) ==
  LET low == s.pshift - 2
      p1 == pshr(pshl(s.p, 2) - 1, 1)
      p2 == pshl(p1, 1) + 1
      a1 == smooth_trinkle(val, s.ar, head - lp[low] - 1, p1, low + 1, TRUE)
  IN  IF s.pshift <= 1 THEN [s EXCEPT !.p = pshr(@, pntz(s.p)), !.pshift = @ + pntz(s.p)]
      ELSE [ar |-> smooth_trinkle(val, a1, head - 1, p2, low, TRUE), p |-> p2, pshift |-> low]

\* The row, an item at a time; its last root put in order; the row taken
\* apart from its end.
Grown(val) ==
  FoldLeft(LAMBDA s, head : Joined(val, s, head),
           [ar |-> [k \in DOMAIN val |-> k], p |-> 1, pshift |-> 1],
           [k \in 1..(Len(val) - 1) |-> k])

Closed(val, s) == [s EXCEPT !.ar = smooth_trinkle(val, @, Len(val), s.p, s.pshift, FALSE)]

Dissolved(val, row) ==
  FoldLeft(LAMBDA s, head : IF s.pshift = 1 /\ s.p = 1 THEN s ELSE Parted(val, s, head),
           row, [k \in DOMAIN val |-> Len(val) + 1 - k])

\* Where the items go: the k-th of the result was at the k-th of these.
smoothsort(val) == IF val = <<>> THEN <<>> ELSE Dissolved(val, Closed(val, Grown(val))).ar

-----------------------------------------------------------------------------
(* The loops over one buffer. *)

eval_take_recur(nd, in) ==
  Buf(in.type, IF in.items = <<>> THEN <<>>
               ELSE [i \in 1..nd.n |-> in.items[((i - 1) % Len(in.items)) + 1]])

\* A window starts at every stride; the test for the last one subtracts
\* without a comparison.
RECURSIVE Windows(_, _, _, _, _)
Windows(nd, sd, last, i, out) ==
  LET more == Append(out, Ref(sd, i + 1, nd.n))
  IN  IF Len(out) = Room THEN Fail
      ELSE IF i > Minus(last, nd.stride) THEN Buf("arrst", more)
      ELSE Windows(nd, sd, last, (i + nd.stride) % Word, more)

eval_orama(nd, sd, in) ==
  IF Len(in.items) < nd.n THEN Buf("arrst", <<>>)
  ELSE Windows(nd, sd, Len(in.items) - nd.n, 0, <<>>)

eval_find(mem, in) ==
  LET hits == {i \in DOMAIN in.items : Keep(Nums(mem, in)[i])}
  IN  Buf(in.type, IF hits = {} THEN <<>> ELSE <<in.items[Min(hits)]>>)

\* The comparator compares numbers.
eval_sort(nums, in) ==
  LET ar == smoothsort(nums)
  IN  Buf(in.type, [k \in DOMAIN nums |-> in.items[ar[k]]])

\* Accumulated values, the seed first.
Folded(mem, in) ==
  FoldLeft(LAMBDA acc, x : Append(acc, Combine(Last(acc), x)), <<FirstAcc>>, Nums(mem, in))

eval_diffuse(nd, in) ==
  IF in.items # <<>> /\ in.type # nd.type THEN Fail
  ELSE Buf(nd.type, [i \in DOMAIN in.items |-> in.items[1]])

eval_flatmap(nums) == Buf("uvlong", FlattenSeq([i \in DOMAIN nums |-> Yields(nums[i])]))

eval_aggroup(mem, sd, in) ==
  Buf("pair", [i \in DOMAIN in.items |-> Pair(Class(Nums(mem, in)[i]), Ref(sd, i, 1))])

\* A buffer of flatten takes the type of the first child that has items.
append_buf(dst, src) ==
  CASE dst = Fail \/ src = Fail -> Fail
    [] src.items = <<>> -> dst
    [] dst.items = <<>> -> src
    [] dst.type # src.type -> Fail
    [] OTHER -> Buf(dst.type, dst.items \o src.items)

eval_flatten(made, in) ==
  LET child(d) == IF in.type = "uvlong" /\ d \in DOMAIN made THEN made[d] ELSE Fail
  IN  FoldLeft(LAMBDA acc, d : append_buf(acc, child(d)), Buf("arrst", <<>>), in.items)

-----------------------------------------------------------------------------
(* The loops over two. *)

eval_immix(a, b) ==
  LET Pick(s, i) == IF i \in DOMAIN s THEN <<s[i]>> ELSE <<>>
      n == IF Len(a.items) > Len(b.items) THEN Len(a.items) ELSE Len(b.items)
  IN  Buf(a.type, FlattenSeq([i \in 1..n |-> Pick(a.items, i) \o Pick(b.items, i)]))

RECURSIVE Merged(_, _, _, _, _)
Merged(mem, type, xs, ys, out) ==
  IF xs = <<>> \/ ys = <<>> THEN out \o xs \o ys
  ELSE IF Num(mem, type, Head(xs)) <= Num(mem, type, Head(ys))
       THEN Merged(mem, type, Tail(xs), ys, Append(out, Head(xs)))
       ELSE Merged(mem, type, xs, Tail(ys), Append(out, Head(ys)))

eval_connex(mem, a, b) ==
  LET n == IF Len(a.items) < Len(b.items) THEN Len(a.items) ELSE Len(b.items)
  IN  Buf("uvlong", [i \in 1..n |-> Combine(Nums(mem, a)[i], Nums(mem, b)[i])])

Binary(op, mem, a, b) ==
  CASE op = "connex" -> eval_connex(mem, a, b)
    [] a.type # b.type -> Fail
    [] op = "catena" -> Buf(a.type, a.items \o b.items)
    [] op = "immix"  -> eval_immix(a, b)
    [] op = "merge"  -> Buf(a.type, Merged(mem, a.type, a.items, b.items, <<>>))

-----------------------------------------------------------------------------
(* The loops that leave something behind. *)

\* The pair that came first with a key is kept; what the resolver makes of
\* its value and another's is written where its value is.  The client's
\* resolver adds numbers and leaves other values alone.
eval_uniq(e, sd, in) ==
  LET Resolve(mem, at, x) ==
        IF Number(mem, at) THEN [mem EXCEPT ![at.at].items[at.i] = x] ELSE mem
      Turn(w, p) ==
        LET same == {j \in DOMAIN w.out : w.out[j].a = p.a}
            q    == w.out[Min(same)]
        IN  IF same = {} THEN [w EXCEPT !.out = Append(@, p)]
            ELSE [w EXCEPT !.mem = Resolve(@, q.b, Combine(Num(@, "pair", q), Num(@, "pair", p)))]
      w == FoldLeft(Turn, [mem |-> e.mem, out |-> <<>>], in.items)
  IN  [e EXCEPT !.mem = [w.mem EXCEPT ![sd] = Buf("pair", w.out)]]

\* The key an item has in a set or multiset.
KeyOf(mem, type, x) == IF type = "pair" THEN <<x.a>> ELSE Leaves(mem, type, x)

\* What a new silo holds after the items are put in one by one.
Filled(mem, stype, in, keys) ==
  LET Firsts == SelectSeq([i \in DOMAIN keys |-> i], LAMBDA i : \A j \in 1..(i - 1) : keys[j] # keys[i])
      LastAt(k) == Max({i \in DOMAIN keys : keys[i] = k})
  IN  CASE stype = "map" /\ in.type # "pair" -> Fail
        [] in.items = <<>> -> in
        [] stype = "seq" -> IF in.type = "uvlong" THEN in ELSE Fail
        [] stype = "set" -> Buf("arrst", [n \in DOMAIN Firsts |-> Own(keys[Firsts[n]])])
        [] stype = "multiset" ->
             Buf("arrst", FlattenSeq([n \in DOMAIN Firsts |->
                            SelectSeq([j \in DOMAIN keys |-> Own(keys[j])],
                                      LAMBDA x : x.own = keys[Firsts[n]])]))
        [] OTHER -> Buf("pair", [n \in DOMAIN Firsts |->
                      Pair(keys[Firsts[n]][1],
                           Own(Leaves(mem, "pair", in.items[LastAt(keys[Firsts[n]])])))])

Silo(mem, stype, in) ==
  Filled(mem, stype, in, [i \in DOMAIN in.items |-> KeyOf(mem, in.type, in.items[i])])

\* Its descriptor is the one item of the node.
Molded(e, sd, s) ==
  IF s = Fail THEN [e EXCEPT !.mem[sd] = Fail]
  ELSE [e EXCEPT !.made = (Desc(sd) :> s) @@ @, !.mem[sd] = Buf("uvlong", <<Desc(sd)>>)]

eval_mold(e, nd, sd, in) == Molded(e, sd, Silo(e.mem, nd.stype, in))

-----------------------------------------------------------------------------
Unary(e, nd, from, in) ==
  LET mem == e.mem
      nums == Nums(mem, in)
      kept == {i \in DOMAIN in.items : Keep(nums[i])}
  IN  CASE nd.op = "map"  -> Buf("uvlong", [i \in DOMAIN nums |-> Fn(nums[i])])
        [] nd.op = "filt" -> Buf(in.type, SelectSeq(in.items, LAMBDA x : Keep(Num(mem, in.type, x))))
        [] nd.op = "take" -> Buf(in.type, SubSeq(in.items, 1, Min({nd.n, Len(in.items)})))
        [] nd.op = "drop" -> Buf(in.type, SubSeq(in.items, nd.n + 1, Len(in.items)))
        [] nd.op = "recur" -> IF in.items = <<>> THEN in ELSE Fail
        [] nd.op = "orama" -> eval_orama(nd, from, in)
        [] nd.op = "any"  -> Buf("uvlong", <<IF kept # {} THEN 1 ELSE 0>>)
        [] nd.op = "all"  -> Buf("uvlong", <<IF kept = DOMAIN nums THEN 1 ELSE 0>>)
        [] nd.op = "find" -> eval_find(mem, in)
        [] nd.op = "sort" -> eval_sort(nums, in)
        [] nd.op = "aggroup" -> eval_aggroup(mem, from, in)
        [] nd.op = "pare"   -> Buf("uvlong", <<Last(Folded(mem, in))>>)
        [] nd.op = "peruse" -> Buf("uvlong", Tail(Folded(mem, in)))
        [] nd.op = "diffuse" -> eval_diffuse(nd, in)
        [] nd.op = "flatten" -> eval_flatten(e.made, in)
        [] nd.op = "flatmap" -> eval_flatmap(nums)

Evaluated(e, nd, sd, from) ==
  LET in == e.mem[from]
  IN  CASE nd.depb # 0 -> [e EXCEPT !.mem[sd] = Binary(nd.op, e.mem, in, e.mem[nd.depb])]
        [] nd.op = "uniq" -> eval_uniq(e, sd, in)
        [] nd.op = "mold" -> eval_mold(e, nd, sd, in)
        [] nd.op = "take" /\ from # nd.dep -> [e EXCEPT !.mem[sd] = eval_take_recur(nd, in)]
        [] OTHER -> [e EXCEPT !.mem[sd] = Unary(e, nd, from, in)]

\* A take of a recur repeats the recur's own source; otherwise a node's
\* sources are evaluated before it, the first one first.
RECURSIVE eval_source(_, _, _)
eval_source(nodes, e, sd) ==
  LET nd   == nodes[-sd]
      from == IF nd.op = "take" /\ nd.dep < 0 /\ nodes[-nd.dep].op = "recur"
              THEN nodes[-nd.dep].dep ELSE nd.dep
      Second(x) == IF nd.depb = 0 \/ ~x.ok THEN x ELSE eval_source(nodes, x, nd.depb)
      Done(x)   == [x EXCEPT !.ok = x.mem[sd].type # "fail"]
      Itself(x) == IF x.ok THEN Done(Evaluated(x, nd, sd, from)) ELSE x
  IN  IF e.mem[sd].done THEN e ELSE Itself(Second(eval_source(nodes, e, from)))

-----------------------------------------------------------------------------
\* The inputs a target needs, as the recursion meets them, each once.
RECURSIVE collect_pos(_, _, _)
collect_pos(nodes, sd, out) ==
  IF sd > 0 THEN IF Contains(out, sd) THEN out ELSE Append(out, sd)
  ELSE LET nd == nodes[-sd]
           o1 == collect_pos(nodes, nd.dep, out)
       IN  IF nd.depb = 0 THEN o1 ELSE collect_pos(nodes, nd.depb, o1)

\* A faulty variant: the inputs are bound in the order they are met.
sourcesUnsorted(nodes, sd) == collect_pos(nodes, sd, <<>>)

\* The order in which inputs are bound.
sources(nodes, sd) == SortSeq(collect_pos(nodes, sd, <<>>), <)

\* A linear silo as it is read when it is first asked for.
materialize_silo(content) == Buf("uvlong", content)

\* The buffers of an evaluation over inputs, and whether it succeeded.
run_target(nodes, target, inputs) ==
  LET sds == sources(nodes, target)
      mem == [sd \in {-k : k \in DOMAIN nodes} \cup ToSet(sds) |->
                IF sd < 0 THEN NotYet
                ELSE materialize_silo(inputs[CHOOSE i \in DOMAIN sds : sds[i] = sd])]
  IN  eval_source(nodes, [mem |-> mem, made |-> << >>, ok |-> TRUE], target)
=============================================================================
