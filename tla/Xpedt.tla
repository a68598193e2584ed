------------------------------- MODULE Xpedt -------------------------------
(***************************************************************************)
(* One expedition of xpedt.c and its client: nodes added one by one, the   *)
(* last of them evaluated at once (xact) or later (xpass, xcall and        *)
(* xcalleach register a job, xrun serves the jobs).                        *)
(*                                                                         *)
(* A node is named by a number below zero, -1 the first; numbers above     *)
(* zero are sources that are bound when the leaf is evaluated.  A call     *)
(* that only reports an error is left out; the client clears the report    *)
(* before its next call, as a second one would end the program.  Its       *)
(* functions do not come back to the expedition.                           *)
(***************************************************************************)
EXTENDS XpedtEval

CONSTANTS Width,    \* the greatest source that is bound
          MaxCall   \* nodes and jobs together

VARIABLES live,
          nodes,
          dots,     \* of the dag kept beside the nodes
          leaf,     \* the node that is evaluated, 0 if there is none
          jobs,
          given,    \* the names the client was given, in order
          asked,    \* what it asked for when it registered the jobs
          heard     \* by the last xact or xrun: what was due, what came

vars == <<live, nodes, dots, leaf, jobs, given, asked, heard>>

Quiet == [due |-> <<>>, got |-> <<>>]

external(sd) == sd > 0
nodeok(sd) == sd < 0 /\ -sd \in DOMAIN nodes

\* What a node will yield, as far as the expedition knows when it is named.
srctype(sd) == IF external(sd) THEN "arrst" ELSE nodes[-sd].type

Node(op, type, dep) ==
  [op |-> op, type |-> type, dep |-> dep, depb |-> 0, n |-> 0, stride |-> 0, stype |-> ""]

\* The nodes with one source, and their parameters.
Unaries(src) ==
  {Node(op, srctype(src), src) : op \in {"filt", "recur", "find", "sort"}}
    \cup {[Node("take", srctype(src), src) EXCEPT !.n = n] : n \in {1, 4}}
    \cup {[Node("drop", srctype(src), src) EXCEPT !.n = 1]}
    \cup {Node(op, "uvlong", src) : op \in {"map", "any", "all", "pare", "peruse", "flatmap"}}
    \cup {[Node("mold", "uvlong", src) EXCEPT !.stype = t] : t \in {"seq", "set", "multiset", "map"}}
    \cup {[Node("orama", "arrst", src) EXCEPT !.n = w[1], !.stride = w[2]]
            : w \in {<<1, 1>>, <<2, 1>>, <<1, 2>>}}
    \cup {Node("aggroup", "pair", src), Node("flatten", "arrst", src)}
    \cup {Node("diffuse", rs, src) : rs \in {"uvlong", "pair"}}
    \cup (IF srctype(src) = "pair" THEN {Node("uniq", "pair", src)} ELSE {})

\* Those with two, of one type unless they are connected.
Binaries(a, b) ==
  {[Node("connex", "uvlong", a) EXCEPT !.depb = b]}
    \cup (IF srctype(a) # srctype(b) THEN {}
          ELSE {[Node(op, srctype(a), a) EXCEPT !.depb = b] : op \in {"immix", "catena", "merge"}})

\* Regions of regions are addresses to a silo: the client molds none.
RECURSIVE Deep(_)
Deep(sd) == IF ~nodeok(sd) THEN 0
            ELSE (IF nodes[-sd].op \in {"orama", "aggroup", "flatten"} THEN 1 ELSE 0)
                   + Max({Deep(nodes[-sd].dep), Deep(nodes[-sd].depb)})

\* A client's nodes: each uses the one it was given last.
Wanted ==
  LET Source == 1..Width \cup ToSet(given)
      Newest == IF given = <<>> THEN {1} ELSE {Last(given)}
  IN  {nd \in UNION ({Unaries(s) : s \in Newest}
                       \cup {Binaries(a, b) : a \in Source, b \in Source}) :
         /\ \/ nd.depb = 0 \/ given = <<>>
            \/ Newest \cap {nd.dep, nd.depb} # {}
         /\ nd.op = "mold" => Deep(nd.dep) < 2}

-----------------------------------------------------------------------------
Init == /\ live = FALSE
        /\ nodes = <<>> /\ dots = 0 /\ leaf = 0 /\ jobs = <<>>
        /\ given = <<>> /\ asked = <<>> /\ heard = Quiet

mkxpedt == ~live /\ live' = TRUE /\ UNCHANGED <<nodes, dots, leaf, jobs, given, asked, heard>>

rmxpedt == /\ live
           /\ live' = FALSE
           /\ nodes' = <<>> /\ dots' = 0 /\ leaf' = 0 /\ jobs' = <<>>
           /\ given' = <<>> /\ asked' = <<>> /\ heard' = Quiet

\* The node goes in; then its dot and its arcs, which fail when memory does
\* or when they name a dot that is missing.  The node stays all the same.
\* Two failures in one call end the program.
add_node(nd, dotted, unlinked) ==
  LET sd == -(Len(nodes) + 1)
      n  == IF dotted THEN dots + 1 ELSE dots
      arcs == SelectSeq(<<nd.dep, nd.depb>>, LAMBDA dep : dep < 0)
      errors == (IF dotted THEN 0 ELSE 1) + (IF n < -sd THEN Len(arcs) ELSE unlinked)
      ok == errors = 0
  IN  /\ live /\ Len(nodes) + Len(jobs) < MaxCall /\ errors < 2
      /\ unlinked <= Len(arcs)
      /\ nodes' = Append(nodes, nd)
      /\ dots' = n
      /\ leaf' = IF ok THEN sd ELSE leaf
      /\ given' = IF ok THEN Append(given, sd) ELSE given
      /\ heard' = Quiet
      /\ UNCHANGED <<live, jobs, asked>>

xfunction == \E nd \in Wanted : add_node(nd, TRUE, 0)

\* The dot finds no memory, or an arc; whose it is makes no difference.  Only
\* a node on an external source outlives a missing dot: its arc would be the
\* second failure.
xfunctionNoMemory ==
  \E nd \in Wanted, unlinked \in 0..1 : nd.op = "map" /\ add_node(nd, unlinked = 1, unlinked)

-----------------------------------------------------------------------------
\* A product: the first item, nothing if there is none, and no more than an
\* address if the item points into a buffer, for the buffers are freed.
product_from_mat(mem, buf) ==
  IF buf.items = <<>> THEN <<>>
  ELSE LET x == Head(buf.items)
       IN  IF \/ buf.type = "arrst" /\ "at" \in DOMAIN x
              \/ buf.type = "pair" /\ "at" \in DOMAIN x.b
           THEN <<"freed">> ELSE <<Shown(mem, buf.type, x)>>

Each(mem, buf) == [i \in DOMAIN buf.items |-> Shown(mem, buf.type, buf.items[i])]

\* What evaluating a target hands to the client, and whether it succeeds.
Answer(job, e) ==
  [ok |-> e.ok,
   out |-> CASE ~e.ok -> <<>>
             [] job.kind = "calleach" -> Each(e.mem, e.mem[job.target])
             [] OTHER -> product_from_mat(e.mem, e.mem[job.target])]

Served(job) ==
  Answer(job, run_target(nodes, job.target, [i \in DOMAIN job.binds |-> Contents[job.binds[i]]]))

\* As many of the products passed as there are sources.
make_input_products(ins, target) == SubSeq(ins, 1, Len(sources(nodes, target)))

Job(kind, target, binds) == [kind |-> kind, target |-> target, binds |-> binds]

\* The products of jobs that are served in order, as far as they succeed.
Delivered(served) ==
  LET bad == {i \in DOMAIN served : ~served[i].ok}
      n   == IF bad = {} THEN Len(served) ELSE Min(bad) - 1
  IN  [i \in 1..n |-> served[i].out]

xact(ins) ==
  /\ live /\ nodeok(leaf)
  /\ heard' = [due |-> <<Job("pass", Last(given), ins)>>,
               got |-> Delivered(<<Served(Job("pass", leaf, make_input_products(ins, leaf)))>>)]
  /\ UNCHANGED <<live, nodes, dots, leaf, jobs, given, asked>>

\* xpass, xcall and xcalleach.
add_job_va(kind, ins) ==
  /\ live /\ nodeok(leaf)
  /\ Len(nodes) + Len(jobs) < MaxCall
  /\ jobs' = Append(jobs, Job(kind, leaf, make_input_products(ins, leaf)))
  /\ asked' = Append(asked, Job(kind, Last(given), ins))
  /\ heard' = Quiet
  /\ UNCHANGED <<live, nodes, dots, leaf, given>>

\* A faulty variant: a job that fails is passed over.
DeliveredAll(served) ==
  LET good == SelectSeq(served, LAMBDA s : s.ok)
  IN  [i \in DOMAIN good |-> good[i].out]

xrunOn == /\ live /\ jobs # <<>>
          /\ heard' = [due |-> asked, got |-> DeliveredAll([i \in DOMAIN jobs |-> Served(jobs[i])])]
          /\ UNCHANGED <<live, nodes, dots, leaf, jobs, given, asked>>

\* The jobs are served in order until one fails, and remain.
xrun == /\ live /\ jobs # <<>>
        /\ heard' = [due |-> asked, got |-> Delivered([i \in DOMAIN jobs |-> Served(jobs[i])])]
        /\ UNCHANGED <<live, nodes, dots, leaf, jobs, given, asked>>

Next == \/ mkxpedt \/ rmxpedt
        \/ xfunction \/ xfunctionNoMemory
        \/ \E ins \in Bindings : xact(ins)
        \/ \E kind \in {"pass", "call", "calleach"}, ins \in Bindings : add_job_va(kind, ins)
        \/ xrun

Spec == Init /\ [][Next]_vars
=============================================================================
