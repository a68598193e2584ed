# A verification development for Coetua

Coetua is a C17 library of containers, topologies, regions and buffered I/O.
Everything public is named by a small integer, a *descriptor*, that indexes a
table private to one C file; errors are reported through one pending message
(`errmsg`, collected by `err`), and all storage of a structure comes from an
*arena*. The library is used by one thread. What makes it hard is therefore
not concurrency but long sequences of legal calls: slots that are reused,
tables that are reallocated under a pointer somebody keeps, positions that
outlive what they point at, memory that runs out in the middle of a loop.

Sources are named relative to `src/src/`.

## 1. Inventory

| Part | State it keeps | Operations | Interacts with | What is hard | What makes it correct |
|---|---|---|---|---|---|
| arenas (`arena.c`) | table of arenas, each a list of blocks with a fill level | `mkarena`, `rmarena`, `aden`, `asala`, `acarrel` | `malloc`; every other part allocates from it | sizes and paddings near 2^64; blocks less aligned than asked; ids reused; the first call of all fails | allocations lie in their block, aligned, apart from each other; the allocation loop ends |
| errors (`err.c`) | one pending message | `errmsg`, `err` | everybody | a second error before the first is collected ends the program | one call raises at most one error |
| linear silos (`silo_linear.c`, `silo_common.c`, `silo.c`) | cells, `cap`, `len`, `head`, generation | `push` `pop` `peep` `atch` `place` `drop` `swap` `pick` `swath` `enqueue` `dequeue` `peekq` `swop` `teem` `efflate` `tamp` `cram` `spew` | arenas; iterators read the generation | a circular queue is unwrapped when it grows or shrinks; shifts; signed positions | it is a sequence; no cell nobody wrote is shown; a change is a new generation |
| sets and maps (`silo_hash.c`, `silo_set.c`, `silo_map.c`) | open-addressing table: tag bytes, keys, values, `len`, `tombs`, generation | `adds` `dels` `mems` `insert` `lookup` `oblit` `revamp` `compact` and the common operations | arenas, iterators | tombstones: probing has no bound but an empty slot; rehashing inside an add; an add that fails after swop has deleted | a store of entries with distinct keys; every probe ends and finds |
| set algebra, conjoin, multisets, replica (`silo_set.c`, `silo_map.c`, `silo_multiset.c`, `silo_common.c`) | loop indices over one table while another, or the same, changes | `unions` `intxns` `diffs` `symmdiffs` `conjoin` `addtums` `unionms` `intxnms` `diffms` `symmdiffms` `cartesprod` `cartprodms` `replica` | the tables' single operations | rehashing under the loop; counts that overflow; memory that runs out half way | key by key the promised result, or a half-done one |
| descriptors and iterators (`silo.c`, `silo_iter.c`) | table of silos, table of iterators, positions | `mk...`, `rmlinear`, `rmset`..., `mkiter`, `mkoter`, `next`, `rmiter` | all silos | slot reuse, stale descriptors, table reallocation, changes under an iterator | an iterator hands out what the silo held, or ends |
| buffered I/O (`bio.c`) over raw I/O (`io.c`) | one buffer that is either read-ahead or pending output, pushed-back bytes, file offset | `bread` `bwrite` `bseek` `boffset` `bgetc` `bungetc` `bgetrune` `bflush` `bclose`... | the kernel's offset, `arena`, `fmt` | the switch between reading and writing, short writes, errors in a flush | reads and writes are those of a file with one position |
| dag, ugraph, mtree (`dag.c`, `ugraph.c`, `mtree.c`) | dots, arcs, knobs in arrays; adjacency lists by index | add, delete (ugraph, mtree), enumerate, reach, topological order | arenas | cascading deletion, cycles refused on insertion, tombstones | acyclic; lists agree with endpoints; a forest |
| list (`list.c`) | knots that store the sum of their neighbours, not which is next | make, step, end, `lscut` `lsput` `lscat` `lssplice` `rmlist` | arenas; skiplist | a knot has no direction: every sum is right from both sides or from neither | lists read the same either way, beads move whole |
| skiplist (`skiplist.c`) | pins with a height and who precedes them on each layer; layers are lists | put, delete, delete a run, bounds, neighbours | list, arenas, a client's comparator | predecessors that are remembered; layers made one by one | each layer is the pins high enough, in one order |
| bitree and indeltree (`bitree.c`, `indeltree.c`) | knods with kids, parent and tag bits (red, dead) | graft, drop, rotate, walk; insert, delete, delete a run, bounds | arenas, a comparator | recolouring on the way down, replacement of the deleted knod, ids that stay | order, balance, links both ways |
| retrxtree (`retrxtree.c`) | a B+ tree of keys; entries that know their leaf and slot | put, delete, delete a run, bounds, neighbours | arenas, a comparator | splits planned before the first change, borrowing, mergers, duplicates across leaves | every leaf at one depth, keys as they should, entries found |
| segheap (`segheap.c`) | a row of Leonardo heaps in an array, their orders in two words | put one or many, pop, delete by key, find | arenas, a comparator | restoring order across tree roots, deletion in the middle, the pruned search | the last root is an extreme; nothing is lost |
| amtrie (`amtrie.c`) | bitmap branches and buckets; entries that know their bucket and slot | put, delete, delete matches, match, prefix | arenas, a comparator | splitting and collapsing on 6-bit fragments, hashes that are equal | every entry on the path of its hash |
| lattice (`lattice.c`) | words in the order of a clipped quadtree | get, put, clear, neighbours, deltas | arenas | offsets along a quadtree that loses parts at two sides | index is a bijection |
| sparsplane, space (`sparsplane.c`, `space.c`) | a trie over the tiles points lie in, buckets of points, a box around each branch and bucket; points that know their bucket and slot | put, delete, move one, move all in a box or ball, at, box, ball, nearest | - | searches that trust boxes; splits down to a last level of one bit; infinite coordinates; a move of many that finds no memory half way | boxes as tight as the points allow, searches that miss nothing, moves all or none (space) |
| xpedt (`xpedt.c`) | nodes beside a dag, the leaf, jobs; during an evaluation a buffer for each node | `mkxpedt`, twenty-two kinds of node, `xact`, `xpass` `xcall` `xcalleach`, `xrun`, `rmxpedt` | dag, silos, arenas, the functions of the client | items point into buffers others read and uniq writes to; a node half added; a job that fails before others; callbacks that come back | what is handed out is what the nodes mean as functions of the bound silos |
| text, fmt (`text.c`, `fmt.c`) | strands (byte builders) | append, insert, drop; formatting | arenas | UTF-8 at the end of a buffer; reallocation of the source of an append | the bytes asked for |
| regular expressions (`regcomp.c`, `regexec.c`, `sttregex.c`) | compiled program, thread lists | compile, match, structural commands | strands | thread-list overflow, empty matches | leftmost-longest matches |
| hash, rand, atoms | - | xxhash64, generators, overflow-checked arithmetic | everybody | - | pure arithmetic |

## 2. Plan

Order: what everything else rests on and what is most stateful comes first.

1. *Done:* linear silos, hash tables, whole-table operations, descriptors and
   iterators, arenas, buffered I/O; of the structures of `nexus.h` dag, ugraph,
   mtree, list, skiplist, bitree, indeltree, retrxtree, segheap, amtrie, lattice,
   sparsplane and space; expeditions with their evaluator, sort and jobs. Proved: the
   invariants of linear silos, hash tables, descriptors and iterators, arenas, dags,
   ugraphs, mtrees, bitrees, lists and of the buffer of a stream, that the operations on whole tables are exact, and that linear
   silos, hash tables and streams implement `SeqSpec`, `KeyStore` and `Stream`.
2. *Next:* callbacks that come back to an expedition, sets and maps as its inputs;
   text (strands); the compiled machine of the regular expressions.
3. Not planned: formatting, the regular expression parser, rounding of
   coordinates, platform backends.

## 3. Modules

| Module | What it is |
|---|---|
| `LinearOps` | the record `silo_t` and, one operator per routine, what is done to it |
| `LinearSilo` | one live stack, queue or seq: one action per public operation, `cram` and `spew` one step per iteration, memory failures; extends `LinearOps` |
| `SeqSpec` | what a linear silo promises: a finite sequence |
| `LinearSiloProofs` | theorems about `LinearSilo` |
| `HashOps` | the record `htab_t`: probing, placing, killing, the load test; growth, compaction and seeking as single operators, for the modules where nothing happens in between |
| `HashTable` | one live set or map: every operation, growth and compaction slot by slot; extends `HashOps` |
| `KeyStore` | what a set or map promises: entries with distinct keys |
| `HashOpsProofs` | theorems about the tables of `HashOps`, used by the proofs about the three modules that extend it |
| `HashTableProofs` | theorems about `HashTable` |
| `HashAlgebra` | the loops over whole tables; one step per turn of a loop; extends `HashOps` |
| `HashAlgebraProofs` | theorems about `HashAlgebra` |
| `Silos` | a descriptor table with its silos and iterators; composes `LinearOps` (as `L`) and `HashOps` |
| `SilosProofs` | theorems about `Silos` |
| `Arena` | the region allocator; one step per turn of its loop |
| `ArenaProofs` | theorems about `Arena` |
| `Bio` | one buffered stream of `bio.c`, over a file and the kernel's offset in it; one step per turn of a loop |
| `Stream` | what a buffered stream promises: a file with one position |
| `BioProofs` | theorems about `Bio` |
| `Reachability` | what can be reached in a graph, without recursion; used by the three topologies |
| `Dag` | one dag of `dag.c`: dots, arcs, the lists of each dot, the refusal of cycles |
| `Ugraph` | one undirected multigraph of `ugraph.c`, with tombstones and the rollback of an arc |
| `Mtree` | one ordered forest of `mtree.c`: knobs, arms, subtrees that are deleted and moved |
| `TopologyProofs` | theorems about `Dag`, `Ugraph`, `Mtree`, `Bitree` and `List` |
| `ListOps` | the knots of `list.c` and what is done to them; a position is a knot and the one before it |
| `List` | a client that cuts, turns, puts and concatenates beads; extends `ListOps` |
| `Ordered` | what skiplist, indeltree and retrxtree promise alike: entries in the order of their keys, equals in the order they came, and what every search hands out |
| `Skiplist` | one skiplist, whose layers are lists of `ListOps` |
| `BitreeOps`, `Bitree` | knods, links, rotations and walks; a client of the bare tree |
| `Indeltree` | the red-black tree over `BitreeOps`: insertion, deletion, searches |
| `Retrxtree` | the B+ tree: the plan, splits, borrowing, mergers, searches |
| `Segheap` | the heap of Leonardo trees |
| `Amtrie` | the hash trie: buckets, splits, pruning, prefixes |
| `Lattice` | the clipped quadtree order and the cells along it |
| `Tiles` | what a sparsplane and a space do alike: the trie over tiles, boxes, moves, searches |
| `Sparsplane` | one sparsplane: `Tiles` with two axes; a move of many points may stop half way |
| `Space` | one space: `Tiles` with three axes; a move of many points is taken back |
| `MCNexus` | the thirteen structures in one state space; an initial state chooses one; three of them are compared with `Ordered`, and their searches with what there is; the loops of the searches (depth first, breadth first, topological, preorder) are in it, recursive |
| `XpedtEval` | the evaluator: one operator per `eval_...`, buffers whose items point into buffers; with it `smoothsort`, on positions, and the client: silos, bindings, one function of each kind |
| `Xpedt` | one expedition: nodes, the leaf, jobs, `xact`, `xrun`; extends `XpedtEval` |
| `XpedtMeaning` | what the nodes mean: functions on sequences, no buffers; and what a client may expect by them; extends `Xpedt` |
| `MCStorage` | linear silos, arenas and expeditions in one state space; an initial state chooses one |
| `MCStreamAlgebra` | a stream and the operations on whole tables in one state space; with the files, texts and hash function of the instance |
| `MCHashTable`, `MCSilos` | the hash functions and value sets of the instances TLC runs |

### How state and actions correspond to the code

A C record is a TLA+ record with the same field names (`cap`, `len`, `head`,
`gen`, `tombs`); an array is a function from `0..cap-1`. A descriptor is the
index it carries. A call is one action unless it contains a loop in which
something can fail or be observed; then the loop's state is in a variable
(`todo`, `move`, `job`, `call`) and each turn is a step. Each place where the
code asks an arena for memory is a disjunction of success and failure. The
result of a call is in `ret`, so that refinement relates results, not only
contents.

In `MCNexus` every structure has variables of its own and a call is one action,
as nothing can be observed in between; memory fails at each place where a call
may have changed something already. What three ordered structures promise
(`Ordered`) carries no result: their ids are those of the entries, and the
searches are compared with the entries by `SearchesExact` in every state.

A node of an expedition is its number below zero, a source one above. The
buffers of an evaluation (`mem`) are indexed by both; an item that the code keeps
as an address of another buffer is `Ref(buffer, place, length)`. What a client
asked for and what it was handed by the last `xact` or `xrun` is in `heard`.

Abstracted: the bytes of keys and values, with their lengths and byte areas (a
slot holds its entry); the tag byte (a filter in front of the comparison);
xxhash64 (any function of the key); wording of messages.

Assumed of the client: one thread, and the pending error is collected between
calls. A second error inside one call ends the program; where a single call
can raise two, `HashAlgebra` and `Arena` count them (`faults`). `HashTable`,
`LinearSilo` and `Xpedt` do not: there the exit would only cut behaviours short.

## 4. Runs

| Run | Shows | Bounds, and why they are enough |
|---|---|---|
| `Storage` | of linear silos, arenas and expeditions, what the next table says | see the next table |
| `LinearSwop` | *violation*: `swop` on a queue exchanges the oldest element in its place, where `silo.h:170` speaks of an enqueue and a dequeue | as for linear silos; two elements suffice |
| `Hash` | `TypeOK`, `ProbeEnds`, `EveryEntryFound`, `MutationTouches`, a set and a map implement `KeyStore`, and every call ends | table of 4 slots, then 8; four keys, so that a table could be filled, of which two collide and one has its home at the end of the table, so that a probe wraps; 10 generations let tombstones fill the table and force a rehash |
| `StreamAlgebra` | of a stream and of the operations on whole tables, what the next table says | see the next table |
| `AlgebraScratch` | *violation*: `symmdiffs` and `symmdiffms` walk freed memory when the table of descriptors moves for their scratch table | as for the operations on whole tables, one call more |
| `AlgebraIntersection` | *violation*: `intxnms` misses a key when its table grows under it | the same |
| `Silos` | `OrdinaryFaithful`, `OrdinaryComplete`, `ObliteratorEmpties`, `ReplicaFaithful` | two slots, three silos and iterators alive at once, stacks with queues or sets, five generations in all and reuse of a slot up to its third: a slot is reused under an iterator, two iterators share a silo, a wrapped queue is copied |
| `SilosReplica` | *violation*: `replica` reads freed memory when the table has to grow | one queue suffices |
| `BioRune` | *violation*: `bungetrune` after a malformed rune | as for a stream, client not careful |
| `BioOverrun` | *violation*: a line that is read after a rune was given back across the end of a full buffer goes on with another byte than the file | as for a stream, client not careful |
| `Nexus` | `DagSound`, `Acyclic`, `UgraphSound`, `MtreeSound`, `ListExact`, `OrderedSound`, `BitreeSound`, `SegheapSound`, `TriesSound`, `SearchesExact`, `UgraphTombstones`, `MtreeTombstones`, `NothingHalfMoved`, `ImplementsOrdered` | see the table after that |
| `DagUnsearched` | *violation*: an arc goes in without a search for cycles when the search finds no memory | 3 dots, 3 arcs |

Parts that have nothing in common share a run, in which an initial state chooses one
of them; each is explored as it would be alone. `Storage` and `StreamAlgebra`, part by
part:

| Run | Part | Shows | Bounds, and why they are enough |
|---|---|---|---|
| `Storage` | linear silos | `TypeOK`, `NoJunk`, `MutationTouches`, and that each of the three kinds implements `SeqSpec` call by call | chunk 2, at most 4 elements, 8 generations: the storage grows twice, a queue wraps and is unwrapped in both, tamp makes the storage exactly full, positions from one below to one beyond |
| `Storage` | arenas | `InBounds`, `Disjoint`, `Aligned`, `OneBlockEnough`, `NullOnOom` | a word of 24 values, blocks of 8 bytes, addresses of residues 1 and 2 modulo 4, sizes 0 to 22: every overflow test is met on both sides |
| `Storage` | expeditions | `EvalExact`, `JobsServed` | three calls that add a node or a job, each node on the newest or on both; silos of three, two and no items, bound in two ways; numbers below 64, memory for 20 items: every kind of node on every other, on inputs, on pairs and on windows; `take` of a `recur`, `flatten` of molded silos, sorts of up to a dozen items; one node whose dot or arc found no memory, before others |
| `StreamAlgebra` | a stream | `BufferIsFile`, and that a stream implements `Stream` step by step | a buffer of two bytes, files and texts of up to four: texts overflow the buffer, runes and bytes given back cross its end, the disk fills up; bytes of the three kinds the decoder tells apart; modes that read, write, append |
| `StreamAlgebra` | whole tables | `Exact` and `HalfDone` of every operation on two sets, maps, multisets | three keys, counts 1 and 2 (their sum overflows), 4 filling calls: tables of 4 slots that grow to 8 in the middle of the loop, with two keys that change their order; a table of descriptors that is full, that moves, or neither, at every operation that makes a table |

Bounds of `Nexus`, structure by structure:

| Structure | Bounds | Why they are enough |
|---|---|---|
| dag | 4 dots, 4 arcs | paths of three arcs, two paths between the same dots |
| ugraph | 3 dots, 4 arcs, dead or not | parallel arcs, loops, an arc taken back next to a dead one |
| mtree | 5 knobs | a subtree of depth two moved among three siblings |
| list | 5 knots in lists of up to three | a bead is cut from the middle of four, turned round and put into another list; all sums of neighbours differ |
| skiplist | 4 pins, heights to 3, words 1 and 2 | a pin on every layer between others, equals in a row, layers that are left empty |
| bitree | 5 knods | rotations at roots and below, with each kid there or not |
| indeltree | 7 knods, words 1 and 2 | every colour and kid a descent can meet; a replacement two levels down; runs of equals at the root and below; what is put between others comes after its equals |
| retrxtree | nodes of two, so that the least is one; 6 entries, keys 1 and 2 | three levels, a split of leaf, inner node and root in one call; borrowing and merging from both sides; equals across leaves |
| segheap | 11 items, three keys, batches of two | trees of order 4 in a row with smaller ones; deletion in a tree that is not the last |
| amtrie | fragments of two bits, hashes of 5 bits (0, 4, 16), two keys, 4 entries | hashes that agree on one and on two fragments, and equal ones |
| sparsplane | tiles of side 2, numbered with 3 bits in fragments of two; buckets of one; 3 points at four places, one infinite; a box, a ball, one delta | places in one tile, tiles that differ in the first fragment and in the last bit only; a bucket split two levels down; all points moved, or the first few |
| space | three axes, 4 bits in two fragments; otherwise as sparsplane | both levels full; a batch of three taken back after one and after two |
| lattice | 6 cells, words 1 and 2; offsets compared for rectangles up to 7 by 7 | quadtrees of three levels clipped at both sides |

`OrderedSound` is three invariants in one: each layer of a skiplist holds the pins high
enough for it, in one order (`SkipSound`); an indeltree is red-black (`IndelRedBlack`);
a retrxtree's nodes, keys and entries agree, and its leaves are at one depth
(`RetrxSound`). `TriesSound` says of amtrie, sparsplane and space that what is in a bucket belongs there
and knows it, and of the last two that boxes fit exactly. `NothingHalfMoved` puts two
action properties together: mtree keeps the order of siblings, and a move of many points
in a space is done for all of them or for none. A sparsplane does not take such a
move back (`sparsplane.c:906`); no comment says that it would.

`SYMMETRY` is used in `Silos` only, over the values of linear silos, which no
action compares; that run checks invariants only. Deadlock is not checked in
`StreamAlgebra` and the runs of its two parts: there the program may exit, and the number of
calls is bounded. In `Storage` an arena whose program has ended stutters (`Ended`), so that
deadlock of the others is looked for.

`EvalExact` and `JobsServed` leave out what no comment gives a meaning to.
`Overwritten`: an item that `uniq` replaces is read by somebody else, for `uniq` writes
into the buffer its item came from. `Unsaid`: windows a stride apart that leaves no
room for a second one (`xpedt.c:775`), and the order in which `sort` leaves different
items that compare equal. A product that points into a buffer of the
evaluation is `<<"freed">>`, an address and no more. Without the first two exemptions TLC
finds differences (an `aggroup` whose `uniq` is connected with its own source; an
`orama` with one window).

Fairness appears in one run: `CallsEnd` assumes that a call that has begun goes
on (`WF(Running)`). A call is a C function with no blocking operation in it; the
client's next call is never assumed.

### Findings

* `intxnms` walks the slots of the table it changes (`silo_multiset.c:145`).
* `replica` keeps a record's address across the creation of the new silo, which
  may free the table of records (`silo_common.c:186`, `silo.c:43`).
* `symmdiffs` and `symmdiffms` keep the addresses of both tables' records across
  the making of their scratch table, in the same way (`silo_set.c:186`,
  `silo_multiset.c:185`, `silo.c:52`). `HashAlgebra` lets the table of descriptors
  move (`moved`); a loop that looks at a record afterwards finds any of those there
  are (`Seen`), or the program ends (`Crash`). `Exact` and `HalfDone` are about the calls
  during which it did not move.
* `bio_merge_pushback` puts what was given back in front of the read-ahead without
  looking whether the array holds both (`bio.c:54`, `bio.c:106`). A rune across the end
  of a full buffer that is given back, and a line read next, are one byte or more too many;
  in the model what lies behind the array may be anything when it is read again (`Kept`).
* `swop` on a queue exchanges the element at the head in its place (`silo_common.c:230`),
  so that the caller's is dequeued next; `silo.h:170` says "enqueue and dequeue".
  `SeqSpec` says what the code does, `SwopQueues` what the comment says.
* `bgetrune` consumes all the bytes a malformed rune pretends to have and remembers
  one (`bio.c:433`), so that `bungetrune` puts back too few (`bio.h:50`).
* `dgarc` puts an arc in without a search for a cycle when the search cannot get
  its memory (`dag.c:317`); `nexus.h:8` says that every live dag remains acyclic.
  The error is pending, but the arc's id is returned. The variable `searched`
  of `Dag` tells the dags this happened to from the others.

Other places are in the models as the code has them and are worth knowing, without
a run of their own. `boffset` in append mode counts from the kernel's offset, not
from the end of the file (`bio.c:354`), although `bio.h:37` speaks of the next byte to be
written; `bseek` from the current position starts there too. The first allocation of all, when there
is no memory, raises two errors (`arena.c:204`), which ends the program; `NullOnOom`
says that this is the only case in which an allocation does so.

Of expeditions: `last - stride` wraps around in `eval_orama` (`xpedt.c:775`), so that
windows are made beyond the buffer until memory runs out. `add_node` keeps a node whose
dot found no memory (`xpedt.c:261`): every later node with a computed source is
then refused, for its dot is missing, and stays in the table as well; with two
computed sources, or when the node that finds no memory has one, two errors end
the program. A product that is a region or a pair points into freed buffers
(`xpedt.c:1417`). The result of a job without a place goes to a cell of the table of
jobs, which moves when the ninth job comes (`xpedt.c:1477`). A callback that adds nodes or
jobs, or makes an expedition, moves what `run_each` and `xrun` hold by address, and
`eval_close` frees as many buffers as there are nodes by then (`xpedt.c:1426`).

`Bio` has a constant `Careful`. A careful client avoids what `Avoided` guards:
it seeks (or binds again) after a failed write before it goes on; it does not give
back a malformed rune; it does not write zero bytes in append mode (which
drops the read-ahead); it does not ask for the offset while appended output is
pending elsewhere than at the kernel's offset; it does not seek from the end to
before the start (which moves the kernel's offset and keeps the read-ahead);
and it does not read a line while what it gave back and the read-ahead exceed the buffer.
Each of the six is a place where the code does not keep the promise of a
single position. The model contains them all; `BioRune` and `BioOverrun` show the two that
`bio.h` speaks of most plainly. One more thing the client cannot avoid: a
read error in the middle of a rune raises two errors (`bio.c:438`), which ends
the program; `Stream` has it as `Abort`.

## 5. Proofs

`LinearSiloProofs`, for every chunk size, set of values, bound and kind:
`TypeCorrect` (`TypeOK`), `ElementsStored` (`NoJunk`), `ChangesCounted`
(`MutationTouches`). The invariant is `IInv == TypeOK /\ NoJunk /\ Straight(silo)`:
the cells of a stack or seq are copied without looking at `head`, so that a stack
or seq never rotates (`Straight`) has to be carried along. Each routine of
`LinearOps` has a lemma that it keeps a silo sound and counts a new generation;
the step lemma `NextAdvance` puts them together, action by action.

`HashTableProofs`, for every hash function, key set, initial capacity and load
limit `LoadN/LoadD` with `InitCap * (LoadD - LoadN) >= LoadD` (16 and 7/8 in
`config.h`): `TypeCorrect`, `ProbingTerminates` (`ProbeEnds`), `EntriesFound`
(`EveryEntryFound`), `ChangesCounted`. The invariant has three parts. The
counters are the cardinalities of live and dead slots (`Counted`). The table is
roomy: the load limit leaves a slot empty after one more add (`Roomy`, `Slack`).
The table is sound: on the way from an entry's home to its slot there is no
empty slot, and no key is stored twice (`Sound`); deletion keeps this because a
tombstone is not empty, and reuse of a tombstone because the search first went
on to the next empty slot. In the middle of a move the new table satisfies the
same for the entries before `move.next` (`MoveGood`), which with the counters
gives it room for the rest. What is said of a table alone is in `HashOpsProofs`. It also
has growth as one operator (`GrownGood`), for the modules where nothing happens in
between: `Filled` is a recursive function, and that it does the same as the single
steps is shown by the least place where it would not.

`HashAlgebraProofs`, for every hash function, key set, largest count, load limit and
bound: `OperationsExact` (`Exact`) and `NothingLost` (`HalfDone`), of the calls during which
the table of descriptors stayed where it was; that there is no memory for the scratch table
of a symmetric difference is one of the errors. A table in order is a
function of its keys (`Held`), and every body of a loop gives one key a value or raises
an error and changes nothing (`Result`), growth or not. The invariant says: the three
tables are in order, whatever moved; elements of a set count one; the operation fits its loop, and those
of multisets and `replica` do not go on after an error (`Loops`); and, key by key
as long as nothing moved (`Keys`), that dst has what it had or is to have (`Half`), and as long as there was no error
how far the loop has brought the key (`Stage`), by whether the walk has still to come to it
(`Ahead`). That a walk comes to each key once is where the table it walks must not
change but by burying what it passed (`AheadWithout`); `intxnms` grows it, and `Stage` claims
nothing for it. What one turn does to one key (`StageTurn`) is then arithmetic.

`ArenaProofs`, for every size of a word and of a block, every address `malloc` may
return and every request: `ArenaInvariant`, and from it `AllocationsInBounds`
(`InBounds`), `AllocationsDisjoint` (`Disjoint`), `AllocationsAligned` (`Aligned`),
`OneNewBlockEnough` (`OneBlockEnough`) and `OneErrorAtMost` (`NullOnOom`). None of the
five is inductive. The invariant says that every block ends inside the word and is not
filled beyond its end (that blocks do not overlap is `malloc`'s promise, and not
stated); that what was given out lies below the fill level of its
block (`Placed`), so that what is given out next lies beyond it; and of a request in
progress (`Admitted`) that the block it has got, if it is a fresh one, is empty
and large enough for any padding, which is why the loop of `arena_alloc` cannot go round
again.

`TopologyProofs`, for every bound, has the dags, the ugraphs, the mtrees, the bitrees and the lists. Dags:
`DagTypes` (`TypeOK`), `ListsSound` (`DagSound`),
`StaysAcyclic` (`Acyclic`). Reachability is defined by closed sets (`Reach`: what is
in every set that holds the start and that no edge leaves), so that nothing
needs an induction over paths. The invariant is `TypeOK /\ DagSound /\ Acyclic`:
the search goes along the lists, so that it finds the arcs' paths only because
the lists are sound. The core is the lemma that an edge added to a graph without
cycles closes none unless its end already reached its beginning: if the new
edge's end now reaches its beginning, a closed set of the old graph that holds
the one holds the other.

Ugraphs: `GraphSound` (`UgraphSound`) and `GraphTombstonesStay`
(`UgraphTombstones`). The invariant adds that the ends of every arc, dead ones
too, are dots. The work is in deletion: what `ugddot` does to the lists of the dots
at the other ends is stated for each list by itself (an arc leaves it if and
only if it dies), for loops and parallel arcs alike.

Mtrees: `TreeSound` (`MtreeSound`) and `TreeTombstonesStay`
(`MtreeTombstones`). The invariant adds that live arms hang on live knobs. As for
dags reachability is by closed sets: what is below a knob is in every set that
holds it and the kids of its members (`LeastClosed`); a graph with fewer edges has
fewer ways (`FewerEdges`); a subtree hung on a knob that is not in it makes no
cycle (`Hung`), so `mtcarry` may move what it was allowed to.

Bitrees: `BitreesSound` (`BitreeSound`). That links agree both ways says nothing
about cycles, and the walks of the property are only cut off, not shown to end;
so `BitreeInv` adds that the knods have ranks that grow from parents to kids. It
is checked for each call by giving the ranks of the new trees: a rotation doubles all
ranks and swaps two, `btplace` moves all that is not above the new parent past it
(`HungTrees`), which is what its refusal of ancestors is for. Ranks are also
the measure of every induction (`UpFromLeaves`, `DownFromRoots`): a walk is the
recursive function of `BitreeOps` cut off after as many steps as there are knods,
and where links fall in rank it never is (`WalkUnfolds`). From then on it is
the knod and the walks of its kids, and the properties of the walks follow (`BelowOnce`,
`OrdersAgree`); that a rotation keeps the order (`OrderKept`) is associativity
of concatenation (`OrderTurned`) and a root that is the same or replaced by
its kid.

Lists: `ListsExact` (`ListExact`). The property speaks of what walks find, and a walk
is a recursive function that is cut off after as many steps as there are knots. So the
invariant names strings instead: `ListInv` says that for some set of sequences of
different knots each knot is in exactly one and stores the two beside it (`Woven`);
the set is one of strings that walks find, so that TLC could confirm it
on five knots before it was proved. Then a
walk from any knot in either direction is the rest of its string (`Walking`, by the
least number of steps where it would not be), and what the client may name
(positions, beads, independent beads) is a part of one string or of its reverse.
Each call takes strings apart and makes others of the same knots (`Rewoven`).
The work is in the exclusive or: each `replace_neighbor` is shown to find the neighbour it
takes out and not the one it puts in (`Swappable`), which gives what `lscut` and
`lsput` leave in every knot (`CutShape`, `PutShape`), also when the bead is one knot
or at an end. As no knot has a direction, every string may be taken in its other one
(`Faced`): so a bead that is read backwards needs no case of its own.

Refinements. `SequenceImplemented` and `StoreImplemented` take the invariants above
and show, action by action, that each step is a step of `SeqSpec` or
`KeyStore` with the same result, or a stutter: a turn of `cram`, of `spew`, of a
growth or a compaction leaves the contents as they are or adds just the one
element. For sequences the core is that copying a wrapped queue straight is the
identity on contents; for tables, that a probe finds the one slot with the key,
so that what is stored is a function of the key.

`SilosProofs`, for every hash function, number of silos and iterators, chunk size and bound:
`SilosInvariant`, and from it `IteratorsAreFaithful` (`OrdinaryFaithful`),
`IteratorsAreComplete` (`OrdinaryComplete`), `ObliteratorsEmpty` (`ObliteratorEmpties`) and
`ReplicasAreFaithful` (`ReplicaFaithful`). None is inductive. The invariant (`TableInv`) says that
every silo is in order and that every iterator fits the slot its descriptor names
(`Fits`), whatever is in that slot now. An ordinary one knows a generation: no later than
the slot's, and if it is the slot's, the silo holds what it held when the iterator was
made and the position parts what was handed out from the rest (`Reached`). A generation may
stay while the storage grows, so it is the contents that have to be the same, not the record.
An obliterating one does not look at generations: as long as nobody added to its
silo, nothing lies before its position. What a call does to a silo is then a single fact
(`Changed`: a later generation, or the same contents), proved once per call, and what it does to
the iterators of the others follows from it (`FitsAfter`); that a slot keeps its
generation while it is free is what protects the iterators of silos that are gone
(`FitsGone`, `CreatedKeeps`). The order in which a hash silo is walked is a recursive function of
its live slots; that it visits each once and upwards (`InOrderIs`) is shown by the least place where
it would not, as is that `replica` copies entry by entry (`CopyHashKept`).

`BioProofs`, for every capacity of the buffer, every file and all bytes, with a client
that is `Careful` (section 4): `ReadAheadIsFile` (`BufferIsFile`) and
`StreamImplemented` (`ImplementsStream`). `BufferIsFile` alone is not inductive.
That the read-ahead fits the array rests on the client not reading a line when it would
not (`Overfull`). `IInv` says also what a call in progress carries (`Calls`: how much is done, how
much there is to do), that pending output and read-ahead are never both there
(`Pending`), and that, when the code knows where the kernel's offset is (`sure`), the
bytes the call has handed out, those given back, and those read ahead lie one after
the other in the file up to that offset (`InFile`). The refinement has a step
lemma for each action. The position of the abstract stream is the kernel's offset less
the read-ahead, or plus the output that is pending; the abstract file is the one
on the disk with the pending output laid over it. So a flush, in as many pieces
as the kernel likes, must be invisible (`OverlayMore`, `OverlayEnd`), as must
every read that fills the buffer.

Only model-checked, and why. Liveness (`CallsEnd`): fairness and `ENABLED` are
outside the prover. `NothingHalfMoved`: the order of siblings is stated with
`SelectSeq`, which the prover cannot expand, and spaces are recursive.
The walk of a bitree by levels (`SearchesExact`): it is
made with `SelectSeq` too. What is `RECURSIVE` cannot be loaded by the prover at all:
skiplists, indeltrees, retrxtrees, segheaps, the tries, lattices, expeditions, the loops
of the searches in `MCNexus`, and the refinement `ImplementsOrdered` that rests
on them.

## 6. Not modelled

Of the structures of `nexus.h`: the refs a caller stores in them, capacities, their tables
of descriptors, which are those of `Silos` without generations, and comparators that
change their mind. Lattice coordinates near the ends of a word. Of expeditions:
their table, memory that runs out inside an evaluation, sets and maps as inputs (linear
silos only; molded sets and maps are read by `flatten`), runes, functions that come
back to the expedition.

Of buffered I/O the table of streams (`mkbio`, `rmbio`), which raw descriptor is
closed, and the wrappers that only loop over modelled calls (`brdstr`, `bprint`);
a `dwrite` that returns zero for a regular file; pipes. The two cartesian products and the subset predicates of sets; pointers into a
table's byte areas, which `silo.h` declares invalid after any change; what a silo
reads after its arena was removed (undefined); key lengths beyond 32 bits.

Of sparsplane and space the rounding of coordinates: they are whole numbers, with one
infinite one at either end, and squares of distances are exact. Text (strands) is
modelled next. Formatting is wording and layout, but for the buffer bounds. The regular expressions' parser
produces a machine from characters; the machine alone can be modelled and is
planned. xxhash64, the random generators and the overflow-checked arithmetic
are pure; the models take any hash, any height and any size in their place.
