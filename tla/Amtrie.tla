------------------------------- MODULE Amtrie -------------------------------
(***************************************************************************)
(* One amtrie of amtrie.c: a trie over the bits of a hash, the lowest      *)
(* first, with buckets of entries at its ends.  A branch holds its kids by *)
(* their fragment of the hash (the code packs them by a bit map); a bucket *)
(* is known by an id.  Entries count from 1.  64 bits in levels of 6 are   *)
(* HashBits in levels of AMSHIFT here.                                     *)
(***************************************************************************)
EXTENDS Naturals, FiniteSetsExt, SequencesExt, Functions

CONSTANTS AMSHIFT, HashBits,
          Hash, AmKey,  \* the client's hashes and keys
          MaxEntry      \* bound of a run

VARIABLE am  \* the amtrie

AMLEVELS == (HashBits + AMSHIFT - 1) \div AMSHIFT

None == [kind |-> "none"]
Branch(kids) == [kind |-> "branch", kids |-> kids]
Bucket(id) == [kind |-> "bucket", id |-> id]

Nothing == [live |-> FALSE, root |-> None, ents |-> <<>>, nlent |-> 0, buckets |-> <<>>]

Entry == DOMAIN am.ents
LiveEntries == {e \in Entry : am.ents[e].live}

frag(hash, level) == IF level >= AMLEVELS THEN 0 ELSE (hash \div 2 ^ (level * AMSHIFT)) % 2 ^ AMSHIFT
Frags == 0..(2 ^ AMSHIFT - 1)

hashof(x, e) == x.ents[e].hash

\* A trie x and a child of it that was made.
With(x, child) == [x |-> x, child |-> child]

\* Only a bucket that is in use has entries.
Used(x) == {b \in DOMAIN x.buckets : x.buckets[b] # <<>>}
NewId(x) == Min(DOMAIN x.buckets \ Used(x))
AddBucket(x, es) == [x EXCEPT !.buckets[NewId(x)] = es]
DropBucket(x, id) == [x EXCEPT !.buckets[id] = <<>>]

update_bucket(x, id) ==
  LET es == x.buckets[id]
  IN  FoldLeft(LAMBDA y, i : [y EXCEPT !.ents[es[i]] = [@ EXCEPT !.bucket = id, !.slot = i]],
               x, [i \in DOMAIN es |-> i])

bucket_append(x, id, ent) == update_bucket([x EXCEPT !.buckets[id] = Append(@, ent)], id)

same_hashes(x, es) == \A i \in DOMAIN es : hashof(x, es[i]) = hashof(x, es[1])

\* The entries in buckets under as many branches as it takes to tell their
\* hashes apart; the entries are told later.
RECURSIVE build_subtree(_, _, _)
build_subtree(x, es, level) ==
  LET Group(f) == SelectSeq(es, LAMBDA e : frag(hashof(x, e), level) = f)
      Add(w, f) == IF Group(f) = <<>> THEN w
                   ELSE LET sub == build_subtree(w.x, Group(f), level + 1)
                        IN  With(sub.x, Branch((f :> sub.child) @@ w.child.kids))
  IN  IF level >= AMLEVELS \/ same_hashes(x, es) THEN With(AddBucket(x, es), Bucket(NewId(x)))
      ELSE FoldLeft(Add, With(x, Branch(<< >>)), [i \in 1..2 ^ AMSHIFT |-> i - 1])

RECURSIVE update_child_positions(_, _)
update_child_positions(x, c) ==
  IF c.kind = "branch"
  THEN FoldLeft(LAMBDA y, f : update_child_positions(y, c.kids[f]), x, SetToSeq(DOMAIN c.kids))
  ELSE update_bucket(x, c.id)

\* A faulty variant: the entries that were there before are not told.
split_bucket_insertUntold(x, c, level, ent) ==
  LET old == x.buckets[c.id]
      w == build_subtree(DropBucket(x, c.id), Append(old, ent), level)
  IN  IF level >= AMLEVELS \/ (same_hashes(x, old) /\ hashof(x, old[1]) = hashof(x, ent))
      THEN With(bucket_append(x, c.id, ent), c)
      ELSE LET y == update_child_positions(w.x, w.child)
           IN  With([y EXCEPT !.ents = [x.ents EXCEPT ![ent] = y.ents[ent]]], w.child)

split_bucket_insert(x, c, level, ent) ==
  LET old == x.buckets[c.id]
      w == build_subtree(DropBucket(x, c.id), Append(old, ent), level)
  IN  IF level >= AMLEVELS \/ (same_hashes(x, old) /\ hashof(x, old[1]) = hashof(x, ent))
      THEN With(bucket_append(x, c.id, ent), c)
      ELSE With(update_child_positions(w.x, w.child), w.child)

RECURSIVE insert_into_child(_, _, _, _)
insert_into_child(x, c, level, ent) ==
  LET f == frag(hashof(x, ent), level)
      sub == insert_into_child(x, IF f \in DOMAIN c.kids THEN c.kids[f] ELSE None, level + 1, ent)
  IN  CASE c.kind = "none" -> With(bucket_append(AddBucket(x, <<>>), NewId(x), ent), Bucket(NewId(x)))
        [] c.kind = "bucket" -> split_bucket_insert(x, c, level, ent)
        [] c.kind = "branch" -> With(sub.x, Branch((f :> sub.child) @@ c.kids))

\* Empty buckets and branches on the way of a hash go; a branch with one kid stays.
RECURSIVE prune_child(_, _, _, _)
prune_child(x, c, hash, level) ==
  LET f == frag(hash, level)
      sub == prune_child(x, c.kids[f], hash, level + 1)
      rest == Restrict(c.kids, DOMAIN c.kids \ {f})
  IN  CASE c.kind = "none" -> With(x, c)
        [] c.kind = "bucket" -> IF x.buckets[c.id] = <<>> THEN With(DropBucket(x, c.id), None) ELSE With(x, c)
        [] c.kind = "branch" ->
             IF f \notin DOMAIN c.kids THEN With(x, c)
             ELSE With(sub.x, IF sub.child # None THEN Branch((f :> sub.child) @@ rest)
                              ELSE IF rest = << >> THEN None ELSE Branch(rest))

Put(x, hash, key) ==
  LET ent == Len(x.ents) + 1
      w == insert_into_child([x EXCEPT !.ents = Append(@, [hash |-> hash, key |-> key, bucket |-> 0,
                                                            slot |-> 0, live |-> TRUE])],
                             x.root, 0, ent)
  IN  [w.x EXCEPT !.root = w.child, !.nlent = @ + 1]

\* An entry is taken out where its record says it is.
Delete(x, e) ==
  LET b == x.ents[e].bucket
      y == update_bucket([x EXCEPT !.buckets[b] = RemoveAt(@, x.ents[e].slot)], b)
      w == prune_child([y EXCEPT !.ents[e] = [@ EXCEPT !.live = FALSE, !.bucket = 0, !.slot = 0],
                                 !.nlent = @ - 1],
                       x.root, hashof(x, e), 0)
  IN  [w.x EXCEPT !.root = w.child]

RECURSIVE Found(_, _, _, _)
Found(x, c, hash, level) ==
  CASE c.kind = "none" -> <<>>
    [] c.kind = "bucket" -> x.buckets[c.id]
    [] c.kind = "branch" -> LET f == frag(hash, level)
                            IN  IF f \in DOMAIN c.kids THEN Found(x, c.kids[f], hash, level + 1) ELSE <<>>

find_bucket(x, hash) == Found(x, x.root, hash, 0)

ammatches(x, hash, key) ==
  SelectSeq(find_bucket(x, hash), LAMBDA e : hashof(x, e) = hash /\ x.ents[e].key = key)

RECURSIVE DeleteMatches(_, _, _)
DeleteMatches(x, hash, key) ==
  LET m == ammatches(x, hash, key)
  IN  IF m = <<>> THEN x ELSE DeleteMatches(Delete(x, Head(m)), hash, key)

\* The kids of a branch whose fragments are wanted, by their fragments.
KidsFrom(c, fs) == LET s == SetToSortSeq(DOMAIN c.kids \cap fs, <) IN [i \in DOMAIN s |-> c.kids[s[i]]]

RECURSIVE enum_child(_, _)
enum_child(x, c) ==
  CASE c.kind = "none" -> <<>>
    [] c.kind = "bucket" -> x.buckets[c.id]
    [] c.kind = "branch" -> FlattenSeq([i \in DOMAIN KidsFrom(c, Frags) |-> enum_child(x, KidsFrom(c, Frags)[i])])

amentries(x) == enum_child(x, x.root)

prefix_match(hash, prefix, nbits) == hash % 2 ^ nbits = prefix % 2 ^ nbits

RECURSIVE enum_prefix(_, _, _, _, _, _)
enum_prefix(x, c, prefix, total, rem, level) ==
  LET f == frag(prefix, level)
      some == KidsFrom(c, {g \in Frags : g % 2 ^ rem = (prefix \div 2 ^ (level * AMSHIFT)) % 2 ^ rem})
  IN  IF rem = 0 THEN enum_child(x, c)
      ELSE CASE c.kind = "none" -> <<>>
             [] c.kind = "bucket" ->
                  SelectSeq(x.buckets[c.id], LAMBDA e : prefix_match(hashof(x, e), prefix, total))
             [] c.kind = "branch" /\ rem >= AMSHIFT ->
                  IF f \in DOMAIN c.kids
                  THEN enum_prefix(x, c.kids[f], prefix, total, rem - AMSHIFT, level + 1) ELSE <<>>
             [] OTHER -> FlattenSeq([i \in DOMAIN some |-> enum_child(x, some[i])])

amprefix(x, prefix, nbits) == enum_prefix(x, x.root, prefix, nbits, nbits, 0)
-----------------------------------------------------------------------------
Init == am = Nothing

mkamtrie == ~am.live /\ am' = [Nothing EXCEPT !.live = TRUE, !.buckets = [b \in 1..MaxEntry |-> <<>>]]

rmamtrie == am.live /\ am' = Nothing

amput(hash, key) == am.live /\ Len(am.ents) < MaxEntry /\ am' = Put(am, hash, key)

\* Wherever the memory for an entry runs out, what was there is still there.
amputNoMemory == am.live /\ UNCHANGED am

amdel(e) == e \in LiveEntries /\ am' = Delete(am, e)

amdels(hash, key) == am.live /\ am' = DeleteMatches(am, hash, key)

Next == \/ mkamtrie
        \/ rmamtrie
        \/ \E hash \in Hash, key \in AmKey : amput(hash, key)
        \/ amputNoMemory
        \/ \E e \in Entry : amdel(e)
        \/ \E hash \in Hash, key \in AmKey : amdels(hash, key)

Spec == Init /\ [][Next]_am
-----------------------------------------------------------------------------
\* The entry ids in the order they were given out.
InOrder(es) == SetToSortSeq(es, <)

\* Buckets below a child with the hash bits that lead to them.
RECURSIVE Ends(_, _, _)
Ends(c, level, bits) ==
  CASE c.kind = "none" -> {}
    [] c.kind = "bucket" -> {[id |-> c.id, level |-> level, bits |-> bits]}
    [] c.kind = "branch" -> UNION {Ends(c.kids[f], level + 1, bits + f * 2 ^ (level * AMSHIFT)) : f \in DOMAIN c.kids}

\* Every bucket hangs in the trie once, is not empty, and holds entries of
\* one hash, the one that leads to it, in the order they came; every live
\* entry is where its record says, which amdel takes on trust.
AmtrieSound ==
  LET ends == Ends(am.root, 0, 0)
  IN  /\ am.nlent = Cardinality(LiveEntries)
      /\ {z.id : z \in ends} = Used(am) /\ Cardinality(ends) = Cardinality(Used(am))
      /\ \A z \in ends :
           LET es == am.buckets[z.id]
           IN  /\ same_hashes(am, es) /\ es = InOrder(ToSet(es))
               /\ prefix_match(hashof(am, es[1]), z.bits, Min({z.level * AMSHIFT, HashBits}))
      /\ \A e \in LiveEntries : am.buckets[am.ents[e].bucket][am.ents[e].slot] = e
      /\ Cardinality(LiveEntries) = FoldLeft(LAMBDA n, es : n + Len(es), 0, am.buckets)

\* Searches by hash and key, and by any number of low bits of the hash.
AmtrieSearches ==
  /\ \A hash \in Hash, key \in AmKey :
       ammatches(am, hash, key) =
         InOrder({e \in LiveEntries : hashof(am, e) = hash /\ am.ents[e].key = key})
  /\ \A hash \in Hash, n \in 0..HashBits :
       amprefix(am, hash, n) = SelectSeq(amentries(am), LAMBDA e : prefix_match(hashof(am, e), hash, n))
=============================================================================
