------------------------------ MODULE Lattice ------------------------------
(***************************************************************************)
(* One lattice of lattice.c: a rectangle of cells whose words lie in one   *)
(* array, along a quadtree over the square with sides of a power of two    *)
(* that holds the rectangle; parts of the square outside take no room.     *)
(* Coordinates are taken from the lower corner, offsets count from 0.      *)
(* The 64 bits of a coordinate are not reached here.                       *)
(***************************************************************************)
EXTENDS Integers, FiniteSetsExt, SequencesExt

CONSTANTS Phi,      \* the client's words
          MaxCell,  \* bound of a run
          MaxSide   \* the rectangles whose offsets are compared

VARIABLE lt  \* the lattice_t

Init0 == [live |-> FALSE, w |-> 0, h |-> 0, init |-> 0, phis |-> <<>>]

side(w, h) == Min({2 ^ i : i \in {i \in 0..MaxSide : 2 ^ i >= w /\ 2 ^ i >= h}})

\* How many cells of the rectangle a square of the quadtree has.
area(x, y, s, w, h) == IF x >= w \/ y >= h THEN 0 ELSE (Min({x + s, w}) - x) * (Min({y + s, h}) - y)

\* The quarters of a square in their order.
Quarters(x, y, half) == << <<x, y>>, <<x + half, y>>, <<x, y + half>>, <<x + half, y + half>> >>

\* The cells in the quarters before the q-th.
Before(qs, q, half, w, h) == FoldLeft(LAMBDA n, i : n + area(qs[i][1], qs[i][2], half, w, h), 0, [i \in 1..(q - 1) |-> i])

RECURSIVE Coordoff(_, _, _, _, _, _, _)
Coordoff(x, y, s, nx, ny, w, h) ==
  LET half == s \div 2
      qs == Quarters(x, y, half)
      q == CHOOSE q \in 1..4 : nx \in qs[q][1]..(qs[q][1] + half - 1) /\ ny \in qs[q][2]..(qs[q][2] + half - 1)
  IN  IF s <= 1 THEN 0
      ELSE Before(qs, q, half, w, h) + Coordoff(qs[q][1], qs[q][2], half, nx, ny, w, h)

coordoff(w, h, nx, ny) == Coordoff(0, 0, side(w, h), nx, ny, w, h)

RECURSIVE Offcoord(_, _, _, _, _, _)
Offcoord(x, y, s, off, w, h) ==
  LET half == s \div 2
      qs == Quarters(x, y, half)
      q == Min({q \in 1..4 : off < Before(qs, q + 1, half, w, h)})
  IN  IF s <= 1 THEN <<x, y>>
      ELSE Offcoord(qs[q][1], qs[q][2], half, off - Before(qs, q, half, w, h), w, h)

offcoord(w, h, off) == Offcoord(0, 0, side(w, h), off, w, h)

inbounds(x, y) == x \in 0..(lt.w - 1) /\ y \in 0..(lt.h - 1)

ltphi(x, y) == lt.phis[coordoff(lt.w, lt.h, x, y) + 1]

\* The words around a cell, from the east on; the cells outside are left out.
Orth == << <<1, 0>>, <<0, 1>>, <<-1, 0>>, <<0, -1>> >>
Surr == << <<1, 0>>, <<1, 1>>, <<0, 1>>, <<-1, 1>>, <<-1, 0>>, <<-1, -1>>, <<0, -1>>, <<1, -1>> >>

nearphis(x, y, ways) ==
  LET near == SelectSeq(ways, LAMBDA d : inbounds(x + d[1], y + d[2]))
  IN  [i \in DOMAIN near |-> ltphi(x + near[i][1], y + near[i][2])]

\* The cells that do not have the first word, in the order of the array.
ltphis == LET offs == SelectSeq([i \in DOMAIN lt.phis |-> i], LAMBDA i : lt.phis[i] # lt.init)
          IN  [i \in DOMAIN offs |-> [at |-> offcoord(lt.w, lt.h, offs[i] - 1), phi |-> lt.phis[offs[i]]]]
-----------------------------------------------------------------------------
Init == lt = Init0

mklattice(w, h, init) ==
  /\ ~lt.live /\ w * h <= MaxCell
  /\ lt' = [live |-> TRUE, w |-> w, h |-> h, init |-> init, phis |-> [i \in 1..(w * h) |-> init]]

rmlattice == lt.live /\ lt' = Init0

rltphi(x, y, phi) == lt.live /\ lt' = [lt EXCEPT !.phis[coordoff(lt.w, lt.h, x, y) + 1] = phi]

ltclear == lt.live /\ lt' = [lt EXCEPT !.phis = [i \in DOMAIN @ |-> lt.init]]

Next == \/ \E w, h \in 1..MaxCell, init \in Phi : mklattice(w, h, init)
        \/ rmlattice
        \/ \E x \in 0..(lt.w - 1), y \in 0..(lt.h - 1), phi \in Phi : rltphi(x, y, phi)
        \/ ltclear

Spec == Init /\ [][Next]_lt
-----------------------------------------------------------------------------
\* The offsets of the cells of a rectangle are those of its array, each
\* once, and lead back to the cell.
QuadExact ==
  \A w, h \in 1..MaxSide :
    LET cells == (0..(w - 1)) \X (0..(h - 1))
    IN  /\ {coordoff(w, h, c[1], c[2]) : c \in cells} = 0..(w * h - 1)
        /\ \A c \in cells : offcoord(w, h, coordoff(w, h, c[1], c[2])) = c

\* Enumeration and neighbourhoods tell what the cells hold.
LatticeSearches ==
  /\ ToSet(ltphis) = {[at |-> c, phi |-> ltphi(c[1], c[2])] :
                        c \in {c \in (0..(lt.w - 1)) \X (0..(lt.h - 1)) : ltphi(c[1], c[2]) # lt.init}}
  /\ \A x \in 0..(lt.w - 1), y \in 0..(lt.h - 1) :
       ToSet(nearphis(x, y, Surr)) =
         {ltphi(u, v) : <<u, v>> \in {c \in (0..(lt.w - 1)) \X (0..(lt.h - 1)) :
                                       c # <<x, y>> /\ c[1] \in (x - 1)..(x + 1) /\ c[2] \in (y - 1)..(y + 1)}}
=============================================================================
