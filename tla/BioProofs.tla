----------------------------- MODULE BioProofs -----------------------------
(***************************************************************************)
(* For any buffer size, file and texts: what a careful client of a stream  *)
(* has still to read is what the file holds at its position, and step by   *)
(* step the stream is the file with one position that Stream describes.    *)
(***************************************************************************)
EXTENDS Bio, SequenceTheorems, WellFoundedInduction, TLAPS

BioRec ==
  [bound : BOOLEAN, mode : SUBSET {"r", "w", "a"}, buf : Seq(Byte), pos : Nat, len : Nat,
   last : Seq(Byte), unget : Seq(Byte), writing : BOOLEAN]
CallRec ==
  [op : Reads \cup {None, "write", "exit"}, left : Nat, todo : Seq(Byte), delim : Byte]

TypeInv ==
  /\ file \in Seq(Byte) /\ off \in Nat
  /\ b \in BioRec /\ call \in CallRec
  /\ out \in Seq(Byte) /\ used \in Nat /\ sure \in BOOLEAN

\* The bytes s end at place p of the file f.
Ends(s, f, p) ==
  /\ Len(s) <= p
  /\ \A i \in 1..Len(s) : p - Len(s) + i \in 1..Len(f) /\ s[i] = f[p - Len(s) + i]

\* What is handed out before the file is asked again, and where that begins
\* when the kernel's offset is o.
Waits(x)    == x.unget \o Unread(x)
Place(x, o) == o - Len(Waits(x))

\* While the stream is read, the bytes of the call (s), the bytes of the last get
\* (u of them) and what waits lie one after the other in the file f.  When
\* bgetrune has handed out a part of a rune, the last get is one before it.
InFile(x, f, o, op, s, u) ==
  /\ x.pos <= x.len /\ x.len = Len(x.buf)
  /\ Ends(Waits(x), f, o)
  /\ op \in Reads => Ends(s, f, Place(x, o))
  /\ ~(op = "rune" /\ s # <<>>) /\ u = Len(x.last) => Ends(x.last, f, Place(x, o))

\* The inductive invariant.
Calls ==
  /\ ~sure => call.op = None
  /\ call.op \in Reads => ~b.writing
  /\ call.op = "write" => b.writing
  /\ call.op \in {"read", "line"} => b.last = <<>>
Pending ==
  b.writing => b.pos = Len(b.buf) /\ b.pos <= BufSize /\ b.last = <<>> /\ b.unget = <<>>
IInv ==
  /\ TypeInv /\ Calls /\ Pending
  /\ sure /\ ~b.writing => InFile(b, file, off, call.op, out, used)

-----------------------------------------------------------------------------
(* Bytes of a file *)

LEMMA EndsNone ==
  ASSUME NEW f, NEW p \in Nat PROVE Ends(<<>>, f, p)
  <1>1. Len(<<>>) = 0
    BY EmptySeq
  <1> QED BY <1>1 DEF Ends

\* What comes right before something.
LEMMA EndsJoined ==
  ASSUME NEW s \in Seq(Byte), NEW w \in Seq(Byte), NEW f \in Seq(Byte), NEW p \in Int,
         Ends(w, f, p), Ends(s, f, p - Len(w))
  PROVE  s \o w \in Seq(Byte) /\ Len(s \o w) = Len(s) + Len(w) /\ Ends(s \o w, f, p)
  <1>1. Len(s) \in Nat /\ Len(w) \in Nat /\ Len(f) \in Nat
    BY LenProperties
  <1>2. /\ s \o w \in Seq(Byte) /\ Len(s \o w) = Len(s) + Len(w)
        /\ \A i \in 1..(Len(s) + Len(w)) :
             (s \o w)[i] = IF i <= Len(s) THEN s[i] ELSE w[i - Len(s)]
    BY ConcatProperties
  <1>3. Len(s \o w) <= p
    BY <1>1, <1>2 DEF Ends
  <1>4. ASSUME NEW i \in 1..Len(s \o w)
        PROVE  /\ p - Len(s \o w) + i \in 1..Len(f)
               /\ (s \o w)[i] = f[p - Len(s \o w) + i]
    <2>1. CASE i <= Len(s)
      <3>1. i \in 1..Len(s) /\ (s \o w)[i] = s[i]
        BY <1>1, <1>2, <2>1
      <3>2. p - Len(w) - Len(s) + i \in 1..Len(f) /\ s[i] = f[p - Len(w) - Len(s) + i]
        BY <3>1 DEF Ends
      <3>3. p - Len(w) - Len(s) + i = p - Len(s \o w) + i
        BY <1>1, <1>2
      <3> QED BY <3>1, <3>2, <3>3
    <2>2. CASE ~(i <= Len(s))
      <3>1. i - Len(s) \in 1..Len(w) /\ (s \o w)[i] = w[i - Len(s)]
        BY <1>1, <1>2, <2>2
      <3>2. /\ p - Len(w) + (i - Len(s)) \in 1..Len(f)
            /\ w[i - Len(s)] = f[p - Len(w) + (i - Len(s))]
        BY <3>1 DEF Ends
      <3>3. p - Len(w) + (i - Len(s)) = p - Len(s \o w) + i
        BY <1>1, <1>2
      <3> QED BY <3>1, <3>2, <3>3
    <2> QED BY <2>1, <2>2
  <1> QED BY <1>2, <1>3, <1>4 DEF Ends

\* The first k bytes and the others.
LEMMA EndsCut ==
  ASSUME NEW s \in Seq(Byte), NEW f \in Seq(Byte), NEW p \in Int, Ends(s, f, p),
         NEW k \in 0..Len(s)
  PROVE  /\ SubSeq(s, 1, k) \in Seq(Byte) /\ Len(SubSeq(s, 1, k)) = k
         /\ SubSeq(s, k + 1, Len(s)) \in Seq(Byte)
         /\ Len(SubSeq(s, k + 1, Len(s))) = Len(s) - k
         /\ Ends(SubSeq(s, 1, k), f, p - (Len(s) - k))
         /\ Ends(SubSeq(s, k + 1, Len(s)), f, p)
  <1>1. Len(s) \in Nat /\ Len(f) \in Nat
    BY LenProperties
  <1>2. \A i \in 1..Len(s) : s[i] \in Byte
    BY ElementOfSeq
  <1>3. /\ SubSeq(s, 1, k) \in Seq(Byte) /\ Len(SubSeq(s, 1, k)) = k
        /\ \A i \in 1..k : SubSeq(s, 1, k)[i] = s[i]
    <2>1. \A i \in 1..k : s[i] \in Byte
      BY <1>1, <1>2
    <2>2. /\ SubSeq(s, 1, k) \in Seq(Byte)
          /\ Len(SubSeq(s, 1, k)) = IF 1 <= k THEN k - 1 + 1 ELSE 0
          /\ \A i \in 1..(k - 1 + 1) : SubSeq(s, 1, k)[i] = s[1 + i - 1]
      BY <1>1, <2>1, SubSeqProperties
    <2> QED BY <1>1, <2>2
  <1>4. /\ SubSeq(s, k + 1, Len(s)) \in Seq(Byte)
        /\ Len(SubSeq(s, k + 1, Len(s))) = Len(s) - k
        /\ \A i \in 1..(Len(s) - k) : SubSeq(s, k + 1, Len(s))[i] = s[k + i]
    <2>1. \A i \in (k + 1)..Len(s) : s[i] \in Byte
      BY <1>1, <1>2
    <2>2. /\ SubSeq(s, k + 1, Len(s)) \in Seq(Byte)
          /\ Len(SubSeq(s, k + 1, Len(s))) =
               IF k + 1 <= Len(s) THEN Len(s) - (k + 1) + 1 ELSE 0
          /\ \A i \in 1..(Len(s) - (k + 1) + 1) :
               SubSeq(s, k + 1, Len(s))[i] = s[(k + 1) + i - 1]
      BY <1>1, <2>1, SubSeqProperties
    <2> QED BY <1>1, <2>2
  <1>5. Ends(SubSeq(s, 1, k), f, p - (Len(s) - k))
    <2>1. k <= p - (Len(s) - k)
      BY <1>1 DEF Ends
    <2>2. ASSUME NEW i \in 1..k
          PROVE  /\ p - (Len(s) - k) - k + i \in 1..Len(f)
                 /\ SubSeq(s, 1, k)[i] = f[p - (Len(s) - k) - k + i]
      <3>1. i \in 1..Len(s)
        BY <1>1
      <3>2. p - Len(s) + i \in 1..Len(f) /\ s[i] = f[p - Len(s) + i]
        BY <3>1 DEF Ends
      <3>3. p - (Len(s) - k) - k + i = p - Len(s) + i
        BY <1>1
      <3> QED BY <1>3, <3>2, <3>3
    <2> QED BY <1>3, <2>1, <2>2 DEF Ends
  <1>6. Ends(SubSeq(s, k + 1, Len(s)), f, p)
    <2>1. Len(s) - k <= p
      BY <1>1 DEF Ends
    <2>2. ASSUME NEW i \in 1..(Len(s) - k)
          PROVE  /\ p - (Len(s) - k) + i \in 1..Len(f)
                 /\ SubSeq(s, k + 1, Len(s))[i] = f[p - (Len(s) - k) + i]
      <3>1. k + i \in 1..Len(s)
        BY <1>1
      <3>2. p - Len(s) + (k + i) \in 1..Len(f) /\ s[k + i] = f[p - Len(s) + (k + i)]
        BY <3>1 DEF Ends
      <3>3. p - (Len(s) - k) + i = p - Len(s) + (k + i)
        BY <1>1
      <3> QED BY <1>4, <3>2, <3>3
    <2> QED BY <1>4, <2>1, <2>2 DEF Ends
  <1> QED BY <1>3, <1>4, <1>5, <1>6

\* What ends at a place ends there in two parts.
LEMMA EndsSplit ==
  ASSUME NEW s \in Seq(Byte), NEW w \in Seq(Byte), NEW f \in Seq(Byte), NEW p \in Int,
         Ends(s \o w, f, p)
  PROVE  Ends(w, f, p) /\ Ends(s, f, p - Len(w))
  <1>1. Len(s) \in Nat /\ Len(w) \in Nat /\ Len(f) \in Nat
    BY LenProperties
  <1>2. /\ Len(s \o w) = Len(s) + Len(w)
        /\ \A i \in 1..(Len(s) + Len(w)) :
             (s \o w)[i] = IF i <= Len(s) THEN s[i] ELSE w[i - Len(s)]
    BY ConcatProperties
  <1>3. Len(w) <= p /\ Len(s) <= p - Len(w)
    BY <1>1, <1>2 DEF Ends
  <1>4. ASSUME NEW i \in 1..Len(w)
        PROVE  p - Len(w) + i \in 1..Len(f) /\ w[i] = f[p - Len(w) + i]
    <2>1. Len(s) + i \in 1..Len(s \o w) /\ (s \o w)[Len(s) + i] = w[i]
      BY <1>1, <1>2
    <2>2. /\ p - Len(s \o w) + (Len(s) + i) \in 1..Len(f)
          /\ (s \o w)[Len(s) + i] = f[p - Len(s \o w) + (Len(s) + i)]
      BY <2>1 DEF Ends
    <2>3. p - Len(s \o w) + (Len(s) + i) = p - Len(w) + i
      BY <1>1, <1>2
    <2> QED BY <2>1, <2>2, <2>3
  <1>5. ASSUME NEW i \in 1..Len(s)
        PROVE  p - Len(w) - Len(s) + i \in 1..Len(f) /\ s[i] = f[p - Len(w) - Len(s) + i]
    <2>1. i \in 1..Len(s \o w) /\ (s \o w)[i] = s[i]
      BY <1>1, <1>2
    <2>2. p - Len(s \o w) + i \in 1..Len(f) /\ (s \o w)[i] = f[p - Len(s \o w) + i]
      BY <2>1 DEF Ends
    <2>3. p - Len(s \o w) + i = p - Len(w) - Len(s) + i
      BY <1>1, <1>2
    <2> QED BY <2>1, <2>2, <2>3
  <1> QED BY <1>3, <1>4, <1>5 DEF Ends

\* A read of n bytes.
LEMMA EndsRead ==
  ASSUME NEW f \in Seq(Byte), NEW p \in Nat, NEW n \in Nat, p + n <= Len(f)
  PROVE  /\ SubSeq(f, p + 1, p + n) \in Seq(Byte) /\ Len(SubSeq(f, p + 1, p + n)) = n
         /\ Ends(SubSeq(f, p + 1, p + n), f, p + n)
  <1>1. Len(f) \in Nat
    BY LenProperties
  <1>2. \A i \in (p + 1)..(p + n) : f[i] \in Byte
    <2>1. \A i \in 1..Len(f) : f[i] \in Byte
      BY ElementOfSeq
    <2> QED BY <1>1, <2>1
  <1>3. /\ SubSeq(f, p + 1, p + n) \in Seq(Byte)
        /\ Len(SubSeq(f, p + 1, p + n)) = IF p + 1 <= p + n THEN p + n - (p + 1) + 1 ELSE 0
        /\ \A i \in 1..(p + n - (p + 1) + 1) :
             SubSeq(f, p + 1, p + n)[i] = f[(p + 1) + i - 1]
    BY <1>2, SubSeqProperties
  <1>4. /\ Len(SubSeq(f, p + 1, p + n)) = n
        /\ \A i \in 1..n : SubSeq(f, p + 1, p + n)[i] = f[p + i]
    BY <1>3
  <1>5. Ends(SubSeq(f, p + 1, p + n), f, p + n)
    <2>1. \A i \in 1..n : (p + n) - n + i \in 1..Len(f) /\ (p + n) - n + i = p + i
      BY <1>1
    <2> QED BY <1>4, <2>1 DEF Ends
  <1> QED BY <1>3, <1>4, <1>5

\* What is written over a file leaves a file.
LEMMA OverlayBytes ==
  ASSUME NEW d \in Seq(Byte), NEW p \in Nat, NEW s \in Seq(Byte)
  PROVE  Overlay(d, p, s) \in Seq(Byte)
  <1>1. Len(d) \in Nat /\ Len(s) \in Nat
    BY LenProperties
  <1>2. PICK n \in Nat : n = IF s # <<>> /\ p + Len(s) > Len(d) THEN p + Len(s) ELSE Len(d)
    BY <1>1
  <1>3. ASSUME NEW i \in 1..n
        PROVE  (IF p < i /\ i <= p + Len(s) THEN s[i - p]
                ELSE IF i <= Len(d) THEN d[i] ELSE Zero) \in Byte
    <2>1. CASE p < i /\ i <= p + Len(s)
      <3>1. i - p \in 1..Len(s)
        BY <1>1, <2>1
      <3> QED BY <2>1, <3>1, ElementOfSeq
    <2>2. CASE ~(p < i /\ i <= p + Len(s)) /\ i <= Len(d)
      <3>1. i \in 1..Len(d)
        BY <1>1, <2>2
      <3> QED BY <2>2, <3>1, ElementOfSeq
    <2>3. CASE ~(p < i /\ i <= p + Len(s)) /\ ~(i <= Len(d))
      BY <2>3 DEF Zero, Byte
    <2> QED BY <2>1, <2>2, <2>3
  <1>4. [i \in 1..n |-> IF p < i /\ i <= p + Len(s) THEN s[i - p]
                        ELSE IF i <= Len(d) THEN d[i] ELSE Zero] \in [1..n -> Byte]
    BY <1>3
  <1>5. Overlay(d, p, s) \in [1..n -> Byte]
    BY <1>2, <1>4 DEF Overlay
  <1> QED BY <1>5, SeqDef

-----------------------------------------------------------------------------
(* Records *)

\* A get goes on with what waits: bytes given back, then the read-ahead.
LEMMA BytesWaiting ==
  ASSUME NEW x \in BioRec, x.pos <= x.len, x.len = Len(x.buf)
  PROVE  /\ Unread(x) \in Seq(Byte) /\ Len(Unread(x)) = x.len - x.pos
         /\ Waits(x) \in Seq(Byte) /\ Len(Waits(x)) = Len(x.unget) + Len(Unread(x))
         /\ x.unget = <<>> => Waits(x) = Unread(x)
         /\ x.pos = x.len => Unread(x) = <<>>
         /\ Len(Waits(x)) \in Nat
         /\ \A i \in 1..(x.len - x.pos) : Unread(x)[i] = x.buf[x.pos + i]
  <1>1. x.buf \in Seq(Byte) /\ x.unget \in Seq(Byte) /\ x.pos \in Nat /\ x.len \in Nat
    BY DEF BioRec
  <1>2. \A i \in (x.pos + 1)..x.len : x.buf[i] \in Byte
    BY <1>1, ElementOfSeq
  <1>3. /\ Unread(x) \in Seq(Byte)
        /\ Len(Unread(x)) = IF x.pos + 1 <= x.len THEN x.len - (x.pos + 1) + 1 ELSE 0
    BY <1>1, <1>2, SubSeqProperties DEF Unread
  <1>4. Len(Unread(x)) = x.len - x.pos
    BY <1>1, <1>3
  <1>5. \A i \in 1..(x.len - x.pos) : Unread(x)[i] = x.buf[x.pos + i]
    <2>1. \A i \in 1..(x.len - (x.pos + 1) + 1) : Unread(x)[i] = x.buf[(x.pos + 1) + i - 1]
      BY <1>1, <1>2, SubSeqProperties DEF Unread
    <2> QED BY <1>1, <2>1
  <1>6. Waits(x) \in Seq(Byte) /\ Len(Waits(x)) = Len(x.unget) + Len(Unread(x))
    BY <1>1, <1>3, ConcatProperties DEF Waits
  <1>7. x.unget = <<>> => Waits(x) = Unread(x)
    BY <1>3, ConcatEmptySeq DEF Waits
  <1>8. x.pos = x.len => Unread(x) = <<>>
    BY <1>1, <1>3, <1>4, EmptySeq
  <1> QED BY <1>3, <1>4, <1>5, <1>6, <1>7, <1>8, LenProperties

\* What fits the array is found again as it was written.
LEMMA KeptFits ==
  ASSUME NEW w \in Seq(Byte), Len(w) <= BufSize PROVE Kept(w) = {w}
  <1>1. w \in [1..Len(w) -> Byte] /\ DOMAIN w = 1..Len(w) /\ Len(w) \in Nat /\ BufSize \in Nat
    BY LenProperties, BioAssumption DEF BioAssumption
  <1>2. w \in Kept(w)
    BY <1>1 DEF Kept
  <1>3. ASSUME NEW t \in Kept(w) PROVE t = w
    <2>1. t \in [1..Len(w) -> Byte] /\ \A i \in 1..Len(w) : t[i] = w[i]
      BY <1>1 DEF Kept
    <2> QED BY <1>1, <2>1
  <1> QED BY <1>2, <1>3

LEMMA MergedWaits ==
  ASSUME NEW x \in BioRec, x.pos <= x.len, x.len = Len(x.buf),
         x.unget # <<>> => Len(Waits(x)) <= BufSize, NEW y \in Merged(x)
  PROVE  /\ y \in BioRec /\ Waits(y) = Waits(x)
         /\ y.pos <= y.len /\ y.len = Len(y.buf)
         /\ y.writing = x.writing /\ y.last = x.last
         /\ x.unget # <<>> => y.len <= BufSize
         /\ x.unget = <<>> => y.len = x.len
  <1>1. CASE x.unget = <<>>
    BY <1>1 DEF Merged
  <1>2. CASE x.unget # <<>>
    <2>1. PICK w : w = Waits(x)
      OBVIOUS
    <2>2. w \in Seq(Byte) /\ Len(w) \in Nat /\ Len(w) <= BufSize
      BY <1>2, <2>1, BytesWaiting
    <2>3. Kept(w) = {w}
      BY <2>2, KeptFits
    <2>4. y = [x EXCEPT !.buf = w, !.pos = 0, !.len = Len(w), !.unget = <<>>]
      BY <1>2, <2>1, <2>3 DEF Merged, Waits
    <2>5. <<>> \in Seq(Byte)
      BY EmptySeq
    <2>6. /\ y \in BioRec /\ y.buf = w /\ y.pos = 0 /\ y.len = Len(w) /\ y.unget = <<>>
          /\ y.last = x.last
      BY <2>2, <2>4, <2>5 DEF BioRec
    <2>7. y.writing = x.writing
      BY <2>4 DEF BioRec
    <2>8. Unread(y) = w
      <3>1. SubSeq(w, 0 + 1, Len(w)) = w
        BY <2>2, SubSeqFull
      <3> QED BY <2>6, <3>1 DEF Unread
    <2>9. Waits(y) = w
      BY <2>2, <2>6, <2>8, ConcatEmptySeq DEF Waits
    <2> QED BY <1>2, <2>1, <2>2, <2>6, <2>7, <2>9
  <1> QED BY <1>1, <1>2

\* A record that holds nothing.
Hollow(x) ==
  x \in BioRec /\ x.buf = <<>> /\ x.pos = 0 /\ x.len = 0 /\ x.last = <<>> /\ x.unget = <<>>

LEMMA EmptiedHollow ==
  ASSUME NEW x \in BioRec
  PROVE  /\ Hollow(Emptied(x)) /\ Emptied(x).writing = x.writing
         /\ Hollow(Reading(Emptied(x))) /\ Reading(Emptied(x)).writing = FALSE
         /\ Hollow([Emptied(x) EXCEPT !.writing = TRUE])
         /\ [Emptied(x) EXCEPT !.writing = TRUE].writing = TRUE
  <1>1. <<>> \in Seq(Byte)
    BY EmptySeq
  <1>2. Hollow(Emptied(x)) /\ Emptied(x).writing = x.writing
    BY <1>1 DEF Emptied, Hollow, BioRec
  <1>3. Hollow(Reading(Emptied(x))) /\ Reading(Emptied(x)).writing = FALSE
    BY <1>2 DEF Reading, Hollow, BioRec
  <1>4. /\ Hollow([Emptied(x) EXCEPT !.writing = TRUE])
        /\ [Emptied(x) EXCEPT !.writing = TRUE].writing = TRUE
    BY <1>2 DEF Hollow, BioRec
  <1> QED BY <1>2, <1>3, <1>4

LEMMA HollowInFile ==
  ASSUME NEW x, Hollow(x), NEW f, NEW o \in Nat, NEW op, NEW u
  PROVE  x.pos = Len(x.buf) /\ InFile(x, f, o, op, <<>>, u)
  <1>1. <<>> \in Seq(Byte) /\ Len(<<>>) = 0
    BY EmptySeq
  <1>2. x \in BioRec /\ x.pos = x.len /\ x.len = Len(x.buf) /\ x.len = 0
    BY <1>1 DEF Hollow
  <1>3. Unread(x) = <<>> /\ Waits(x) = Unread(x) /\ x.pos <= x.len
    BY <1>1, <1>2, BytesWaiting DEF Hollow
  <1>4. Waits(x) = <<>> /\ Place(x, o) = o
    BY <1>1, <1>3 DEF Place
  <1>5. Ends(<<>>, f, o)
    BY EndsNone
  <1>6. x.last = <<>>
    BY DEF Hollow
  <1>7. x.pos = Len(x.buf)
    BY <1>2
  <1> QED BY <1>2, <1>3, <1>4, <1>5, <1>6, <1>7 DEF InFile

LEMMA ReadingSame ==
  ASSUME NEW x \in BioRec, ~x.writing PROVE Reading(x) = x
  <1>1. x = [bound |-> x.bound, mode |-> x.mode, buf |-> x.buf, pos |-> x.pos,
             len |-> x.len, last |-> x.last, unget |-> x.unget, writing |-> x.writing]
    BY DEF BioRec
  <1>2. x.writing = FALSE
    BY DEF BioRec
  <1> QED BY <1>1, <1>2 DEF Reading, BioRec

LEMMA NoCallShape ==
  /\ NoCall \in CallRec /\ NoCall.op = None
  /\ None \notin Reads /\ None # "write" /\ None # "line" /\ None # "read" /\ None # "rune"
  <1>1. <<>> \in Seq(Byte) /\ Zero \in Byte
    BY EmptySeq DEF Zero, Byte
  <1> QED BY <1>1 DEF NoCall, CallRec, None, Reads

\* After a step that leaves the buffer empty.
LEMMA NothingWaits ==
  ASSUME TypeInv', Calls', Hollow(b'), out' = <<>>
  PROVE  IInv'
  <1>1. off' \in Nat
    BY DEF TypeInv
  <1>2. b'.pos = Len(b'.buf) /\ InFile(b', file', off', call'.op, <<>>, used')
    BY <1>1, HollowInFile
  <1>3. Pending'
    <2>1. b'.pos = 0 /\ b'.last = <<>> /\ b'.unget = <<>>
      BY DEF Hollow
    <2> QED BY <1>2, <2>1, BioAssumption DEF Pending, BioAssumption
  <1>4. InFile(b', file', off', call'.op, out', used')
    BY <1>2
  <1> QED BY <1>3, <1>4 DEF IInv

-----------------------------------------------------------------------------
(* Flushing *)

LEMMA OutputBytes ==
  ASSUME IInv, b.writing, NEW n \in 0..b.pos
  PROVE  Output(n) \in Seq(Byte) /\ After(n) \in Nat
  <1>1. /\ b.buf \in Seq(Byte) /\ b.pos \in Nat /\ b.pos = Len(b.buf)
        /\ file \in Seq(Byte) /\ off \in Nat
    BY DEF IInv, TypeInv, BioRec, Pending
  <1>2. Target \in Nat
    BY <1>1, LenProperties DEF Target
  <1>3. SubSeq(b.buf, 1, n) \in Seq(Byte)
    <2>1. \A i \in 1..n : b.buf[i] \in Byte
      BY <1>1, ElementOfSeq
    <2> QED BY <1>1, <2>1, SubSeqProperties
  <1>4. Output(n) \in Seq(Byte)
    BY <1>1, <1>2, <1>3, OverlayBytes DEF Output
  <1> QED BY <1>1, <1>2, <1>4 DEF After

LEMMA FlushedFile ==
  ASSUME IInv
  PROVE  /\ NewFile \in Seq(Byte) /\ NewOff \in Nat
         /\ ~b.writing => NewFile = file /\ NewOff = off /\ Flushed(b) = b
         /\ b.writing => Flushed(b) = Emptied(b)
  <1>1. CASE b.writing
    <2>1. b.pos \in 0..b.pos
      BY DEF IInv, TypeInv, BioRec
    <2> QED BY <1>1, <2>1, OutputBytes DEF NewFile, NewOff, Flushed
  <1>2. CASE ~b.writing
    BY <1>2 DEF NewFile, NewOff, Flushed, IInv, TypeInv
  <1> QED BY <1>1, <1>2

LEMMA FlushStopped ==
  ASSUME IInv, NEW n \in 0..(b.pos - 1), NEW val, NEW keeps \in BOOLEAN,
         FlushStops(n, val, keeps)
  PROVE  /\ b.writing /\ file' \in Seq(Byte) /\ After(n) \in Nat
         /\ sure' \in BOOLEAN /\ call' = NoCall /\ (~keeps => ~sure')
  <1>1. n \in 0..b.pos
    BY DEF IInv, TypeInv, BioRec
  <1> QED BY <1>1, OutputBytes DEF FlushStops

LEMMA FlushFailed ==
  ASSUME IInv, NEW val, NEW keeps \in BOOLEAN, FlushFails(val, keeps)
  PROVE  /\ b.writing /\ file' \in Seq(Byte) /\ off' \in Nat
         /\ sure' \in BOOLEAN /\ call' = NoCall /\ (~keeps => ~sure')
  <1>1. PICK n \in 0..(b.pos - 1) : FlushStops(n, val, keeps) /\ off' = After(n)
    BY DEF FlushFails
  <1> QED BY <1>1, FlushStopped

\* A failed flush that keeps the output.
LEMMA OutputKept ==
  ASSUME IInv, NEW val, FlushFails(val, TRUE), b' = b, out' \in Seq(Byte), used' = used
  PROVE  IInv'
  <1>1. /\ b.writing /\ file' \in Seq(Byte) /\ off' \in Nat
        /\ sure' \in BOOLEAN /\ call' = NoCall
    BY FlushFailed
  <1>2. TypeInv'
    BY <1>1, NoCallShape DEF IInv, TypeInv
  <1>3. Calls'
    BY <1>1, NoCallShape DEF Calls
  <1>4. Pending'
    BY DEF IInv, Pending
  <1> QED BY <1>1, <1>2, <1>3, <1>4 DEF IInv

-----------------------------------------------------------------------------
(* Steps of a get *)

\* Between calls it does not matter what the last call handed out.
LEMMA IdleInFile ==
  ASSUME NEW x, NEW f, NEW o, NEW s, NEW u, InFile(x, f, o, None, s, u), NEW r
  PROVE  InFile(x, f, o, None, r, u)
  BY NoCallShape DEF InFile

LEMMA Untouched ==
  ASSUME IInv, Idle, file' = file, off' = off, b' = b, call' = call, used' = used,
         sure' = sure, out' \in Seq(Byte)
  PROVE  IInv'
  <1>1. call.op = None
    BY NoCallShape DEF Idle
  <1>2. TypeInv'
    BY DEF IInv, TypeInv
  <1>3. Calls' /\ Pending'
    BY DEF IInv, Calls, Pending
  <1>4. ASSUME sure', ~b'.writing PROVE InFile(b', file', off', call'.op, out', used')
    <2>1. InFile(b, file, off, None, out, used)
      BY <1>1, <1>4 DEF IInv
    <2>2. InFile(b, file, off, None, out', used)
      BY <2>1, IdleInFile
    <2> QED BY <1>1, <2>2
  <1> QED BY <1>2, <1>3, <1>4 DEF IInv

\* bread and brdline forget the last get, brdline puts what waits together.
LEMMA GetStarts ==
  ASSUME NEW x \in BioRec, NEW f \in Seq(Byte), NEW o \in Nat, NEW s, NEW u,
         InFile(x, f, o, None, s, u), NEW op \in Reads, NEW now \in {None, op},
         op = "line" => Len(Waits(x)) <= BufSize, NEW z \in Prepared(op, x)
  PROVE  /\ z \in BioRec /\ z.writing = x.writing
         /\ op \in {"read", "line"} => z.last = <<>>
         /\ InFile(z, f, o, now, <<>>, u)
  <1>1. x.pos <= x.len /\ x.len = Len(x.buf) /\ Ends(Waits(x), f, o)
    BY DEF InFile
  <1>2. Len(Waits(x)) \in Nat /\ Len(Waits(x)) <= o
    BY <1>1, BytesWaiting DEF Ends
  <1>3. Place(x, o) \in Nat
    BY <1>2 DEF Place
  <1>4. Ends(<<>>, f, Place(x, o))
    BY <1>3, EndsNone
  <1>5. PICK y : y = [x EXCEPT !.last = <<>>]
    OBVIOUS
  <1>6. /\ y \in BioRec /\ y.pos = x.pos /\ y.len = x.len /\ y.buf = x.buf
        /\ y.unget = x.unget /\ y.last = <<>>
    <2>1. <<>> \in Seq(Byte)
      BY EmptySeq
    <2> QED BY <1>5, <2>1 DEF BioRec
  <1>7. y.writing = x.writing
    BY <1>5 DEF BioRec
  <1>8. Waits(y) = Waits(x)
    BY <1>6 DEF Waits, Unread
  <1>9. CASE op = "read"
    <2>1. z = y
      BY <1>5, <1>9 DEF Prepared
    <2>2. InFile(y, f, o, now, <<>>, u)
      BY <1>1, <1>4, <1>6, <1>8 DEF InFile, Place
    <2> QED BY <1>6, <1>7, <2>1, <2>2
  <1>10. CASE op = "line"
    <2>1. z \in Merged(y)
      BY <1>5, <1>10 DEF Prepared
    <2>2. /\ z \in BioRec /\ Waits(z) = Waits(x) /\ z.pos <= z.len /\ z.len = Len(z.buf)
          /\ z.writing = x.writing /\ z.last = <<>>
      BY <1>1, <1>6, <1>7, <1>8, <1>10, <2>1, MergedWaits
    <2>3. InFile(z, f, o, now, <<>>, u)
      BY <1>1, <1>4, <2>2 DEF InFile, Place
    <2> QED BY <2>2, <2>3
  <1>11. CASE op # "read" /\ op # "line"
    <2>1. z = x
      BY <1>11 DEF Prepared
    <2>2. u = Len(x.last) => Ends(x.last, f, Place(x, o))
      BY NoCallShape DEF InFile
    <2>3. InFile(x, f, o, now, <<>>, u)
      BY <1>1, <1>4, <2>2 DEF InFile
    <2> QED BY <1>11, <2>1, <2>3
  <1> QED BY <1>9, <1>10, <1>11

\* A careful client that has a line read has left room for what waits.
LEMMA RoomForAll ==
  ASSUME IInv, Careful, sure, ~b.writing, NEW op, NEW n, NEW delim,
         BeginRead(op, n, delim), op = "line"
  PROVE  Len(Waits(b)) <= BufSize
  <1>1. b \in BioRec /\ b.pos <= b.len /\ b.len = Len(b.buf)
    BY DEF IInv, TypeInv, InFile
  <1>2. Len(Waits(b)) = Len(b.unget) + Len(Unread(b)) /\ Len(Waits(b)) \in Nat
    BY <1>1, BytesWaiting
  <1>3. ~(Len(b.unget) + Len(Unread(b)) > BufSize)
    BY DEF BeginRead, Avoided, Overfull
  <1> QED BY <1>2, <1>3, BioAssumption DEF BioAssumption

LEMMA BeginReadKeeps ==
  ASSUME IInv, Careful, NEW op \in Reads, NEW n \in Nat, NEW delim \in Byte,
         BeginRead(op, n, delim)
  PROVE  IInv'
  <1>1. sure /\ Idle /\ call.op = None /\ used' = used
    BY NoCallShape DEF BeginRead, Avoided, Idle
  <1>2. CASE FlushFails(0, TRUE) /\ UNCHANGED <<b, out>>
    <2>1. out' \in Seq(Byte)
      BY <1>2 DEF IInv, TypeInv
    <2> QED BY <1>1, <1>2, <2>1, OutputKept
  <1>3. CASE /\ FlushOk /\ file' = NewFile /\ off' = NewOff
             /\ b' \in Prepared(op, Reading(Flushed(b)))
             /\ call' = IF n = 0 THEN NoCall
                        ELSE [op |-> op, left |-> n, todo |-> <<>>, delim |-> delim]
             /\ out' = <<>> /\ ret' = Result(0)
             /\ UNCHANGED sure
    <2>1. <<>> \in Seq(Byte)
      BY EmptySeq
    <2>2. call' \in CallRec /\ call'.op \in {None, op}
      BY <1>3, <2>1, NoCallShape DEF CallRec
    <2>3. file' \in Seq(Byte) /\ off' \in Nat /\ used' \in Nat /\ sure'
      BY <1>1, <1>3, FlushedFile DEF IInv, TypeInv
    <2>4. b \in BioRec
      BY DEF IInv, TypeInv
    <2>5. CASE b.writing
      <3>1. PICK x : x = Reading(Emptied(b))
        OBVIOUS
      <3>2. Hollow(x) /\ x.writing = FALSE
        BY <2>4, <3>1, EmptiedHollow
      <3>3. x = Reading(Flushed(b))
        BY <2>5, <3>1, FlushedFile
      <3>4. b' \in Prepared(op, x)
        BY <1>3, <3>3
      <3>5. PICK y : y = [x EXCEPT !.last = <<>>]
        OBVIOUS
      <3>6. Hollow(y) /\ y.writing = FALSE
        BY <2>1, <3>2, <3>5 DEF Hollow, BioRec
      <3>7. Merged(y) = {y}
        BY <3>6 DEF Hollow, Merged
      <3>8. b' \in {x, y}
        BY <3>4, <3>5, <3>7 DEF Prepared
      <3>9. Hollow(b') /\ ~b'.writing
        BY <3>2, <3>6, <3>8
      <3>10. TypeInv'
        BY <1>3, <2>1, <2>2, <2>3, <3>9 DEF TypeInv, Hollow
      <3>11. Calls'
        <4>1. b'.last = <<>>
          BY <3>9 DEF Hollow
        <4> QED BY <2>2, <2>3, <3>9, <4>1, NoCallShape DEF Calls, Reads
      <3> QED BY <1>3, <3>9, <3>10, <3>11, NothingWaits
    <2>6. CASE ~b.writing
      <3>1. b' \in Prepared(op, b) /\ file' = file /\ off' = off
        BY <1>3, <2>4, <2>6, FlushedFile, ReadingSame
      <3>0. op = "line" => Len(Waits(b)) <= BufSize
        BY <1>1, <2>6, RoomForAll
      <3>2. InFile(b, file, off, None, out, used) /\ file \in Seq(Byte) /\ off \in Nat
        BY <1>1, <2>6 DEF IInv, TypeInv
      <3>3. PICK now \in {None, op} : now = call'.op
        BY <2>2
      <3>4. /\ b' \in BioRec /\ b'.writing = b.writing
            /\ op \in {"read", "line"} => b'.last = <<>>
            /\ InFile(b', file, off, now, <<>>, used)
        BY <2>4, <3>0, <3>1, <3>2, GetStarts
      <3>5. InFile(b', file', off', call'.op, out', used')
        BY <1>1, <1>3, <3>1, <3>3, <3>4
      <3>6. TypeInv'
        BY <1>3, <2>1, <2>2, <2>3, <3>4 DEF TypeInv
      <3>7. Calls'
        BY <2>2, <2>3, <2>6, <3>4, NoCallShape DEF Calls, Reads
      <3>8. Pending'
        BY <2>6, <3>4 DEF Pending
      <3> QED BY <3>5, <3>6, <3>7, <3>8 DEF IInv
    <2> QED BY <2>5, <2>6
  <1> QED BY <1>2, <1>3 DEF BeginRead

\* dread after everything that waited was handed out.
LEMMA FillKeeps == ASSUME IInv, Fill PROVE IInv'
  <1>1. call.op \in Reads /\ b.unget = <<>> /\ Drained
    BY DEF Fill, MustFill
  <1>2. sure /\ ~b.writing
    BY <1>1, NoCallShape DEF IInv, Calls
  <1>3. /\ file \in Seq(Byte) /\ off \in Nat /\ b \in BioRec
        /\ b.pos \in Nat /\ b.len \in Nat /\ BufSize \in Nat
    BY BioAssumption DEF IInv, TypeInv, BioRec, BioAssumption
  <1>4. InFile(b, file, off, call.op, out, used)
    BY <1>2 DEF IInv
  <1>5. b.pos = b.len /\ b.len = Len(b.buf)
    BY <1>1, <1>3, <1>4 DEF InFile, Drained
  <1>6. Waits(b) = <<>> /\ Place(b, off) = off
    <2>1. Waits(b) = Unread(b) /\ Unread(b) = <<>> /\ Len(<<>>) = 0
      BY <1>1, <1>3, <1>5, BytesWaiting, EmptySeq
    <2> QED BY <1>3, <2>1 DEF Place
  <1>7. PICK n \in 1..BufSize :
          /\ off + n <= Len(file)
          /\ b' = [b EXCEPT !.buf = SubSeq(file, off + 1, off + n), !.pos = 0, !.len = n]
          /\ off' = off + n
    BY DEF Fill
  <1>8. PICK w : w = SubSeq(file, off + 1, off + n)
    OBVIOUS
  <1>9. n \in Nat /\ w \in Seq(Byte) /\ Len(w) = n /\ Ends(w, file, off + n)
    <2>1. n \in Nat
      BY <1>3
    <2> QED BY <1>3, <1>7, <1>8, <2>1, EndsRead
  <1>10. PICK y : y = [b EXCEPT !.buf = w, !.pos = 0, !.len = n]
    OBVIOUS
  <1>11. /\ y \in BioRec /\ y.buf = w /\ y.pos = 0 /\ y.len = n
         /\ y.unget = <<>> /\ y.last = b.last
    BY <1>1, <1>3, <1>9, <1>10 DEF BioRec
  <1>12. y.writing = b.writing
    BY <1>3, <1>10 DEF BioRec
  <1>13. Waits(y) = w
    <2>1. SubSeq(w, 0 + 1, Len(w)) = w
      BY <1>9, SubSeqFull
    <2>2. Unread(y) = w
      BY <1>9, <1>11, <2>1 DEF Unread
    <2> QED BY <1>9, <1>11, <2>2, ConcatEmptySeq DEF Waits
  <1>14. Place(y, off + n) = off
    BY <1>3, <1>9, <1>13 DEF Place
  <1>15. InFile(y, file, off + n, call.op, out, used)
    <2>1. y.pos <= y.len /\ y.len = Len(y.buf)
      BY <1>9, <1>11
    <2>2. Ends(Waits(y), file, off + n)
      BY <1>9, <1>13
    <2>3. Ends(out, file, Place(y, off + n))
      BY <1>1, <1>4, <1>6, <1>14 DEF InFile
    <2>4. ~(call.op = "rune" /\ out # <<>>) /\ used = Len(y.last) =>
            Ends(y.last, file, Place(y, off + n))
      BY <1>4, <1>6, <1>11, <1>14 DEF InFile
    <2> QED BY <2>1, <2>2, <2>3, <2>4 DEF InFile
  <1>16. b' = y /\ off' = off + n /\ UNCHANGED <<file, call, out, sure, used>>
    BY <1>7, <1>8, <1>10 DEF Fill
  <1>17. TypeInv'
    BY <1>3, <1>9, <1>11, <1>16 DEF IInv, TypeInv
  <1>18. Calls' /\ Pending'
    BY <1>2, <1>11, <1>12, <1>16 DEF IInv, Calls, Pending
  <1> QED BY <1>15, <1>16, <1>17, <1>18 DEF IInv

\* The last k bytes of the call are put in front of what waits.
LEMMA GivenBackKeeps ==
  ASSUME NEW x \in BioRec, NEW f \in Seq(Byte), NEW o \in Nat, NEW op \in Reads, NEW u,
         out \in Seq(Byte), InFile(x, f, o, op, out, u), NEW k \in 0..Len(out),
         k = 0 => ~(op = "rune" /\ out # <<>>), NEW now, now \notin Reads
  PROVE  /\ GivenBack(x, k) \in BioRec /\ GivenBack(x, k).writing = x.writing
         /\ InFile(GivenBack(x, k), f, o, now, out, u)
  <1>1. now # "rune"
    BY DEF Reads
  <1>2. x.pos <= x.len /\ x.len = Len(x.buf) /\ Ends(Waits(x), f, o)
    BY DEF InFile
  <1>3. CASE k = 0
    <2>1. GivenBack(x, k) = x
      BY <1>3 DEF GivenBack
    <2>2. u = Len(x.last) => Ends(x.last, f, Place(x, o))
      BY <1>3 DEF InFile
    <2> QED BY <1>2, <2>1, <2>2 DEF InFile
  <1>4. CASE k # 0
    <2>1. Len(out) \in Nat /\ <<>> \in Seq(Byte)
      BY LenProperties, EmptySeq
    <2>2. PICK s : s = SubSeq(out, Len(out) - k + 1, Len(out))
      OBVIOUS
    <2>3. PICK y : y = [x EXCEPT !.unget = s \o @, !.last = <<>>]
      OBVIOUS
    <2>4. y = GivenBack(x, k)
      BY <1>4, <2>2, <2>3 DEF GivenBack
    <2>5. PICK j \in 0..Len(out) : j = Len(out) - k
      <3>1. PICK m \in Nat : m = Len(out)
        BY <2>1
      <3>2. k \in 0..m
        BY <3>1
      <3>3. m - k \in 0..m
        BY ONLY <3>2, m \in Nat
      <3> QED BY <3>1, <3>3
    <2>6. PICK p \in Int : p = Place(x, o)
      <3>1. PICK m \in Nat : m = Len(Waits(x))
        BY <1>2, BytesWaiting
      <3>2. o - m \in Int
        BY ONLY o \in Nat, m \in Nat
      <3> QED BY <3>1, <3>2 DEF Place
    <2>7. Ends(out, f, p)
      BY <2>6 DEF InFile
    <2>8. /\ SubSeq(out, j + 1, Len(out)) \in Seq(Byte)
          /\ Ends(SubSeq(out, j + 1, Len(out)), f, p)
      BY <2>5, <2>7, EndsCut
    <2>9. s \in Seq(Byte) /\ Ends(s, f, p)
      BY <2>2, <2>5, <2>8
    <2>10. /\ Unread(x) \in Seq(Byte) /\ Waits(x) \in Seq(Byte) /\ x.unget \in Seq(Byte)
           /\ Len(Waits(x)) \in Nat
      BY <1>2, BytesWaiting DEF BioRec
    <2>11. /\ s \o Waits(x) \in Seq(Byte) /\ Ends(s \o Waits(x), f, o)
           /\ Len(s \o Waits(x)) \in Nat
      <3>1. Ends(s, f, o - Len(Waits(x)))
        BY <2>6, <2>9 DEF Place
      <3>2. s \o Waits(x) \in Seq(Byte) /\ Ends(s \o Waits(x), f, o)
        BY <1>2, <2>9, <2>10, <3>1, EndsJoined
      <3> QED BY <3>2, LenProperties
    <2>12. s \o x.unget \in Seq(Byte)
      BY <2>9, <2>10, ConcatProperties
    <2>13. /\ y \in BioRec /\ y.unget = s \o x.unget /\ y.last = <<>>
           /\ y.buf = x.buf /\ y.pos = x.pos /\ y.len = x.len
      BY <2>1, <2>3, <2>12 DEF BioRec
    <2>14. y.writing = x.writing
      BY <2>3 DEF BioRec
    <2>15. Waits(y) = s \o Waits(x)
      <3>1. Unread(y) = Unread(x)
        BY <2>13 DEF Unread
      <3>2. PICK g, h : g = x.unget /\ h = Unread(x)
        OBVIOUS
      <3>3. g \in Seq(Byte) /\ h \in Seq(Byte) /\ s \in Seq(Byte)
        BY <2>9, <2>10, <3>2
      <3>4. (s \o g) \o h = s \o (g \o h)
        BY ONLY <3>3, ConcatAssociative
      <3> QED BY <2>13, <3>1, <3>2, <3>4 DEF Waits
    <2>16. Place(y, o) \in Nat
      BY <2>11, <2>15 DEF Place, Ends
    <2>17. Ends(y.last, f, Place(y, o))
      BY <2>13, <2>16, EndsNone
    <2>18. InFile(y, f, o, now, out, u)
      BY <1>2, <2>11, <2>13, <2>15, <2>17 DEF InFile
    <2> QED BY <2>4, <2>13, <2>14, <2>18
  <1> QED BY <1>3, <1>4

\* A drained record whose buffer is thrown away, and one that forgets its last get.
Drain(x)  == [x EXCEPT !.buf = <<>>, !.pos = 0, !.len = 0]
Forget(x) == [x EXCEPT !.last = <<>>]

LEMMA DrainedKeeps ==
  ASSUME NEW x \in BioRec, x.unget = <<>>, x.pos = x.len, NEW f, NEW o \in Nat, NEW op,
         NEW s, NEW u, InFile(x, f, o, op, s, u),
         NEW y, y = Drain(x)
  PROVE  y \in BioRec /\ y.writing = x.writing /\ InFile(y, f, o, op, s, u)
  <1>1. <<>> \in Seq(Byte) /\ Len(<<>>) = 0
    BY EmptySeq
  <1>2. /\ y \in BioRec /\ y.buf = <<>> /\ y.pos = 0 /\ y.len = 0
        /\ y.last = x.last /\ y.unget = <<>>
    BY <1>1 DEF BioRec, Drain
  <1>3. y.writing = x.writing
    BY DEF BioRec, Drain
  <1>4. Waits(x) = <<>>
    <2>1. x.pos <= x.len /\ x.len = Len(x.buf)
      BY DEF InFile
    <2> QED BY <2>1, BytesWaiting
  <1>5. Waits(y) = <<>>
    <2>1. y.pos = y.len /\ y.pos <= y.len /\ y.len = Len(y.buf)
      BY <1>1, <1>2
    <2>2. Waits(y) = Unread(y) /\ Unread(y) = <<>>
      BY <1>2, <2>1, BytesWaiting
    <2> QED BY <2>2
  <1>6. Place(y, o) = Place(x, o)
    BY <1>4, <1>5 DEF Place
  <1>7. y.pos <= y.len /\ y.len = Len(y.buf)
    BY <1>1, <1>2
  <1> QED BY <1>2, <1>3, <1>4, <1>5, <1>6, <1>7 DEF InFile

LEMMA ForgetsLast ==
  ASSUME NEW x \in BioRec, NEW f, NEW o \in Nat, NEW op, NEW s, NEW u, NEW r, NEW v,
         InFile(x, f, o, op, s, u), NEW now, now \notin Reads,
         NEW y, y = Forget(x)
  PROVE  /\ y \in BioRec /\ y.writing = x.writing /\ y.last = <<>>
         /\ InFile(y, f, o, now, r, v)
  <1>1. <<>> \in Seq(Byte)
    BY EmptySeq
  <1>2. /\ y \in BioRec /\ y.buf = x.buf /\ y.pos = x.pos /\ y.len = x.len
        /\ y.last = <<>> /\ y.unget = x.unget
    BY <1>1 DEF BioRec, Forget
  <1>3. y.writing = x.writing
    BY DEF BioRec, Forget
  <1>4. Waits(y) = Waits(x)
    BY <1>2 DEF Waits, Unread
  <1>5. x.pos <= x.len /\ x.len = Len(x.buf) /\ Ends(Waits(x), f, o)
    BY DEF InFile
  <1>6. Place(y, o) \in Nat
    <2>1. Len(Waits(x)) \in Nat /\ Len(Waits(x)) <= o
      BY <1>5, BytesWaiting DEF Ends
    <2> QED BY <1>4, <2>1 DEF Place
  <1>7. Ends(y.last, f, Place(y, o))
    BY <1>2, <1>6, EndsNone
  <1> QED BY <1>2, <1>3, <1>4, <1>5, <1>7 DEF InFile

\* The end of the file or an error of dread, in the middle of a call or before.
LEMMA FillStopsKeeps == ASSUME IInv, FillStops PROVE IInv'
  <1>1. /\ call.op \in Reads /\ b.unget = <<>> /\ Drained
        /\ UNCHANGED <<file, off, out, sure, used>>
    BY DEF FillStops, MustFill
  <1>2. sure /\ ~b.writing
    BY <1>1, NoCallShape DEF IInv, Calls
  <1>3. /\ file \in Seq(Byte) /\ off \in Nat /\ b \in BioRec /\ out \in Seq(Byte)
        /\ b.pos \in Nat /\ b.len \in Nat /\ call \in CallRec
    BY DEF IInv, TypeInv, BioRec
  <1>4. InFile(b, file, off, call.op, out, used)
    BY <1>2 DEF IInv
  <1>5. b.pos = b.len /\ b.len = Len(b.buf)
    BY <1>1, <1>3, <1>4 DEF InFile, Drained
  <1>6. PICK failed \in 0..1, k \in 0..2, complains \in 0..1 :
          LET broken == call.op = "rune" /\ out # <<>>
              empty  == [b EXCEPT !.buf = <<>>, !.pos = 0, !.len = 0]
              stays  == IF failed = 1 \/ call.op = "read" THEN b ELSE empty
              errs   == failed + complains
          IN  /\ failed = 0 => off >= Len(file)
              /\ call.op # "num" => k = 0 /\ complains = IF broken THEN 1 ELSE 0
              /\ call.op = "num" => k <= Len(out) /\ errs <= 1 /\ (errs = 0 => out # <<>>)
              /\ b' = IF broken THEN [stays EXCEPT !.last = <<>>] ELSE GivenBack(stays, k)
              /\ ret' = [ret EXCEPT !.errs = errs]
              /\ call' = IF errs = 2 THEN [call EXCEPT !.op = "exit"] ELSE NoCall
    BY DEF FillStops
  <1>7. PICK stays : stays = IF failed = 1 \/ call.op = "read" THEN b
                             ELSE Drain(b)
    OBVIOUS
  <1>8. /\ stays \in BioRec /\ stays.writing = b.writing
        /\ InFile(stays, file, off, call.op, out, used)
    <2>1. CASE failed = 1 \/ call.op = "read"
      BY <1>3, <1>4, <1>7, <2>1
    <2>2. CASE ~(failed = 1 \/ call.op = "read")
      <3>1. stays = Drain(b)
        BY <1>7, <2>2
      <3> QED BY <1>1, <1>3, <1>4, <1>5, <3>1, DrainedKeeps
    <2> QED BY <2>1, <2>2
  <1>9. call' \in CallRec /\ call'.op \in {None, "exit"}
    <2>1. call' = [call EXCEPT !.op = "exit"] \/ call' = NoCall
      BY <1>6
    <2> QED BY <1>3, <2>1, NoCallShape DEF CallRec
  <1>10. call'.op \notin Reads /\ call'.op # "write" /\ call'.op # "read" /\ call'.op # "line"
    BY <1>9, NoCallShape DEF Reads
  <1>11. PICK now : now = call'.op
    OBVIOUS
  <1>12. b' \in BioRec /\ b'.writing = b.writing /\ InFile(b', file, off, now, out, used)
    <2>1. CASE call.op = "rune" /\ out # <<>>
      <3>1. b' = Forget(stays)
        BY <1>6, <1>7, <2>1 DEF Drain, Forget
      <3>2. now \notin Reads
        BY <1>10, <1>11
      <3>3. InFile(b', file, off, now, out, used) /\ b' \in BioRec /\ b'.writing = stays.writing
        BY <1>3, <1>8, <3>1, <3>2, ForgetsLast
      <3> QED BY <1>8, <3>3
    <2>2. CASE ~(call.op = "rune" /\ out # <<>>)
      <3>1. b' = GivenBack(stays, k)
        BY <1>6, <1>7, <2>2 DEF Drain
      <3>2. k \in 0..Len(out)
        <4>1. Len(out) \in Nat
          BY <1>3, LenProperties
        <4>2. k <= Len(out)
          BY <1>6, <4>1
        <4> QED BY <4>1, <4>2
      <3>3. PICK op \in Reads : op = call.op
        BY <1>1
      <3>4. InFile(stays, file, off, op, out, used)
        BY <1>8, <3>3
      <3>5. k = 0 => ~(op = "rune" /\ out # <<>>)
        BY <2>2, <3>3
      <3>6. now \notin Reads
        BY <1>10, <1>11
      <3> QED BY <1>3, <1>8, <3>1, <3>2, <3>4, <3>5, <3>6, GivenBackKeeps
    <2> QED BY <2>1, <2>2
  <1>13. TypeInv'
    BY <1>1, <1>9, <1>12 DEF IInv, TypeInv
  <1>14. Calls' /\ Pending'
    BY <1>1, <1>2, <1>10, <1>12 DEF Calls, Pending
  <1>15. InFile(b', file', off', call'.op, out', used')
    BY <1>1, <1>11, <1>12
  <1> QED BY <1>13, <1>14, <1>15 DEF IInv

\* bgetd gives back what is not part of the number.
LEMMA NumEndsKeeps == ASSUME IInv, NumEnds PROVE IInv'
  <1>1. /\ call.op = "num" /\ call.op \in Reads /\ call' = NoCall
        /\ UNCHANGED <<file, off, out, sure, used>>
    BY DEF NumEnds, Reads
  <1>2. sure /\ ~b.writing
    BY <1>1, NoCallShape DEF IInv, Calls
  <1>3. file \in Seq(Byte) /\ off \in Nat /\ b \in BioRec /\ out \in Seq(Byte)
    BY DEF IInv, TypeInv
  <1>4. InFile(b, file, off, "num", out, used) /\ "num" \in Reads
    BY <1>1, <1>2 DEF IInv
  <1>5. PICK k \in 1..3 : k <= Len(out) /\ b' = GivenBack(b, k)
    BY DEF NumEnds
  <1>6. k \in 0..Len(out) /\ k # 0
    BY <1>3, <1>5, LenProperties
  <1>7. /\ b' \in BioRec /\ b'.writing = b.writing
        /\ InFile(b', file, off, None, out, used)
    BY <1>3, <1>4, <1>5, <1>6, NoCallShape, GivenBackKeeps
  <1>8. TypeInv'
    BY <1>1, <1>7, NoCallShape DEF IInv, TypeInv
  <1>9. Calls' /\ Pending'
    BY <1>1, <1>2, <1>7, NoCallShape DEF Calls, Pending
  <1>10. InFile(b', file', off', call'.op, out', used')
    BY <1>1, <1>7, NoCallShape
  <1> QED BY <1>8, <1>9, <1>10 DEF IInv

\* What find_delim_byte takes is a part of what there is.
LEMMA UpToBounds ==
  ASSUME NEW delim, NEW s \in Seq(Byte) PROVE UpTo(delim, s) \in 0..Len(s)
  <1>1. Len(s) \in Nat
    BY LenProperties
  <1>2. PICK ends : ends = {i \in 1..Len(s) : s[i] = delim}
    OBVIOUS
  <1>3. CASE ends = {}
    BY <1>1, <1>2, <1>3 DEF UpTo
  <1>4. CASE ends # {}
    <2>1. ends \subseteq Nat
      BY <1>1, <1>2
    <2>2. \E i \in ends : \A j \in ends : <<j, i>> \notin OpToRel(<, Nat)
      BY <1>4, <2>1, NatLessThanWellFounded, WFMin
    <2>3. \E i \in ends : \A j \in ends : i <= j
      <3>1. \A i, j \in ends : <<j, i>> \notin OpToRel(<, Nat) => i <= j
        BY <2>1 DEF OpToRel
      <3> QED BY <2>2, <3>1
    <2>4. (CHOOSE i \in ends : \A j \in ends : i <= j) \in ends
      BY <2>3
    <2>5. UpTo(delim, s) \in ends
      BY <1>2, <1>4, <2>4 DEF UpTo
    <2> QED BY <1>1, <1>2, <2>5
  <1> QED BY <1>3, <1>4

\* The first n bytes that are ready are the next n of the file.
LEMMA Taken ==
  ASSUME IInv, sure, ~b.writing, call.op \in Reads, NEW n \in Nat, n <= Len(Ready)
  PROVE  /\ Ready \in Seq(Byte)
         /\ Popped(n) \in BioRec /\ Popped(n).writing = b.writing
         /\ Popped(n).last = b.last
         /\ Popped(n).pos <= Popped(n).len /\ Popped(n).len = Len(Popped(n).buf)
         /\ Ends(Waits(Popped(n)), file, off)
         /\ Place(Popped(n), off) = Place(b, off) + n /\ Place(b, off) \in Nat
         /\ SubSeq(Ready, 1, n) \in Seq(Byte) /\ Len(SubSeq(Ready, 1, n)) = n
         /\ Ends(SubSeq(Ready, 1, n), file, Place(Popped(n), off))
  <1>1. /\ file \in Seq(Byte) /\ off \in Nat /\ b \in BioRec
        /\ b.pos \in Nat /\ b.len \in Nat /\ b.unget \in Seq(Byte) /\ b.buf \in Seq(Byte)
    BY DEF IInv, TypeInv, BioRec
  <1>2. InFile(b, file, off, call.op, out, used)
    BY DEF IInv
  <1>3. b.pos <= b.len /\ b.len = Len(b.buf) /\ Ends(Waits(b), file, off)
    BY <1>2 DEF InFile
  <1>4. PICK w, u : w = Unread(b) /\ u = b.unget
    OBVIOUS
  <1>5. /\ w \in Seq(Byte) /\ u \in Seq(Byte) /\ Len(w) = b.len - b.pos
        /\ Waits(b) = u \o w /\ Len(Waits(b)) = Len(u) + Len(w)
        /\ Len(u) \in Nat /\ Len(w) \in Nat
        /\ \A i \in 1..Len(w) : w[i] = b.buf[b.pos + i]
    <2>1. /\ Unread(b) \in Seq(Byte) /\ Len(Unread(b)) = b.len - b.pos
          /\ Len(Waits(b)) = Len(b.unget) + Len(Unread(b))
          /\ \A i \in 1..(b.len - b.pos) : Unread(b)[i] = b.buf[b.pos + i]
      BY <1>1, <1>3, BytesWaiting
    <2>2. w \in Seq(Byte) /\ u \in Seq(Byte) /\ Waits(b) = u \o w
      BY <1>1, <1>4, <2>1 DEF Waits
    <2> QED BY <1>4, <2>1, <2>2, LenProperties
  <1>6. Ends(w, file, off) /\ Ends(u, file, off - Len(w))
    <2>1. PICK f \in Seq(Byte), o \in Int : f = file /\ o = off
      BY <1>1
    <2>2. Ends(u \o w, f, o)
      BY <1>3, <1>5, <2>1
    <2>3. Ends(w, f, o) /\ Ends(u, f, o - Len(w))
      BY <1>5, <2>2, EndsSplit
    <2> QED BY <2>1, <2>3
  <1>7. Place(b, off) = off - (Len(u) + Len(w)) /\ Place(b, off) \in Nat
    BY <1>1, <1>3, <1>5 DEF Place, Ends
  <1>8. PICK y : y = Popped(n)
    OBVIOUS
  <1>9. CASE u # <<>>
    <2>1. Ready = u /\ y = [b EXCEPT !.unget = SubSeq(u, n + 1, Len(u))]
      BY <1>4, <1>8, <1>9 DEF Ready, Popped
    <2>2. n \in 0..Len(u) /\ off - Len(w) \in Int
      BY <1>1, <1>5, <2>1
    <2>3. PICK p \in Int : p = off - Len(w)
      BY <2>2
    <2>4. PICK front, rest : front = SubSeq(u, 1, n) /\ rest = SubSeq(u, n + 1, Len(u))
      OBVIOUS
    <2>5. /\ front \in Seq(Byte) /\ Len(front) = n
          /\ rest \in Seq(Byte) /\ Len(rest) = Len(u) - n
          /\ Ends(front, file, p - (Len(u) - n)) /\ Ends(rest, file, p)
      BY <1>1, <1>5, <1>6, <2>2, <2>3, <2>4, EndsCut
    <2>6. Len(rest \o w) = Len(rest) + Len(w) /\ Ends(rest \o w, file, off)
      <3>1. PICK f \in Seq(Byte), o \in Int : f = file /\ o = off
        BY <1>1
      <3>2. Ends(rest, f, o - Len(w)) /\ Ends(w, f, o)
        BY <1>6, <2>3, <2>5, <3>1
      <3>3. Len(rest \o w) = Len(rest) + Len(w) /\ Ends(rest \o w, f, o)
        BY <1>5, <2>5, <3>2, EndsJoined
      <3> QED BY <3>1, <3>3
    <2>7. /\ y \in BioRec /\ y.unget = rest /\ y.buf = b.buf /\ y.pos = b.pos
          /\ y.len = b.len /\ y.last = b.last
      BY <1>1, <2>1, <2>4, <2>5 DEF BioRec
    <2>8. y.writing = b.writing
      BY <1>1, <2>1 DEF BioRec
    <2>9. Waits(y) = rest \o w
      BY <1>4, <2>7 DEF Waits, Unread
    <2>10. Place(y, off) = Place(b, off) + n /\ Place(y, off) = p - (Len(u) - n)
      <3>1. Len(Waits(y)) = (Len(u) - n) + Len(w)
        BY <2>5, <2>6, <2>9
      <3>2. Place(y, off) = off - ((Len(u) - n) + Len(w))
        BY <3>1 DEF Place
      <3>3. PICK c, d, o \in Int : c = Len(u) /\ d = Len(w) /\ o = off
        BY <1>1, <1>5
      <3>4. o - ((c - n) + d) = o - (c + d) + n /\ o - ((c - n) + d) = o - d - (c - n)
        BY ONLY <3>3, n \in Nat
      <3> QED BY <1>7, <2>3, <3>2, <3>3, <3>4
    <2>11. Ready \in Seq(Byte) /\ SubSeq(Ready, 1, n) = front
      BY <1>5, <2>1, <2>4
    <2>12. Ends(front, file, Place(y, off))
      BY <2>5, <2>10
    <2> QED BY <1>3, <1>7, <1>8, <2>5, <2>6, <2>7, <2>8, <2>9, <2>10, <2>11, <2>12
  <1>10. CASE u = <<>>
    <2>0. PICK m \in Nat : m = b.pos + n
      BY <1>1
    <2>1. Ready = w /\ y = [b EXCEPT !.pos = m]
      BY <1>1, <1>3, <1>4, <1>8, <1>10, <2>0 DEF Ready, Popped
    <2>2. n \in 0..Len(w) /\ Len(u) = 0 /\ Waits(b) = w
      BY <1>5, <1>10, <2>1, EmptySeq, ConcatEmptySeq
    <2>3. PICK front, rest : front = SubSeq(w, 1, n) /\ rest = SubSeq(w, n + 1, Len(w))
      OBVIOUS
    <2>4. /\ front \in Seq(Byte) /\ Len(front) = n
          /\ rest \in Seq(Byte) /\ Len(rest) = Len(w) - n
          /\ Ends(front, file, off - (Len(w) - n)) /\ Ends(rest, file, off)
      <3>1. PICK o \in Int, f \in Seq(Byte), v \in Seq(Byte) : o = off /\ f = file /\ v = w
        BY <1>1, <1>5
      <3>2. Ends(v, f, o) /\ n \in 0..Len(v)
        BY <1>6, <2>2, <3>1
      <3>3. /\ SubSeq(v, 1, n) \in Seq(Byte) /\ Len(SubSeq(v, 1, n)) = n
            /\ SubSeq(v, n + 1, Len(v)) \in Seq(Byte)
            /\ Len(SubSeq(v, n + 1, Len(v))) = Len(v) - n
            /\ Ends(SubSeq(v, 1, n), f, o - (Len(v) - n))
            /\ Ends(SubSeq(v, n + 1, Len(v)), f, o)
        BY ONLY <3>2, v \in Seq(Byte), f \in Seq(Byte), o \in Int, EndsCut
      <3> QED BY <2>3, <3>1, <3>3
    <2>5. /\ y \in BioRec /\ y.unget = <<>> /\ y.buf = b.buf /\ y.pos = b.pos + n
          /\ y.len = b.len /\ y.last = b.last
      BY <1>1, <1>4, <1>10, <2>0, <2>1 DEF BioRec
    <2>6. y.writing = b.writing
      BY <1>1, <2>1 DEF BioRec
    <2>7. y.pos <= y.len /\ y.len = Len(y.buf)
      BY <1>1, <1>3, <1>5, <2>2, <2>5
    <2>8. /\ Waits(y) = Unread(y) /\ Unread(y) \in Seq(Byte)
          /\ Len(Unread(y)) = y.len - y.pos
          /\ \A i \in 1..(y.len - y.pos) : Unread(y)[i] = y.buf[y.pos + i]
      BY <2>5, <2>7, BytesWaiting
    <2>9. Unread(y) = rest
      <3>1. Len(Unread(y)) = Len(rest)
        BY <1>1, <1>5, <2>2, <2>4, <2>5, <2>8
      <3>2. ASSUME NEW i \in 1..Len(Unread(y)) PROVE Unread(y)[i] = rest[i]
        <4>1. i \in 1..(y.len - y.pos) /\ i \in Nat
          BY <2>8
        <4>2. n + i \in 1..Len(w)
          BY <1>1, <1>5, <2>2, <2>5, <4>1
        <4>3. Unread(y)[i] = b.buf[b.pos + n + i]
          BY <2>5, <2>8, <4>1
        <4>4. w[n + i] = b.buf[b.pos + (n + i)]
          BY <1>5, <4>2
        <4>5. rest[i] = w[n + i]
          <5>1. \A k \in (n + 1)..Len(w) : w[k] \in Byte
            BY <1>5, ElementOfSeq
          <5>2. \A k \in 1..(Len(w) - (n + 1) + 1) : rest[k] = w[(n + 1) + k - 1]
            BY <1>5, <2>3, <5>1, SubSeqProperties
          <5>3. i \in 1..(Len(w) - (n + 1) + 1)
            BY <1>5, <4>1, <4>2
          <5>4. (n + 1) + i - 1 = n + i
            BY <4>1
          <5> QED BY <5>2, <5>3, <5>4
        <4>6. b.pos + n + i = b.pos + (n + i)
          BY <1>1, <4>1
        <4> QED BY <4>3, <4>4, <4>5, <4>6
      <3> QED BY <2>4, <2>8, <3>1, <3>2, SeqEqual
    <2>10. Place(y, off) = Place(b, off) + n /\ Place(y, off) = off - (Len(w) - n)
      BY <1>1, <1>5, <1>7, <2>2, <2>4, <2>8, <2>9 DEF Place
    <2>11. Ready \in Seq(Byte) /\ SubSeq(Ready, 1, n) = front
      BY <1>5, <2>1, <2>3
    <2>12. Ends(front, file, Place(y, off)) /\ Ends(Waits(y), file, off)
      BY <2>4, <2>8, <2>9, <2>10
    <2> QED BY <1>7, <1>8, <2>4, <2>5, <2>6, <2>7, <2>10, <2>11, <2>12
  <1> QED BY <1>9, <1>10

\* What bio_remember keeps of the bytes of a get, when it keeps them all.
LEMMA RememberedAll ==
  ASSUME NEW s \in Seq(Byte)
  PROVE  /\ Remembered(s) \in Seq(Byte) /\ Len(s) \in Nat
         /\ Len(s) = Len(Remembered(s)) => Remembered(s) = s
  <1>1. Len(s) \in Nat
    BY LenProperties
  <1>2. CASE Len(s) = 2 /\ s[2] # "c"
    <2>1. s[1] \in Byte
      BY <1>2, ElementOfSeq
    <2>2. Remembered(s) = <<s[1]>>
      BY <1>2 DEF Remembered
    <2>3. <<s[1]>> \in Seq(Byte) /\ Len(<<s[1]>>) = 1
      BY <2>1
    <2> QED BY <1>1, <1>2, <2>2, <2>3
  <1>3. CASE ~(Len(s) = 2 /\ s[2] # "c")
    BY <1>1, <1>3 DEF Remembered
  <1> QED BY <1>2, <1>3

\* The last byte of what ends at a place.
LEMMA EndsLast ==
  ASSUME NEW s \in Seq(Byte), NEW f, NEW p \in Nat, Ends(s, f, p), Len(s) > 0
  PROVE  <<s[Len(s)]>> \in Seq(Byte) /\ Ends(<<s[Len(s)]>>, f, p)
  <1>1. PICK n \in Nat : n = Len(s)
    BY LenProperties
  <1>2. n \in 1..Len(s)
    BY <1>1
  <1>3. PICK e \in Byte : e = s[n]
    BY <1>2, ElementOfSeq
  <1>4. p - Len(s) + n \in 1..Len(f) /\ s[n] = f[p - Len(s) + n] /\ n <= p
    BY <1>1, <1>2 DEF Ends
  <1>5. p - Len(s) + n = p
    BY <1>1
  <1>6. p \in 1..Len(f) /\ e = f[p] /\ p >= 1
    BY <1>1, <1>3, <1>4, <1>5
  <1>7. <<e>> \in Seq(Byte) /\ Len(<<e>>) = 1 /\ <<e>>[1] = e
    BY <1>3
  <1>8. Ends(<<e>>, f, p)
    <2>1. ASSUME NEW i \in 1..1 PROVE p - 1 + i \in 1..Len(f) /\ <<e>>[i] = f[p - 1 + i]
      <3>1. i = 1 /\ p - 1 + i = p
        OBVIOUS
      <3> QED BY <1>6, <1>7, <3>1
    <2> QED BY <1>6, <1>7, <2>1 DEF Ends
  <1> QED BY <1>1, <1>3, <1>7, <1>8

\* What a turn of a get hands out: no more than is ready, and asked for.
LEMMA ChunkBounds ==
  ASSUME IInv, call.op \in Reads
  PROVE  /\ Ready \in Seq(Byte) /\ Chunk \in Nat
         /\ Chunk <= Len(Ready) \/ Ready = <<>>
         /\ call.op \notin {"read", "line"} => Chunk = 1
         /\ call.op = "read" /\ Ready # <<>> => call.left - Chunk \in Nat
  <1>1. sure /\ ~b.writing
    BY NoCallShape DEF IInv, Calls
  <1>2. /\ b \in BioRec /\ b.pos \in Nat /\ b.len \in Nat /\ b.unget \in Seq(Byte)
        /\ call.left \in Nat
    BY DEF IInv, TypeInv, BioRec, CallRec
  <1>3. b.pos <= b.len /\ b.len = Len(b.buf)
    BY <1>1 DEF IInv, InFile
  <1>4. Ready \in Seq(Byte)
    <2>1. CASE b.unget # <<>>
      BY <1>2, <2>1 DEF Ready
    <2>2. CASE b.unget = <<>>
      <3>1. ~(b.pos > b.len)
        BY <1>2, <1>3
      <3>2. Ready = Unread(b)
        BY <2>2, <3>1 DEF Ready
      <3> QED BY <1>2, <1>3, <3>2, BytesWaiting
    <2> QED BY <2>1, <2>2
  <1>5. Len(Ready) \in Nat /\ (Ready # <<>> => Len(Ready) > 0)
    BY <1>4, LenProperties, EmptySeq
  <1>6. CASE call.op = "read"
    <2>1. Chunk = Smaller(call.left, Len(Ready))
      BY <1>6 DEF Chunk
    <2> QED BY <1>2, <1>4, <1>5, <1>6, <2>1 DEF Smaller
  <1>7. CASE call.op = "line"
    <2>1. Chunk = UpTo(call.delim, Ready)
      BY <1>7 DEF Chunk
    <2>2. Chunk \in 0..Len(Ready)
      BY <1>4, <2>1, UpToBounds
    <2> QED BY <1>4, <1>5, <1>7, <2>2
  <1>8. CASE call.op # "read" /\ call.op # "line"
    <2>1. Chunk = 1
      BY <1>8 DEF Chunk
    <2> QED BY <1>4, <1>5, <1>8, <2>1
  <1> QED BY <1>6, <1>7, <1>8

\* One turn of a get.
LEMMA HandKeeps == ASSUME IInv, Hand PROVE IInv'
  <1>1. call.op \in Reads /\ Ready # <<>> /\ UNCHANGED <<file, off, sure>>
    BY DEF Hand
  <1>2. sure /\ ~b.writing
    BY <1>1, NoCallShape DEF IInv, Calls
  <1>3. /\ file \in Seq(Byte) /\ off \in Nat /\ b \in BioRec /\ out \in Seq(Byte)
        /\ call \in CallRec /\ used \in Nat
    BY DEF IInv, TypeInv
  <1>4. InFile(b, file, off, call.op, out, used)
    BY <1>2 DEF IInv
  <1>5. PICK n \in Nat : n = Chunk /\ n <= Len(Ready)
    BY <1>1, ChunkBounds
  <1>6. PICK x, part, got : x = Popped(n) /\ part = SubSeq(Ready, 1, n) /\ got = out \o part
    OBVIOUS
  <1>7. /\ Ready \in Seq(Byte)
        /\ x \in BioRec /\ x.writing = b.writing /\ x.last = b.last
        /\ x.pos <= x.len /\ x.len = Len(x.buf)
        /\ Ends(Waits(x), file, off)
        /\ Place(x, off) = Place(b, off) + n /\ Place(b, off) \in Nat
        /\ part \in Seq(Byte) /\ Len(part) = n
        /\ Ends(part, file, Place(x, off))
    BY <1>1, <1>2, <1>5, <1>6, Taken
  <1>8. PICK p \in Nat : p = Place(x, off)
    BY <1>7
  <1>9. got \in Seq(Byte) /\ Len(got) = Len(out) + n /\ Ends(got, file, p)
    <2>1. PICK f \in Seq(Byte) : f = file
      BY <1>3
    <2>2. p - Len(part) = Place(b, off)
      BY <1>7, <1>8
    <2>3. Ends(out, f, p - Len(part))
      BY <1>1, <1>4, <2>1, <2>2 DEF InFile
    <2>4. Ends(part, f, p)
      BY <1>7, <1>8, <2>1
    <2>5. /\ out \o part \in Seq(Byte) /\ Len(out \o part) = Len(out) + Len(part)
          /\ Ends(out \o part, f, p)
      <3>1. PICK q \in Seq(Byte), r \in Seq(Byte) : q = out /\ r = part
        BY <1>3, <1>7
      <3>2. Ends(q, f, p - Len(r)) /\ Ends(r, f, p)
        BY <2>3, <2>4, <3>1
      <3>3. q \o r \in Seq(Byte) /\ Len(q \o r) = Len(q) + Len(r) /\ Ends(q \o r, f, p)
        BY <3>2, EndsJoined
      <3> QED BY <3>1, <3>3
    <2> QED BY <1>6, <1>7, <2>1, <2>5
  <1>10. Len(out) \in Nat
    BY <1>3, LenProperties
  <1>11. PICK done \in BOOLEAN :
           /\ done = CASE call.op = "read" -> call.left = Chunk
                       [] call.op = "rune" -> Full(got)
                       [] OTHER            -> call.op # "num"
           /\ out' = got
           /\ call' = IF done THEN NoCall
                      ELSE [call EXCEPT !.left = IF call.op = "read" THEN @ - Chunk ELSE @]
           /\ IF call.op \in {"getc", "num"} \/ (call.op = "rune" /\ done)
                THEN LET seq == IF call.op = "num" THEN <<got[Len(got)]>> ELSE got
                     IN  b' = [x EXCEPT !.last = Remembered(seq)] /\ used' = Len(seq)
                ELSE b' = x /\ UNCHANGED used
    <2>1. Full(got) \in BOOLEAN
      BY DEF Full
    <2>2. PICK done : done = CASE call.op = "read" -> call.left = Chunk
                               [] call.op = "rune" -> Full(got)
                               [] OTHER            -> call.op # "num"
      OBVIOUS
    <2>3. done \in BOOLEAN
      BY <2>1, <2>2
    <2>4. /\ out' = got
          /\ call' = IF done THEN NoCall
                     ELSE [call EXCEPT !.left = IF call.op = "read" THEN @ - Chunk ELSE @]
          /\ IF call.op \in {"getc", "num"} \/ (call.op = "rune" /\ done)
               THEN LET seq == IF call.op = "num" THEN <<got[Len(got)]>> ELSE got
                    IN  b' = [x EXCEPT !.last = Remembered(seq)] /\ used' = Len(seq)
               ELSE b' = x /\ UNCHANGED used
      BY <1>5, <1>6, <2>2 DEF Hand
    <2> QED BY <2>2, <2>3, <2>4
  <1>12. /\ call' \in CallRec /\ call'.op \in {None, call.op}
         /\ call'.op # None => ~done
    <2>1. CASE done
      BY <1>11, <2>1, NoCallShape
    <2>2. CASE ~done /\ call.op = "read"
      <3>1. PICK m \in Nat : m = call.left - Chunk
        BY <1>1, <2>2, ChunkBounds
      <3>2. call' = [call EXCEPT !.left = m]
        BY <1>11, <2>2, <3>1
      <3> QED BY <1>3, <2>2, <3>2 DEF CallRec
    <2>3. CASE ~done /\ call.op # "read"
      <3>1. call' = [call EXCEPT !.left = call.left]
        BY <1>11, <2>3
      <3>2. call' \in CallRec /\ call'.op = call.op
        BY <1>3, <3>1 DEF CallRec
      <3> QED BY <2>3, <3>2
    <2> QED BY <2>1, <2>2, <2>3
  <1>13. /\ b' \in BioRec /\ b'.writing = b.writing /\ used' \in Nat
         /\ call'.op \in {"read", "line"} => b'.last = <<>>
         /\ InFile(b', file, off, call'.op, got, used')
    <2>1. CASE call.op \in {"getc", "num"} \/ (call.op = "rune" /\ done)
      <3>1. PICK seq : seq = IF call.op = "num" THEN <<got[Len(got)]>> ELSE got
        OBVIOUS
      <3>2. seq \in Seq(Byte) /\ Ends(seq, file, p)
        <4>1. CASE call.op = "num"
          <5>1. n = 1 /\ Len(got) > 0
            BY <1>1, <1>5, <1>9, <1>10, <4>1, ChunkBounds
          <5> QED BY <1>9, <3>1, <4>1, <5>1, EndsLast
        <4>2. CASE call.op # "num"
          BY <1>9, <3>1, <4>2
        <4> QED BY <4>1, <4>2
      <3>3. PICK r : r = Remembered(seq)
        OBVIOUS
      <3>4. r \in Seq(Byte) /\ Len(seq) \in Nat /\ (Len(seq) = Len(r) => r = seq)
        BY <3>2, <3>3, RememberedAll
      <3>5. PICK y : y = [x EXCEPT !.last = r]
        OBVIOUS
      <3>6. b' = y /\ used' = Len(seq)
        BY <1>11, <2>1, <3>1, <3>3, <3>5
      <3>7. /\ y \in BioRec /\ y.last = r /\ y.unget = x.unget /\ y.buf = x.buf
            /\ y.pos = x.pos /\ y.len = x.len
        BY <1>7, <3>4, <3>5 DEF BioRec
      <3>8. y.writing = x.writing
        BY <1>7, <3>5 DEF BioRec
      <3>9. Waits(y) = Waits(x) /\ Place(y, off) = p
        BY <1>8, <3>7 DEF Waits, Unread, Place
      <3>10. InFile(y, file, off, call'.op, got, Len(seq))
        BY <1>7, <1>9, <3>2, <3>4, <3>7, <3>9 DEF InFile
      <3>11. call'.op \notin {"read", "line"}
        BY <1>12, <2>1, NoCallShape
      <3> QED BY <1>7, <3>4, <3>6, <3>7, <3>8, <3>10, <3>11
    <2>2. CASE ~(call.op \in {"getc", "num"} \/ (call.op = "rune" /\ done))
      <3>1. b' = x /\ used' = used
        BY <1>11, <2>2
      <3>2. CASE call.op = "rune"
        <4>1. got # <<>> /\ call'.op = "rune"
          <5>1. n = 1 /\ Len(got) > 0
            BY <1>1, <1>5, <1>9, <1>10, <3>2, ChunkBounds
          <5>2. ~done
            BY <2>2, <3>2
          <5>3. call' = [call EXCEPT !.left = call.left]
            BY <1>11, <3>2, <5>2
          <5> QED BY <1>3, <1>9, <3>2, <5>1, <5>3, EmptySeq DEF CallRec
        <4>2. InFile(x, file, off, call'.op, got, used)
          BY <1>7, <1>8, <1>9, <4>1 DEF InFile
        <4> QED BY <1>3, <1>7, <3>1, <4>1, <4>2
      <3>3. CASE call.op # "rune"
        <4>1. x.last = <<>>
          <5>1. call.op \in {"read", "line"}
            BY <1>1, <2>2, <3>3 DEF Reads
          <5> QED BY <1>7, <5>1 DEF IInv, Calls
        <4>2. Ends(x.last, file, p)
          BY <4>1, EndsNone
        <4>3. InFile(x, file, off, call'.op, got, used)
          BY <1>7, <1>8, <1>9, <4>2 DEF InFile
        <4> QED BY <1>3, <1>7, <3>1, <4>1, <4>3
      <3> QED BY <3>2, <3>3
    <2> QED BY <2>1, <2>2
  <1>14. InFile(b', file', off', call'.op, out', used')
    BY <1>1, <1>11, <1>13
  <1>15. TypeInv'
    BY <1>1, <1>3, <1>9, <1>11, <1>12, <1>13 DEF IInv, TypeInv
  <1>16. Calls' /\ Pending'
    <2>1. call'.op # "write"
      BY <1>1, <1>12, NoCallShape DEF Reads
    <2> QED BY <1>1, <1>2, <1>13, <2>1 DEF Calls, Pending
  <1> QED BY <1>14, <1>15, <1>16 DEF IInv

\* Bytes of the last get are given back between calls.
LEMMA UngetKeeps == ASSUME IInv, Careful, NEW rune, Unget(rune) PROVE IInv'
  <1>1. /\ sure /\ used = Len(b.last) /\ call.op = None /\ ~b.writing /\ Idle
        /\ UNCHANGED <<file, off, call, out, sure, used>>
    BY NoCallShape DEF Unget, Avoided, Idle
  <1>2. /\ file \in Seq(Byte) /\ off \in Nat /\ b \in BioRec
        /\ b.last \in Seq(Byte) /\ b.unget \in Seq(Byte)
    BY DEF IInv, TypeInv, BioRec
  <1>3. InFile(b, file, off, None, out, used)
    BY <1>1 DEF IInv
  <1>4. /\ b.pos <= b.len /\ b.len = Len(b.buf) /\ Ends(Waits(b), file, off)
        /\ Ends(b.last, file, Place(b, off))
    BY <1>1, <1>3, NoCallShape DEF InFile
  <1>5. PICK f \in Seq(Byte), o \in Nat, s \in Seq(Byte), g \in Seq(Byte), h \in Seq(Byte),
             w \in Seq(Byte) :
          /\ f = file /\ o = off /\ s = b.last /\ g = b.unget /\ h = Unread(b) /\ w = Waits(b)
    BY <1>2, <1>4, BytesWaiting
  <1>6. /\ s \o w \in Seq(Byte) /\ Len(s \o w) = Len(s) + Len(w) /\ Ends(s \o w, f, o)
    <2>1. Ends(s, f, o - Len(w)) /\ Ends(w, f, o)
      BY <1>4, <1>5 DEF Place
    <2> QED BY <2>1, EndsJoined
  <1>7. PICK y : y = [b EXCEPT !.unget = s \o g, !.last = <<>>]
    OBVIOUS
  <1>8. b' = y
    BY <1>5, <1>7 DEF Unget
  <1>9. s \o g \in Seq(Byte) /\ <<>> \in Seq(Byte)
    BY ConcatProperties, EmptySeq
  <1>10. /\ y \in BioRec /\ y.unget = s \o g /\ y.last = <<>>
         /\ y.buf = b.buf /\ y.pos = b.pos /\ y.len = b.len
    BY <1>2, <1>7, <1>9 DEF BioRec
  <1>11. y.writing = b.writing
    BY <1>2, <1>7 DEF BioRec
  <1>12. Waits(y) = s \o w
    <2>1. (s \o g) \o h = s \o (g \o h)
      BY ConcatAssociative
    <2>2. Unread(y) = h /\ w = g \o h
      BY <1>5, <1>10 DEF Unread, Waits
    <2> QED BY <1>10, <2>1, <2>2 DEF Waits
  <1>13. Ends(y.last, f, Place(y, o))
    <2>1. Place(y, o) \in Nat
      <3>1. Len(s \o w) \in Nat /\ Len(s \o w) <= o
        BY <1>6, LenProperties DEF Ends
      <3> QED BY <1>12, <3>1 DEF Place
    <2> QED BY <1>10, <2>1, EndsNone
  <1>14. InFile(y, f, o, None, out, used)
    BY <1>4, <1>6, <1>10, <1>12, <1>13, NoCallShape DEF InFile
  <1>15. InFile(b', file', off', call'.op, out', used')
    BY <1>1, <1>5, <1>8, <1>14
  <1>16. TypeInv'
    BY <1>1, <1>8, <1>10 DEF IInv, TypeInv
  <1>17. Calls' /\ Pending'
    BY <1>1, <1>8, <1>11, NoCallShape DEF Calls, Pending
  <1> QED BY <1>15, <1>16, <1>17 DEF IInv

-----------------------------------------------------------------------------
(* Writing and positioning *)

\* What waits to be read is as long as the kernel's offset is far, so that the
\* switch to writing can take the offset back.
LEMMA BackOverWaiting ==
  ASSUME IInv, sure, ~b.writing PROVE off - Buffered(b) \in Nat
  <1>1. off \in Nat /\ b \in BioRec /\ InFile(b, file, off, call.op, out, used)
    BY DEF IInv, TypeInv
  <1>2. b.pos <= b.len /\ b.len = Len(b.buf) /\ Ends(Waits(b), file, off)
    BY <1>1 DEF InFile
  <1>3. /\ Len(Waits(b)) = Len(b.unget) + Len(Unread(b)) /\ Len(Waits(b)) \in Nat
        /\ Len(b.unget) \in Nat /\ Len(Unread(b)) \in Nat
    <2>1. b.unget \in Seq(Byte) /\ Unread(b) \in Seq(Byte)
      BY <1>1, <1>2, BytesWaiting DEF BioRec
    <2> QED BY <1>1, <1>2, <2>1, BytesWaiting, LenProperties
  <1>4. Buffered(b) = Len(Waits(b))
    BY <1>3 DEF Buffered
  <1>5. Len(Waits(b)) <= off
    BY <1>2 DEF Ends
  <1> QED BY <1>1, <1>3, <1>4, <1>5

LEMMA BeginWriteKeeps == ASSUME IInv, Careful, NEW s \in Texts, BeginWrite(s) PROVE IInv'
  <1>1. sure /\ Idle /\ UNCHANGED <<file, sure, used>> /\ out' = <<>>
    BY DEF BeginWrite, Avoided
  <1>2. b \in BioRec /\ <<>> \in Seq(Byte) /\ s \in Seq(Byte) /\ Len(<<>>) = 0
    BY BioAssumption, EmptySeq DEF IInv, TypeInv, BioAssumption
  <1>3. off' \in Nat
    <2>1. CASE b.writing \/ Appends
      BY <2>1 DEF BeginWrite, IInv, TypeInv
    <2>2. CASE ~(b.writing \/ Appends)
      BY <1>1, <2>2, BackOverWaiting DEF BeginWrite
    <2> QED BY <2>1, <2>2
  <1>4. call' \in CallRec /\ call'.op \in {None, "write"}
    <2>1. call' = NoCall \/ call' = [NoCall EXCEPT !.op = "write", !.todo = s]
      BY DEF BeginWrite
    <2> QED BY <1>2, <2>1, NoCallShape DEF CallRec
  <1>5. b' \in BioRec /\ b'.writing = TRUE /\ Pending'
    <2>1. CASE b.writing
      <3>1. b' = [b EXCEPT !.last = <<>>, !.unget = <<>>]
        BY <2>1 DEF BeginWrite
      <3>2. /\ b' \in BioRec /\ b'.last = <<>> /\ b'.unget = <<>>
            /\ b'.pos = b.pos /\ b'.buf = b.buf
        BY <1>2, <3>1 DEF BioRec
      <3>3. b'.writing = TRUE
        BY <1>2, <2>1, <3>1 DEF BioRec
      <3>4. b.pos = Len(b.buf) /\ b.pos <= BufSize
        BY <2>1 DEF IInv, Pending
      <3> QED BY <3>2, <3>3, <3>4 DEF Pending
    <2>2. CASE ~b.writing
      <3>1. b' = [Emptied(b) EXCEPT !.writing = TRUE]
        BY <2>2 DEF BeginWrite
      <3>2. Hollow(b') /\ b'.writing = TRUE
        BY <1>2, <3>1, EmptiedHollow
      <3> QED BY <1>2, <3>2, BioAssumption DEF Hollow, Pending, BioAssumption
    <2> QED BY <2>1, <2>2
  <1>6. TypeInv'
    BY <1>1, <1>2, <1>3, <1>4, <1>5 DEF IInv, TypeInv
  <1>7. Calls'
    BY <1>1, <1>4, <1>5, NoCallShape DEF Calls, Reads
  <1> QED BY <1>5, <1>6, <1>7 DEF IInv

LEMMA WriteOnKeeps == ASSUME IInv, WriteOn PROVE IInv'
  <1>1. /\ call.op = "write" /\ b.writing /\ b.pos < BufSize
        /\ UNCHANGED <<file, off, out, sure, used>>
    BY DEF WriteOn, IInv, Calls
  <1>2. /\ b \in BioRec /\ b.pos \in Nat /\ b.buf \in Seq(Byte) /\ b.pos = Len(b.buf)
        /\ b.last = <<>> /\ b.unget = <<>>
        /\ call \in CallRec /\ call.todo \in Seq(Byte) /\ BufSize \in Nat
        /\ Len(call.todo) \in Nat
    <2>1. b \in BioRec /\ call \in CallRec /\ call.todo \in Seq(Byte)
      BY DEF IInv, TypeInv, CallRec
    <2>2. b.pos = Len(b.buf) /\ b.last = <<>> /\ b.unget = <<>>
      BY <1>1 DEF IInv, Pending
    <2>3. b.pos \in Nat /\ b.buf \in Seq(Byte)
      BY <2>1 DEF BioRec
    <2> QED BY <2>1, <2>2, <2>3, BioAssumption, LenProperties DEF BioAssumption
  <1>3. PICK n \in Nat : /\ n = Smaller(Len(call.todo), BufSize - b.pos)
                         /\ n <= Len(call.todo) /\ b.pos + n <= BufSize
    BY <1>1, <1>2 DEF Smaller
  <1>4. PICK s, rest : /\ s = SubSeq(b.buf, 1, b.pos) \o SubSeq(call.todo, 1, n)
                       /\ rest = SubSeq(call.todo, n + 1, Len(call.todo))
    OBVIOUS
  <1>5. s \in Seq(Byte) /\ Len(s) = b.pos + n
    <2>1. SubSeq(b.buf, 1, b.pos) = b.buf
      BY <1>2, SubSeqFull
    <2>2. SubSeq(call.todo, 1, n) \in Seq(Byte) /\ Len(SubSeq(call.todo, 1, n)) = n
      <3>1. \A i \in 1..n : call.todo[i] \in Byte
        BY <1>2, <1>3, ElementOfSeq
      <3>2. /\ SubSeq(call.todo, 1, n) \in Seq(Byte)
            /\ Len(SubSeq(call.todo, 1, n)) = IF 1 <= n THEN n - 1 + 1 ELSE 0
        BY <3>1, SubSeqProperties
      <3> QED BY <3>2
    <2>3. PICK part \in Seq(Byte) : part = SubSeq(call.todo, 1, n) /\ Len(part) = n
      BY <2>2
    <2>4. b.buf \o part \in Seq(Byte) /\ Len(b.buf \o part) = Len(b.buf) + Len(part)
      <3>1. PICK h \in Seq(Byte) : h = b.buf
        BY <1>2
      <3>2. h \o part \in Seq(Byte) /\ Len(h \o part) = Len(h) + Len(part)
        BY ConcatProperties
      <3> QED BY <3>1, <3>2
    <2> QED BY <1>2, <1>4, <2>1, <2>3, <2>4
  <1>6. rest \in Seq(Byte)
    <2>1. \A i \in (n + 1)..Len(call.todo) : call.todo[i] \in Byte
      BY <1>2, <1>3, ElementOfSeq
    <2> QED BY <1>2, <1>4, <2>1, SubSeqProperties
  <1>7. PICK m \in Nat : m = b.pos + n
    BY <1>2
  <1>8. /\ b' = [b EXCEPT !.buf = s, !.pos = m]
        /\ call' = IF n = Len(call.todo) THEN NoCall ELSE [call EXCEPT !.todo = rest]
    BY <1>3, <1>4, <1>7 DEF WriteOn
  <1>9. /\ b' \in BioRec /\ b'.buf = s /\ b'.pos = m /\ b'.last = <<>> /\ b'.unget = <<>>
    BY <1>2, <1>5, <1>8 DEF BioRec
  <1>10. b'.writing = b.writing
    BY <1>2, <1>8 DEF BioRec
  <1>11. call' \in CallRec /\ call'.op \in {None, "write"}
    BY <1>1, <1>2, <1>6, <1>8, NoCallShape DEF CallRec
  <1>12. TypeInv'
    BY <1>1, <1>9, <1>11 DEF IInv, TypeInv
  <1>13. Calls'
    <2>1. sure
      BY <1>1, NoCallShape DEF IInv, Calls
    <2> QED BY <1>1, <1>10, <1>11, <2>1, NoCallShape DEF Calls, Reads
  <1>14. Pending'
    BY <1>3, <1>5, <1>7, <1>9 DEF Pending
  <1> QED BY <1>1, <1>10, <1>12, <1>13, <1>14 DEF IInv

LEMMA WriteOutKeeps == ASSUME IInv, WriteOut PROVE IInv'
  <1>1. /\ call.op = "write" /\ b.writing /\ UNCHANGED <<out, used>>
        /\ b \in BioRec /\ sure
    BY NoCallShape DEF WriteOut, IInv, Calls, TypeInv
  <1>2. CASE FlushFails(ret.val, TRUE) /\ UNCHANGED b
    <2>1. out' \in Seq(Byte)
      BY <1>1 DEF IInv, TypeInv
    <2> QED BY <1>1, <1>2, <2>1, OutputKept
  <1>3. CASE /\ FlushOk /\ file' = NewFile /\ off' = NewOff /\ b' = Emptied(b)
             /\ UNCHANGED <<call, ret, sure>>
    <2>1. Hollow(b') /\ b'.writing = b.writing /\ b' \in BioRec
      BY <1>1, <1>3, EmptiedHollow DEF Hollow
    <2>2. TypeInv'
      BY <1>1, <1>3, <2>1, FlushedFile DEF IInv, TypeInv
    <2>3. Calls'
      BY <1>1, <1>3, <2>1, NoCallShape DEF Calls, Reads
    <2>4. Pending'
      <3>1. Len(<<>>) = 0
        BY EmptySeq
      <3> QED BY <2>1, <3>1, BioAssumption DEF Hollow, Pending, BioAssumption
    <2> QED BY <1>1, <2>1, <2>2, <2>3, <2>4 DEF IInv
  <1> QED BY <1>2, <1>3 DEF WriteOut

\* After bseek, bclose and binit, and after bflush in the middle of writing, the
\* stream is idle and its buffer empty.
LEMMA StartsAfresh ==
  ASSUME IInv, Hollow(b'), call' = NoCall, out' = <<>>, used' = used,
         file' \in Seq(Byte), off' \in Nat, sure' \in BOOLEAN
  PROVE  IInv'
  <1>1. TypeInv'
    BY NoCallShape, EmptySeq DEF Hollow, IInv, TypeInv
  <1>2. Calls'
    BY NoCallShape DEF Calls
  <1> QED BY <1>1, <1>2, NothingWaits

LEMMA SeekKeeps == ASSUME IInv, NEW amount \in Int, NEW from, Seek(amount, from) PROVE IInv'
  <1>1. Idle /\ call = NoCall /\ out' = <<>> /\ used' = used /\ b \in BioRec
        /\ <<>> \in Seq(Byte)
    BY EmptySeq DEF Seek, Idle, IInv, TypeInv
  <1>2. CASE FlushFails(0, TRUE) /\ UNCHANGED b
    BY <1>1, <1>2, OutputKept
  <1>3. CASE /\ FlushOk /\ SeekTo(amount, from) \in 0..MaxFile
             /\ file' = NewFile /\ off' = SeekTo(amount, from)
             /\ b' = Reading(Emptied(b))
             /\ ret' = Result(off') /\ sure' = TRUE /\ UNCHANGED call
    <2>1. Hollow(b') /\ file' \in Seq(Byte)
      BY <1>1, <1>3, EmptiedHollow, FlushedFile
    <2>2. off' \in Nat
      BY <1>3, BioAssumption DEF BioAssumption
    <2> QED BY <1>1, <1>3, <2>1, <2>2, StartsAfresh
  <1> QED BY <1>2, <1>3 DEF Seek

LEMMA SeekRefusedKeeps ==
  ASSUME IInv, Careful, NEW amount, NEW from, SeekRefused(amount, from) PROVE IInv'
  <1>1. /\ Idle /\ call = NoCall /\ out' = <<>> /\ from # 2
        /\ UNCHANGED <<call, sure, used>>
        /\ file' = NewFile /\ off' = NewOff /\ b' = Flushed(b)
        /\ b \in BioRec /\ <<>> \in Seq(Byte) /\ sure \in BOOLEAN
    BY EmptySeq DEF SeekRefused, Avoided, Idle, IInv, TypeInv
  <1>2. CASE b.writing
    <2>1. b' = Emptied(b)
      BY <1>1, <1>2, FlushedFile
    <2>2. Hollow(b')
      <3>1. b \in BioRec
        BY <1>1
      <3> QED BY <2>1, <3>1, EmptiedHollow
    <2>3. file' \in Seq(Byte) /\ off' \in Nat
      BY <1>1, FlushedFile
    <2> QED BY <1>1, <2>2, <2>3, StartsAfresh
  <1>3. CASE ~b.writing
    <2>1. b' = b /\ file' = file /\ off' = off
      BY <1>1, <1>3, FlushedFile
    <2> QED BY <1>1, <2>1, Untouched
  <1> QED BY <1>2, <1>3

LEMMA FlushKeeps == ASSUME IInv, Flush PROVE IInv'
  <1>1. /\ Idle /\ call = NoCall /\ out' = <<>> /\ used' = used
        /\ b \in BioRec /\ <<>> \in Seq(Byte) /\ sure \in BOOLEAN
    BY EmptySeq DEF Flush, Idle, IInv, TypeInv
  <1>2. CASE /\ FlushOk /\ file' = NewFile /\ off' = NewOff /\ b' = Reading(Flushed(b))
             /\ ret' = Result(0) /\ UNCHANGED <<call, sure>>
    <2>1. CASE b.writing
      <3>1. b' = Reading(Emptied(b))
        BY <1>2, <2>1, FlushedFile
      <3>2. Hollow(b')
        BY <1>1, <3>1, EmptiedHollow
      <3>3. file' \in Seq(Byte) /\ off' \in Nat
        BY <1>2, FlushedFile
      <3> QED BY <1>1, <1>2, <3>2, <3>3, StartsAfresh
    <2>2. CASE ~b.writing
      <3>1. b' = b /\ file' = file /\ off' = off
        BY <1>1, <1>2, <2>2, FlushedFile, ReadingSame
      <3> QED BY <1>1, <1>2, <3>1, Untouched
    <2> QED BY <2>1, <2>2
  <1>3. CASE FlushFails(0, FALSE) /\ b' = Reading(b)
    <2>1. /\ file' \in Seq(Byte) /\ off' \in Nat /\ sure' \in BOOLEAN /\ ~sure'
          /\ call' = NoCall
      BY <1>3, FlushFailed
    <2>2. b' \in BioRec /\ b'.writing = FALSE
      BY <1>1, <1>3 DEF Reading, BioRec
    <2>3. TypeInv'
      BY <1>1, <2>1, <2>2, NoCallShape DEF IInv, TypeInv
    <2>4. Calls'
      BY <2>1, NoCallShape DEF Calls
    <2>5. Pending'
      BY <2>2 DEF Pending
    <2> QED BY <2>1, <2>3, <2>4, <2>5 DEF IInv
  <1> QED BY <1>2, <1>3 DEF Flush

LEMMA CloseKeeps == ASSUME IInv, Close PROVE IInv'
  <1>1. /\ Idle /\ call = NoCall /\ out' = <<>> /\ used' = used
        /\ b \in BioRec /\ sure \in BOOLEAN
        /\ b' = [Reading(Emptied(b)) EXCEPT !.bound = FALSE]
    BY DEF Close, Idle, IInv, TypeInv
  <1>2. Hollow(b')
    <2>1. PICK x : x = Reading(Emptied(b))
      OBVIOUS
    <2>2. Hollow(x)
      BY <1>1, <2>1, EmptiedHollow
    <2>3. b' = [x EXCEPT !.bound = FALSE]
      BY <1>1, <2>1
    <2> QED BY <2>2, <2>3 DEF Hollow, BioRec
  <1>3. /\ file' \in Seq(Byte) /\ off' \in Nat /\ sure' \in BOOLEAN /\ call' = NoCall
    <2>1. CASE /\ FlushOk /\ file' = NewFile /\ off' = NewOff
               /\ ret' = Result(0) /\ UNCHANGED <<call, sure>>
      BY <1>1, <2>1, FlushedFile
    <2>2. CASE FlushFails(0, FALSE)
      BY <2>2, FlushFailed
    <2> QED BY <2>1, <2>2 DEF Close
  <1> QED BY <1>1, <1>2, <1>3, StartsAfresh

LEMMA BindKeeps == ASSUME IInv, NEW mode \in Modes, Bind(mode) PROVE IInv'
  <1>1. /\ Idle /\ call = NoCall /\ out' = <<>> /\ used' = used /\ off' = 0
        /\ b \in BioRec /\ mode \in SUBSET {"r", "w", "a"}
        /\ b' = [Reading(Emptied(b)) EXCEPT !.bound = TRUE, !.mode = mode]
    BY BioAssumption DEF Bind, Idle, IInv, TypeInv, BioAssumption
  <1>2. Hollow(b')
    <2>1. PICK x : x = Reading(Emptied(b))
      OBVIOUS
    <2>2. Hollow(x)
      BY <1>1, <2>1, EmptiedHollow
    <2>3. b' = [x EXCEPT !.bound = TRUE, !.mode = mode]
      BY <1>1, <2>1
    <2> QED BY <1>1, <2>2, <2>3 DEF Hollow, BioRec
  <1>3. file' \in Seq(Byte) /\ sure' \in BOOLEAN /\ call' = NoCall
    <2>1. CASE /\ FlushOk /\ file' = NewFile
               /\ ret' = Result(0) /\ sure' = TRUE /\ UNCHANGED call
      BY <1>1, <2>1, FlushedFile
    <2>2. CASE \E n \in 0..(b.pos - 1) : FlushStops(n, 0, FALSE)
      BY <2>2, FlushStopped
    <2> QED BY <2>1, <2>2 DEF Bind
  <1> QED BY <1>1, <1>2, <1>3, StartsAfresh

-----------------------------------------------------------------------------

LEMMA InitHolds == Init => IInv
  <1> SUFFICES ASSUME Init PROVE IInv
    OBVIOUS
  <1>1. <<>> \in Seq(Byte) /\ Len(<<>>) = 0
    BY EmptySeq
  <1>2. file \in Seq(Byte) /\ off = 0 /\ call = NoCall /\ out = <<>> /\ sure = TRUE /\ used = 0
    BY BioAssumption DEF Init, BioAssumption
  <1>3. Hollow(b) /\ b.writing = FALSE /\ b \in BioRec
    BY <1>1 DEF Init, Hollow, BioRec
  <1>4. TypeInv
    BY <1>1, <1>2, <1>3, NoCallShape DEF TypeInv
  <1>5. Calls /\ Pending
    BY <1>2, <1>3, NoCallShape DEF Calls, Pending
  <1>6. InFile(b, file, off, call.op, <<>>, used)
    BY <1>2, <1>3, HollowInFile
  <1> QED BY <1>2, <1>4, <1>5, <1>6 DEF IInv

LEMMA StepKeeps == ASSUME IInv, Careful, [Next]_vars PROVE IInv'
  <1>1. CASE UNCHANGED vars
    BY <1>1 DEF vars, IInv, TypeInv, Calls, Pending
  <1>2. CASE Refused \/ Tell
    <2>1. /\ Idle /\ UNCHANGED <<file, off, b, call, sure, used>> /\ out' \in Seq(Byte)
      BY <1>2, EmptySeq DEF Refused, Tell, IInv, TypeInv
    <2> QED BY <2>1, Untouched
  <1>3. CASE Fill
    BY <1>3, FillKeeps
  <1>4. CASE FillStops
    BY <1>4, FillStopsKeeps
  <1>5. CASE Hand
    BY <1>5, HandKeeps
  <1>6. CASE NumEnds
    BY <1>6, NumEndsKeeps
  <1>7. CASE \E n \in 0..MaxRead : BeginRead("read", n, Zero)
    <2>1. "read" \in Reads /\ Zero \in Byte /\ 0..MaxRead \subseteq Nat
      BY BioAssumption DEF Reads, Zero, Byte, BioAssumption
    <2> QED BY <1>7, <2>1, BeginReadKeeps
  <1>8. CASE \E op \in Reads \ {"read"}, delim \in {"a", "c"} :
               (op # "line" => delim = Zero) /\ BeginRead(op, 1, delim)
    <2>1. PICK op \in Reads, delim \in {"a", "c"} : BeginRead(op, 1, delim)
      BY <1>8
    <2>2. delim \in Byte /\ 1 \in Nat
      BY DEF Byte
    <2> QED BY <2>1, <2>2, BeginReadKeeps
  <1>9. CASE \E rune \in BOOLEAN : Unget(rune)
    BY <1>9, UngetKeeps
  <1>10. CASE \E s \in Texts : BeginWrite(s)
    BY <1>10, BeginWriteKeeps
  <1>11. CASE WriteOn \/ WriteOut
    BY <1>11, WriteOnKeeps, WriteOutKeeps
  <1>12. CASE \E amount \in -2..MaxFile, from \in 0..2 :
                Seek(amount, from) \/ SeekRefused(amount, from)
    <2>1. PICK amount \in Int, from \in 0..2 :
                 Seek(amount, from) \/ SeekRefused(amount, from)
      BY <1>12, BioAssumption DEF BioAssumption
    <2> QED BY <2>1, SeekKeeps, SeekRefusedKeeps
  <1>13. CASE Flush \/ Close
    BY <1>13, FlushKeeps, CloseKeeps
  <1>14. CASE \E mode \in Modes : Bind(mode)
    BY <1>14, BindKeeps
  <1> QED
    BY <1>1, <1>2, <1>3, <1>4, <1>5, <1>6, <1>7, <1>8, <1>9, <1>10, <1>11, <1>12, <1>13,
       <1>14 DEF Next

\* What no routine changes but closing and binding.
LEMMA SameStream ==
  ASSUME NEW x \in BioRec
  PROVE  /\ Emptied(x).bound = x.bound /\ Emptied(x).mode = x.mode
         /\ Reading(x).bound = x.bound /\ Reading(x).mode = x.mode
         /\ Reading(x).last = x.last
         /\ Flushed(x).bound = x.bound /\ Flushed(x).mode = x.mode
         /\ \A y \in Merged(x) : y.bound = x.bound /\ y.mode = x.mode
  BY DEF BioRec, Emptied, Reading, Flushed, Merged

\* Nothing that is put together is longer than the array, if a careful client does it.
LEMMA PreparedWaits ==
  ASSUME NEW x \in BioRec, x.pos <= x.len, x.len = Len(x.buf), NEW op,
         op = "line" /\ x.unget # <<>> => Len(Waits(x)) <= BufSize,
         NEW y \in Prepared(op, x)
  PROVE  /\ y \in BioRec /\ Waits(y) = Waits(x) /\ y.pos <= y.len /\ y.len = Len(y.buf)
         /\ y.writing = x.writing /\ y.bound = x.bound /\ y.mode = x.mode
         /\ x.len <= BufSize => y.len <= BufSize
  <1>1. PICK z : z = [x EXCEPT !.last = <<>>]
    OBVIOUS
  <1>2. /\ z \in BioRec /\ z.bound = x.bound /\ z.mode = x.mode
        /\ z.buf = x.buf /\ z.pos = x.pos /\ z.len = x.len /\ z.unget = x.unget
    BY <1>1, EmptySeq DEF BioRec
  <1>3. z.writing = x.writing
    BY <1>1 DEF BioRec
  <1>4. Waits(z) = Waits(x)
    BY <1>2 DEF Waits, Unread
  <1>5. z.pos <= z.len /\ z.len = Len(z.buf)
    BY <1>2
  <1>6. CASE op = "read"
    <2>1. y = z
      BY <1>1, <1>6 DEF Prepared
    <2> QED BY <1>2, <1>3, <1>4, <1>5, <2>1
  <1>7. CASE op = "line"
    <2>1. y \in Merged(z)
      BY <1>1, <1>7 DEF Prepared
    <2>2. z.unget # <<>> => Len(Waits(z)) <= BufSize
      BY <1>2, <1>4, <1>7
    <2>3. /\ y \in BioRec /\ Waits(y) = Waits(z) /\ y.pos <= y.len /\ y.len = Len(y.buf)
          /\ y.writing = z.writing
          /\ z.unget # <<>> => y.len <= BufSize
          /\ z.unget = <<>> => y.len = z.len
      BY <1>2, <1>5, <2>1, <2>2, MergedWaits
    <2>4. y.bound = z.bound /\ y.mode = z.mode
      BY <1>2, <2>1, SameStream
    <2> QED BY <1>2, <1>3, <1>4, <2>3, <2>4
  <1>8. CASE op \notin {"read", "line"}
    <2>1. y = x
      BY <1>8 DEF Prepared
    <2> QED BY <2>1
  <1> QED BY <1>6, <1>7, <1>8

\* What bread and brdline find in the record, and that there is room for it.
LEMMA ReadFrom ==
  ASSUME IInv, Careful, NEW op \in Reads, NEW n \in Nat, NEW delim, BeginRead(op, n, delim),
         NEW x, x = Reading(Flushed(b))
  PROVE  /\ x \in BioRec /\ x.pos <= x.len /\ x.len = Len(x.buf) /\ ~x.writing
         /\ op = "line" /\ x.unget # <<>> => Len(Waits(x)) <= BufSize
         /\ b.len <= BufSize => x.len <= BufSize
  <1>1. sure /\ call.op = None /\ b \in BioRec
    BY NoCallShape DEF BeginRead, Avoided, Idle, IInv, TypeInv
  <1>2. CASE b.writing
    <2>1. x = Reading(Emptied(b))
      BY <1>2, FlushedFile
    <2>2. PICK r : r = Reading(Emptied(b))
      OBVIOUS
    <2>3. Hollow(r) /\ r.writing = FALSE
      BY <1>1, <2>2, EmptiedHollow
    <2>4. r = x
      BY <2>1, <2>2
    <2> QED BY <2>3, <2>4, EmptySeq, BioAssumption DEF Hollow, BioAssumption
  <1>3. CASE ~b.writing
    <2>1. x = b
      BY <1>1, <1>3, FlushedFile, ReadingSame
    <2>2. b.pos <= b.len /\ b.len = Len(b.buf)
      BY <1>1, <1>3 DEF IInv, InFile
    <2>3. op = "line" => Len(Waits(b)) <= BufSize
      BY <1>1, <1>3, RoomForAll
    <2> QED BY <1>1, <1>3, <2>1, <2>2, <2>3
  <1> QED BY <1>2, <1>3

\* The array's bytes are read ahead into it, or put together in it.
LEMMA RoomRead ==
  ASSUME IInv, Careful, b.len <= BufSize,
         NEW op \in Reads, NEW n \in Nat, NEW delim, BeginRead(op, n, delim)
  PROVE  b'.len <= BufSize
  <1>1. b' = b \/ b' \in Prepared(op, Reading(Flushed(b)))
    BY DEF BeginRead
  <1>2. PICK x : x = Reading(Flushed(b))
    OBVIOUS
  <1>3. \A y \in Prepared(op, x) : y.len <= BufSize
    BY <1>2, ReadFrom, PreparedWaits
  <1> QED BY <1>1, <1>2, <1>3

LEMMA RoomSame ==
  ASSUME NEW x \in BioRec
  PROVE  /\ Emptied(x).len = 0 /\ Reading(x).len = x.len /\ Reading(Emptied(x)).len = 0
         /\ Flushed(x).len \in {0, x.len} /\ Reading(Flushed(x)).len \in {0, x.len}
         /\ \A k : GivenBack(x, k).len = x.len
         /\ \A s : [x EXCEPT !.last = s].len = x.len
  BY DEF BioRec, Emptied, Reading, Flushed, GivenBack

LEMMA RoomKeeps == ASSUME IInv, Careful, b.len <= BufSize, [Next]_vars PROVE b'.len <= BufSize
  <1>0. b \in BioRec /\ BufSize \in Nat /\ 0 <= BufSize
    BY BioAssumption DEF IInv, TypeInv, BioAssumption
  <1>1. CASE UNCHANGED vars \/ Refused \/ Tell
    BY <1>1 DEF vars, Refused, Tell
  <1>2. CASE Fill
    BY <1>0, <1>2 DEF Fill, BioRec
  <1>3. CASE FillStops
    <2>1. PICK empty : empty = [b EXCEPT !.buf = <<>>, !.pos = 0, !.len = 0]
      OBVIOUS
    <2>2. empty \in BioRec /\ empty.len = 0
      BY <1>0, <2>1, EmptySeq DEF BioRec
    <2>3. PICK stays \in {b, empty}, k \in 0..2 :
             b' = [stays EXCEPT !.last = <<>>] \/ b' = GivenBack(stays, k)
      BY <1>3, <2>1 DEF FillStops
    <2>4. stays \in BioRec /\ stays.len <= BufSize
      BY <1>0, <2>2, <2>3
    <2>5. GivenBack(stays, k).len = stays.len /\ [stays EXCEPT !.last = <<>>].len = stays.len
      BY <2>4, RoomSame
    <2> QED BY <2>3, <2>4, <2>5
  <1>4. CASE Hand
    <2>1. PICK x : x = Popped(Chunk)
      OBVIOUS
    <2>2. b' = x \/ \E s : b' = [x EXCEPT !.last = s]
      BY <1>4, <2>1 DEF Hand
    <2>3. x.len = b.len /\ \A s : [x EXCEPT !.last = s].len = b.len
      BY <1>0, <2>1 DEF Popped, BioRec
    <2> QED BY <2>2, <2>3
  <1>5. CASE NumEnds
    BY <1>0, <1>5, RoomSame DEF NumEnds
  <1>6. CASE \E n \in 0..MaxRead : BeginRead("read", n, Zero)
    <2>1. PICK n \in 0..MaxRead : BeginRead("read", n, Zero)
      BY <1>6
    <2>2. n \in Nat /\ "read" \in Reads
      BY DEF Reads
    <2> QED BY <2>1, <2>2, RoomRead
  <1>7. CASE \E op \in Reads \ {"read"}, delim \in {"a", "c"} :
               (op # "line" => delim = Zero) /\ BeginRead(op, 1, delim)
    <2>1. PICK op \in Reads, delim \in {"a", "c"} : BeginRead(op, 1, delim)
      BY <1>7
    <2>2. 1 \in Nat
      OBVIOUS
    <2> QED BY <2>1, <2>2, RoomRead
  <1>8. CASE \E rune \in BOOLEAN : Unget(rune)
    BY <1>0, <1>8 DEF Unget, BioRec
  <1>9. CASE \E s \in Texts : BeginWrite(s)
    BY <1>0, <1>9 DEF BeginWrite, Emptied, BioRec
  <1>10. CASE WriteOn
    BY <1>0, <1>10 DEF WriteOn, BioRec
  <1>11. CASE WriteOut
    BY <1>0, <1>11, RoomSame DEF WriteOut
  <1>12. CASE \E amount \in -2..MaxFile, from \in 0..2 :
                Seek(amount, from) \/ SeekRefused(amount, from)
    BY <1>0, <1>12, RoomSame DEF Seek, SeekRefused
  <1>13. CASE Flush
    BY <1>0, <1>13, RoomSame DEF Flush
  <1>14. CASE Close \/ \E mode \in Modes : Bind(mode)
    BY <1>0, <1>14 DEF Close, Bind, Reading, Emptied, BioRec
  <1> QED
    BY <1>1, <1>2, <1>3, <1>4, <1>5, <1>6, <1>7, <1>8, <1>9, <1>10, <1>11, <1>12, <1>13,
       <1>14 DEF Next

\* What waits is named by its place in the file, as one sequence.
LEMMA WaitsAreTheFile == IInv /\ b.len <= BufSize => BufferIsFile
  <1> SUFFICES ASSUME IInv, b.len <= BufSize PROVE BufferIsFile
    OBVIOUS
  <1>1. b.writing => b.pos <= BufSize
    BY DEF IInv, Pending
  <1>2. ASSUME b.bound, sure, ~b.writing
        PROVE  /\ Len(Waits(b)) <= off
               /\ Waits(b) = SubSeq(file, off - Len(Waits(b)) + 1, off)
    <2>1. /\ b \in BioRec /\ off \in Nat /\ file \in Seq(Byte)
          /\ InFile(b, file, off, call.op, out, used)
      BY <1>2 DEF IInv, TypeInv
    <2>2. b.pos <= b.len /\ b.len = Len(b.buf) /\ Ends(Waits(b), file, off)
      BY <2>1 DEF InFile
    <2>3. PICK w \in Seq(Byte), o \in Nat, f \in Seq(Byte), n \in Nat :
            w = Waits(b) /\ o = off /\ f = file /\ n = Len(w)
      BY <2>1, <2>2, BytesWaiting
    <2>4. n <= o /\ \A i \in 1..n : o - n + i \in 1..Len(f) /\ w[i] = f[o - n + i]
      BY <2>2, <2>3 DEF Ends
    <2>5. \A i \in (o - n + 1)..o : f[i] \in Byte
      <3>1. ASSUME NEW i \in (o - n + 1)..o PROVE f[i] \in Byte
        <4>1. PICK j \in 1..n : i = o - n + j
          <5>1. i - (o - n) \in 1..n /\ i = o - n + (i - (o - n))
            OBVIOUS
          <5> QED BY <5>1
        <4>2. i \in 1..Len(f)
          BY <2>4, <4>1
        <4> QED BY <4>2, ElementOfSeq
      <3> QED BY <3>1
    <2>6. PICK r : r = SubSeq(f, o - n + 1, o)
      OBVIOUS
    <2>7. /\ r \in Seq(Byte) /\ Len(r) = n
          /\ \A i \in 1..n : r[i] = f[o - n + i]
      <3>1. /\ r \in Seq(Byte)
            /\ Len(r) = IF o - n + 1 <= o THEN o - (o - n + 1) + 1 ELSE 0
            /\ \A i \in 1..(o - (o - n + 1) + 1) : r[i] = f[(o - n + 1) + i - 1]
        BY <2>5, <2>6, SubSeqProperties
      <3>2. o - (o - n + 1) + 1 = n
        OBVIOUS
      <3>3. \A i \in 1..n : (o - n + 1) + i - 1 = o - n + i
        OBVIOUS
      <3>4. Len(r) = n
        BY <3>1
      <3> QED BY <3>1, <3>2, <3>3, <3>4
    <2>8. w = r
      BY <2>3, <2>4, <2>7, SeqEqual
    <2> QED BY <2>3, <2>4, <2>6, <2>8
  <1> QED BY <1>1, <1>2 DEF BufferIsFile, Waits

\* A client that is careful reads what the file holds: for every buffer size, file and
\* text, whatever was read, given back, written and sought, with short reads and
\* writes, errors and a full disk, what waits in the buffer of a bio is what the file
\* holds before the kernel's offset, and neither it nor pending output is longer than
\* the array.
THEOREM ReadAheadIsFile == Careful => (Spec => []BufferIsFile)
  <1> SUFFICES ASSUME Careful PROVE Spec => []BufferIsFile
    OBVIOUS
  <1> DEFINE Room == b.len <= BufSize
  <1>1. Init => IInv /\ Room
    BY InitHolds, BioAssumption DEF Init, BioAssumption
  <1>2. IInv /\ Room /\ [Next]_vars => IInv' /\ Room'
    BY StepKeeps, RoomKeeps
  <1>3. IInv /\ Room => BufferIsFile
    BY WaitsAreTheFile
  <1> QED BY <1>1, <1>2, <1>3, PTL DEF Spec

-----------------------------------------------------------------------------
(* The stream implements Stream: what is written over a file *)

LEMMA OverlayShape ==
  ASSUME NEW d \in Seq(Byte), NEW p \in Nat, NEW s \in Seq(Byte)
  PROVE  /\ Overlay(d, p, s) \in Seq(Byte)
         /\ Len(Overlay(d, p, s)) =
              IF s # <<>> /\ p + Len(s) > Len(d) THEN p + Len(s) ELSE Len(d)
         /\ \A i \in 1..Len(Overlay(d, p, s)) :
              Overlay(d, p, s)[i] = IF p < i /\ i <= p + Len(s) THEN s[i - p]
                                    ELSE IF i <= Len(d) THEN d[i] ELSE Zero
  <1>1. Len(d) \in Nat /\ Len(s) \in Nat
    BY LenProperties
  <1>2. PICK n \in Nat : n = IF s # <<>> /\ p + Len(s) > Len(d) THEN p + Len(s) ELSE Len(d)
    BY <1>1
  <1>3. PICK v : v = Overlay(d, p, s)
    OBVIOUS
  <1>4. v = [i \in 1..n |-> IF p < i /\ i <= p + Len(s) THEN s[i - p]
                            ELSE IF i <= Len(d) THEN d[i] ELSE Zero]
    BY <1>2, <1>3 DEF Overlay
  <1>5. v \in Seq(Byte)
    BY <1>3, OverlayBytes
  <1>6. DOMAIN v = 1..n /\ DOMAIN v = 1..Len(v) /\ Len(v) \in Nat
    BY <1>4, <1>5, LenProperties
  <1>7. Len(v) = n
    BY <1>2, <1>6
  <1>8. \A i \in 1..Len(v) : v[i] = IF p < i /\ i <= p + Len(s) THEN s[i - p]
                                    ELSE IF i <= Len(d) THEN d[i] ELSE Zero
    BY <1>4, <1>7
  <1> QED BY <1>2, <1>3, <1>5, <1>7, <1>8

LEMMA OverlayNothing ==
  ASSUME NEW d \in Seq(Byte), NEW p \in Nat PROVE Overlay(d, p, <<>>) = d
  <1>1. <<>> \in Seq(Byte) /\ Len(<<>>) = 0 /\ Len(d) \in Nat
    BY EmptySeq, LenProperties
  <1>2. PICK e \in Seq(Byte) : e = <<>> /\ Len(e) = 0
    BY <1>1
  <1>3. PICK v : v = Overlay(d, p, e)
    OBVIOUS
  <1>4. /\ v \in Seq(Byte)
        /\ Len(v) = IF e # <<>> /\ p + Len(e) > Len(d) THEN p + Len(e) ELSE Len(d)
        /\ \A i \in 1..Len(v) : v[i] = IF p < i /\ i <= p + Len(e) THEN e[i - p]
                                       ELSE IF i <= Len(d) THEN d[i] ELSE Zero
    BY <1>3, OverlayShape
  <1>5. Len(v) = Len(d)
    BY <1>2, <1>4
  <1>6. \A i \in 1..Len(v) : v[i] = d[i]
    BY <1>1, <1>2, <1>4, <1>5
  <1> QED BY <1>2, <1>3, <1>4, <1>5, <1>6, SeqEqual

\* Output that is written at the end.
LEMMA OverlayEnd ==
  ASSUME NEW d \in Seq(Byte), NEW s \in Seq(Byte)
  PROVE  Len(Overlay(d, Len(d), s)) = Len(d) + Len(s)
  <1>1. Len(d) \in Nat /\ Len(s) \in Nat /\ (s = <<>> => Len(s) = 0) /\ (s # <<>> => Len(s) > 0)
    BY LenProperties, EmptySeq
  <1> QED BY <1>1, OverlayShape

\* Output that follows what is pending.
LEMMA OverlayMore ==
  ASSUME NEW d \in Seq(Byte), NEW p \in Nat, NEW s \in Seq(Byte), NEW t \in Seq(Byte),
         t # <<>>
  PROVE  Overlay(Overlay(d, p, s), p + Len(s), t) = Overlay(d, p, s \o t)
  <1>1. /\ Len(d) \in Nat /\ Len(s) \in Nat /\ Len(t) \in Nat /\ Len(t) > 0
        /\ (s = <<>> => Len(s) = 0)
    BY LenProperties, EmptySeq
  <1>2. PICK n \in Nat : n = Len(s)
    BY <1>1
  <1>3. PICK m \in Nat : m = Len(t) /\ m > 0
    BY <1>1
  <1>4. PICK q \in Nat : q = p + n
    OBVIOUS
  <1>5. PICK st : st = s \o t
    OBVIOUS
  <1>6. /\ st \in Seq(Byte) /\ Len(st) = n + m
        /\ \A i \in 1..(n + m) : st[i] = IF i <= n THEN s[i] ELSE t[i - n]
    BY <1>2, <1>3, <1>5, ConcatProperties
  <1>7. st # <<>>
    BY <1>3, <1>6, EmptySeq
  <1>8. PICK v : v = Overlay(d, p, s)
    OBVIOUS
  <1>9. /\ v \in Seq(Byte) /\ Len(v) \in Nat
        /\ Len(v) = IF s # <<>> /\ q > Len(d) THEN q ELSE Len(d)
        /\ \A i \in 1..Len(v) : v[i] = IF p < i /\ i <= q THEN s[i - p]
                                       ELSE IF i <= Len(d) THEN d[i] ELSE Zero
    BY <1>2, <1>4, <1>8, OverlayShape, LenProperties
  <1>10. PICK w : w = Overlay(v, q, t)
    OBVIOUS
  <1>11. /\ w \in Seq(Byte) /\ Len(w) \in Nat
         /\ Len(w) = IF q + m > Len(v) THEN q + m ELSE Len(v)
         /\ \A i \in 1..Len(w) : w[i] = IF q < i /\ i <= q + m THEN t[i - q]
                                        ELSE IF i <= Len(v) THEN v[i] ELSE Zero
    BY <1>3, <1>9, <1>10, OverlayShape, LenProperties
  <1>12. PICK x : x = Overlay(d, p, st)
    OBVIOUS
  <1>13. /\ x \in Seq(Byte) /\ Len(x) \in Nat
         /\ Len(x) = IF p + (n + m) > Len(d) THEN p + (n + m) ELSE Len(d)
         /\ \A i \in 1..Len(x) : x[i] = IF p < i /\ i <= p + (n + m) THEN st[i - p]
                                        ELSE IF i <= Len(d) THEN d[i] ELSE Zero
    BY <1>6, <1>7, <1>12, OverlayShape, LenProperties
  <1>14. Len(w) = Len(x)
    <2>1. PICK l \in Nat : l = Len(d)
      BY <1>1
    <2>2. (s = <<>> => q = p) /\ q >= p
      BY <1>1, <1>2, <1>4
    <2> QED BY <1>4, <1>9, <1>11, <1>13, <2>1, <2>2
  <1>15. ASSUME NEW i \in 1..Len(w) PROVE w[i] = x[i]
    <2>1. i \in Nat /\ i >= 1 /\ i \in 1..Len(x)
      BY <1>11, <1>14
    <2>2. CASE q < i /\ i <= q + m
      <3>1. w[i] = t[i - q]
        BY <1>11, <2>2
      <3>2. x[i] = st[i - p]
        BY <1>4, <1>13, <2>1, <2>2
      <3>3. i - p \in 1..(n + m) /\ ~(i - p <= n) /\ i - p - n = i - q
        BY <1>4, <2>1, <2>2
      <3>4. st[i - p] = t[i - p - n]
        BY <1>6, <3>3
      <3> QED BY <3>1, <3>2, <3>3, <3>4
    <2>3. CASE ~(q < i /\ i <= q + m) /\ p < i /\ i <= q
      <3>1. i <= Len(v)
        <4>1. s # <<>>
          BY <1>1, <1>2, <1>4, <2>1, <2>3
        <4> QED BY <1>1, <1>9, <2>1, <2>3, <4>1
      <3>2. w[i] = v[i] /\ v[i] = s[i - p]
        BY <1>9, <1>11, <2>1, <2>3, <3>1
      <3>3. x[i] = st[i - p]
        BY <1>4, <1>13, <2>1, <2>3
      <3>4. i - p \in 1..(n + m) /\ i - p <= n
        BY <1>4, <2>1, <2>3
      <3> QED BY <1>6, <3>2, <3>3, <3>4
    <2>4. CASE ~(q < i /\ i <= q + m) /\ ~(p < i /\ i <= q)
      <3>1. ~(p < i /\ i <= p + (n + m))
        BY <1>4, <2>1, <2>4
      <3>2. x[i] = IF i <= Len(d) THEN d[i] ELSE Zero
        BY <1>13, <2>1, <3>1
      <3>3. w[i] = IF i <= Len(v) THEN v[i] ELSE Zero
        BY <1>11, <2>1, <2>4
      <3>4. i <= Len(v) => v[i] = IF i <= Len(d) THEN d[i] ELSE Zero
        BY <1>9, <2>1, <2>4
      <3>5. i <= Len(d) => i <= Len(v)
        BY <1>1, <1>9, <2>1
      <3> QED BY <3>2, <3>3, <3>4, <3>5
    <2> QED BY <2>2, <2>3, <2>4
  <1>16. w = x
    BY <1>11, <1>13, <1>14, <1>15, SeqEqual
  <1> QED BY <1>2, <1>4, <1>5, <1>8, <1>10, <1>12, <1>16

-----------------------------------------------------------------------------
(* Where a record stands, and what it makes of the file *)

End(x, f, o) == IF "a" \in x.mode THEN Len(f) ELSE o
Stands(x, f, o, op) ==
  IF ~x.bound THEN 0
  ELSE IF ~x.writing THEN o - (Len(Unread(x)) + Len(x.unget))
  ELSE IF x.pos > 0 \/ op = "write" THEN End(x, f, o) + x.pos ELSE o
Holds(x, f, o) ==
  IF x.writing THEN Overlay(f, End(x, f, o), SubSeq(x.buf, 1, x.pos)) ELSE f

LEMMA AtStands == At = Stands(b, file, off, call.op)
  BY DEF At, Stands, Buffered, Target, Appends, End

LEMMA AtStandsNext == At' = Stands(b', file', off', call.op')
  BY DEF At, Stands, Buffered, Target, Appends, End

LEMMA ContentsHolds == Contents = Holds(b, file, off)
  BY DEF Contents, Holds, Target, Appends, End

LEMMA ContentsHoldsNext == Contents' = Holds(b', file', off')
  BY DEF Contents, Holds, Target, Appends, End

-----------------------------------------------------------------------------
(* What a call in progress carries *)

Results ==
  /\ ret \in [val : Int, errs : Nat]
  /\ call.op \in Reads \cup {"write"} => ret.errs = 0 /\ b.bound
  /\ call.op \in {"line", "getc"} => out = <<>>
  /\ call.op = "write" => call.todo # <<>>
  /\ call.op = "read" => call.left > 0
  /\ ~b.bound => b.last = <<>>

LEMMA SamePrepared ==
  ASSUME NEW x \in BioRec, NEW op, NEW z \in Prepared(op, x)
  PROVE  z.bound = x.bound /\ z.mode = x.mode
  <1>1. PICK y : y = [x EXCEPT !.last = <<>>]
    OBVIOUS
  <1>2. y \in BioRec /\ y.bound = x.bound /\ y.mode = x.mode
    BY <1>1, EmptySeq DEF BioRec
  <1>3. \A m \in Merged(y) : m.bound = y.bound /\ m.mode = y.mode
    BY <1>2, SameStream
  <1>4. CASE op = "read"
    BY <1>1, <1>2, <1>4 DEF Prepared
  <1>5. CASE op = "line"
    BY <1>1, <1>2, <1>3, <1>5 DEF Prepared
  <1>6. CASE op \notin {"read", "line"}
    BY <1>6 DEF Prepared
  <1> QED BY <1>4, <1>5, <1>6

LEMMA ResultsIdle ==
  ASSUME call' = NoCall, ret' \in [val : Int, errs : Nat], ~b'.bound => b'.last = <<>>
  PROVE  Results'
  <1>1. call'.op = None /\ None \notin Reads \cup {"write"} /\ None \notin {"line", "getc"}
    BY NoCallShape DEF Reads
  <1>2. None # "write" /\ None # "read"
    BY NoCallShape
  <1> QED BY <1>1, <1>2 DEF Results

LEMMA ResultsShapes ==
  /\ Error \in [val : Int, errs : Nat] /\ Error.errs = 1
  /\ \A n \in Int : /\ Result(n) \in [val : Int, errs : Nat]
                    /\ Result(n).errs = 0 /\ Result(n).val = n
  BY DEF Error, Result

LEMMA ResultsStopped ==
  ASSUME NEW n, NEW val \in Int, NEW keeps, FlushStops(n, val, keeps), ~b'.bound => b'.last = <<>>
  PROVE  Results'
  <1>1. call' = NoCall /\ ret' = [val |-> val, errs |-> 1]
    BY DEF FlushStops
  <1>2. ret' \in [val : Int, errs : Nat]
    BY <1>1
  <1> QED BY <1>1, <1>2, ResultsIdle

LEMMA ResultsFailed ==
  ASSUME NEW val \in Int, NEW keeps, FlushFails(val, keeps), ~b'.bound => b'.last = <<>>
  PROVE  Results'
  <1>1. PICK n \in 0..(b.pos - 1) : FlushStops(n, val, keeps)
    BY DEF FlushFails
  <1> QED BY <1>1, ResultsStopped

LEMMA ResultsRead ==
  ASSUME IInv, Results, NEW op \in Reads, NEW n \in Nat, NEW delim, BeginRead(op, n, delim)
  PROVE  Results'
  <1>0. b \in BioRec /\ b.bound
    BY DEF IInv, TypeInv, BeginRead, CanRead
  <1>1. CASE FlushFails(0, TRUE) /\ UNCHANGED <<b, out>>
    <2>1. FlushFails(0, TRUE)
      BY <1>1
    <2>2. b'.bound
      BY <1>0, <1>1
    <2>3. 0 \in Int
      OBVIOUS
    <2> QED BY <2>1, <2>2, <2>3, ResultsFailed
  <1>2. CASE /\ b' \in Prepared(op, Reading(Flushed(b)))
             /\ call' = IF n = 0 THEN NoCall
                        ELSE [op |-> op, left |-> n, todo |-> <<>>, delim |-> delim]
             /\ out' = <<>> /\ ret' = Result(0)
    <2>1. Flushed(b) \in BioRec /\ Flushed(b).bound
      BY <1>0, FlushedFile, EmptiedHollow, SameStream DEF IInv, TypeInv, Hollow, Flushed
    <2>2. Reading(Flushed(b)) \in BioRec /\ Reading(Flushed(b)).bound
      BY <2>1, SameStream DEF Reading, BioRec
    <2>3. b'.bound
      BY <1>2, <2>2, SamePrepared
    <2>4. CASE n = 0
      BY <1>2, <2>3, <2>4, ResultsIdle, ResultsShapes
    <2>5. CASE n # 0
      <3>1. call'.op = op /\ call'.left = n
        BY <1>2, <2>5
      <3>2. op # "write" /\ n > 0
        BY <2>5 DEF Reads
      <3> QED BY <1>2, <2>3, <3>1, <3>2, ResultsShapes DEF Results
    <2> QED BY <2>4, <2>5
  <1> QED BY <1>1, <1>2 DEF BeginRead

LEMMA ResultsFill == ASSUME IInv, Results, Fill PROVE Results'
  <1>1. b \in BioRec
    BY DEF IInv, TypeInv
  <1>2. b'.bound = b.bound /\ b'.last = b.last
    BY <1>1 DEF Fill, BioRec
  <1> QED BY <1>2 DEF Fill, Results

LEMMA GivenBackSame ==
  ASSUME NEW x \in BioRec, NEW k
  PROVE  /\ GivenBack(x, k).bound = x.bound /\ GivenBack(x, k).mode = x.mode
         /\ GivenBack(x, k).writing = x.writing
  BY DEF BioRec, GivenBack

LEMMA ResultsFillStops == ASSUME IInv, Results, FillStops PROVE Results'
  <1>1. PICK failed \in 0..1, k \in 0..2, complains \in 0..1 :
          LET broken == call.op = "rune" /\ out # <<>>
              empty  == [b EXCEPT !.buf = <<>>, !.pos = 0, !.len = 0]
              stays  == IF failed = 1 \/ call.op = "read" THEN b ELSE empty
              errs   == failed + complains
          IN  /\ b' = IF broken THEN [stays EXCEPT !.last = <<>>] ELSE GivenBack(stays, k)
              /\ ret' = [ret EXCEPT !.errs = errs]
              /\ call' = IF errs = 2 THEN [call EXCEPT !.op = "exit"] ELSE NoCall
    BY DEF FillStops
  <1>2. b \in BioRec /\ b.bound /\ call \in CallRec /\ ret \in [val : Int, errs : Nat]
    BY DEF IInv, TypeInv, Results, FillStops, MustFill
  <1>3. PICK empty : empty = [b EXCEPT !.buf = <<>>, !.pos = 0, !.len = 0]
    OBVIOUS
  <1>4. empty \in BioRec /\ empty.bound
    BY <1>2, <1>3, EmptySeq DEF BioRec
  <1>5. PICK stays : stays = IF failed = 1 \/ call.op = "read" THEN b ELSE empty
    OBVIOUS
  <1>6. stays \in BioRec /\ stays.bound
    BY <1>2, <1>4, <1>5
  <1>7. b' = (IF call.op = "rune" /\ out # <<>> THEN [stays EXCEPT !.last = <<>>]
              ELSE GivenBack(stays, k))
    BY <1>1, <1>3, <1>5
  <1>8. b'.bound
    BY <1>6, <1>7, GivenBackSame DEF BioRec
  <1>9. ret' \in [val : Int, errs : Nat]
    BY <1>1, <1>2
  <1>10. CASE call' = NoCall
    BY <1>8, <1>9, <1>10, ResultsIdle
  <1>11. CASE call' = [call EXCEPT !.op = "exit"]
    <2>1. call'.op = "exit"
      BY <1>2, <1>11 DEF CallRec
    <2> QED BY <1>8, <1>9, <2>1 DEF Results, Reads
  <1> QED BY <1>1, <1>10, <1>11

LEMMA ResultsHand == ASSUME IInv, Results, Hand PROVE Results'
  <1>1. /\ b \in BioRec /\ b.bound /\ call \in CallRec /\ ret \in [val : Int, errs : Nat]
        /\ ret.errs = 0 /\ call.op \in Reads
    BY DEF IInv, TypeInv, Results, Hand
  <1>2. PICK x : x = Popped(Chunk)
    OBVIOUS
  <1>3. x.bound
    <2>1. CASE b.unget # <<>>
      BY <1>1, <1>2, <2>1 DEF Popped, BioRec
    <2>2. CASE b.unget = <<>>
      BY <1>1, <1>2, <2>2 DEF Popped, BioRec
    <2> QED BY <2>1, <2>2
  <1>4. DOMAIN x = DOMAIN b
    BY <1>1, <1>2 DEF Popped
  <1>5. b' = x \/ \E s : b' = [x EXCEPT !.last = s]
    BY <1>2 DEF Hand
  <1>6. b'.bound
    BY <1>1, <1>3, <1>4, <1>5 DEF BioRec
  <1>7. Chunk \in Nat /\ (call.op = "read" => call.left - Chunk \in Nat)
    BY <1>1, ChunkBounds DEF Hand
  <1>8. ret' = [ret EXCEPT !.val = @ + Chunk]
    BY DEF Hand
  <1>9. ret' \in [val : Int, errs : Nat] /\ ret'.errs = 0
    BY <1>1, <1>7, <1>8
  <1>10. PICK got : got = out \o SubSeq(Ready, 1, Chunk)
    OBVIOUS
  <1>11. PICK done : done = CASE call.op = "read" -> call.left = Chunk
                              [] call.op = "rune" -> Full(got)
                              [] OTHER            -> call.op # "num"
    OBVIOUS
  <1>12. call' = IF done THEN NoCall
                 ELSE [call EXCEPT !.left = IF call.op = "read" THEN @ - Chunk ELSE @]
    BY <1>10, <1>11 DEF Hand
  <1>13. CASE call' = NoCall
    BY <1>6, <1>9, <1>13, ResultsIdle
  <1>14. CASE ~done
    <2>1. call.op \in {"read", "rune", "num"}
      BY <1>1, <1>11, <1>14 DEF Reads
    <2>2. call'.op = call.op /\ (call.op = "read" => call'.left = call.left - Chunk)
      BY <1>1, <1>12, <1>14 DEF CallRec
    <2>3. call.op = "read" => call.left # Chunk
      BY <1>11, <1>14
    <2>4. call.op = "read" => call'.left > 0
      BY <1>1, <1>7, <2>2, <2>3 DEF CallRec
    <2>5. call'.op \notin {"line", "getc", "write"}
      BY <2>1, <2>2
    <2> QED BY <1>6, <1>9, <2>2, <2>4, <2>5 DEF Results
  <1> QED BY <1>12, <1>13, <1>14

LEMMA ResultsNumEnds == ASSUME IInv, Results, NumEnds PROVE Results'
  <1>1. PICK k \in 1..3, errs \in 0..1 : b' = GivenBack(b, k) /\ ret' = [ret EXCEPT !.errs = errs]
    BY DEF NumEnds
  <1>2. call.op \in Reads /\ call' = NoCall
    BY DEF NumEnds, Reads
  <1>3. b \in BioRec /\ b.bound /\ ret \in [val : Int, errs : Nat]
    BY <1>2 DEF IInv, TypeInv, Results
  <1>4. b'.bound
    BY <1>1, <1>3, GivenBackSame
  <1>5. ret' \in [val : Int, errs : Nat]
    BY <1>1, <1>3
  <1> QED BY <1>2, <1>4, <1>5, ResultsIdle

LEMMA ResultsUnget == ASSUME IInv, Results, NEW rune, Unget(rune) PROVE Results'
  <1>1. call' = NoCall /\ ret' = ret /\ b \in BioRec
    BY DEF Unget, Idle, IInv, TypeInv
  <1>2. b'.last = <<>>
    BY <1>1 DEF Unget, BioRec
  <1> QED BY <1>1, <1>2, ResultsIdle DEF Results

LEMMA ResultsWrite == ASSUME IInv, Results, NEW s \in Texts, BeginWrite(s) PROVE Results'
  <1>1. b \in BioRec /\ b.bound /\ ret' = Result(0)
    BY DEF BeginWrite, CanWrite, IInv, TypeInv
  <1>2. b'.bound
    <2>1. CASE b.writing
      BY <1>1, <2>1 DEF BeginWrite, BioRec
    <2>2. CASE ~b.writing
      BY <1>1, <2>2 DEF BeginWrite, BioRec, Emptied
    <2> QED BY <2>1, <2>2
  <1>3. CASE s = <<>>
    BY <1>1, <1>2, <1>3, ResultsIdle, ResultsShapes DEF BeginWrite
  <1>4. CASE s # <<>>
    <2>1. call' = [NoCall EXCEPT !.op = "write", !.todo = s]
      BY <1>4 DEF BeginWrite
    <2>2. call'.op = "write" /\ call'.todo = s
      BY <2>1 DEF NoCall
    <2> QED BY <1>1, <1>2, <1>4, <2>2, ResultsShapes DEF Results
  <1> QED BY <1>3, <1>4

LEMMA ResultsWriteOn == ASSUME IInv, Results, WriteOn PROVE Results'
  <1>1. /\ b \in BioRec /\ b.bound /\ call \in CallRec /\ ret \in [val : Int, errs : Nat]
        /\ ret.errs = 0 /\ call.op = "write" /\ out' = out
    BY DEF IInv, TypeInv, Results, WriteOn
  <1>2. PICK m \in Nat, p \in Nat : /\ m = Len(call.todo) /\ p = b.pos /\ p < BufSize
                                    /\ call.todo \in Seq(Byte)
    BY <1>1, LenProperties DEF CallRec, BioRec, WriteOn
  <1>3. PICK n \in Nat : n = Smaller(m, BufSize - p) /\ n <= m
    BY <1>2, BioAssumption DEF Smaller, BioAssumption
  <1>4. /\ \E s, q : b' = [b EXCEPT !.buf = s, !.pos = q]
        /\ call' = IF n = m THEN NoCall
                   ELSE [call EXCEPT !.todo = SubSeq(call.todo, n + 1, m)]
        /\ ret' = [ret EXCEPT !.val = @ + n]
    BY <1>2, <1>3 DEF WriteOn
  <1>5. b'.bound
    BY <1>1, <1>4 DEF BioRec
  <1>6. ret' \in [val : Int, errs : Nat] /\ ret'.errs = 0
    BY <1>1, <1>3, <1>4
  <1>7. CASE n = m
    BY <1>4, <1>5, <1>6, <1>7, ResultsIdle
  <1>8. CASE n # m
    <2>1. call'.op = "write" /\ call'.todo = SubSeq(call.todo, n + 1, m)
      BY <1>1, <1>4, <1>8 DEF CallRec
    <2>2. Len(SubSeq(call.todo, n + 1, m)) = m - n
      <3>1. \A i \in (n + 1)..m : call.todo[i] \in Byte
        BY <1>2, <1>3, ElementOfSeq
      <3> QED BY <1>2, <1>3, <1>8, <3>1, SubSeqProperties
    <2>3. Len(call'.todo) # 0
      BY <1>3, <1>8, <2>1, <2>2
    <2>4. call'.todo # <<>>
      BY <2>3, EmptySeq
    <2> QED BY <1>5, <1>6, <2>1, <2>4 DEF Results, Reads
  <1> QED BY <1>7, <1>8

LEMMA ResultsWriteOut == ASSUME IInv, Results, WriteOut PROVE Results'
  <1>1. b \in BioRec /\ b.bound /\ ret \in [val : Int, errs : Nat] /\ out' = out
    BY DEF IInv, TypeInv, Results, WriteOut
  <1>2. CASE FlushFails(ret.val, TRUE) /\ UNCHANGED b
    <2>1. ret.val \in Int /\ b'.bound
      BY <1>1, <1>2
    <2>2. FlushFails(ret.val, TRUE)
      BY <1>2
    <2> QED BY <2>1, <2>2, ResultsFailed
  <1>3. CASE b' = Emptied(b) /\ UNCHANGED <<call, ret, sure>>
    <2>1. b'.bound
      BY <1>1, <1>3, SameStream
    <2> QED BY <1>1, <1>3, <2>1 DEF Results
  <1> QED BY <1>2, <1>3 DEF WriteOut

LEMMA ResultsSeek ==
  ASSUME IInv, Results, NEW amount \in Int, NEW from, Seek(amount, from) PROVE Results'
  <1>1. b \in BioRec /\ b.bound
    BY DEF IInv, TypeInv, Seek
  <1>2. CASE FlushFails(0, TRUE) /\ UNCHANGED b
    <2>1. FlushFails(0, TRUE)
      BY <1>2
    <2>2. b'.bound
      BY <1>1, <1>2
    <2>3. 0 \in Int
      OBVIOUS
    <2> QED BY <2>1, <2>2, <2>3, ResultsFailed
  <1>3. CASE /\ SeekTo(amount, from) \in 0..MaxFile /\ off' = SeekTo(amount, from)
             /\ b' = Reading(Emptied(b)) /\ ret' = Result(off') /\ UNCHANGED call
    <2>1. call' = NoCall
      BY <1>3 DEF Seek, Idle
    <2>2. PICK o \in Int : o = off'
      BY <1>3
    <2>3. ret' \in [val : Int, errs : Nat]
      BY <1>3, <2>2, ResultsShapes
    <2>4. Emptied(b) \in BioRec /\ Emptied(b).bound
      BY <1>1, SameStream, EmptiedHollow DEF Hollow
    <2>5. b'.bound
      BY <1>3, <2>4, SameStream
    <2> QED BY <2>1, <2>3, <2>5, ResultsIdle
  <1> QED BY <1>2, <1>3 DEF Seek

LEMMA FlushedRec ==
  ASSUME IInv
  PROVE  /\ Flushed(b) \in BioRec /\ Flushed(b).bound = b.bound
         /\ Reading(Flushed(b)) \in BioRec /\ Reading(Flushed(b)).bound = b.bound
         /\ Emptied(b) \in BioRec /\ Reading(Emptied(b)) \in BioRec
         /\ (b.last = <<>> => Flushed(b).last = <<>>)
  <1>1. b \in BioRec
    BY DEF IInv, TypeInv
  <1>2. /\ Emptied(b) \in BioRec /\ Reading(Emptied(b)) \in BioRec
    BY <1>1, EmptiedHollow DEF Hollow
  <1>3. Flushed(b) \in BioRec /\ Flushed(b).bound = b.bound
    BY <1>1, <1>2, SameStream DEF Flushed
  <1>4. Reading(Flushed(b)) \in BioRec /\ Reading(Flushed(b)).bound = b.bound
    BY <1>3, SameStream DEF Reading, BioRec
  <1>5. b.last = <<>> => Flushed(b).last = <<>>
    <2>1. Emptied(b).last = <<>>
      BY <1>1 DEF Emptied, BioRec
    <2> QED BY <2>1 DEF Flushed
  <1> QED BY <1>2, <1>3, <1>4, <1>5

LEMMA ResultsSeekRefused ==
  ASSUME IInv, Results, NEW amount, NEW from, SeekRefused(amount, from) PROVE Results'
  <1>1. /\ b.bound /\ call' = NoCall /\ ret' = Error
        /\ b' = IF from = 2 THEN Reading(Flushed(b)) ELSE Flushed(b)
    BY DEF SeekRefused, Idle
  <1>2. b'.bound
    BY <1>1, FlushedRec
  <1> QED BY <1>1, <1>2, ResultsShapes, ResultsIdle

LEMMA ResultsSame ==
  ASSUME IInv, Results, Careful, Refused \/ Tell PROVE Results'
  <1>1. call' = NoCall /\ b' = b
    BY DEF Refused, Tell, Idle
  <1>2. CASE Refused
    BY <1>1, <1>2, ResultsShapes, ResultsIdle DEF Refused, Results
  <1>3. CASE Tell
    <2>1. off \in Nat /\ b.pos \in Nat /\ sure
      BY <1>3 DEF IInv, TypeInv, BioRec, Tell, Avoided
    <2>2. Offset \in Int
      BY <2>1, BackOverWaiting DEF Offset
    <2>3. ret' \in [val : Int, errs : Nat]
      BY <1>3, <2>2, ResultsShapes DEF Tell
    <2> QED BY <1>1, <2>3, ResultsIdle DEF Results
  <1> QED BY <1>2, <1>3

LEMMA ResultsClosed ==
  ASSUME Results, NEW keeps,
         \/ ret' = Result(0) /\ UNCHANGED call
         \/ \E n : FlushStops(n, 0, keeps),
         Idle, ~b'.bound => b'.last = <<>>
  PROVE  Results'
  <1>1. CASE ret' = Result(0) /\ UNCHANGED call
    <2>1. call' = NoCall
      BY <1>1 DEF Idle
    <2> QED BY <1>1, <2>1, ResultsShapes, ResultsIdle
  <1>2. CASE \E n : FlushStops(n, 0, keeps)
    <2>1. PICK n : FlushStops(n, 0, keeps)
      BY <1>2
    <2> QED BY <2>1, ResultsStopped
  <1> QED BY <1>1, <1>2

LEMMA ResultsFlush == ASSUME IInv, Results, Flush PROVE Results'
  <1>1. b \in BioRec /\ Idle
    BY DEF IInv, TypeInv, Flush
  <1>2. CASE b' = Reading(Flushed(b)) /\ ret' = Result(0) /\ UNCHANGED call
    <2>1. b'.bound = b.bound
      BY <1>2, FlushedRec
    <2>2. Flushed(b).last = <<>> => b'.last = <<>>
      BY <1>2, FlushedRec, SameStream
    <2> QED BY <1>1, <1>2, <2>1, <2>2, FlushedRec, ResultsClosed DEF Results
  <1>3. CASE FlushFails(0, FALSE) /\ b' = Reading(b)
    <2>1. b'.bound = b.bound /\ b'.last = b.last
      BY <1>1, <1>3, SameStream
    <2>2. FlushFails(0, FALSE)
      BY <1>3
    <2>3. 0 \in Int /\ (~b'.bound => b'.last = <<>>)
      BY <2>1 DEF Results
    <2> QED BY <2>2, <2>3, ResultsFailed
  <1> QED BY <1>2, <1>3 DEF Flush

LEMMA ClosedRec ==
  ASSUME IInv, NEW bound \in BOOLEAN, NEW mode \in SUBSET {"r", "w", "a"},
         NEW y, y = Reading(Emptied(b)), NEW x, x = [y EXCEPT !.bound = bound, !.mode = mode]
  PROVE  Hollow(x) /\ x.bound = bound
  <1>1. Hollow(y)
    <2>1. b \in BioRec
      BY DEF IInv, TypeInv
    <2> QED BY <2>1, EmptiedHollow
  <1> QED BY <1>1 DEF Hollow, BioRec

LEMMA ResultsClose == ASSUME IInv, Results, Close PROVE Results'
  <1>1. b \in BioRec /\ Idle /\ b' = [Reading(Emptied(b)) EXCEPT !.bound = FALSE]
    BY DEF IInv, TypeInv, Close
  <1>2. b'.last = <<>>
    BY <1>1 DEF BioRec, Emptied, Reading
  <1> QED BY <1>1, <1>2, ResultsClosed DEF Close, FlushFails

LEMMA ResultsBind == ASSUME IInv, Results, NEW mode \in Modes, Bind(mode) PROVE Results'
  <1>1. /\ b \in BioRec /\ Idle
        /\ b' = [Reading(Emptied(b)) EXCEPT !.bound = TRUE, !.mode = mode]
    BY DEF IInv, TypeInv, Bind
  <1>2. b'.last = <<>>
    BY <1>1 DEF BioRec, Emptied, Reading
  <1> QED BY <1>1, <1>2, ResultsClosed DEF Bind

LEMMA ResultsInit == Init => Results
  BY NoCallShape, ResultsShapes DEF Init, Results, Reads

-----------------------------------------------------------------------------
(* The steps of a stream are steps of Stream *)

LEMMA SureStep ==
  ASSUME sure' = sure, sure => Position!Sure PROVE Position!Next
  <1>1. CASE sure
    BY <1>1 DEF Position!Next
  <1>2. CASE ~sure
    BY <1>2 DEF Position!Next, Position!Lose
  <1> QED BY <1>1, <1>2

LEMMA LostStep ==
  ASSUME ~sure', ret'.errs = 1, call' = NoCall PROVE Position!Next
  BY NoCallShape DEF Position!Next, Position!Lose, Position!Idle_

LEMMA FailStep ==
  ASSUME call' = NoCall, ret'.errs = 1, Contents' = Contents, At' = At, Appends' = Appends
  PROVE  Position!Fail
  BY NoCallShape DEF Position!Fail, Position!Idle_

LEMMA BeginStep ==
  ASSUME Idle, out' = <<>>, ret' = Result(0), Contents' = Contents, Appends' = Appends,
         At' = IF Appends /\ call'.todo # <<>> THEN Len(Contents) ELSE At
  PROVE  Position!Begin
  BY NoCallShape, ResultsShapes DEF Position!Begin, Position!Idle, Position!Quiet, Idle

LEMMA SeekStep ==
  ASSUME Idle, call' = NoCall, NEW n \in Int, ret' = Result(n), At' = n,
         Contents' = Contents, Appends' = Appends
  PROVE  Position!Seek /\ Position!Recover
  BY NoCallShape, ResultsShapes
     DEF Position!Seek, Position!Recover, Position!Idle, Position!Idle_, Position!Quiet, Idle

LEMMA BindStep ==
  ASSUME Idle, call' = NoCall, ret' = Result(0), At' = 0, Contents' = Contents
  PROVE  Position!Bind /\ Position!Recover
  BY NoCallShape, ResultsShapes
     DEF Position!Bind, Position!Recover, Position!Idle, Position!Idle_, Position!Quiet, Idle

-----------------------------------------------------------------------------
(* Where a record stands *)

LEMMA ContentsNew == Contents = NewFile
  BY DEF Contents, NewFile, Output

LEMMA StandsReading ==
  ASSUME NEW x \in BioRec, x.bound, ~x.writing, x.pos <= x.len, x.len = Len(x.buf),
         NEW f, NEW o \in Nat, NEW op
  PROVE  Stands(x, f, o, op) = Place(x, o) /\ Holds(x, f, o) = f
  <1>1. Len(Waits(x)) = Len(x.unget) + Len(Unread(x))
    BY BytesWaiting
  <1>2. Len(x.unget) \in Nat /\ Len(Unread(x)) \in Nat
    <2>1. Unread(x) \in Seq(Byte) /\ x.unget \in Seq(Byte)
      BY BytesWaiting DEF BioRec
    <2> QED BY <2>1, LenProperties
  <1> QED BY <1>1, <1>2 DEF Stands, Holds, Place

LEMMA StandsHollow ==
  ASSUME NEW x, Hollow(x), NEW f \in Seq(Byte), NEW o \in Nat, NEW op
  PROVE  /\ Holds(x, f, o) = f
         /\ ~x.bound => Stands(x, f, o, op) = 0
         /\ x.bound /\ op # "write" => Stands(x, f, o, op) = o
         /\ x.bound /\ op = "write" /\ x.writing => Stands(x, f, o, op) = End(x, f, o)
  <1>1. x \in BioRec /\ x.buf = <<>> /\ x.pos = 0 /\ x.len = 0 /\ x.unget = <<>>
    BY DEF Hollow
  <1>2. <<>> \in Seq(Byte) /\ Len(<<>>) = 0 /\ Len(f) \in Nat
    BY EmptySeq, LenProperties
  <1>3. End(x, f, o) \in Nat
    BY <1>2 DEF End
  <1>4. SubSeq(x.buf, 1, x.pos) = <<>>
    BY <1>1, SubSeqEmpty
  <1>5. Holds(x, f, o) = f
    BY <1>3, <1>4, OverlayNothing DEF Holds
  <1>6. Unread(x) = <<>>
    BY <1>1, SubSeqEmpty DEF Unread
  <1>7. ~x.writing /\ x.bound => Stands(x, f, o, op) = o
    BY <1>1, <1>2, <1>6 DEF Stands
  <1>8. x.writing /\ x.bound /\ op # "write" => Stands(x, f, o, op) = o
    BY <1>1 DEF Stands
  <1>9. x.writing /\ x.bound /\ op = "write" => Stands(x, f, o, op) = End(x, f, o)
    BY <1>1, <1>3 DEF Stands
  <1> QED BY <1>5, <1>7, <1>8, <1>9 DEF Stands

LEMMA HollowPlace ==
  ASSUME NEW x, Hollow(x), NEW o \in Nat PROVE Place(x, o) = o
  <1>1. x \in BioRec /\ x.pos = x.len /\ x.len = Len(x.buf) /\ x.pos \in Nat /\ x.unget = <<>>
    BY EmptySeq DEF Hollow
  <1>2. Waits(x) = <<>>
    BY <1>1, BytesWaiting
  <1> QED BY <1>2, EmptySeq DEF Place

\* Between calls, and in one that reads.
LEMMA AtNow ==
  ASSUME IInv, b.bound, call.op # "write"
  PROVE  /\ b.writing => At = NewOff
         /\ sure /\ ~b.writing => At = Place(b, off) /\ off - Buffered(b) = Place(b, off)
  <1>1. /\ b \in BioRec /\ b.pos \in Nat /\ off \in Nat /\ file \in Seq(Byte)
    BY DEF IInv, TypeInv, BioRec
  <1>2. CASE b.writing
    BY <1>1, <1>2 DEF At, NewOff, After
  <1>3. CASE sure /\ ~b.writing
    <2>1. b.pos <= b.len /\ b.len = Len(b.buf)
      BY <1>3 DEF IInv, InFile
    <2>2. Stands(b, file, off, call.op) = Place(b, off)
      BY <1>1, <1>3, <2>1, StandsReading
    <2>3. At = off - Buffered(b)
      BY <1>3 DEF At
    <2> QED BY <1>3, <2>2, <2>3, AtStands
  <1> QED BY <1>2, <1>3

\* Output that is put off, of which the file has got nothing.
LEMMA FlushFailsStep ==
  ASSUME IInv, NEW val, FlushFails(val, TRUE), b' = b PROVE Position!Next
  <1>1. PICK n \in 0..(b.pos - 1) : FlushStops(n, val, TRUE) /\ off' = After(n)
    BY DEF FlushFails
  <1>2. /\ b \in BioRec /\ b.pos \in Nat /\ off \in Nat /\ file \in Seq(Byte)
        /\ sure \in BOOLEAN /\ b.writing /\ b.pos > 0
    BY <1>1 DEF IInv, TypeInv, BioRec, FlushStops
  <1>3. /\ call' = NoCall /\ ret'.errs = 1 /\ file' = Output(n) /\ sure' = (sure /\ n = 0)
    BY <1>1, <1>2 DEF FlushStops
  <1>4. CASE n # 0
    BY <1>3, <1>4, LostStep
  <1>5. CASE n = 0
    <2>1. Target \in Nat /\ Len(file) \in Nat
      BY <1>2, LenProperties DEF Target
    <2>2. file' = file
      <3>1. SubSeq(b.buf, 1, 0) = <<>>
        BY SubSeqEmpty
      <3> QED BY <1>3, <1>5, <2>1, <3>1, <1>2, OverlayNothing DEF Output
    <2>3. off' = Target
      <3>1. After(0) = Target
        BY <1>2, <2>1 DEF After
      <3> QED BY <1>1, <1>5, <3>1
    <2>4. End(b, file, Target) = Target /\ End(b, file, off) = Target
      BY DEF End, Target, Appends
    <2>5. Contents' = Contents
      <3>1. Contents' = Holds(b, file, Target)
        BY <2>2, <2>3, ContentsHoldsNext
      <3>2. Holds(b, file, Target) = Holds(b, file, off)
        BY <2>4 DEF Holds
      <3> QED BY <3>1, <3>2, ContentsHolds
    <2>6. At' = At
      <3>1. At' = Stands(b, file, Target, call'.op)
        BY <2>2, <2>3, AtStandsNext
      <3>2. Stands(b, file, Target, call'.op) = Stands(b, file, off, call.op)
        BY <1>2, <2>4 DEF Stands
      <3> QED BY <3>1, <3>2, AtStands
    <2>7. Appends' = Appends
      BY DEF Appends
    <2>8. sure' = sure
      BY <1>2, <1>3, <1>5
    <2>9. Position!Fail
      BY <1>3, <2>5, <2>6, <2>7, FailStep
    <2> QED BY <2>8, <2>9, SureStep DEF Position!Sure
  <1> QED BY <1>4, <1>5

-----------------------------------------------------------------------------
(* Reading *)

LEMMA ReadStep ==
  ASSUME IInv, Careful, NEW op \in Reads, NEW n \in Nat, NEW delim, BeginRead(op, n, delim)
  PROVE  Position!Next
  <1>1. sure /\ Idle /\ call.op = None /\ b.bound /\ b \in BioRec
    BY NoCallShape DEF BeginRead, Avoided, Idle, CanRead, IInv, TypeInv
  <1>2. CASE FlushFails(0, TRUE) /\ UNCHANGED <<b, out>>
    <2>1. FlushFails(0, TRUE)
      BY <1>2
    <2> QED BY <1>2, <2>1, FlushFailsStep
  <1>3. CASE /\ FlushOk /\ file' = NewFile /\ off' = NewOff
             /\ b' \in Prepared(op, Reading(Flushed(b)))
             /\ call' = IF n = 0 THEN NoCall
                        ELSE [op |-> op, left |-> n, todo |-> <<>>, delim |-> delim]
             /\ out' = <<>> /\ ret' = Result(0)
             /\ UNCHANGED sure
    <2>1. NewFile \in Seq(Byte) /\ NewOff \in Nat
      BY FlushedFile
    <2>2. PICK x : x = Reading(Flushed(b))
      OBVIOUS
    <2>3. /\ x \in BioRec /\ x.pos <= x.len /\ x.len = Len(x.buf) /\ ~x.writing
          /\ x.bound /\ x.mode = b.mode /\ Place(x, NewOff) = At
      <3>1. CASE b.writing
        <4>1. x = Reading(Emptied(b))
          BY <2>2, <3>1, FlushedFile
        <4>2. Hollow(x) /\ ~x.writing
          BY <1>1, <4>1, EmptiedHollow
        <4>3. /\ x \in BioRec /\ x.pos <= x.len /\ x.len = Len(x.buf)
          BY <4>2, EmptySeq DEF Hollow
        <4>4. x.bound /\ x.mode = b.mode
          <5>1. Emptied(b) \in BioRec
            BY FlushedRec
          <5> QED BY <1>1, <4>1, <5>1, SameStream
        <4>5. Place(x, NewOff) = NewOff
          BY <2>1, <4>2, HollowPlace
        <4>6. At = NewOff
          BY <1>1, <3>1, NoCallShape, AtNow
        <4> QED BY <4>2, <4>3, <4>4, <4>5, <4>6
      <3>2. CASE ~b.writing
        <4>1. x = b /\ NewOff = off
          BY <1>1, <2>2, <3>2, FlushedFile, ReadingSame
        <4>2. b.pos <= b.len /\ b.len = Len(b.buf)
          BY <1>1, <3>2 DEF IInv, InFile
        <4>3. At = Place(b, off)
          BY <1>1, <3>2, NoCallShape, AtNow
        <4> QED BY <1>1, <3>2, <4>1, <4>2, <4>3
      <3> QED BY <3>1, <3>2
    <2>4. PICK y \in Prepared(op, x) : b' = y
      BY <1>3, <2>2
    <2>5. /\ y \in BioRec /\ Waits(y) = Waits(x) /\ y.pos <= y.len /\ y.len = Len(y.buf)
          /\ ~y.writing /\ y.bound /\ y.mode = b.mode
      <3>1. op = "line" /\ x.unget # <<>> => Len(Waits(x)) <= BufSize
        BY <2>2, ReadFrom
      <3> QED BY <2>3, <3>1, PreparedWaits
    <2>6. b' = y
      BY <2>4
    <2>7. Stands(y, NewFile, NewOff, call'.op) = At
      <3>1. Stands(y, NewFile, NewOff, call'.op) = Place(y, NewOff)
        BY <2>1, <2>5, StandsReading
      <3>2. Place(y, NewOff) = Place(x, NewOff)
        BY <2>5 DEF Place
      <3> QED BY <2>3, <3>1, <3>2
    <2>8. At' = At
      BY <1>3, <2>6, <2>7, AtStandsNext
    <2>9. Contents' = Contents
      <3>1. Holds(y, NewFile, NewOff) = NewFile
        BY <2>5 DEF Holds
      <3> QED BY <1>3, <2>6, <3>1, ContentsHoldsNext, ContentsNew
    <2>10. Appends' = Appends
      BY <2>5, <2>6 DEF Appends
    <2>11. call'.todo = <<>>
      BY <1>3 DEF NoCall
    <2>12. Position!Begin
      BY <1>1, <1>3, <2>8, <2>9, <2>10, <2>11, BeginStep
    <2> QED BY <1>3, <2>12, SureStep DEF Position!Sure
  <1> QED BY <1>2, <1>3 DEF BeginRead

\* A read of the file that the caller does not see.
LEMMA FillStep == ASSUME IInv, Results, Fill PROVE UNCHANGED Position!vars
  <1>1. call.op \in Reads /\ b.unget = <<>> /\ Drained
    BY DEF Fill, MustFill
  <1>2. sure /\ ~b.writing /\ b.bound /\ b \in BioRec /\ off \in Nat /\ file \in Seq(Byte)
    BY <1>1, NoCallShape DEF IInv, Calls, Results, TypeInv
  <1>3. PICK n \in 1..BufSize :
          /\ off + n <= Len(file)
          /\ b' = [b EXCEPT !.buf = SubSeq(file, off + 1, off + n), !.pos = 0, !.len = n]
          /\ off' = off + n
    BY DEF Fill
  <1>4. PICK s : s = SubSeq(file, off + 1, off + n)
    OBVIOUS
  <1>5. n \in Nat /\ s \in Seq(Byte) /\ Len(s) = n
    <2>1. n \in Nat
      BY BioAssumption DEF BioAssumption
    <2> QED BY <1>2, <1>3, <1>4, <2>1, EndsRead
  <1>6. PICK y : y = [b EXCEPT !.buf = s, !.pos = 0, !.len = n]
    OBVIOUS
  <1>7. /\ y \in BioRec /\ y.bound /\ y.mode = b.mode /\ y.last = b.last
        /\ y.pos = 0 /\ y.len = n /\ y.buf = s /\ y.unget = <<>>
    BY <1>1, <1>2, <1>5, <1>6 DEF BioRec
  <1>8. ~y.writing
    BY <1>2, <1>6 DEF BioRec
  <1>9. b.pos <= b.len /\ b.len = Len(b.buf) /\ b.pos \in Nat /\ b.len \in Nat
    BY <1>2 DEF IInv, InFile, BioRec
  <1>10. b.pos = b.len
    BY <1>1, <1>9 DEF Drained
  <1>11. Place(b, off) = off
    <2>1. Waits(b) = <<>>
      BY <1>1, <1>2, <1>9, <1>10, BytesWaiting
    <2> QED BY <1>2, <2>1, EmptySeq DEF Place
  <1>12. Place(y, off + n) = off
    <2>1. y.pos <= y.len /\ y.len = Len(y.buf)
      BY <1>5, <1>7
    <2>2. Len(Waits(y)) = n
      BY <1>5, <1>7, <2>1, BytesWaiting
    <2> QED BY <1>2, <1>5, <2>2 DEF Place
  <1>13. b' = y /\ off' = off + n /\ UNCHANGED <<file, call, out, ret, sure>>
    BY <1>3, <1>4, <1>6 DEF Fill
  <1>14. At' = At
    <2>0. y.pos <= y.len /\ y.len = Len(y.buf) /\ off + n \in Nat
      BY <1>2, <1>5, <1>7
    <2>1. Stands(y, file, off + n, call.op) = off
      BY <1>7, <1>8, <1>12, <2>0, StandsReading
    <2>2. Stands(b, file, off, call.op) = off
      BY <1>2, <1>9, <1>11, StandsReading
    <2> QED BY <1>13, <2>1, <2>2, AtStands, AtStandsNext
  <1>15. Contents' = Contents
    BY <1>2, <1>7, <1>8, <1>13 DEF Contents
  <1>16. Appends' = Appends /\ b'.last = b.last
    BY <1>7, <1>13 DEF Appends
  <1> QED BY <1>13, <1>14, <1>15, <1>16 DEF Position!vars

\* Bytes given back move the position back.
LEMMA GivenBackPlace ==
  ASSUME NEW x \in BioRec, x.pos <= x.len, x.len = Len(x.buf), NEW o \in Nat,
         out \in Seq(Byte), NEW k \in 0..Len(out), NEW y, y = GivenBack(x, k)
  PROVE  /\ y \in BioRec /\ y.pos <= y.len /\ y.len = Len(y.buf)
         /\ y.writing = x.writing /\ y.bound = x.bound /\ y.mode = x.mode
         /\ Place(y, o) = Place(x, o) - k
  <1>1. y.writing = x.writing /\ y.bound = x.bound /\ y.mode = x.mode
    BY GivenBackSame
  <1>2. Place(x, o) \in Int /\ Len(Waits(x)) \in Nat
    <2>1. PICK m \in Nat : m = Len(Waits(x))
      BY BytesWaiting
    <2> QED BY <2>1 DEF Place
  <1>3. CASE k = 0
    <2>1. y = x
      BY <1>3 DEF GivenBack
    <2> QED BY <1>1, <1>2, <1>3, <2>1
  <1>4. CASE k # 0
    <2>1. PICK n \in Nat : n = Len(out) /\ k \in 0..n
      BY LenProperties
    <2>2. PICK s : s = SubSeq(out, n - k + 1, n)
      OBVIOUS
    <2>3. s \in Seq(Byte) /\ Len(s) = k
      <3>1. \A i \in (n - k + 1)..n : i \in 1..n
        BY <2>1
      <3>2. \A i \in (n - k + 1)..n : out[i] \in Byte
        BY <2>1, <3>1, ElementOfSeq
      <3>3. /\ s \in Seq(Byte)
            /\ Len(s) = IF n - k + 1 <= n THEN n - (n - k + 1) + 1 ELSE 0
        BY <2>1, <2>2, <3>2, SubSeqProperties
      <3> QED BY <1>4, <2>1, <3>3
    <2>4. y = [x EXCEPT !.unget = s \o @, !.last = <<>>]
      BY <1>4, <2>1, <2>2 DEF GivenBack
    <2>5. x.unget \in Seq(Byte) /\ Unread(x) \in Seq(Byte) /\ <<>> \in Seq(Byte)
      BY BytesWaiting, EmptySeq DEF BioRec
    <2>6. PICK g \in Seq(Byte), h \in Seq(Byte), r \in Seq(Byte) :
            g = x.unget /\ h = Unread(x) /\ r = s
      BY <2>3, <2>5
    <2>7. /\ r \o g \in Seq(Byte) /\ Len(r \o g) = Len(r) + Len(g)
          /\ Len(r) \in Nat /\ Len(g) \in Nat /\ Len(h) \in Nat
      BY ConcatProperties, LenProperties
    <2>8. /\ y \in BioRec /\ y.unget = r \o g /\ y.buf = x.buf /\ y.pos = x.pos /\ y.len = x.len
      BY <2>4, <2>5, <2>6, <2>7 DEF BioRec
    <2>9. y.pos <= y.len /\ y.len = Len(y.buf)
      BY <2>8
    <2>10. Unread(y) = h
      BY <2>6, <2>8 DEF Unread
    <2>11. Len(Waits(y)) = Len(r) + Len(g) + Len(h) /\ Len(Waits(x)) = Len(g) + Len(h)
      <3>1. Len(Waits(y)) = Len(y.unget) + Len(Unread(y))
        BY <2>8, <2>9, BytesWaiting
      <3>2. Len(Waits(x)) = Len(x.unget) + Len(Unread(x))
        BY BytesWaiting
      <3> QED BY <2>6, <2>7, <2>8, <2>10, <3>1, <3>2
    <2>12. Place(y, o) = Place(x, o) - k
      <3>1. PICK c \in Nat, d \in Nat : c = Len(g) /\ d = Len(h) /\ k = Len(r)
        BY <2>3, <2>6, <2>7
      <3>2. o - (k + c + d) = o - (c + d) - k
        BY ONLY c \in Nat, d \in Nat, o \in Nat, k \in Int, <2>1
      <3> QED BY <2>11, <3>1, <3>2 DEF Place
    <2> QED BY <1>1, <2>8, <2>9, <2>12
  <1> QED BY <1>3, <1>4

\* What the position is while a call reads, and what a reader's record becomes.
LEMMA ReadingNow ==
  ASSUME IInv, Results, call.op \in Reads
  PROVE  /\ sure /\ ~b.writing /\ b.bound /\ b \in BioRec /\ off \in Nat /\ file \in Seq(Byte)
         /\ out \in Seq(Byte) /\ b.pos <= b.len /\ b.len = Len(b.buf)
         /\ ret \in [val : Int, errs : Nat] /\ ret.errs = 0
         /\ call.op # None /\ call.op # "write"
         /\ At = Place(b, off) /\ Contents = file
  <1>1. sure /\ ~b.writing /\ call.op # None /\ call.op # "write"
    BY NoCallShape DEF IInv, Calls, Reads
  <1>2. /\ b.bound /\ b \in BioRec /\ off \in Nat /\ file \in Seq(Byte) /\ out \in Seq(Byte)
        /\ ret \in [val : Int, errs : Nat] /\ ret.errs = 0
    BY DEF IInv, TypeInv, Results
  <1>3. b.pos <= b.len /\ b.len = Len(b.buf)
    BY <1>1 DEF IInv, InFile
  <1> QED BY <1>1, <1>2, <1>3, AtNow DEF Contents

LEMMA ReadingThen ==
  ASSUME NEW y \in BioRec, y.bound, ~y.writing, y.pos <= y.len, y.len = Len(y.buf),
         y.mode = b.mode, b' = y, file' = file, off' = off, off \in Nat, Contents = file
  PROVE  At' = Place(y, off) /\ Contents' = Contents /\ Appends' = Appends
  <1>1. Stands(y, file, off, call'.op) = Place(y, off) /\ Holds(y, file, off) = file
    BY StandsReading
  <1>2. At' = Place(y, off)
    BY <1>1, AtStandsNext
  <1>3. Contents' = file
    BY <1>1, ContentsHoldsNext
  <1> QED BY <1>2, <1>3 DEF Appends

LEMMA FillStopsStep == ASSUME IInv, Results, FillStops PROVE Position!Next
  <1>1. PICK failed \in 0..1, k \in 0..2, complains \in 0..1 :
          LET broken == call.op = "rune" /\ out # <<>>
              empty  == [b EXCEPT !.buf = <<>>, !.pos = 0, !.len = 0]
              stays  == IF failed = 1 \/ call.op = "read" THEN b ELSE empty
              errs   == failed + complains
          IN  /\ failed = 0 => off >= Len(file)
              /\ call.op # "num" => k = 0 /\ complains = IF broken THEN 1 ELSE 0
              /\ call.op = "num" => k <= Len(out) /\ errs <= 1 /\ (errs = 0 => out # <<>>)
              /\ b' = IF broken THEN [stays EXCEPT !.last = <<>>] ELSE GivenBack(stays, k)
              /\ ret' = [ret EXCEPT !.errs = errs]
              /\ call' = IF errs = 2 THEN [call EXCEPT !.op = "exit"] ELSE NoCall
    BY DEF FillStops
  <1>2. /\ call.op \in Reads /\ b.unget = <<>> /\ Drained
        /\ UNCHANGED <<file, off, out, sure, used>>
    BY DEF FillStops, MustFill
  <1>3. /\ sure /\ ~b.writing /\ b.bound /\ b \in BioRec /\ off \in Nat /\ file \in Seq(Byte)
        /\ out \in Seq(Byte) /\ b.pos <= b.len /\ b.len = Len(b.buf)
        /\ ret \in [val : Int, errs : Nat] /\ call.op # None /\ call.op # "write"
        /\ At = Place(b, off) /\ Contents = file
    BY <1>2, ReadingNow
  <1>4. b.pos = b.len /\ Waits(b) = <<>>
    <2>1. b.pos \in Nat /\ b.len \in Nat
      BY <1>3 DEF BioRec
    <2>2. b.pos = b.len
      BY <1>2, <1>3, <2>1 DEF Drained
    <2> QED BY <1>2, <1>3, <2>2, BytesWaiting
  <1>5. At = off
    BY <1>3, <1>4, EmptySeq DEF Place
  <1>6. PICK errs \in 0..2 : errs = failed + complains
    OBVIOUS
  <1>7. PICK empty : empty = [b EXCEPT !.buf = <<>>, !.pos = 0, !.len = 0]
    OBVIOUS
  <1>8. /\ empty \in BioRec /\ empty.bound /\ empty.mode = b.mode /\ empty.unget = <<>>
        /\ empty.pos = 0 /\ empty.len = 0 /\ empty.buf = <<>>
    BY <1>2, <1>3, <1>7, EmptySeq DEF BioRec
  <1>9. ~empty.writing
    BY <1>3, <1>7 DEF BioRec
  <1>10. empty.pos = empty.len /\ empty.len = Len(empty.buf) /\ Waits(empty) = <<>>
    <2>1. empty.pos <= empty.len /\ empty.len = Len(empty.buf) /\ empty.pos = empty.len
      BY <1>8, EmptySeq
    <2> QED BY <1>8, <2>1, BytesWaiting
  <1>11. PICK stays : stays = IF failed = 1 \/ call.op = "read" THEN b ELSE empty
    OBVIOUS
  <1>12. /\ stays \in BioRec /\ stays.bound /\ ~stays.writing /\ stays.mode = b.mode
         /\ stays.pos <= stays.len /\ stays.len = Len(stays.buf) /\ Waits(stays) = <<>>
    <2>1. CASE stays = b
      BY <1>3, <1>4, <2>1
    <2>2. CASE stays = empty
      <3>1. 0 <= 0
        OBVIOUS
      <3> QED BY <1>8, <1>9, <1>10, <2>2, <3>1
    <2> QED BY <1>11, <2>1, <2>2
  <1>13. Place(stays, off) = off
    BY <1>3, <1>12, EmptySeq DEF Place
  <1>14. /\ failed = 0 => off >= Len(file)
         /\ call.op # "num" => k = 0
         /\ call.op = "num" => k <= Len(out) /\ errs <= 1
         /\ ret' = [ret EXCEPT !.errs = errs]
         /\ call' = IF errs = 2 THEN [call EXCEPT !.op = "exit"] ELSE NoCall
    BY <1>1, <1>6
  <1>15. PICK y : y = b'
    OBVIOUS
  <1>16. y = IF call.op = "rune" /\ out # <<>> THEN [stays EXCEPT !.last = <<>>]
             ELSE GivenBack(stays, k)
    BY <1>1, <1>7, <1>11, <1>15
  <1>17. k \in 0..Len(out)
    <2>1. Len(out) \in Nat
      BY <1>3, LenProperties
    <2> QED BY <1>14, <2>1
  <1>18. /\ y \in BioRec /\ y.bound /\ ~y.writing /\ y.mode = b.mode
         /\ y.pos <= y.len /\ y.len = Len(y.buf) /\ Place(y, off) = off - k
    <2>1. CASE call.op = "rune" /\ out # <<>>
      <3>1. y = [stays EXCEPT !.last = <<>>] /\ k = 0
        BY <1>14, <1>16, <2>1
      <3>2. /\ y \in BioRec /\ y.bound /\ y.mode = b.mode /\ y.buf = stays.buf
            /\ y.pos = stays.pos /\ y.len = stays.len /\ y.unget = stays.unget
        BY <1>12, <3>1, EmptySeq DEF BioRec
      <3>3. ~y.writing
        BY <1>12, <3>1 DEF BioRec
      <3>4. Waits(y) = Waits(stays)
        BY <3>2 DEF Waits, Unread
      <3>5. Place(y, off) = off
        BY <1>13, <3>4 DEF Place
      <3>6. off - k = off
        BY <1>3, <3>1
      <3> QED BY <1>12, <3>2, <3>3, <3>5, <3>6
    <2>2. CASE ~(call.op = "rune" /\ out # <<>>)
      <3>1. y = GivenBack(stays, k)
        BY <1>16, <2>2
      <3>2. /\ y \in BioRec /\ y.pos <= y.len /\ y.len = Len(y.buf)
            /\ y.writing = stays.writing /\ y.bound = stays.bound /\ y.mode = stays.mode
            /\ Place(y, off) = Place(stays, off) - k
        <4>1. PICK x \in BioRec, o \in Nat, m \in 0..Len(out) : x = stays /\ o = off /\ m = k
          BY <1>3, <1>12, <1>17
        <4>2. x.pos <= x.len /\ x.len = Len(x.buf) /\ y = GivenBack(x, m) /\ out \in Seq(Byte)
          BY <1>3, <1>12, <3>1, <4>1
        <4>3. /\ y \in BioRec /\ y.pos <= y.len /\ y.len = Len(y.buf)
              /\ y.writing = x.writing /\ y.bound = x.bound /\ y.mode = x.mode
              /\ Place(y, o) = Place(x, o) - m
          BY ONLY <4>2, x \in BioRec, o \in Nat, m \in 0..Len(out), GivenBackPlace
        <4> QED BY <4>1, <4>3
      <3> QED BY <1>12, <1>13, <3>2
    <2> QED BY <2>1, <2>2
  <1>19. At' = off - k /\ Contents' = Contents /\ Appends' = Appends
    BY <1>2, <1>3, <1>15, <1>18, ReadingThen
  <1>20. ret'.errs = errs /\ ret'.val = ret.val
    BY <1>3, <1>14
  <1>21. Position!Sure
    <2>1. CASE errs = 2
      <3>1. k = 0
        BY <1>14, <2>1
      <3>2. At' = At
        BY <1>3, <1>5, <1>19, <3>1
      <3>3. Position!Abort
        BY <1>3, <1>14, <1>19, <1>20, <2>1, <3>2 DEF Position!Abort, Position!Idle
      <3> QED BY <3>3 DEF Position!Sure
    <2>2. CASE errs # 2 /\ k > 0
      <3>1. call.op = "num" /\ k \in 0..3 /\ k <= Len(out)
        BY <1>14, <2>2
      <3>2. call' = NoCall /\ errs <= 1
        BY <1>14, <2>2
      <3>3. At' = At - k
        BY <1>5, <1>19
      <3>4. Position!GiveBackSome
        BY <1>2, <1>19, <1>20, <3>1, <3>2, <3>3, NoCallShape
           DEF Position!GiveBackSome, Position!Idle_
      <3> QED BY <3>4 DEF Position!Sure
    <2>3. CASE errs # 2 /\ k = 0
      <3>1. call' = NoCall /\ At' = At
        BY <1>3, <1>5, <1>14, <1>19, <2>3
      <3>2. CASE errs = 1
        BY <1>19, <1>20, <3>1, <3>2, FailStep DEF Position!Sure
      <3>3. CASE errs = 0
        <4>1. failed = 0
          BY <1>6, <3>3
        <4>2. At >= Len(Contents)
          BY <1>3, <1>5, <1>14, <4>1
        <4>3. Position!End
          BY <1>2, <1>3, <1>19, <1>20, <3>1, <3>3, <4>2, NoCallShape
             DEF Position!End, Position!Idle, Position!Idle_, Position!Quiet, Position!AtEnd
        <4> QED BY <4>3 DEF Position!Sure
      <3> QED BY <2>3, <3>2, <3>3
    <2> QED BY <2>1, <2>2, <2>3
  <1> QED BY <1>2, <1>21, SureStep

LEMMA NumEndsStep == ASSUME IInv, Results, NumEnds PROVE Position!Next
  <1>1. call.op = "num" /\ call.op \in Reads /\ call' = NoCall
        /\ UNCHANGED <<file, off, out, sure, used>>
    BY DEF NumEnds, Reads
  <1>2. PICK k \in 1..3, errs \in 0..1 :
          k <= Len(out) /\ b' = GivenBack(b, k) /\ ret' = [ret EXCEPT !.errs = errs]
    BY DEF NumEnds
  <1>3. /\ sure /\ ~b.writing /\ b.bound /\ b \in BioRec /\ off \in Nat /\ file \in Seq(Byte)
        /\ out \in Seq(Byte) /\ b.pos <= b.len /\ b.len = Len(b.buf)
        /\ ret \in [val : Int, errs : Nat]
        /\ At = Place(b, off) /\ Contents = file
    BY <1>1, ReadingNow
  <1>4. k \in 0..Len(out)
    <2>1. Len(out) \in Nat
      BY <1>3, LenProperties
    <2> QED BY <1>2, <2>1
  <1>5. PICK y : y = b'
    OBVIOUS
  <1>6. /\ y \in BioRec /\ y.pos <= y.len /\ y.len = Len(y.buf)
        /\ y.writing = b.writing /\ y.bound = b.bound /\ y.mode = b.mode
        /\ Place(y, off) = Place(b, off) - k
    <2>1. PICK x \in BioRec, o \in Nat, m \in 0..Len(out) : x = b /\ o = off /\ m = k
      BY <1>3, <1>4
    <2>2. x.pos <= x.len /\ x.len = Len(x.buf) /\ y = GivenBack(x, m) /\ out \in Seq(Byte)
      BY <1>2, <1>3, <1>5, <2>1
    <2>3. /\ y \in BioRec /\ y.pos <= y.len /\ y.len = Len(y.buf)
          /\ y.writing = x.writing /\ y.bound = x.bound /\ y.mode = x.mode
          /\ Place(y, o) = Place(x, o) - m
      BY ONLY <2>2, x \in BioRec, o \in Nat, m \in 0..Len(out), GivenBackPlace
    <2> QED BY <2>1, <2>3
  <1>7. At' = Place(y, off) /\ Contents' = Contents /\ Appends' = Appends
    BY <1>1, <1>3, <1>5, <1>6, ReadingThen
  <1>8. At' = At - k
    BY <1>3, <1>6, <1>7
  <1>9. ret'.errs <= 1
    BY <1>2, <1>3
  <1>10. Position!GiveBackSome
    <2>1. k \in 0..3
      OBVIOUS
    <2> QED BY <1>1, <1>2, <1>7, <1>8, <1>9, <2>1, NoCallShape
            DEF Position!GiveBackSome, Position!Idle_
  <1> QED BY <1>1, <1>10, SureStep DEF Position!Sure

LEMMA UpToFirst ==
  ASSUME NEW delim, NEW s \in Seq(Byte), s # <<>>
  PROVE  /\ UpTo(delim, s) > 0
         /\ \A i \in 1..(UpTo(delim, s) - 1) : s[i] # delim
  <1>1. Len(s) \in Nat /\ Len(s) > 0
    BY LenProperties, EmptySeq
  <1>2. PICK ends : ends = {i \in 1..Len(s) : s[i] = delim}
    OBVIOUS
  <1>3. CASE ends = {}
    <2>1. UpTo(delim, s) = Len(s)
      BY <1>2, <1>3 DEF UpTo
    <2>2. \A i \in 1..Len(s) : s[i] # delim
      BY <1>2, <1>3
    <2> QED BY <1>1, <2>1, <2>2
  <1>4. CASE ends # {}
    <2>1. ends \subseteq Nat
      BY <1>1, <1>2
    <2>2. \E i \in ends : \A j \in ends : <<j, i>> \notin OpToRel(<, Nat)
      BY <1>4, <2>1, NatLessThanWellFounded, WFMin
    <2>3. \E i \in ends : \A j \in ends : i <= j
      <3>1. \A i, j \in ends : <<j, i>> \notin OpToRel(<, Nat) => i <= j
        BY <2>1 DEF OpToRel
      <3> QED BY <2>2, <3>1
    <2>4. PICK m : m = UpTo(delim, s)
      OBVIOUS
    <2>5. m = CHOOSE i \in ends : \A j \in ends : i <= j
      BY <1>2, <1>4, <2>4 DEF UpTo
    <2>6. m \in ends /\ \A j \in ends : m <= j
      BY <2>3, <2>5
    <2>7. m \in 1..Len(s)
      BY <1>2, <2>6
    <2>8. \A i \in 1..(m - 1) : i \notin ends /\ i \in 1..Len(s)
      BY <1>1, <2>6, <2>7
    <2> QED BY <1>2, <2>4, <2>7, <2>8
  <1> QED BY <1>3, <1>4

\* Bytes that end at a place are what the file holds before it.
LEMMA EndsAre ==
  ASSUME NEW w \in Seq(Byte), NEW f \in Seq(Byte), NEW o \in Nat, Ends(w, f, o)
  PROVE  /\ Len(w) \in Nat /\ Len(w) <= o /\ w = SubSeq(f, o - Len(w) + 1, o)
         /\ Len(w) > 0 => o <= Len(f)
  <1>1. PICK n \in Nat : n = Len(w)
    BY LenProperties
  <1>2. n <= o /\ \A i \in 1..n : o - n + i \in 1..Len(f) /\ w[i] = f[o - n + i]
    BY <1>1 DEF Ends
  <1>3. \A i \in (o - n + 1)..o : f[i] \in Byte
    <2>1. ASSUME NEW i \in (o - n + 1)..o PROVE f[i] \in Byte
      <3>1. PICK j \in 1..n : i = o - n + j
        <4>1. i - (o - n) \in 1..n /\ i = o - n + (i - (o - n))
          OBVIOUS
        <4> QED BY <4>1
      <3>2. i \in 1..Len(f)
        BY <1>2, <3>1
      <3> QED BY <3>2, ElementOfSeq
    <2> QED BY <2>1
  <1>4. PICK r : r = SubSeq(f, o - n + 1, o)
    OBVIOUS
  <1>5. /\ r \in Seq(Byte) /\ Len(r) = n
        /\ \A i \in 1..n : r[i] = f[o - n + i]
    <2>1. /\ r \in Seq(Byte)
          /\ Len(r) = IF o - n + 1 <= o THEN o - (o - n + 1) + 1 ELSE 0
          /\ \A i \in 1..(o - (o - n + 1) + 1) : r[i] = f[(o - n + 1) + i - 1]
      BY <1>3, <1>4, SubSeqProperties
    <2>2. o - (o - n + 1) + 1 = n
      OBVIOUS
    <2>3. \A i \in 1..n : (o - n + 1) + i - 1 = o - n + i
      OBVIOUS
    <2>4. Len(r) = n
      BY <2>1
    <2> QED BY <2>1, <2>2, <2>3, <2>4
  <1>6. w = r
    BY <1>1, <1>2, <1>5, SeqEqual
  <1>7. n > 0 => o <= Len(f)
    <2>1. Len(f) \in Nat
      BY LenProperties
    <2>2. ASSUME n > 0 PROVE o <= Len(f)
      <3>1. n \in 1..n /\ o - n + n = o
        BY <2>2
      <3>2. o - n + n \in 1..Len(f)
        BY <1>2, <3>1
      <3> QED BY <2>1, <3>1, <3>2
    <2> QED BY <2>2
  <1> QED BY <1>1, <1>2, <1>4, <1>6, <1>7

LEMMA PoppedSame ==
  ASSUME b \in BioRec, NEW n \in Nat
  PROVE  Popped(n).bound = b.bound /\ Popped(n).mode = b.mode
  <1>1. CASE b.unget # <<>>
    BY <1>1 DEF Popped, BioRec
  <1>2. CASE b.unget = <<>>
    BY <1>2 DEF Popped, BioRec
  <1> QED BY <1>1, <1>2

LEMMA HandStep == ASSUME IInv, Results, Hand PROVE Position!Next
  <1>1. call.op \in Reads /\ Ready # <<>> /\ UNCHANGED <<file, off, sure>>
    BY DEF Hand
  <1>2. /\ sure /\ ~b.writing /\ b.bound /\ b \in BioRec /\ off \in Nat /\ file \in Seq(Byte)
        /\ out \in Seq(Byte) /\ b.pos <= b.len /\ b.len = Len(b.buf)
        /\ ret \in [val : Int, errs : Nat] /\ ret.errs = 0
        /\ call.op # None /\ call.op # "write"
        /\ At = Place(b, off) /\ Contents = file
    BY <1>1, ReadingNow
  <1>3. Ready \in Seq(Byte) /\ call \in CallRec /\ call.left \in Nat
    BY <1>1, ChunkBounds DEF IInv, TypeInv, CallRec
  <1>4. Len(Ready) \in Nat /\ Len(Ready) > 0
    BY <1>1, <1>3, LenProperties, EmptySeq
  <1>5. PICK n \in Nat : /\ n = Chunk /\ n <= Len(Ready) /\ n > 0
                         /\ (call.op = "read" => call.left - n \in Nat)
                         /\ (call.op \notin {"read", "line"} => n = 1)
    <2>1. /\ Chunk \in Nat /\ Chunk <= Len(Ready)
          /\ (call.op = "read" => call.left - Chunk \in Nat)
          /\ (call.op \notin {"read", "line"} => Chunk = 1)
      BY <1>1, ChunkBounds
    <2>2. Chunk > 0
      <3>1. CASE call.op = "read"
        <4>1. call.left > 0
          BY <3>1 DEF Results
        <4> QED BY <1>3, <1>4, <3>1, <4>1 DEF Chunk, Smaller
      <3>2. CASE call.op = "line"
        <4>1. Chunk = UpTo(call.delim, Ready)
          BY <3>2 DEF Chunk
        <4> QED BY <1>1, <1>3, <4>1, UpToFirst
      <3>3. CASE call.op \notin {"read", "line"}
        BY <2>1, <3>3
      <3> QED BY <3>1, <3>2, <3>3
    <2> QED BY <2>1, <2>2
  <1>6. PICK x, part : x = Popped(n) /\ part = SubSeq(Ready, 1, n)
    OBVIOUS
  <1>7. /\ x \in BioRec /\ x.writing = b.writing
        /\ x.pos <= x.len /\ x.len = Len(x.buf)
        /\ Place(x, off) = Place(b, off) + n /\ Place(b, off) \in Nat
        /\ part \in Seq(Byte) /\ Len(part) = n
        /\ Ends(part, file, Place(x, off))
    BY <1>1, <1>2, <1>5, <1>6, Taken
  <1>8. x.bound = b.bound /\ x.mode = b.mode
    BY <1>2, <1>6, PoppedSame
  <1>9. PICK got : got = out \o part
    OBVIOUS
  <1>10. PICK done : done = CASE call.op = "read" -> call.left = n
                              [] call.op = "rune" -> Full(got)
                              [] OTHER            -> call.op # "num"
    OBVIOUS
  <1>11. /\ out' = got
         /\ ret' = [ret EXCEPT !.val = @ + n]
         /\ call' = IF done THEN NoCall
                    ELSE [call EXCEPT !.left = IF call.op = "read" THEN @ - n ELSE @]
         /\ b' = x \/ \E s : b' = [x EXCEPT !.last = s]
    BY <1>5, <1>6, <1>9, <1>10 DEF Hand
  <1>12. PICK y : y = b'
    OBVIOUS
  <1>13. /\ y \in BioRec /\ y.bound /\ y.mode = b.mode
         /\ y.pos = x.pos /\ y.len = x.len /\ y.buf = x.buf /\ y.unget = x.unget
    <2>1. y \in BioRec
      BY <1>12, HandKeeps DEF IInv, TypeInv
    <2> QED BY <1>2, <1>7, <1>8, <1>11, <1>12, <2>1 DEF BioRec
  <1>14. ~y.writing
    BY <1>2, <1>7, <1>11, <1>12 DEF BioRec
  <1>15. y.pos <= y.len /\ y.len = Len(y.buf) /\ Place(y, off) = Place(x, off)
    BY <1>7, <1>13 DEF Place, Waits, Unread
  <1>16. At' = Place(y, off) /\ Contents' = Contents /\ Appends' = Appends
    BY <1>1, <1>2, <1>12, <1>13, <1>14, <1>15, ReadingThen
  <1>17. PICK p \in Nat, q \in Nat : p = At /\ q = At' /\ q = p + n
    BY <1>2, <1>7, <1>15, <1>16
  <1>18. part = SubSeq(Contents, p + 1, q) /\ q <= Len(Contents)
    <2>1. PICK f \in Seq(Byte), w \in Seq(Byte) : f = file /\ w = part
      BY <1>2, <1>7
    <2>2. Ends(w, f, q) /\ Len(w) = n
      BY <1>7, <1>15, <1>16, <1>17, <2>1
    <2>3. w = SubSeq(f, q - n + 1, q) /\ q <= Len(f)
      <3>1. w = SubSeq(f, q - Len(w) + 1, q) /\ (Len(w) > 0 => q <= Len(f))
        BY ONLY <2>2, w \in Seq(Byte), f \in Seq(Byte), q \in Nat, EndsAre
      <3> QED BY ONLY <1>5, <2>2, <3>1
    <2>4. q - n + 1 = p + 1
      BY <1>17
    <2> QED BY <1>2, <2>1, <2>3, <2>4
  <1>19. ret'.errs = 0 /\ ret'.val = ret.val + n
    BY <1>2, <1>11
  <1>20. n = q - p /\ p < q
    BY <1>5, <1>17
  <1>21. call.op = "read" =>
           /\ call.left >= n
           /\ (call'.op = None <=> call.left = n)
           /\ (call'.op # None => call'.left = call.left - n)
    <2>1. ASSUME call.op = "read"
          PROVE  /\ call.left >= n
                 /\ (call'.op = None <=> call.left = n)
                 /\ (call'.op # None => call'.left = call.left - n)
      <3>1. call.left >= n
        BY <1>3, <1>5, <2>1
      <3>2. CASE call.left = n
        BY <1>10, <1>11, <2>1, <3>1, <3>2, NoCallShape
      <3>3. CASE call.left # n
        <4>1. call' = [call EXCEPT !.left = call.left - n]
          BY <1>10, <1>11, <2>1, <3>3
        <4>2. call'.op = call.op /\ call'.left = call.left - n
          BY <1>3, <4>1 DEF CallRec
        <4> QED BY <1>2, <3>1, <3>3, <4>2
      <3> QED BY <3>2, <3>3
    <2> QED BY <2>1
  <1>22. call.op = "line" => \A i \in 1..(Len(out') - 1) : out'[i] # call.delim
    <2>1. ASSUME call.op = "line", NEW i \in 1..(Len(out') - 1) PROVE out'[i] # call.delim
      <3>1. out = <<>>
        BY <2>1 DEF Results
      <3>2. out' = part
        BY <1>7, <1>9, <1>11, <3>1, ConcatEmptySeq
      <3>3. i \in 1..(n - 1)
        BY <1>7, <2>1, <3>2
      <3>4. part[i] = Ready[i]
        <4>1. \A j \in 1..n : Ready[j] \in Byte
          BY <1>3, <1>4, <1>5, ElementOfSeq
        <4>2. \A j \in 1..(n - 1 + 1) : part[j] = Ready[1 + j - 1]
          BY <1>6, <4>1, SubSeqProperties
        <4>3. i \in 1..(n - 1 + 1) /\ 1 + i - 1 = i
          BY <3>3
        <4> QED BY <4>2, <4>3
      <3>5. n = UpTo(call.delim, Ready)
        BY <1>5, <2>1 DEF Chunk
      <3>6. Ready[i] # call.delim
        BY <1>1, <1>3, <3>3, <3>5, UpToFirst
      <3> QED BY <3>2, <3>4, <3>6
    <2> QED BY <2>1
  <1>23. call.op = "getc" => Len(out') = 1 /\ call'.op = None
    <2>1. ASSUME call.op = "getc" PROVE Len(out') = 1 /\ call'.op = None
      <3>1. out = <<>>
        BY <2>1 DEF Results
      <3>2. out' = part
        BY <1>7, <1>9, <1>11, <3>1, ConcatEmptySeq
      <3>3. n = 1 /\ done
        BY <1>5, <1>10, <2>1
      <3>4. call' = NoCall
        BY <1>11, <3>3
      <3> QED BY <1>7, <3>2, <3>3, <3>4, NoCallShape
    <2> QED BY <2>1
  <1>24. Position!Hand
    <2>1. out' = out \o SubSeq(Contents, At + 1, At')
      BY <1>9, <1>11, <1>17, <1>18
    <2>2. At < At' /\ At' <= Len(Contents) /\ At' - At = n
      BY <1>17, <1>18, <1>20
    <2>3. ret'.val = ret.val + At' - At
      <3>1. PICK v \in Int : v = ret.val
        BY <1>2
      <3>2. v + q - p = v + n
        BY <1>17
      <3> QED BY <1>17, <1>19, <3>1, <3>2
    <2> QED BY <1>2, <1>16, <1>19, <1>21, <1>22, <1>23, <2>1, <2>2, <2>3
            DEF Position!Hand, Position!Idle, Position!Idle_, Position!Quiet
  <1> QED BY <1>1, <1>24, SureStep DEF Position!Sure

LEMMA UngetStep ==
  ASSUME IInv, Results, Careful, NEW rune, Unget(rune) PROVE Position!Next
  <1>1. /\ sure /\ Idle /\ ~b.writing /\ b.last # <<>>
        /\ UNCHANGED <<file, off, call, out, ret, sure, used>>
        /\ b' = [b EXCEPT !.unget = b.last \o @, !.last = <<>>]
    BY DEF Unget, Avoided
  <1>2. /\ b \in BioRec /\ b.bound /\ off \in Nat /\ file \in Seq(Byte)
        /\ call.op = None /\ call.op # "write"
    BY <1>1, NoCallShape DEF IInv, TypeInv, Results, Idle
  <1>3. b.pos <= b.len /\ b.len = Len(b.buf)
    BY <1>1 DEF IInv, InFile
  <1>4. At = Place(b, off) /\ Contents = file
    BY <1>1, <1>2, AtNow DEF Contents
  <1>5. PICK g \in Seq(Byte), r \in Seq(Byte) : g = b.unget /\ r = b.last
    BY <1>2 DEF BioRec
  <1>6. r \o g \in Seq(Byte) /\ Len(r \o g) = Len(r) + Len(g) /\ Len(r) \in Nat /\ Len(g) \in Nat
    BY ConcatProperties, LenProperties
  <1>7. PICK y : y = b'
    OBVIOUS
  <1>8. /\ y \in BioRec /\ y.unget = r \o g /\ y.buf = b.buf /\ y.pos = b.pos /\ y.len = b.len
        /\ y.bound /\ y.mode = b.mode
    BY <1>1, <1>2, <1>5, <1>6, <1>7, EmptySeq DEF BioRec
  <1>9. ~y.writing
    BY <1>1, <1>2, <1>7 DEF BioRec
  <1>10. y.pos <= y.len /\ y.len = Len(y.buf)
    BY <1>3, <1>8
  <1>11. Place(y, off) = Place(b, off) - Len(r)
    <2>1. Unread(y) = Unread(b)
      BY <1>8 DEF Unread
    <2>2. PICK h \in Nat : h = Len(Unread(b))
      <3>1. Unread(b) \in Seq(Byte)
        BY <1>2, <1>3, BytesWaiting
      <3> QED BY <3>1, LenProperties
    <2>3. Len(Waits(b)) = Len(g) + h
      BY <1>2, <1>3, <1>5, <2>2, BytesWaiting
    <2>4. Len(Waits(y)) = Len(r) + Len(g) + h
      BY <1>6, <1>8, <1>10, <2>1, <2>2, BytesWaiting
    <2> QED BY <1>2, <1>6, <2>2, <2>3, <2>4 DEF Place
  <1>12. At' = Place(y, off) /\ Contents' = Contents /\ Appends' = Appends
    BY <1>1, <1>2, <1>4, <1>7, <1>8, <1>9, <1>10, ReadingThen
  <1>13. At' = At - Len(b.last)
    BY <1>4, <1>5, <1>11, <1>12
  <1>14. call'.op = None
    BY <1>1, <1>2
  <1>15. Position!GiveBack
    BY <1>1, <1>2, <1>12, <1>13, <1>14 DEF Position!GiveBack, Position!Idle, Position!Idle_
  <1> QED BY <1>1, <1>15, SureStep DEF Position!Sure

-----------------------------------------------------------------------------
(* Writing *)

\* A record that writes, of which only what can be given back is forgotten.
LEMMA BeginWriteStep ==
  ASSUME IInv, Careful, NEW s \in Texts, BeginWrite(s) PROVE Position!Next
  <1>1. /\ sure /\ Idle /\ b.bound /\ (Appends => s # <<>>)
        /\ UNCHANGED <<file, sure, used>> /\ out' = <<>> /\ ret' = Result(0)
        /\ off' = IF b.writing \/ Appends THEN off ELSE off - Buffered(b)
        /\ b' = IF b.writing THEN [b EXCEPT !.last = <<>>, !.unget = <<>>]
                ELSE [Emptied(b) EXCEPT !.writing = TRUE]
        /\ call' = IF s = <<>> THEN NoCall ELSE [NoCall EXCEPT !.op = "write", !.todo = s]
    BY DEF BeginWrite, Avoided, CanWrite
  <1>2. /\ b \in BioRec /\ off \in Nat /\ file \in Seq(Byte) /\ call.op = None
        /\ call.op # "write" /\ b.pos \in Nat
    BY <1>1, NoCallShape DEF IInv, TypeInv, Idle, BioRec
  <1>3. /\ s = <<>> => call'.op = None /\ call'.todo = <<>> /\ call'.op # "write"
        /\ s # <<>> => call'.op = "write" /\ call'.todo = s
    BY <1>1, NoCallShape DEF NoCall
  <1>4. Len(file) \in Nat
    BY <1>2, LenProperties
  <1>5. CASE b.writing
    <2>1. PICK y : y = b'
      OBVIOUS
    <2>2. /\ y.bound /\ y.mode = b.mode /\ y.pos = b.pos /\ y.buf = b.buf
      BY <1>1, <1>2, <1>5, <2>1 DEF BioRec
    <2>3. y.writing
      BY <1>1, <1>2, <1>5, <2>1 DEF BioRec
    <2>4. off' = off
      BY <1>1, <1>5
    <2>5. Contents' = Contents
      <3>1. Holds(y, file, off) = Holds(b, file, off)
        BY <1>5, <2>2, <2>3 DEF Holds, End
      <3> QED BY <1>1, <2>1, <2>4, <3>1, ContentsHolds, ContentsHoldsNext
    <2>6. Appends' = Appends
      BY <2>1, <2>2 DEF Appends
    <2>7. At' = Stands(y, file, off, call'.op)
      BY <1>1, <2>1, <2>4, AtStandsNext
    <2>8. At = IF b.pos > 0 THEN Target + b.pos ELSE off
      BY <1>1, <1>2, <1>5 DEF At
    <2>9. End(y, file, off) = Target
      BY <2>2 DEF End, Target, Appends
    <2>10. CASE s = <<>>
      <3>1. ~Appends /\ Stands(y, file, off, call'.op) = IF b.pos > 0 THEN Target + b.pos ELSE off
        BY <1>1, <1>3, <2>2, <2>3, <2>9, <2>10 DEF Stands
      <3>2. At' = At
        BY <2>7, <2>8, <3>1
      <3>3. At' = IF Appends /\ call'.todo # <<>> THEN Len(Contents) ELSE At
        BY <3>1, <3>2
      <3>4. Position!Begin
        BY <1>1, <2>5, <2>6, <3>3, BeginStep
      <3> QED BY <1>1, <3>4, SureStep DEF Position!Sure
    <2>11. CASE s # <<>>
      <3>1. At' = Target + b.pos
        <4>1. Stands(y, file, off, "write") = Target + b.pos
          BY <2>2, <2>3, <2>9 DEF Stands
        <4> QED BY <1>3, <2>7, <2>11, <4>1
      <3>2. CASE Appends
        <4>1. Target = Len(file) /\ Contents = Overlay(file, Len(file), SubSeq(b.buf, 1, b.pos))
          BY <1>5, <3>2 DEF Target, Contents
        <4>2. SubSeq(b.buf, 1, b.pos) = b.buf /\ Len(b.buf) = b.pos /\ b.buf \in Seq(Byte)
          <5>1. Len(b.buf) = b.pos /\ b.buf \in Seq(Byte)
            BY <1>2, <1>5 DEF IInv, Pending, BioRec
          <5> QED BY <5>1, SubSeqFull
        <4>3. Len(Contents) = Len(file) + b.pos
          BY <1>2, <4>1, <4>2, OverlayEnd
        <4>4. At' = Len(Contents)
          BY <3>1, <4>1, <4>3
        <4>5. At' = IF Appends /\ call'.todo # <<>> THEN Len(Contents) ELSE At
          BY <1>3, <2>11, <3>2, <4>4
        <4>6. Position!Begin
          BY <1>1, <2>5, <2>6, <4>5, BeginStep
        <4> QED BY <1>1, <4>6, SureStep DEF Position!Sure
      <3>3. CASE ~Appends
        <4>1. Target = off
          BY <3>3 DEF Target
        <4>2. At' = At
          BY <1>2, <2>8, <3>1, <4>1
        <4>3. At' = IF Appends /\ call'.todo # <<>> THEN Len(Contents) ELSE At
          BY <3>3, <4>2
        <4>4. Position!Begin
          BY <1>1, <2>5, <2>6, <4>3, BeginStep
        <4> QED BY <1>1, <4>4, SureStep DEF Position!Sure
      <3> QED BY <3>2, <3>3
    <2> QED BY <2>10, <2>11
  <1>6. CASE ~b.writing
    <2>1. PICK z : z = Emptied(b)
      OBVIOUS
    <2>2. PICK y : y = [z EXCEPT !.writing = TRUE]
      OBVIOUS
    <2>3. Hollow(y)
      BY <1>2, <2>1, <2>2, EmptiedHollow
    <2>4. z \in BioRec /\ z.bound = b.bound /\ z.mode = b.mode
      BY <1>2, <2>1, SameStream, EmptiedHollow DEF Hollow
    <2>5. y.bound = b.bound /\ y.mode = b.mode
      BY <2>2, <2>4 DEF BioRec
    <2>6. y.writing
      BY <2>2, <2>4 DEF BioRec
    <2>7. b' = y
      BY <1>1, <1>6, <2>1, <2>2
    <2>8. PICK o \in Nat : o = off'
      BY <1>1, <1>2, <1>6, BackOverWaiting
    <2>9. Contents' = Contents
      <3>1. Holds(y, file, o) = file
        BY <1>2, <2>3, StandsHollow
      <3>2. Contents = file
        BY <1>6 DEF Contents
      <3> QED BY <1>1, <2>7, <2>8, <3>1, <3>2, ContentsHoldsNext
    <2>10. Appends' = Appends
      BY <2>5, <2>7 DEF Appends
    <2>11. At' = Stands(y, file, o, call'.op)
      BY <1>1, <2>7, <2>8, AtStandsNext
    <2>12. At = off - Buffered(b)
      BY <1>1, <1>6 DEF At
    <2>13. CASE Appends
      <3>1. s # <<>> /\ call'.op = "write" /\ call'.todo # <<>>
        BY <1>1, <1>3, <2>13
      <3>2. End(y, file, o) = Len(file)
        BY <2>5, <2>13 DEF End, Appends
      <3>3. Stands(y, file, o, "write") = Len(file)
        <4>1. y.bound
          BY <1>1, <2>5
        <4>2. Stands(y, file, o, "write") = End(y, file, o)
          BY <1>2, <2>3, <2>6, <4>1, StandsHollow
        <4> QED BY <3>2, <4>2
      <3>4. Contents = file
        BY <1>6 DEF Contents
      <3>5. At' = IF Appends /\ call'.todo # <<>> THEN Len(Contents) ELSE At
        BY <2>11, <2>13, <3>1, <3>3, <3>4
      <3>6. Position!Begin
        BY <1>1, <2>9, <2>10, <3>5, BeginStep
      <3> QED BY <1>1, <3>6, SureStep DEF Position!Sure
    <2>14. CASE ~Appends
      <3>1. o = off - Buffered(b)
        BY <1>1, <1>6, <2>8, <2>14
      <3>2. End(y, file, o) = o
        BY <2>5, <2>14 DEF End, Appends
      <3>3. Stands(y, file, o, call'.op) = o
        <4>1. y.bound
          BY <1>1, <2>5
        <4>2. PICK op : op = call'.op
          OBVIOUS
        <4>3. CASE op # "write"
          BY <1>2, <2>3, <4>1, <4>2, <4>3, StandsHollow
        <4>4. CASE op = "write"
          BY <1>2, <2>3, <2>6, <3>2, <4>1, <4>2, <4>4, StandsHollow
        <4> QED BY <4>3, <4>4
      <3>4. At' = IF Appends /\ call'.todo # <<>> THEN Len(Contents) ELSE At
        BY <2>11, <2>12, <2>14, <3>1, <3>3
      <3>5. Position!Begin
        BY <1>1, <2>9, <2>10, <3>4, BeginStep
      <3> QED BY <1>1, <3>5, SureStep DEF Position!Sure
    <2> QED BY <2>13, <2>14
  <1> QED BY <1>5, <1>6

LEMMA WriteOnStep == ASSUME IInv, Results, WriteOn PROVE Position!Next
  <1>1. /\ call.op = "write" /\ b.writing /\ b.pos < BufSize
        /\ UNCHANGED <<file, off, out, sure, used>>
    BY DEF WriteOn, IInv, Calls
  <1>2. /\ b \in BioRec /\ b.pos \in Nat /\ b.buf \in Seq(Byte) /\ b.pos = Len(b.buf)
        /\ call \in CallRec /\ call.todo \in Seq(Byte) /\ call.todo # <<>>
        /\ off \in Nat /\ file \in Seq(Byte) /\ b.bound
        /\ ret \in [val : Int, errs : Nat] /\ ret.errs = 0
    BY <1>1 DEF IInv, TypeInv, BioRec, CallRec, Pending, Results
  <1>3. PICK d \in Seq(Byte), p \in Nat, old \in Seq(Byte), todo \in Seq(Byte) :
          d = file /\ p = Target /\ old = b.buf /\ todo = call.todo
    <2>1. Target \in Nat
      BY <1>2, LenProperties DEF Target
    <2> QED BY <1>2, <2>1
  <1>4. PICK q \in Nat, m \in Nat : q = b.pos /\ q = Len(old) /\ m = Len(todo) /\ m > 0
    BY <1>2, <1>3, LenProperties, EmptySeq
  <1>5. PICK n \in Nat : n = Smaller(m, BufSize - q) /\ n \in 1..m
    BY <1>1, <1>4, BioAssumption DEF Smaller, BioAssumption
  <1>6. PICK t : t = SubSeq(todo, 1, n)
    OBVIOUS
  <1>7. t \in Seq(Byte) /\ Len(t) = n /\ t # <<>>
    <2>1. \A i \in 1..n : todo[i] \in Byte
      BY <1>4, <1>5, ElementOfSeq
    <2>2. /\ t \in Seq(Byte) /\ Len(t) = IF 1 <= n THEN n - 1 + 1 ELSE 0
      BY <1>6, <2>1, SubSeqProperties
    <2>3. Len(t) = n
      BY <1>5, <2>2
    <2> QED BY <1>5, <2>2, <2>3, EmptySeq
  <1>8. SubSeq(old, 1, q) = old
    BY <1>4, SubSeqFull
  <1>9. old \o t \in Seq(Byte) /\ Len(old \o t) = q + n
    BY <1>4, <1>7, ConcatProperties
  <1>10. PICK y : y = b'
    OBVIOUS
  <1>11. /\ b' = [b EXCEPT !.buf = old \o t, !.pos = @ + n]
         /\ call' = IF n = m THEN NoCall ELSE [call EXCEPT !.todo = SubSeq(@, n + 1, Len(@))]
         /\ ret' = [ret EXCEPT !.val = @ + n]
    BY <1>3, <1>4, <1>5, <1>6, <1>8 DEF WriteOn
  <1>12. y.buf = old \o t /\ y.pos = q + n /\ y.bound /\ y.mode = b.mode
    BY <1>2, <1>4, <1>10, <1>11 DEF BioRec
  <1>13. y.writing
    BY <1>1, <1>2, <1>10, <1>11 DEF BioRec
  <1>14. End(y, file, off) = Target
    BY <1>12 DEF End, Target, Appends
  <1>15. Contents = Overlay(d, p, old)
    BY <1>1, <1>3, <1>4, <1>8 DEF Contents
  <1>16. Contents' = Overlay(d, p, old \o t)
    <2>1. SubSeq(y.buf, 1, y.pos) = old \o t
      BY <1>9, <1>12, SubSeqFull
    <2>2. Holds(y, file, off) = Overlay(d, p, old \o t)
      BY <1>3, <1>13, <1>14, <2>1 DEF Holds
    <2> QED BY <1>1, <1>10, <2>2, ContentsHoldsNext
  <1>17. At = p + q
    BY <1>1, <1>2, <1>3, <1>4 DEF At
  <1>18. At' = p + (q + n)
    <2>1. Stands(y, file, off, call'.op) = p + (q + n)
      <3>1. y.pos > 0
        BY <1>5, <1>12
      <3> QED BY <1>3, <1>12, <1>13, <1>14, <3>1 DEF Stands
    <2> QED BY <1>1, <1>10, <2>1, AtStandsNext
  <1>19. Contents' = Overlay(Contents, At, t)
    <2>1. Overlay(Overlay(d, p, old), p + Len(old), t) = Overlay(d, p, old \o t)
      BY <1>7, OverlayMore
    <2> QED BY <1>4, <1>15, <1>16, <1>17, <2>1
  <1>20. At' = At + n
    <2>1. p + (q + n) = p + q + n
      OBVIOUS
    <2> QED BY <1>17, <1>18, <2>1
  <1>21. Position!Overlay(Contents, At, t) = Overlay(Contents, At, t)
    BY DEF Position!Overlay, Overlay
  <1>22. ret'.errs = 0 /\ ret'.val = ret.val + n
    BY <1>2, <1>11
  <1>23. Appends' = Appends
    BY <1>10, <1>12 DEF Appends
  <1>24. IF n = Len(call.todo) THEN call'.op = None
         ELSE call' = [call EXCEPT !.todo = SubSeq(@, n + 1, Len(@))]
    BY <1>3, <1>4, <1>11, NoCallShape
  <1>25. Position!Put
    <2>1. n \in 1..Len(call.todo)
      BY <1>3, <1>4, <1>5
    <2>2. Contents' = Position!Overlay(Contents, At, SubSeq(call.todo, 1, n))
      BY <1>3, <1>6, <1>19, <1>21
    <2> QED BY <1>1, <1>20, <1>22, <1>23, <1>24, <2>1, <2>2
            DEF Position!Put, Position!Idle_, Position!Quiet
  <1> QED BY <1>1, <1>25, SureStep DEF Position!Sure

\* The output that did not fit is in the file, and the call goes on.
LEMMA WriteOutStep ==
  ASSUME IInv, Results, WriteOut
  PROVE  Position!Next \/ UNCHANGED Position!vars
  <1>1. /\ call.op = "write" /\ b.writing /\ b.pos = BufSize /\ b \in BioRec /\ b.bound
        /\ b.last = <<>> /\ b.pos > 0 /\ b.pos \in Nat /\ out' = out
    BY BioAssumption DEF WriteOut, IInv, TypeInv, Calls, Pending, Results, BioAssumption
  <1>2. CASE FlushFails(ret.val, TRUE) /\ UNCHANGED b
    <2>1. FlushFails(ret.val, TRUE)
      BY <1>2
    <2> QED BY <1>2, <2>1, FlushFailsStep
  <1>3. CASE /\ file' = NewFile /\ off' = NewOff /\ b' = Emptied(b)
             /\ UNCHANGED <<call, ret, sure>>
    <2>1. PICK y : y = Emptied(b)
      OBVIOUS
    <2>2. Hollow(y) /\ y.writing = b.writing
      BY <1>1, <2>1, EmptiedHollow
    <2>3. y.bound /\ y.mode = b.mode
      BY <1>1, <2>1, SameStream
    <2>4. y.last = <<>>
      BY <1>1, <2>1 DEF Emptied, BioRec
    <2>5. NewFile \in Seq(Byte) /\ NewOff \in Nat
      BY FlushedFile
    <2>6. Contents' = Contents
      <3>1. Holds(y, NewFile, NewOff) = NewFile
        BY <2>2, <2>5, StandsHollow
      <3> QED BY <1>3, <2>1, <3>1, ContentsHoldsNext, ContentsNew
    <2>7. At = Target + b.pos /\ NewOff = Target + b.pos
      BY <1>1 DEF At, NewOff, After
    <2>8. End(y, NewFile, NewOff) = NewOff
      <3>1. CASE Appends
        <4>1. Target = Len(file)
          BY <3>1 DEF Target
        <4>2. SubSeq(b.buf, 1, b.pos) = b.buf /\ Len(b.buf) = b.pos /\ b.buf \in Seq(Byte)
          <5>1. Len(b.buf) = b.pos /\ b.buf \in Seq(Byte)
            BY <1>1 DEF IInv, Pending, BioRec
          <5> QED BY <5>1, SubSeqFull
        <4>3. NewFile = Overlay(file, Len(file), b.buf)
          BY <1>1, <4>1, <4>2 DEF NewFile, Output
        <4>4. Len(NewFile) = Len(file) + b.pos
          <5>1. file \in Seq(Byte)
            BY DEF IInv, TypeInv
          <5> QED BY <4>2, <4>3, <5>1, OverlayEnd
        <4>5. Len(NewFile) = NewOff
          BY <2>7, <4>1, <4>4
        <4> QED BY <4>5 DEF End
      <3>2. CASE ~Appends
        BY <2>3, <3>2 DEF End, Appends
      <3> QED BY <3>1, <3>2
    <2>9. Stands(y, NewFile, NewOff, "write") = NewOff
      <3>1. Stands(y, NewFile, NewOff, "write") = End(y, NewFile, NewOff)
        BY <1>1, <2>2, <2>3, <2>5, StandsHollow
      <3> QED BY <2>8, <3>1
    <2>10. At' = At
      <3>1. At' = Stands(y, NewFile, NewOff, "write")
        BY <1>1, <1>3, <2>1, AtStandsNext
      <3> QED BY <2>7, <2>9, <3>1
    <2>11. Appends' = Appends /\ b'.last = b.last
      BY <1>1, <1>3, <2>1, <2>3, <2>4 DEF Appends
    <2> QED BY <1>1, <1>3, <2>6, <2>10, <2>11 DEF Position!vars
  <1> QED BY <1>2, <1>3 DEF WriteOut

-----------------------------------------------------------------------------
(* Positioning, binding *)

LEMMA SeekMoves ==
  ASSUME IInv, NEW amount \in Int, NEW from, Seek(amount, from) PROVE Position!Next
  <1>1. Idle /\ b.bound /\ b \in BioRec /\ out' = <<>>
    BY DEF Seek, IInv, TypeInv
  <1>2. CASE FlushFails(0, TRUE) /\ UNCHANGED b
    <2>1. FlushFails(0, TRUE)
      BY <1>2
    <2> QED BY <1>2, <2>1, FlushFailsStep
  <1>3. CASE /\ FlushOk /\ SeekTo(amount, from) \in 0..MaxFile
             /\ file' = NewFile /\ off' = SeekTo(amount, from)
             /\ b' = Reading(Emptied(b))
             /\ ret' = Result(off') /\ sure' = TRUE /\ UNCHANGED call
    <2>1. PICK n \in Nat : n = SeekTo(amount, from)
      BY <1>3, BioAssumption DEF BioAssumption
    <2>2. PICK y : y = Reading(Emptied(b))
      OBVIOUS
    <2>3. Hollow(y) /\ y.writing = FALSE
      BY <1>1, <2>2, EmptiedHollow
    <2>4. y.bound /\ y.mode = b.mode
      <3>1. Emptied(b) \in BioRec
        BY FlushedRec
      <3> QED BY <1>1, <2>2, <3>1, SameStream
    <2>5. NewFile \in Seq(Byte)
      BY FlushedFile
    <2>6. call' = NoCall /\ call'.op # "write"
      BY <1>1, <1>3, NoCallShape DEF Idle
    <2>7. Stands(y, NewFile, n, None) = n /\ Holds(y, NewFile, n) = NewFile
      BY <2>3, <2>4, <2>5, NoCallShape, StandsHollow
    <2>8. At' = n
      <3>1. At' = Stands(y, NewFile, n, None)
        BY <1>3, <2>1, <2>2, <2>6, NoCallShape, AtStandsNext
      <3> QED BY <2>7, <3>1
    <2>9. Contents' = Contents
      BY <1>3, <2>1, <2>2, <2>7, ContentsHoldsNext, ContentsNew
    <2>10. Appends' = Appends
      BY <1>3, <2>2, <2>4 DEF Appends
    <2>11. Position!Seek /\ Position!Recover
      <3>1. ret' = Result(n) /\ n \in Int
        BY <1>3, <2>1
      <3> QED BY <1>1, <2>6, <2>8, <2>9, <2>10, <3>1, SeekStep
    <2>12. CASE sure
      BY <1>3, <2>11, <2>12 DEF Position!Next, Position!Sure
    <2>13. CASE ~sure
      BY <1>3, <2>11, <2>13 DEF Position!Next
    <2> QED BY <2>12, <2>13
  <1> QED BY <1>2, <1>3 DEF Seek

\* The output waits no more, and the stream stands where it stood.
LEMMA FlushedStands ==
  ASSUME IInv, Idle, NEW y, y \in {Flushed(b), Reading(Flushed(b))},
         sure \/ b.writing \/ y = b
  PROVE  /\ Stands(y, NewFile, NewOff, None) = At
         /\ Holds(y, NewFile, NewOff) = Contents
         /\ y.mode = b.mode
  <1>1. b \in BioRec /\ file \in Seq(Byte) /\ off \in Nat /\ call.op = None
    BY NoCallShape DEF IInv, TypeInv, Idle
  <1>2. NewFile \in Seq(Byte) /\ NewOff \in Nat
    BY FlushedFile
  <1>3. CASE b.writing
    <2>1. PICK x : x = Emptied(b)
      OBVIOUS
    <2>2. y \in {x, Reading(x)}
      BY <1>3, <2>1, FlushedFile
    <2>3. x \in BioRec /\ x.bound = b.bound /\ x.mode = b.mode
      BY <1>1, <2>1, FlushedRec, SameStream
    <2>4. Hollow(x) /\ Hollow(Reading(x))
      BY <1>1, <2>1, EmptiedHollow
    <2>5. Hollow(y) /\ y.bound = b.bound /\ y.mode = b.mode
      BY <2>2, <2>3, <2>4, SameStream
    <2>6. Holds(y, NewFile, NewOff) = NewFile
      BY <1>2, <2>5, StandsHollow
    <2>7. CASE b.bound
      <3>1. Stands(y, NewFile, NewOff, None) = NewOff
        BY <1>2, <2>5, <2>7, NoCallShape, StandsHollow
      <3>2. At = NewOff
        BY <1>1, <1>3, <2>7, NoCallShape, AtNow
      <3> QED BY <2>5, <2>6, <3>1, <3>2, ContentsNew
    <2>8. CASE ~b.bound
      <3>1. Stands(y, NewFile, NewOff, None) = 0 /\ At = 0
        BY <2>5, <2>8 DEF Stands, At
      <3> QED BY <2>5, <2>6, <3>1, ContentsNew
    <2> QED BY <2>7, <2>8
  <1>4. CASE ~b.writing
    <2>1. y = b /\ NewFile = file /\ NewOff = off
      BY <1>1, <1>4, FlushedFile, ReadingSame
    <2> QED BY <1>1, <2>1, AtStands, ContentsHolds
  <1> QED BY <1>3, <1>4

LEMMA SeekRefusedStep ==
  ASSUME IInv, Careful, NEW amount, NEW from, SeekRefused(amount, from) PROVE Position!Next
  <1>1. /\ Idle /\ call' = NoCall /\ sure' = sure /\ ret' = Error
        /\ file' = NewFile /\ off' = NewOff /\ b' = Flushed(b)
    BY DEF SeekRefused, Avoided, Idle
  <1>2. PICK y : y = Flushed(b)
    OBVIOUS
  <1>3. b.writing \/ y = b
    BY <1>2, FlushedFile
  <1>4. /\ Stands(y, NewFile, NewOff, None) = At
        /\ Holds(y, NewFile, NewOff) = Contents
        /\ y.mode = b.mode
    BY <1>1, <1>2, <1>3, FlushedStands
  <1>5. At' = At
    <2>1. call'.op = None
      BY <1>1, NoCallShape
    <2> QED BY <1>1, <1>2, <1>4, <2>1, AtStandsNext
  <1>6. Contents' = Contents
    BY <1>1, <1>2, <1>4, ContentsHoldsNext
  <1>7. Appends' = Appends
    BY <1>1, <1>2, <1>4 DEF Appends
  <1>8. Position!Fail
    BY <1>1, <1>5, <1>6, <1>7, ResultsShapes, FailStep
  <1> QED BY <1>1, <1>8, SureStep DEF Position!Sure

LEMMA StoppedLoses ==
  ASSUME NEW n, FlushStops(n, 0, FALSE) PROVE Position!Next
  <1>1. ~sure' /\ ret'.errs = 1 /\ call' = NoCall
    BY DEF FlushStops
  <1> QED BY <1>1, LostStep

LEMMA FlushStep == ASSUME IInv, Flush PROVE Position!Next
  <1>1. Idle /\ out' = <<>> /\ b \in BioRec
    BY DEF Flush, IInv, TypeInv
  <1>2. CASE FlushFails(0, FALSE) /\ b' = Reading(b)
    <2>1. FlushFails(0, FALSE)
      BY <1>2
    <2> QED BY <2>1, StoppedLoses DEF FlushFails
  <1>3. CASE /\ FlushOk /\ file' = NewFile /\ off' = NewOff /\ b' = Reading(Flushed(b))
             /\ ret' = Result(0) /\ UNCHANGED <<call, sure>>
    <2>1. PICK y : y = Reading(Flushed(b))
      OBVIOUS
    <2>2. b.writing \/ y = b
      BY <1>1, <2>1, FlushedFile, ReadingSame
    <2>3. /\ Stands(y, NewFile, NewOff, None) = At
          /\ Holds(y, NewFile, NewOff) = Contents
          /\ y.mode = b.mode
      BY <1>1, <2>1, <2>2, FlushedStands
    <2>4. call' = NoCall /\ call'.op = None /\ call'.todo = <<>>
      BY <1>1, <1>3, NoCallShape DEF Idle, NoCall
    <2>5. At' = At
      BY <1>3, <2>1, <2>3, <2>4, AtStandsNext
    <2>6. Contents' = Contents
      BY <1>3, <2>1, <2>3, ContentsHoldsNext
    <2>7. Appends' = Appends
      BY <1>3, <2>1, <2>3 DEF Appends
    <2>8. At' = IF Appends /\ call'.todo # <<>> THEN Len(Contents) ELSE At
      BY <2>4, <2>5
    <2>9. Position!Begin
      BY <1>1, <1>3, <2>6, <2>7, <2>8, BeginStep
    <2> QED BY <1>3, <2>9, SureStep DEF Position!Sure
  <1> QED BY <1>2, <1>3 DEF Flush

\* A new or a closed record stands at the start.
LEMMA ClosedStep ==
  ASSUME IInv, Idle, NEW bound \in BOOLEAN, NEW mode \in SUBSET {"r", "w", "a"},
         b' = [Reading(Emptied(b)) EXCEPT !.bound = bound, !.mode = mode],
         NEW o \in Nat, off' = o, bound => o = 0,
         file' = NewFile, ret' = Result(0), UNCHANGED call
  PROVE  Position!Bind /\ Position!Recover
  <1>0. PICK z : z = Reading(Emptied(b))
    OBVIOUS
  <1>1. PICK y : y = [z EXCEPT !.bound = bound, !.mode = mode] /\ b' = y
    BY <1>0
  <1>2. Hollow(y) /\ y.bound = bound
    BY <1>0, <1>1, ClosedRec
  <1>3. NewFile \in Seq(Byte)
    BY FlushedFile
  <1>4. Holds(y, NewFile, o) = NewFile
    BY <1>2, <1>3, StandsHollow
  <1>5. Stands(y, NewFile, o, None) = 0
    BY <1>2, <1>3, NoCallShape, StandsHollow
  <1>6. call' = NoCall /\ call'.op = None
    BY NoCallShape DEF Idle
  <1>7. At' = 0
    BY <1>1, <1>5, <1>6, AtStandsNext
  <1>8. Contents' = Contents
    BY <1>1, <1>4, ContentsHoldsNext, ContentsNew
  <1> QED BY <1>6, <1>7, <1>8, BindStep

LEMMA CloseStep == ASSUME IInv, Close PROVE Position!Next
  <1>1. Idle /\ b' = [Reading(Emptied(b)) EXCEPT !.bound = FALSE] /\ b \in BioRec
    BY DEF Close, IInv, TypeInv
  <1>2. CASE FlushFails(0, FALSE)
    BY <1>2, StoppedLoses DEF FlushFails
  <1>3. CASE /\ file' = NewFile /\ off' = NewOff /\ ret' = Result(0) /\ UNCHANGED <<call, sure>>
    <2>1. PICK y : y = Reading(Emptied(b))
      OBVIOUS
    <2>2. y \in BioRec /\ y.mode \in SUBSET {"r", "w", "a"}
      BY <2>1, FlushedRec DEF BioRec
    <2>3. [y EXCEPT !.bound = FALSE] = [y EXCEPT !.bound = FALSE, !.mode = y.mode]
      BY <2>2 DEF BioRec
    <2>4. b' = [Reading(Emptied(b)) EXCEPT !.bound = FALSE, !.mode = y.mode]
      BY <1>1, <2>1, <2>3
    <2>5. PICK o \in Nat : o = NewOff
      BY FlushedFile
    <2>6. Position!Bind
      BY <1>1, <1>3, <2>2, <2>4, <2>5, ClosedStep
    <2> QED BY <1>3, <2>6, SureStep DEF Position!Sure
  <1> QED BY <1>2, <1>3 DEF Close

LEMMA BindsStep == ASSUME IInv, NEW mode \in Modes, Bind(mode) PROVE Position!Next
  <1>1. /\ Idle /\ b' = [Reading(Emptied(b)) EXCEPT !.bound = TRUE, !.mode = mode]
        /\ off' = 0 /\ mode \in SUBSET {"r", "w", "a"}
    BY BioAssumption DEF Bind, BioAssumption
  <1>2. CASE \E n \in 0..(b.pos - 1) : FlushStops(n, 0, FALSE)
    BY <1>2, StoppedLoses
  <1>3. CASE file' = NewFile /\ ret' = Result(0) /\ sure' = TRUE /\ UNCHANGED call
    <2>1. Position!Bind /\ Position!Recover
      BY <1>1, <1>3, ClosedStep
    <2>2. CASE sure
      BY <1>3, <2>1, <2>2 DEF Position!Next, Position!Sure
    <2>3. CASE ~sure
      BY <1>3, <2>1, <2>3 DEF Position!Next
    <2> QED BY <2>2, <2>3
  <1> QED BY <1>2, <1>3 DEF Bind

LEMMA TellStep == ASSUME IInv, Careful, Tell PROVE Position!Next
  <1>1. /\ Idle /\ sure /\ ~Misplaced /\ b.bound /\ ret' = Result(Offset)
        /\ UNCHANGED <<file, off, b, call, sure, used>>
    BY DEF Tell, Avoided
  <1>2. /\ b \in BioRec /\ off \in Nat /\ b.pos \in Nat /\ call.op = None /\ call.op # "write"
    BY <1>1, NoCallShape DEF IInv, TypeInv, BioRec, Idle
  <1>3. Offset = At
    <2>1. CASE b.writing
      <3>1. At = IF b.pos > 0 THEN Target + b.pos ELSE off
        BY <1>1, <1>2, <2>1 DEF At
      <3>2. b.pos > 0 => Target = off
        BY <1>1, <2>1 DEF Misplaced, Target
      <3> QED BY <1>2, <2>1, <3>1, <3>2 DEF Offset
    <2>2. CASE ~b.writing
      BY <1>1, <2>2 DEF At, Offset
    <2> QED BY <2>1, <2>2
  <1>4. PICK n \in Int : n = Offset
    BY <1>1, <1>2, BackOverWaiting DEF Offset
  <1>5. ret'.errs = 0 /\ ret'.val = At
    BY <1>1, <1>3, <1>4, ResultsShapes
  <1>6. At' = At /\ Contents' = Contents /\ Appends' = Appends
    <2>1. At' = Stands(b, file, off, call.op) /\ Contents' = Holds(b, file, off)
      BY <1>1, AtStandsNext, ContentsHoldsNext
    <2> QED BY <1>1, <2>1, AtStands, ContentsHolds DEF Appends
  <1>7. Position!Tell
    BY <1>1, <1>2, <1>5, <1>6
       DEF Position!Tell, Position!Idle, Position!Idle_, Position!Quiet
  <1> QED BY <1>1, <1>7, SureStep DEF Position!Sure

LEMMA RefusedStep == ASSUME IInv, Refused PROVE Position!Next
  <1>1. /\ call' = NoCall /\ ret' = Error /\ UNCHANGED <<file, off, b, call, out, sure, used>>
    BY DEF Refused, Idle
  <1>2. At' = At /\ Contents' = Contents /\ Appends' = Appends
    <2>1. At' = Stands(b, file, off, call.op) /\ Contents' = Holds(b, file, off)
      BY <1>1, AtStandsNext, ContentsHoldsNext
    <2> QED BY <1>1, <2>1, AtStands, ContentsHolds DEF Appends
  <1>3. Position!Fail
    BY <1>1, <1>2, ResultsShapes, FailStep
  <1> QED BY <1>1, <1>3, SureStep DEF Position!Sure

-----------------------------------------------------------------------------
(* Refinement *)

LEMMA ResultsKeep == ASSUME IInv, Results, Careful, [Next]_vars PROVE Results'
  <1>1. CASE UNCHANGED vars
    BY <1>1 DEF vars, Results
  <1>2. CASE Refused \/ Tell
    BY <1>2, ResultsSame
  <1>3. CASE Fill \/ FillStops \/ Hand \/ NumEnds
    BY <1>3, ResultsFill, ResultsFillStops, ResultsHand, ResultsNumEnds
  <1>4. ASSUME NEW n \in 0..MaxRead, BeginRead("read", n, Zero) PROVE Results'
    <2>1. n \in Nat /\ "read" \in Reads
      BY DEF Reads
    <2> QED BY <1>4, <2>1, ResultsRead
  <1>5. ASSUME NEW op \in Reads \ {"read"}, NEW delim \in {"a", "c"}, BeginRead(op, 1, delim)
        PROVE  Results'
    <2>1. 1 \in Nat /\ op \in Reads
      OBVIOUS
    <2> QED BY <1>5, <2>1, ResultsRead
  <1>6. ASSUME NEW rune \in BOOLEAN, Unget(rune) PROVE Results'
    BY <1>6, ResultsUnget
  <1>7. ASSUME NEW s \in Texts, BeginWrite(s) PROVE Results'
    BY <1>7, ResultsWrite
  <1>8. CASE WriteOn \/ WriteOut
    BY <1>8, ResultsWriteOn, ResultsWriteOut
  <1>9. ASSUME NEW amount \in -2..MaxFile, NEW from \in 0..2,
               Seek(amount, from) \/ SeekRefused(amount, from)
        PROVE  Results'
    <2>1. amount \in Int
      BY BioAssumption DEF BioAssumption
    <2> QED BY <1>9, <2>1, ResultsSeek, ResultsSeekRefused
  <1>10. CASE Flush \/ Close
    BY <1>10, ResultsFlush, ResultsClose
  <1>11. ASSUME NEW mode \in Modes, Bind(mode) PROVE Results'
    BY <1>11, ResultsBind
  <1> QED BY <1>1, <1>2, <1>3, <1>4, <1>5, <1>6, <1>7, <1>8, <1>9, <1>10, <1>11 DEF Next

LEMMA StepIsStreams ==
  ASSUME IInv, Results, Careful, [Next]_vars PROVE [Position!Next]_(Position!vars)
  <1>1. CASE UNCHANGED vars
    <2>1. At' = Stands(b, file, off, call.op) /\ Contents' = Holds(b, file, off)
      BY <1>1, AtStandsNext, ContentsHoldsNext DEF vars
    <2>2. At' = At /\ Contents' = Contents /\ Appends' = Appends
      BY <1>1, <2>1, AtStands, ContentsHolds DEF vars, Appends
    <2> QED BY <1>1, <2>2 DEF vars, Position!vars
  <1>2. CASE Refused \/ Tell
    BY <1>2, RefusedStep, TellStep
  <1>3. CASE Fill
    BY <1>3, FillStep
  <1>4. CASE FillStops \/ Hand \/ NumEnds
    BY <1>4, FillStopsStep, HandStep, NumEndsStep
  <1>5. ASSUME NEW n \in 0..MaxRead, BeginRead("read", n, Zero) PROVE Position!Next
    <2>1. n \in Nat /\ "read" \in Reads
      BY DEF Reads
    <2> QED BY <1>5, <2>1, ReadStep
  <1>6. ASSUME NEW op \in Reads \ {"read"}, NEW delim \in {"a", "c"}, BeginRead(op, 1, delim)
        PROVE  Position!Next
    <2>1. 1 \in Nat /\ op \in Reads
      OBVIOUS
    <2> QED BY <1>6, <2>1, ReadStep
  <1>7. ASSUME NEW rune \in BOOLEAN, Unget(rune) PROVE Position!Next
    BY <1>7, UngetStep
  <1>8. ASSUME NEW s \in Texts, BeginWrite(s) PROVE Position!Next
    BY <1>8, BeginWriteStep
  <1>9. CASE WriteOn
    BY <1>9, WriteOnStep
  <1>10. CASE WriteOut
    BY <1>10, WriteOutStep
  <1>11. ASSUME NEW amount \in -2..MaxFile, NEW from \in 0..2,
                Seek(amount, from) \/ SeekRefused(amount, from)
         PROVE  Position!Next
    <2>1. amount \in Int
      BY BioAssumption DEF BioAssumption
    <2> QED BY <1>11, <2>1, SeekMoves, SeekRefusedStep
  <1>12. CASE Flush \/ Close
    BY <1>12, FlushStep, CloseStep
  <1>13. ASSUME NEW mode \in Modes, Bind(mode) PROVE Position!Next
    BY <1>13, BindsStep
  <1> QED BY <1>1, <1>2, <1>3, <1>4, <1>5, <1>6, <1>7, <1>8, <1>9, <1>10, <1>11, <1>12, <1>13
          DEF Next

LEMMA StartIsStreams == Init => Position!Init
  BY NoCallShape DEF Init, Position!Init, Position!Idle, At

\* The stream of a careful client implements Stream (ImplementsStream): every
\* call hands out the bytes at the position or puts its own there, whatever
\* the buffer holds, and only a write that failed leaves the position in doubt.
THEOREM StreamImplemented == Careful => (Spec => ImplementsStream)
  <1> SUFFICES ASSUME Careful PROVE Spec => ImplementsStream
    OBVIOUS
  <1>1. Init => IInv /\ Results /\ Position!Init
    BY InitHolds, ResultsInit, StartIsStreams
  <1>2. IInv /\ Results /\ [Next]_vars => IInv' /\ Results' /\ [Position!Next]_(Position!vars)
    BY StepKeeps, ResultsKeep, StepIsStreams
  <1> QED BY <1>1, <1>2, PTL DEF Spec, ImplementsStream, Position!Spec
=============================================================================
