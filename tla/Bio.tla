-------------------------------- MODULE Bio --------------------------------
(***************************************************************************)
(* One buffered stream of src/bio.c over a regular file.  Its buffer is    *)
(* either read-ahead (b.buf up to b.len, consumed up to b.pos) or pending  *)
(* output (b.buf up to b.pos); bytes given back wait in b.unget and come   *)
(* first.  The file and the kernel's offset in it are external: reads and  *)
(* writes may be short or fail, and the disk may be full.  A byte is of    *)
(* one of three kinds, which is what the decoding of UTF-8 looks at.       *)
(***************************************************************************)
EXTENDS Integers, Sequences, FiniteSets

CONSTANTS
  BufSize,   (* COETUA_BIO_BUFSZ                                           *)
  Modes,     (* the omodes a client binds with: sets of "r", "w", "a"      *)
  Files,     (* the files it may find                                      *)
  Texts,     (* what it writes                                             *)
  MaxFile,   (* bound: the disk has no room for a longer file              *)
  MaxRead,   (* bound: the most bytes a read asks for                      *)
  Careful    (* the client avoids what Avoided names                       *)

\* An ASCII byte (zero among them), the first and the second byte of a rune.
Byte == {"a", "l", "c"}
Zero == "a"
None == "none"
Junk == "junk"   (* a byte of memory that holds nothing                    *)

ASSUME BioAssumption ==
  /\ BufSize \in Nat \ {0} /\ MaxFile \in Nat /\ MaxRead \in Nat
  /\ Files \subseteq Seq(Byte) /\ Texts \subseteq Seq(Byte)
  /\ Modes \subseteq SUBSET {"r", "w", "a"} /\ Careful \in BOOLEAN

VARIABLES
  file, off,   (* the file and the kernel's offset (external)              *)
  b,           (* the bio record                                           *)
  call,        (* the call in progress                                     *)
  out,         (* the caller's buffer: what the call has handed out        *)
  ret,         (* its result: a count or an offset, and the errors raised  *)
  sure,        (* history: no write has failed since the last seek         *)
  used         (* history: how many bytes the last get consumed            *)

vars == <<file, off, b, call, out, ret, sure, used>>

Smaller(m, n) == IF m < n THEN m ELSE n
Overlay(d, p, s) ==
  [i \in 1..(IF s # <<>> /\ p + Len(s) > Len(d) THEN p + Len(s) ELSE Len(d)) |->
     IF p < i /\ i <= p + Len(s) THEN s[i - p]
     ELSE IF i <= Len(d) THEN d[i] ELSE Zero]

NoCall     == [op |-> None, left |-> 0, todo |-> <<>>, delim |-> Zero]
Idle       == call = NoCall
Result(n)  == [val |-> n, errs |-> 0]
Error      == [val |-> 0, errs |-> 1]

\* memmove's operand and bbuffered: what is read ahead, and how much waits.
Unread(x)   == SubSeq(x.buf, x.pos + 1, x.len)
Buffered(x) == IF x.writing THEN x.pos ELSE Len(Unread(x)) + Len(x.unget)
Offset      == IF b.writing THEN off + b.pos ELSE off - Buffered(b)

\* bio_forget_get after the buffer was emptied.
Emptied(x)  == [x EXCEPT !.buf = <<>>, !.pos = 0, !.len = 0, !.last = <<>>, !.unget = <<>>]
Reading(x)  == [x EXCEPT !.writing = FALSE]

Appends     == "a" \in b.mode
CanRead     == b.bound /\ "r" \in b.mode
CanWrite    == b.bound /\ b.mode \cap {"w", "a"} # {}

\* write_all over the pending output, n bytes of which get out.  dwrite goes
\* to the end of the file first in append mode.
Target    == IF Appends THEN Len(file) ELSE off
Fits(n)   == n = 0 \/ Target + n <= MaxFile
Output(n) == Overlay(file, Target, SubSeq(b.buf, 1, n))
After(n)  == IF b.pos = 0 THEN off ELSE Target + n

\* bio_flush_write where the code asks for it only if b.writing.
FlushOk  == b.writing => Fits(b.pos)
NewFile  == IF b.writing THEN Output(b.pos) ELSE file
NewOff   == IF b.writing THEN After(b.pos) ELSE off
Flushed(x) == IF x.writing THEN Emptied(x) ELSE x

\* The flush fails after n bytes.  If any got out a retry puts them out
\* again, and some callers do not keep the output for one.
FlushStops(n, val, keeps) ==
  /\ b.writing /\ Fits(n)
  /\ file' = Output(n)
  /\ sure' = (sure /\ keeps /\ n = 0)
  /\ ret' = [val |-> val, errs |-> 1] /\ call' = NoCall
FlushFails(val, keeps) ==
  \E n \in 0..(b.pos - 1) : FlushStops(n, val, keeps) /\ off' = After(n)

\* What a careful client does not do, where the code does not keep what it
\* promises: go on after a failed write without seeking; give back a rune
\* that was malformed; write nothing in append mode; ask for the offset, or
\* seek from it, while output waits elsewhere than at the kernel's offset;
\* seek from the end to before the start; read a line after giving back more
\* than there is room for.
Avoided(what) == Careful /\ what
Misplaced     == b.writing /\ Appends /\ b.pos > 0 /\ off # Len(file)

-----------------------------------------------------------------------------
(* Reading *)

Reads == {"read", "line", "getc", "rune", "num"}

\* What s reads like after it was written from the start of the buffer.
\* Behind the end of the array lies memory of others: a byte there may be
\* found again, or another one.
Kept(s) == {t \in [DOMAIN s -> Byte] : \A i \in DOMAIN s : i <= BufSize => t[i] = s[i]}

\* A faulty variant: bytes given back are taken from the stack bottom first.
MergedReversed(x) ==
  IF x.unget = <<>> THEN {x}
  ELSE LET n == Len(x.unget)
       IN  {[x EXCEPT !.buf = t, !.pos = 0, !.len = Len(t), !.unget = <<>>] :
              t \in Kept([i \in 1..n |-> x.unget[n + 1 - i]] \o Unread(x))}
\* bio_merge_pushback.  Nothing checks that the array has room.
Merged(x) ==
  IF x.unget = <<>> THEN {x}
  ELSE {[x EXCEPT !.buf = t, !.pos = 0, !.len = Len(t), !.unget = <<>>] :
          t \in Kept(x.unget \o Unread(x))}

\* What bread and brdline do to the record before their loop.
Prepared(op, x) ==
  CASE op = "read" -> {[x EXCEPT !.last = <<>>]}
    [] op = "line" -> Merged([x EXCEPT !.last = <<>>])
    [] OTHER       -> {x}

\* More was given back than the array has room for before what is read ahead.
Overfull == ~b.writing /\ Len(b.unget) + Len(Unread(b)) > BufSize

\* bio_can_read, and the beginning of bread, brdline, bgetc, bgetrune, bgetd.
Refused == Idle /\ ret' = Error /\ UNCHANGED <<file, off, b, call, out, sure, used>>

BeginRead(op, n, delim) ==
  /\ Idle /\ ~Avoided(~sure) /\ ~Avoided(op = "line" /\ Overfull)
  /\ CanRead
  /\ b.pos <= BufSize + MaxRead   \* bound: reads of memory beyond the buffer
  /\ \/ /\ FlushOk /\ file' = NewFile /\ off' = NewOff
        /\ b' \in Prepared(op, Reading(Flushed(b)))
        /\ call' = IF n = 0 THEN NoCall
                   ELSE [op |-> op, left |-> n, todo |-> <<>>, delim |-> delim]
        /\ out' = <<>> /\ ret' = Result(0)
        /\ UNCHANGED sure
     \/ FlushFails(0, TRUE) /\ UNCHANGED <<b, out>>
  /\ UNCHANGED used

\* The loops ask for more when nothing is given back and the read-ahead is
\* used up; bread compares for equality, bio_fill does not.
\* bgetd asks for another byte only after one that can be in a number.
GoesOn   == call.op = "num" => \A i \in 1..Len(out) : out[i] = "a"
Drained  == IF call.op = "read" THEN b.pos = b.len ELSE b.pos >= b.len
MustFill == call.op \in Reads /\ b.unget = <<>> /\ Drained /\ GoesOn

Fill ==
  /\ MustFill
  /\ \E n \in 1..BufSize :
       /\ off + n <= Len(file)
       /\ b' = [b EXCEPT !.buf = SubSeq(file, off + 1, off + n), !.pos = 0, !.len = n]
       /\ off' = off + n
  /\ UNCHANGED <<file, call, out, ret, sure, used>>

\* bio_pushback of the last k bytes the call read.
GivenBack(x, k) ==
  IF k = 0 THEN x
  ELSE [x EXCEPT !.unget = SubSeq(out, Len(out) - k + 1, Len(out)) \o @, !.last = <<>>]

\* Nothing more: the end of the file, or an error of dread.  In the middle of
\* a rune bgetrune raises an error of its own, maybe a second one: the program
\* ends.  bgetd gives back an exponent that has no digits, and complains
\* unless there is an error already.
FillStops ==
  /\ MustFill
  /\ \E failed \in 0..1, k \in 0..2, complains \in 0..1 :
       LET broken == call.op = "rune" /\ out # <<>>
           empty  == [b EXCEPT !.buf = <<>>, !.pos = 0, !.len = 0]
           stays  == IF failed = 1 \/ call.op = "read" THEN b ELSE empty
           errs   == failed + complains
       IN  /\ failed = 0 => off >= Len(file)
           /\ call.op # "num" => k = 0 /\ complains = IF broken THEN 1 ELSE 0
           /\ call.op = "num" => k <= Len(out) /\ errs <= 1 /\ (errs = 0 => out # <<>>)
           /\ b' = IF broken THEN [stays EXCEPT !.last = <<>>] ELSE GivenBack(stays, k)
           /\ ret' = [ret EXCEPT !.errs = errs]
           /\ call' = IF errs = 2 THEN [call EXCEPT !.op = "exit"] ELSE NoCall
  /\ UNCHANGED <<file, off, out, sure, used>>

\* How many bytes find_delim_byte takes.
UpTo(delim, s) ==
  LET ends == {i \in 1..Len(s) : s[i] = delim}
  IN  IF ends = {} THEN Len(s) ELSE CHOOSE i \in ends : \A j \in ends : i <= j

\* bio_read_byte and the copying of bread: given-back bytes come first.  Where
\* b.pos is beyond b.len, as a failed bflush leaves it, the difference that
\* bread computes wraps around, and it copies memory nothing was read into.
Ready ==
  IF b.unget # <<>> THEN b.unget
  ELSE IF call.op = "read" /\ b.pos > b.len THEN [i \in 1..call.left |-> Junk]
  ELSE Unread(b)
Popped(n) ==
  IF b.unget # <<>> THEN [b EXCEPT !.unget = SubSeq(@, n + 1, Len(@))]
  ELSE [b EXCEPT !.pos = @ + n]

Chunk ==
  CASE call.op = "read" -> Smaller(call.left, Len(Ready))
    [] call.op = "line" -> UpTo(call.delim, Ready)
    [] OTHER            -> 1

\* bio_remember: the bytes chartorune says a rune took, one if malformed.
Remembered(s) == IF Len(s) = 2 /\ s[2] # "c" THEN <<s[1]>> ELSE s

\* fullrune.
Full(s) == s[1] # "l" \/ Len(s) = 2

Hand ==
  /\ call.op \in Reads /\ Ready # <<>> /\ GoesOn
  /\ call.op = "num" => Len(out) < MaxRead
  /\ LET got  == out \o SubSeq(Ready, 1, Chunk)
         done == CASE call.op = "read" -> call.left = Chunk
                   [] call.op = "rune" -> Full(got)
                   [] OTHER            -> call.op # "num"
         x    == Popped(Chunk)
     IN  /\ out' = got
         /\ ret' = [ret EXCEPT !.val = @ + Chunk]
         /\ call' = IF done THEN NoCall
                    ELSE [call EXCEPT !.left = IF call.op = "read" THEN @ - Chunk ELSE @]
         /\ IF call.op \in {"getc", "num"} \/ (call.op = "rune" /\ done)
              THEN LET seq == IF call.op = "num" THEN <<got[Len(got)]>> ELSE got
                   IN  b' = [x EXCEPT !.last = Remembered(seq)] /\ used' = Len(seq)
              ELSE b' = x /\ UNCHANGED used
  /\ UNCHANGED <<file, off, sure>>

\* The byte after a number is given back, and so is an exponent's beginning;
\* no number ends between a fill and the byte it was for.
NumEnds ==
  /\ call.op = "num" /\ ~(b.pos = 0 /\ b.len > 0)
  /\ \E k \in 1..3, errs \in 0..1 :
       /\ k <= Len(out) /\ (errs = 1 => k = 1) /\ (errs = 0 => k < Len(out))
       /\ b' = GivenBack(b, k)
       /\ ret' = [ret EXCEPT !.errs = errs]
  /\ call' = NoCall
  /\ UNCHANGED <<file, off, out, sure, used>>

\* bungetc takes back one byte, bungetrune all that the last get was.
Unget(rune) ==
  /\ Idle /\ ~Avoided(~sure \/ used # Len(b.last))
  /\ ~b.writing
  /\ b.last # <<>> /\ (~rune => Len(b.last) = 1)
  /\ Len(b.unget) + Len(b.last) <= 5
  /\ b' = [b EXCEPT !.unget = b.last \o @, !.last = <<>>]
  /\ UNCHANGED <<file, off, call, out, ret, sure, used>>

-----------------------------------------------------------------------------
(* Writing *)

\* A faulty variant: the bytes given back are not counted.
BeginWriteShort(s) ==
  /\ Idle /\ ~Avoided(~sure) /\ ~Avoided(Appends /\ s = <<>>)
  /\ CanWrite
  /\ off' = IF b.writing \/ Appends THEN off ELSE off - Len(Unread(b))
  /\ b' = IF b.writing THEN [b EXCEPT !.last = <<>>, !.unget = <<>>]
          ELSE [Emptied(b) EXCEPT !.writing = TRUE]
  /\ call' = IF s = <<>> THEN NoCall ELSE [NoCall EXCEPT !.op = "write", !.todo = s]
  /\ out' = <<>> /\ ret' = Result(0)
  /\ UNCHANGED <<file, sure, used>>

\* The switch from reading: the kernel's offset goes back over what was read
\* ahead, but not in append mode.
BeginWrite(s) ==
  /\ Idle /\ ~Avoided(~sure) /\ ~Avoided(Appends /\ s = <<>>)
  /\ CanWrite
  /\ off' = IF b.writing \/ Appends THEN off ELSE off - Buffered(b)
  /\ b' = IF b.writing THEN [b EXCEPT !.last = <<>>, !.unget = <<>>]
          ELSE [Emptied(b) EXCEPT !.writing = TRUE]
  /\ call' = IF s = <<>> THEN NoCall ELSE [NoCall EXCEPT !.op = "write", !.todo = s]
  /\ out' = <<>> /\ ret' = Result(0)
  /\ UNCHANGED <<file, sure, used>>

\* As many bytes as the buffer has room for.
WriteOn ==
  /\ call.op = "write" /\ b.pos < BufSize
  /\ LET n == Smaller(Len(call.todo), BufSize - b.pos)
     IN  /\ b' = [b EXCEPT !.buf = SubSeq(@, 1, b.pos) \o SubSeq(call.todo, 1, n),
                           !.pos = @ + n]
         /\ call' = IF n = Len(call.todo) THEN NoCall
                    ELSE [call EXCEPT !.todo = SubSeq(@, n + 1, Len(@))]
         /\ ret' = [ret EXCEPT !.val = @ + n]
  /\ UNCHANGED <<file, off, out, sure, used>>

\* The buffer is full.
WriteOut ==
  /\ call.op = "write" /\ b.pos = BufSize
  /\ \/ /\ FlushOk /\ file' = NewFile /\ off' = NewOff /\ b' = Emptied(b)
        /\ UNCHANGED <<call, ret, sure>>
     \/ FlushFails(ret.val, TRUE) /\ UNCHANGED b
  /\ UNCHANGED <<out, used>>

-----------------------------------------------------------------------------
(* Positioning, binding *)

\* bseek from the start (0), the position (1) or the end (2).
SeekTo(amount, from) ==
  amount + CASE from = 0 -> 0 [] from = 1 -> Offset [] from = 2 -> Len(NewFile)

Seek(amount, from) ==
  /\ Idle /\ ~Avoided(from = 1 /\ Misplaced)
  /\ b.bound
  /\ \/ /\ FlushOk /\ SeekTo(amount, from) \in 0..MaxFile
        /\ file' = NewFile /\ off' = SeekTo(amount, from)
        /\ b' = Reading(Emptied(b))
        /\ ret' = Result(off') /\ sure' = TRUE /\ UNCHANGED call
     \/ FlushFails(0, TRUE) /\ UNCHANGED b
  /\ out' = <<>> /\ UNCHANGED used

\* A position before the start is refused, but from the end not before the
\* kernel's offset has gone there.
SeekRefused(amount, from) ==
  /\ Idle /\ ~Avoided(from = 2)
  /\ b.bound /\ FlushOk /\ SeekTo(amount, from) < 0
  /\ file' = NewFile
  /\ off' = IF from = 2 THEN Len(NewFile) ELSE NewOff
  /\ b' = IF from = 2 THEN Reading(Flushed(b)) ELSE Flushed(b)
  /\ ret' = Error /\ out' = <<>>
  /\ UNCHANGED <<call, sure, used>>

Tell ==
  /\ Idle /\ ~Avoided(Misplaced \/ ~sure)
  /\ b.bound
  /\ ret' = Result(Offset) /\ out' = <<>>
  /\ UNCHANGED <<file, off, b, call, sure, used>>

\* bflush, bclose and binit give up the output that cannot be flushed.
Flush ==
  /\ Idle
  /\ \/ /\ FlushOk /\ file' = NewFile /\ off' = NewOff /\ b' = Reading(Flushed(b))
        /\ ret' = Result(0) /\ UNCHANGED <<call, sure>>
     \/ FlushFails(0, FALSE) /\ b' = Reading(b)
  /\ out' = <<>> /\ UNCHANGED used

Close ==
  /\ Idle
  /\ \/ /\ FlushOk /\ file' = NewFile /\ off' = NewOff
        /\ ret' = Result(0) /\ UNCHANGED <<call, sure>>
     \/ FlushFails(0, FALSE)
  /\ b' = [Reading(Emptied(b)) EXCEPT !.bound = FALSE]
  /\ out' = <<>> /\ UNCHANGED used

\* binit, with a descriptor of the file that was just opened; bopen.
Bind(mode) ==
  /\ Idle
  /\ \/ /\ FlushOk /\ file' = NewFile
        /\ ret' = Result(0) /\ sure' = TRUE /\ UNCHANGED call
     \/ \E n \in 0..(b.pos - 1) : FlushStops(n, 0, FALSE)
  /\ b' = [Reading(Emptied(b)) EXCEPT !.bound = TRUE, !.mode = mode]
  /\ off' = 0 /\ out' = <<>> /\ UNCHANGED used

-----------------------------------------------------------------------------

Init ==
  /\ file \in Files /\ off = 0
  /\ b = [bound |-> FALSE, mode |-> {}, buf |-> <<>>, pos |-> 0, len |-> 0,
          last |-> <<>>, unget |-> <<>>, writing |-> FALSE]
  /\ call = NoCall /\ out = <<>> /\ ret = Result(0) /\ sure = TRUE /\ used = 0

Next ==
  \/ Refused \/ Fill \/ FillStops \/ Hand \/ NumEnds
  \/ \E n \in 0..MaxRead : BeginRead("read", n, Zero)
  \/ \E op \in Reads \ {"read"}, delim \in {"a", "c"} :
       (op # "line" => delim = Zero) /\ BeginRead(op, 1, delim)
  \/ \E rune \in BOOLEAN : Unget(rune)
  \/ \E s \in Texts : BeginWrite(s)
  \/ WriteOn \/ WriteOut
  \/ \E amount \in -2..MaxFile, from \in 0..2 :
       Seek(amount, from) \/ SeekRefused(amount, from)
  \/ Tell \/ Flush \/ Close
  \/ \E mode \in Modes : Bind(mode)

Spec == Init /\ [][Next]_vars

-----------------------------------------------------------------------------
(* Properties *)

\* The logical position of a stream.
At ==
  IF ~b.bound THEN 0
  ELSE IF ~b.writing THEN off - Buffered(b)
  ELSE IF b.pos > 0 \/ call.op = "write" THEN Target + b.pos ELSE off

\* What waits to be read, given-back bytes first, is what the file holds
\* between the position and the kernel's offset, however reads of bytes, runes,
\* lines and numbers, pushbacks across the end of the buffer, switches
\* to writing and back, and seeks followed one another; and neither it nor
\* pending output is longer than the buffer's array.
BufferIsFile ==
  /\ b.len <= BufSize
  /\ b.writing => b.pos <= BufSize
  /\ b.bound /\ sure /\ ~b.writing =>
       LET waits == b.unget \o Unread(b)
       IN  Len(waits) <= off /\ waits = SubSeq(file, off - Len(waits) + 1, off)

\* The file with the output that is pending.
Contents ==
  IF b.writing THEN Overlay(file, Target, SubSeq(b.buf, 1, b.pos)) ELSE file

\* Step by step the stream is a file with one position: pending output counts
\* as written, read-ahead as not read.
Position == INSTANCE Stream WITH
  data   <- Contents,
  at     <- At,
  append <- Appends,
  last   <- b.last
ImplementsStream == Position!Spec

\* bio.h says of bungetrune that it backs up a rune "so it can be reread as
\* bytes or a rune": a line that is read next begins with what was given back,
\* and goes on with what is behind it.
GivenBackReread ==
  [][call = NoCall /\ call'.op = "line" /\ ~b.writing =>
       b'.unget \o Unread(b') = b.unget \o Unread(b)]_vars

\* bungetrune puts back what bgetrune read (bio.h:50-51).
RuneGivenBack ==
  [][Idle /\ b.last # <<>> /\ Len(b'.unget) > Len(b.unget) => At' = At - used]_vars
=============================================================================
