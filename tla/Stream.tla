------------------------------- MODULE Stream -------------------------------
(***************************************************************************)
(* What src/bio.h promises of a buffered stream: a file with one position. *)
(* A call that reads hands out the bytes at the position, one that writes  *)
(* puts its bytes there (at the end, in append mode), and nothing else     *)
(* moves it but seeking, giving back what was just read, and binding.      *)
(* Only after a write that failed the position is in doubt, until the next *)
(* seek.                                                                   *)
(***************************************************************************)
EXTENDS Integers, Sequences

CONSTANTS Zero, None   (* the byte in a gap; the op of no call             *)

VARIABLES
  data,     (* the file's bytes, those not yet written among them          *)
  at,       (* the position                                                *)
  sure,     (* whether no write has failed since the last seek             *)
  append,   (* whether the stream is in append mode                        *)
  call,     (* the call in progress: its op, the bytes it wants or brings  *)
  last,     (* the bytes that can be given back                            *)
  out,      (* the bytes the call has handed out                           *)
  ret       (* its result so far: a count or offset, and the errors raised *)

vars == <<data, at, sure, append, call, last, out, ret>>

\* s written over d from position p; a gap is filled.
Overlay(d, p, s) ==
  [i \in 1..(IF s # <<>> /\ p + Len(s) > Len(d) THEN p + Len(s) ELSE Len(d)) |->
     IF p < i /\ i <= p + Len(s) THEN s[i - p]
     ELSE IF i <= Len(d) THEN d[i] ELSE Zero]

Idle    == call.op = None
Idle_   == call'.op = None
Quiet   == ret'.errs = 0
AtEnd   == at >= Len(data)

Begin ==
  /\ Idle /\ Quiet
  /\ ret'.val = 0 /\ out' = <<>>
  /\ at' = IF append /\ call'.todo # <<>> THEN Len(data) ELSE at
  /\ UNCHANGED <<data, append>>

Hand ==
  /\ ~Idle /\ call.op # "write" /\ Quiet
  /\ at < at' /\ at' <= Len(data)
  /\ out' = out \o SubSeq(data, at + 1, at')
  /\ ret'.val = ret.val + at' - at
  /\ call.op = "read" => call.left >= at' - at
                         /\ (Idle_ <=> call.left = at' - at)
                         /\ (~Idle_ => call'.left = call.left - (at' - at))
  /\ call.op = "line" => \A i \in 1..(Len(out') - 1) : out'[i] # call.delim
  /\ call.op = "getc" => Len(out') = 1 /\ Idle_
  /\ UNCHANGED <<data, append>>

\* A read comes back with less than it was asked for: the end of the file.
End ==
  /\ ~Idle /\ call.op # "write" /\ Idle_ /\ Quiet
  /\ AtEnd
  /\ UNCHANGED <<data, at, append, out>> /\ ret'.val = ret.val

Put ==
  /\ call.op = "write" /\ Quiet
  /\ \E n \in 1..Len(call.todo) :
       /\ data' = Overlay(data, at, SubSeq(call.todo, 1, n))
       /\ at' = at + n /\ ret'.val = ret.val + n
       /\ IF n = Len(call.todo) THEN Idle_
          ELSE call' = [call EXCEPT !.todo = SubSeq(@, n + 1, Len(@))]
  /\ UNCHANGED <<append, out>>

\* A call fails and nothing is lost; what it did before it still counts.
Fail ==
  /\ Idle_ /\ ret'.errs = 1
  /\ UNCHANGED <<data, at, append>>

Seek ==
  /\ Idle /\ Idle_ /\ Quiet
  /\ at' = ret'.val
  /\ UNCHANGED <<data, append>>

Tell ==
  /\ Idle /\ Idle_ /\ Quiet
  /\ ret'.val = at
  /\ UNCHANGED <<data, at, append>>

GiveBack ==
  /\ Idle /\ Idle_
  /\ at' = at - Len(last)
  /\ UNCHANGED <<data, append, ret, out>>

\* bgetd returns the bytes that turned out not to belong to the number.
GiveBackSome ==
  /\ call.op = "num" /\ Idle_ /\ ret'.errs <= 1
  /\ \E k \in 0..3 : k <= Len(out) /\ at' = at - k
  /\ UNCHANGED <<data, append, out>>

Bind == Idle /\ Idle_ /\ Quiet /\ at' = 0 /\ UNCHANGED data

\* Where a call raises a second error the program ends.
Abort == ~Idle /\ call' = [call EXCEPT !.op = "exit"] /\ ret'.errs = 2 /\ UNCHANGED <<data, at>>

Sure ==
  \/ Begin \/ Hand \/ Put \/ End \/ Fail \/ Abort
  \/ Seek \/ Tell \/ GiveBack \/ GiveBackSome \/ Bind

\* Doubt arises only from a call that reports an error, and ends with a seek
\* or a bind.
Lose    == sure => ret'.errs = 1 /\ Idle_
Recover == Idle /\ Idle_ /\ Quiet /\ (at' = ret'.val \/ at' = 0)

Init == at = 0 /\ sure = TRUE /\ Idle

Next ==
  \/ sure /\ sure' /\ Sure
  \/ ~sure' /\ Lose
  \/ ~sure /\ sure' /\ Recover

Spec == Init /\ [][Next]_vars
=============================================================================
