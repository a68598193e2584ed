-------------------------- MODULE MCStreamAlgebra --------------------------
(***************************************************************************)
(* A buffered stream and the operations on whole hash tables in one state  *)
(* space: an initial state chooses which of them is used, the other stays  *)
(* as it is.  They have nothing in common but that each is checked on its  *)
(* own.                                                                    *)
(***************************************************************************)
EXTENDS Bio, HashAlgebra

CONSTANT Parts   (* what may be used: "stream", "algebra" *)

VARIABLE part

\* Files with runes across the end of a buffer, some of them malformed, and
\* texts that fill the buffer and exceed it.
MCFiles == {<<>>, <<"a", "l", "c">>, <<"l", "a", "c", "a">>}
MCTexts == {<<>>, <<"c">>, <<"l", "c", "a">>}

\* In a table of four slots "a" and "b" collide; in one of eight "a" moves on
\* and "b" moves back to its home.
MCHash == [k \in Key |-> CASE k = "a" -> 4 [] k = "b" -> 0 [] k = "c" -> 3 [] OTHER -> 7]
MCVal  == 1..MaxCount

InitStreamAlgebra == /\ part \in Parts
                     /\ Init /\ InitAlgebra
                     /\ part # "stream" => file = <<>>
                     /\ part # "algebra" => kind = "set"

StreamStep  == part = "stream"  /\ Next        /\ UNCHANGED <<part, algebraVars>>
AlgebraStep == part = "algebra" /\ NextAlgebra /\ UNCHANGED <<part, vars>>

NextStreamAlgebra == StreamStep \/ AlgebraStep

streamAlgebra == <<part, vars, algebraVars>>

SpecStreamAlgebra == InitStreamAlgebra /\ [][NextStreamAlgebra]_streamAlgebra
=============================================================================
