----------------------------- MODULE MCStorage -----------------------------
(***************************************************************************)
(* Linear silos, arenas and expeditions in one state space: an initial     *)
(* state chooses which of them is used, the others stay as they are.  They *)
(* have nothing in common but that each is checked on its own.             *)
(***************************************************************************)
EXTENDS LinearSilo, Arena

CONSTANTS XpedtWord, Room, Width, MaxCall

VARIABLES used, live, nodes, dots, leaf, jobs, named, asked, heard

X == INSTANCE XpedtMeaning WITH Word <- XpedtWord, given <- named

xpedt == <<live, nodes, dots, leaf, jobs, named, asked, heard>>

InitStorage == /\ used \in {"silo", "arena", "xpedt"}
               /\ Init /\ InitArena /\ X!Init
               /\ used # "silo" => silo.type = CHOOSE type \in Types : TRUE

SiloStep  == used = "silo"  /\ Next      /\ UNCHANGED <<used, arenaVars, xpedt>>
ArenaStep == used = "arena" /\ NextArena /\ UNCHANGED <<used, vars, xpedt>>
XpedtStep == used = "xpedt" /\ X!Next    /\ UNCHANGED <<used, vars, arenaVars>>

\* The program has ended on a second error.
Ended == used = "arena" /\ Exited /\ UNCHANGED <<used, vars, arenaVars, xpedt>>

NextStorage == SiloStep \/ ArenaStep \/ XpedtStep \/ Ended

storage == <<used, vars, arenaVars, xpedt>>

SpecStorage == InitStorage /\ [][NextStorage]_storage
-----------------------------------------------------------------------------
\* What a client is handed by an expedition is what its nodes mean as
\* functions on sequences, whatever buffers they share.
EvalExact == X!EvalExact

\* The jobs of an expedition are served in order, up to the first that fails.
JobsServed == X!JobsServed
=============================================================================
