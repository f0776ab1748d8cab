------------------------------ MODULE AckedLog ------------------------------
(***************************************************************************)
(* What the agent and the server promise each other about a tailed file,   *)
(* with no scan, request, retry or crash in sight: the server's store of   *)
(* (generation, line) entries only grows, and the agent's own position in  *)
(* a file moves only to where everything before it is stored.              *)
(***************************************************************************)
EXTENDS Integers

CONSTANT Files

VARIABLES
    stored,     \* file -> set of <<generation, line>> entries the server holds
    position    \* file -> [gen, off]: the agent will not send lines 1 .. off again

vars == <<stored, position>>

Covered(f, gen, off) == \A i \in 1..off : <<gen, i>> \in stored[f]

Init ==
    /\ stored = [f \in Files |-> {}]
    /\ position = [f \in Files |-> [gen |-> 0, off |-> 0]]

Commit ==
    /\ \A f \in Files : stored[f] \subseteq stored'[f]
    /\ UNCHANGED position

Advance ==
    /\ \A f \in Files : Covered(f, position'[f].gen, position'[f].off)
    /\ UNCHANGED stored

Next == Commit \/ Advance

Spec == Init /\ [][Next]_vars
=============================================================================
