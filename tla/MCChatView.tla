------------------------------ MODULE MCChatView ------------------------------
(* The list of the open chat for TLC: some rows, two of them a group of      *)
(* tools; the chat is opened with the rows between the first and the last,   *)
(* or with the later ones, so that older rows continue the group at its      *)
(* head, or is new; real heights are above and below the estimate.           *)
EXTENDS ChatView

MCHeight == [i \in 1..LastRow |-> IF i % 2 = 0 THEN 1 ELSE 3]
MCOpenedWith ==
    {[lo |-> 2, hi |-> LastRow - 1], [lo |-> 4, hi |-> LastRow - 1], [lo |-> 1, hi |-> 0]}
MCSavedHeights == {{2, 3}}
=============================================================================
