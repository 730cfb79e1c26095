------------------------------ MODULE MCPeerSync ------------------------------
(***************************************************************************)
(* A trunk of three blocks, a fork of four that leaves it after the second *)
(* and one of four that leaves it after the first: a frame takes one block *)
(* and a transfer two, two exchanges fail.                                 *)
(***************************************************************************)
EXTENDS PeerSync

Longest == {<<"g", "a1", "a2">>, <<"g", "a1", "b2", "b3">>, <<"g", "c1", "c2", "c3">>}
Blocks8 == UNION {{h[i] : i \in 1..Len(h)} : h \in Longest}
TreeHistories == UNION {{SubSeq(h, 1, n) : n \in 1..Len(h)} : h \in Longest}

\* The first block of the second fork outweighs every other block together: a
\* history may become shorter.
TreeWork ==
  [h \in TreeHistories |-> IF Len(h) > 1 /\ h[2] = "c1" THEN Len(h) + 3 ELSE Len(h)]
=============================================================================
