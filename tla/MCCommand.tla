----------------------------- MODULE MCCommand -----------------------------
(* A small instance of Command: two tips, two targets, an easy and a hard  *)
(* one, four nonces, and two operations one after the other.               *)
EXTENDS Command

CONSTANTS t1, t2, easy, hard

TwoTips == {t1, t2}
TwoTargets == {easy, hard}
Solved == [w \in TwoTips \X TwoTargets |->
             IF w[2] = hard THEN (IF w[1] = t1 THEN {3} ELSE {})
             ELSE (IF w[1] = t1 THEN {1, 2} ELSE {0, 3})]
=============================================================================
