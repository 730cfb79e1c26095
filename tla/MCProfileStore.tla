--------------------------- MODULE MCProfileStore ---------------------------
(* A small instance of ProfileStore: two profiles, the name of one a       *)
(* beginning of the other's, and two workers.                              *)
EXTENDS ProfileStore, TLC

CONSTANTS a, ab, worker, command

TwoNames == {a, ab}
Beginnings == (ab :> {a}) @@ (a :> {})
TwoWorkers == {worker, command}
Alike == Permutations(TwoWorkers)
=============================================================================
