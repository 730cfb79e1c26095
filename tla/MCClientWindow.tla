--------------------------- MODULE MCClientWindow ---------------------------
(* A small instance of ClientWindow: two profiles, two contracts that       *)
(* change places in the list, a tracker that can remember two texts, and    *)
(* behaviours that are long in one direction or short in several.           *)
EXTENDS ClientWindow

CONSTANTS first, second, c1, c2

TwoProfiles == {first, second}
TwoContracts == {c1, c2}
SomeLists == {<<>>, <<c1>>, <<c2, c1>>}

Budget(r, p, c, l) == [requests |-> r, selects |-> p, changes |-> c, interrupted |-> l]
SomeBudgets == {Budget(2, 0, 0, TRUE), Budget(1, 1, 0, TRUE), Budget(0, 2, 0, TRUE),
                Budget(0, 0, 1, TRUE),
                Budget(0, 0, 3, FALSE), Budget(0, 1, 1, FALSE)}
FewBudgets == {Budget(1, 1, 0, TRUE)}
=============================================================================
