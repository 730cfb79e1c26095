------------------------- MODULE MCBackgroundMining -------------------------
(* Small instances of BackgroundMining.                                    *)
EXTENDS BackgroundMining

CONSTANTS first, main, other, alice, bob, none

OneWork == {first}
TwoEndpoints == {main, other}
TwoIdentities == {alice, bob}
=============================================================================
