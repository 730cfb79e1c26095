--------------------------- MODULE MCCoreRuntime ---------------------------
(* A small instance of CoreRuntime.                                        *)
EXTENDS CoreRuntime

CONSTANTS chainA, chainB, none, ctrlC

TwoChains == {chainA, chainB}
OneStopper == {ctrlC}
=============================================================================
