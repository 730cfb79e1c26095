---------------------------- MODULE MCConfigStore ----------------------------
(* Small instances of ConfigStore.                                         *)
EXTENDS ConfigStore

CONSTANTS runtime, command, automatic, custom, builtin

Two == {runtime, command}
OneCore == {runtime}
BothNetworks == {custom, builtin}
OneBackend == {automatic}

\* The operator's document, and no document at all.
Operators ==
  {[network |-> custom, enabled |-> TRUE, backend |-> automatic, limit |-> 1]}
OperatorsOrNone == Operators \union {Absent}
==============================================================================
