----------------------------- MODULE RpcChannel -----------------------------
(***************************************************************************)
(* What the RPC session promises the rest of Core, without sockets, locks  *)
(* or bytes.  The link to Chain is down, clean, or poisoned: an answer was *)
(* left partly unread on it.  Core learns accepted state from a clean link *)
(* only, and a poisoned link is good for nothing but being dropped.        *)
(***************************************************************************)
EXTENDS Naturals

CONSTANTS Chains, NoChain

VARIABLES
  link,       \* "down", "clean" or "poisoned"
  to,         \* the Chain service of the link
  known       \* the accepted state Core presents

vars == <<link, to, known>>

Cleared == [available |-> FALSE, chain |-> NoChain, tip |-> 0]

Init == link = "down" /\ to \in Chains /\ known = Cleared

Open(c) ==
  /\ link = "down"
  /\ link' = "clean"
  /\ to' = c
  /\ UNCHANGED known

\* Accepted states of one Chain are learned in the order Chain adopted them.
Newer == known.available /\ known.chain = to => known'.tip >= known.tip

\* A complete answer that carries accepted state: it is attributed to the Chain
\* service of the link, whether the answer named it (INFO) or only its tip.
Learn ==
  /\ link = "clean"
  /\ known'.tip \in Nat
  /\ known' = [available |-> TRUE, chain |-> to, tip |-> known'.tip]
  /\ Newer
  /\ UNCHANGED <<link, to>>

\* A call gives up between the header and the payload of its answer.
Abandon ==
  /\ link = "clean"
  /\ link' = "poisoned"
  /\ UNCHANGED <<to, known>>

Drop ==
  /\ link' = "down"
  /\ known' \in {known, Cleared}
  /\ UNCHANGED to

Next ==
  \/ \E c \in Chains : Open(c)
  \/ Learn
  \/ Abandon
  \/ Drop

Spec == Init /\ [][Next]_vars
=============================================================================
