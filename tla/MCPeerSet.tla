------------------------------ MODULE MCPeerSet ------------------------------
(***************************************************************************)
(* Four peers for three places, answers of up to three entries, two        *)
(* latencies; two of the peers are healthy.                                *)
(***************************************************************************)
EXTENDS PeerSet

FourPeers == 1..4
TwoLatencies == 0..1
TwoHealthy == {2, 4}
=============================================================================
