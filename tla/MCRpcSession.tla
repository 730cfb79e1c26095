---------------------------- MODULE MCRpcSession ----------------------------
(* A small instance of RpcSession: two Chain services, every reply header. *)
EXTENDS RpcSession

CONSTANTS c1, c2

AnyReply == ReplyShape
=============================================================================
