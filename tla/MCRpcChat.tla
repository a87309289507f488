----------------------------- MODULE MCRpcChat -----------------------------
(***************************************************************************)
(* One conversation and three chat/send, as many as it takes for a turn to *)
(* end on the reservation of the next one while a third asks for it.       *)
(***************************************************************************)
EXTENDS RpcChat
=============================================================================
