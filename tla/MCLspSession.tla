---------------------------- MODULE MCLspSession ----------------------------
(* Instances of LspSession for TLC: clients, requests and auxiliaries are model values. *)
EXTENDS LspSession
=============================================================================
