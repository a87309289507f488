--------------------------- MODULE MCStateStream ---------------------------
(***************************************************************************)
(* Two tabs, or one tab whose views come and go; a sandbox and its project *)
(***************************************************************************)
EXTENDS StateStream, TLC

CONSTANTS A, B, S, P

BothTabs == (1 :> A) @@ (2 :> B)
OneTab == (1 :> A) @@ (2 :> A)
TheProject == S :> P
=============================================================================
