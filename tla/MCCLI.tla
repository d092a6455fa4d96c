-------------------------------- MODULE MCCLI --------------------------------
(***************************************************************************)
(* CLI with four issuer-keygen runs, enough for keys to be overwritten    *)
(* after credentials were made from them and overwritten again.            *)
(***************************************************************************)
EXTENDS CLI

MCGens == 1..4
=============================================================================
