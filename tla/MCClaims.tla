------------------------------ MODULE MCClaims ------------------------------
(***************************************************************************)
(* The instances of MCPipeline, with the claims plan was shown.            *)
(***************************************************************************)
EXTENDS MCPipeline, Claims
=============================================================================
