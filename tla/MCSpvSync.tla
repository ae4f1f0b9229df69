------------------------------ MODULE MCSpvSync ------------------------------
(* A few peers, a short chain that grows while the client syncs.           *)
EXTENDS SpvSync
=============================================================================
