----------------------------- MODULE MCBroadcast -----------------------------
(* One connection wanted among a few peers: a pass dials three at once.    *)
EXTENDS Broadcast
=============================================================================
