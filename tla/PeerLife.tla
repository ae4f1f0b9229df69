------------------------------- MODULE PeerLife -------------------------------
(***************************************************************************)
(* What a node group promises its clients about a peer, whatever the       *)
(* network does: it is dialled, perhaps several times, connects at most    *)
(* once, shakes hands at most once per connection, and once gone it never  *)
(* comes back.  State kept for a peer (receive buffer, handshake, hints)   *)
(* therefore never outlives the connection it belongs to.                  *)
(***************************************************************************)
CONSTANT Peer
VARIABLE phase

Phases == {"new", "dialling", "connected", "up", "gone"}

Moves ==
    {<<"new", "dialling">>, <<"dialling", "new">>, <<"dialling", "connected">>,
     <<"connected", "up">>} \cup ({"new", "dialling", "connected", "up"} \X {"gone"})

Init == phase \in [Peer -> {"new", "dialling"}]

Next ==
    /\ phase' \in [Peer -> Phases]
    /\ \A p \in Peer : phase'[p] = phase[p] \/ <<phase[p], phase'[p]>> \in Moves

Spec == Init /\ [][Next]_phase
=============================================================================
