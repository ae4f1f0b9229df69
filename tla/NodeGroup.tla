------------------------------ MODULE NodeGroup ------------------------------
(***************************************************************************)
(* The node group of src/src/net.c: the peers a client knows, what each    *)
(* connection goes through, and the choice of the peers dialled next.      *)
(*                                                                         *)
(* The group has no loop of its own.  It reacts to libevent callbacks and  *)
(* calls back into its client, so its functions are operators on a table   *)
(* of nodes, which the clients (Broadcast, SpvSync) use in their actions.  *)
(* bufferevent_socket_connect may fail for want of a socket: a pass that   *)
(* dials several nodes then stops early, so such operators yield the set   *)
(* of tables the pass can leave behind.                                    *)
(***************************************************************************)
EXTENDS Naturals, FiniteSets

CONSTANTS
    NumPeers,  \* nodes 1 .. NumPeers, in the order of group->nodes
    Desired    \* group->desired_amount_connected_nodes

Peer == 1 .. NumPeers

ASSUME NodeGroupAssumption ==
    /\ NumPeers \in Nat \ {0}
    /\ Desired \in Nat \ {0}

(* The bits of enum NODE_STATE.  NODE_DISCONNECTED_FROM_REMOTE_PEER only   *)
(* accompanies NODE_DISCONNECTED and is never read by itself.              *)
Flag == {"CONNECTING", "CONNECTED", "ERRORED", "TIMEOUT", "HEADERSYNC",
         "BLOCKSYNC", "MISSBEHAVED", "DISCONNECTED"}

(* A node.  event_bev and timer_event are made and released together.      *)
(* The compact block fields are written on sendcmpct and never read.       *)
NodeState ==
    [state   : SUBSET Flag,
     events  : BOOLEAN,    \* event_bev and timer_event
     shaken  : BOOLEAN,    \* version_handshake
     partial : BOOLEAN]    \* recvBuffer holds unread bytes

\* dogecoin_node_new
NewNode == [state |-> {}, events |-> FALSE, shaken |-> FALSE, partial |-> FALSE]

\* dogecoin_node_group_amount_of_connected_nodes
AmountOf(N, flag) == Cardinality({n \in Peer : flag \in N[n].state})

\* dogecoin_node_release_events
ReleaseEvents(N, n) == [N EXCEPT ![n].events = FALSE]

\* mutant: the events of a disconnected node are kept
DisconnectKeepsEvents(N, n) ==
    [N EXCEPT ![n].state = (@ \ {"CONNECTING", "CONNECTED"}) \cup {"DISCONNECTED"}]

\* dogecoin_node_disconnect
Disconnect(N, n) ==
    [N EXCEPT ![n].state  = (@ \ {"CONNECTING", "CONNECTED"}) \cup {"DISCONNECTED"},
              ![n].events = FALSE]

-----------------------------------------------------------------------------
\* neither in use nor given up
Dialable(nd) == nd.state \cap {"CONNECTED", "DISCONNECTED", "CONNECTING"} = {}

\* the first k members of a set of nodes, in list order
FirstOf(S, k) == {n \in S : Cardinality({m \in S : m < n}) < k}

Dialled(N, D) ==
    [n \in Peer |->
        IF n \in D THEN [N[n] EXCEPT !.state = @ \cup {"CONNECTING"}, !.events = TRUE]
        ELSE N[n]]

(* dogecoin_node_group_connect_next_nodes: three dials for every missing   *)
(* connection, in list order, fewer if a dial fails.                       *)
ConnectNextNodes(N) ==
    LET missing == Desired - AmountOf(N, "CONNECTED")
        ready   == {n \in Peer : Dialable(N[n])}
    IN  IF AmountOf(N, "CONNECTED") >= Desired THEN {N}
        ELSE {Dialled(N, FirstOf(ready, k)) : k \in 0 .. 3 * missing}

-----------------------------------------------------------------------------
\* mutant: only a dial is broken off
OstracisedDial(N, n) ==
    IF {"MISSBEHAVED", "CONNECTING"} \subseteq N[n].state THEN Disconnect(N, n) ELSE N

(* The last part of dogecoin_node_connection_state_changed.                *)
Ostracised(N, n) ==
    IF "MISSBEHAVED" \in N[n].state /\ N[n].state \cap {"CONNECTED", "CONNECTING"} # {}
    THEN Disconnect(N, n) ELSE N

(* dogecoin_node_connection_state_changed after the client's callback has  *)
(* run on node n.  more: what should_connect_to_more_nodes_cb answers once *)
(* the events of n are released.                                           *)
StateChanged(N, n, more) ==
    LET errored == ReleaseEvents(N, n)
        refill  == IF "ERRORED" \notin N[n].state THEN {N}
                   ELSE IF more THEN ConnectNextNodes(errored) ELSE {errored}
    IN  {Ostracised(M, n) : M \in refill}

\* event_cb on BEV_EVENT_CONNECTED, up to the state change
MarkConnected(N, n) ==
    [N EXCEPT ![n].state = (@ \cup {"CONNECTED"}) \ {"CONNECTING", "ERRORED"}]

\* mutant: a lost connection is an error like any other
MarkLostForNow(N, n) == [N EXCEPT ![n].state = {"ERRORED"}]

\* event_cb on BEV_EVENT_EOF and BEV_EVENT_ERROR, up to the state change
MarkLost(N, n) == [N EXCEPT ![n].state = {"ERRORED", "DISCONNECTED"}]

\* node_periodical_timer when the connect timeout has passed
MarkTimeout(N, n) == [N EXCEPT ![n].state = {"ERRORED", "TIMEOUT"}]

\* dogecoin_node_misbehave, up to the state change
MarkMisbehaved(N, n) == [N EXCEPT ![n].state = @ \cup {"MISSBEHAVED"}]

\* read_cb: what is left of the bytes read
Leave(N, n, rest) == [N EXCEPT ![n].partial = rest]

-----------------------------------------------------------------------------
(* How far a connection has got, for the specification PeerLife.           *)
Phase(nd) ==
    IF "CONNECTED" \in nd.state THEN IF nd.shaken THEN "up" ELSE "connected"
    ELSE IF "CONNECTING" \in nd.state THEN "dialling"
    ELSE IF "DISCONNECTED" \in nd.state THEN "gone" ELSE "new"

(* A node that is dialled or connected owns its events, and no other node  *)
(* does: otherwise it is stuck without a timer, or an event of a connection*)
(* given up reaches it.                                                    *)
EventsOwned(nd) == nd.events <=> nd.state \cap {"CONNECTED", "CONNECTING"} # {}
=============================================================================
