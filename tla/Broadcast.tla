------------------------------ MODULE Broadcast ------------------------------
(***************************************************************************)
(* broadcast_tx of src/src/net.c: a node group that offers one transaction *)
(* to its peers.  A peer that completes the handshake is sent an inv; when *)
(* it asks with getdata it is sent the transaction; a peer that announces  *)
(* the transaction itself has received it elsewhere.  The event loop ends, *)
(* and the counters are reported, when no node owns an event any more.     *)
(*                                                                         *)
(* Peers send any message in any order, garbled ones included.  Seconds    *)
(* are abstracted: expired says that the time allowed for the broadcast    *)
(* has passed, and a timer tick chooses whether a dial has timed out.      *)
(***************************************************************************)
EXTENDS NodeGroup, Sequences

CONSTANTS
    MaxPeers,   \* max_peers_to_connect and max_peers_to_inv
    MaxCount    \* bound on connected_to_peers and found_on_non_inved_peers

ASSUME BroadcastAssumption ==
    /\ MaxPeers = Desired
    /\ MaxCount \in Nat

VARIABLES
    nodes,      \* group->nodes
    hints,      \* node->hints: "inved" (bit 0), "sent" (bit 1), "seen" (bit 2)
    connected,  \* ctx->connected_to_peers
    inved,      \* ctx->inved_to_peers
    getdata,    \* ctx->getdata_from_peers
    found,      \* ctx->found_on_non_inved_peers
    expired     \* now - ctx->start_time > ctx->timeout

vars == <<nodes, hints, connected, inved, getdata, found, expired>>
counters == <<connected, inved, getdata, found>>

\* the nodes are dialled once before the event loop starts
Init ==
    /\ nodes \in ConnectNextNodes([n \in Peer |-> NewNode])
    /\ hints = [n \in Peer |-> {}]
    /\ connected = 0 /\ inved = 0 /\ getdata = 0 /\ found = 0
    /\ expired = FALSE

\* broadcast_should_connect_more
ShouldConnectMore == connected < MaxPeers

Misbehave(N, n) == StateChanged(MarkMisbehaved(N, n), n, ShouldConnectMore)

-----------------------------------------------------------------------------
(* event_cb                                                                *)
Connected(n) ==
    /\ nodes[n].events /\ "CONNECTING" \in nodes[n].state
    /\ nodes' \in StateChanged(MarkConnected(nodes, n), n, ShouldConnectMore)
    /\ UNCHANGED <<hints, counters, expired>>

ConnectionLost(n) ==
    /\ nodes[n].events
    /\ nodes' \in StateChanged(MarkLost(nodes, n), n, ShouldConnectMore)
    /\ UNCHANGED <<hints, counters, expired>>

\* mutant: the timeout is left to the connect timeout while a dial is pending
DoneWithUnlessDialling(n) ==
    \/ expired /\ "CONNECTING" \notin nodes[n].state
    \/ hints[n] \cap {"sent", "seen"} # {}

\* broadcast_timer_cb: done with this node, or out of time
DoneWith(n) == expired \/ hints[n] \cap {"sent", "seen"} # {}

(* node_periodical_timer.  The ping it may send changes nothing here.      *)
TimerTick(n) ==
    /\ nodes[n].events
    /\ \/ /\ DoneWith(n)
          /\ nodes' = Disconnect(nodes, n)
       \/ /\ ~DoneWith(n) /\ "CONNECTING" \in nodes[n].state
          /\ nodes' \in StateChanged(MarkTimeout(nodes, n), n, ShouldConnectMore)
    /\ UNCHANGED <<hints, counters, expired>>

TimePasses == ~expired /\ expired' = TRUE /\ UNCHANGED <<nodes, hints, counters>>

-----------------------------------------------------------------------------
\* mutant: messages are read from any node
CanReadAny(n) == nodes[n].events

(* read_cb and dogecoin_node_parse_message.  rest: bytes of a message not  *)
(* yet complete remain in recvBuffer.                                      *)
CanRead(n) == nodes[n].events /\ "CONNECTED" \in nodes[n].state

(* Too long, wrong checksum, wrong magic, or a payload of version, ping,   *)
(* sendcmpct or inv that does not deserialise.  read_cb returns, or parses *)
(* no further message, with the bytes still in the buffer.                 *)
Garbled(n) ==
    /\ CanRead(n)
    /\ nodes' \in Misbehave(Leave(nodes, n, TRUE), n)
    /\ UNCHANGED <<hints, counters, expired>>

(* Part of a message, or a message without effect (ping, sendcmpct, an inv *)
(* of other objects, a version with the network service, a getdata after   *)
(* the transaction was sent).                                              *)
Idle(n, rest) ==
    /\ CanRead(n)
    /\ nodes' = Leave(nodes, n, rest)
    /\ UNCHANGED <<hints, counters, expired>>

\* a version message without the network service
RecvVersionNoNetwork(n, rest) ==
    /\ CanRead(n)
    /\ nodes' = Disconnect(Leave(nodes, n, rest), n)
    /\ UNCHANGED <<hints, counters, expired>>

\* mutant: one peer more than allowed is informed
InvAllowedOneMore == inved <= MaxPeers

\* broadcast_handshake_done: more peers may be informed
InvAllowed == inved < MaxPeers

(* verack, and broadcast_handshake_done.  Nothing stops a peer from        *)
(* sending a second one.                                                   *)
RecvVerack(n, rest) ==
    /\ CanRead(n) /\ connected < MaxCount
    /\ nodes' = [Leave(nodes, n, rest) EXCEPT ![n].shaken = TRUE]
    /\ connected' = connected + 1
    /\ IF InvAllowed
       THEN inved' = inved + 1 /\ hints' = [hints EXCEPT ![n] = @ \cup {"inved"}]
       ELSE UNCHANGED <<inved, hints>>
    /\ UNCHANGED <<getdata, found, expired>>

\* broadcast_post_cmd, an inv that lists the transaction
RecvInv(n, rest) ==
    /\ CanRead(n) /\ found < MaxCount
    /\ nodes' = Leave(nodes, n, rest)
    /\ hints' = [hints EXCEPT ![n] = @ \cup {"seen"}]
    /\ found' = found + 1
    /\ UNCHANGED <<connected, inved, getdata, expired>>

\* broadcast_post_cmd, a getdata of one transaction
RecvGetdata(n, rest) ==
    /\ CanRead(n) /\ "sent" \notin hints[n]
    /\ getdata' = getdata + 1
    /\ nodes' = Leave(nodes, n, rest)
    /\ hints' = [hints EXCEPT ![n] = @ \cup {"sent"}]
    /\ UNCHANGED <<connected, inved, found, expired>>

\* broadcast_post_cmd, any other getdata
RecvGetdataOther(n, rest) ==
    /\ CanRead(n) /\ "sent" \notin hints[n]
    /\ getdata' = getdata + 1
    /\ nodes' \in Misbehave(Leave(nodes, n, rest), n)
    /\ UNCHANGED <<hints, connected, inved, found, expired>>

Recv(n) ==
    \/ Garbled(n)
    \/ \E rest \in BOOLEAN :
         \/ Idle(n, rest) \/ RecvVersionNoNetwork(n, rest) \/ RecvVerack(n, rest)
         \/ RecvInv(n, rest) \/ RecvGetdata(n, rest) \/ RecvGetdataOther(n, rest)

\* event_base_dispatch returns when no event is left
LoopEnded == \A n \in Peer : ~nodes[n].events

Done == LoopEnded /\ UNCHANGED vars

Next ==
    \/ \E n \in Peer : Connected(n) \/ ConnectionLost(n) \/ TimerTick(n) \/ Recv(n)
    \/ TimePasses
    \/ Done

Spec == Init /\ [][Next]_vars

(* Every node that owns events has a persistent timer, which fires every   *)
(* DOGECOIN_PERIODICAL_NODE_TIMER_S seconds, and time passes.              *)
FairSpec == Spec /\ WF_vars(TimePasses) /\ \A n \in Peer : WF_vars(TimerTick(n))

-----------------------------------------------------------------------------
(* The state has its type, and no more peers are informed than asked for.  *)
TypeOK ==
    /\ nodes \in [Peer -> NodeState]
    /\ hints \in [Peer -> SUBSET {"inved", "sent", "seen"}]
    /\ connected \in 0 .. MaxCount /\ inved \in 0 .. MaxPeers
    /\ getdata \in Nat /\ found \in 0 .. MaxCount
    /\ expired \in BOOLEAN

(* dogecoin_node_connection_state_changed, connect_next_nodes and          *)
(* disconnect make and release event_bev and timer_event on different      *)
(* paths: a node owns them exactly while it is dialled or connected.  A    *)
(* node that kept them would hold the loop open for ever, one that lost    *)
(* them would never be looked at again.                                    *)
NoStrayEvents == \A n \in Peer : EventsOwned(nodes[n])

(* dogecoin_node_disconnect leaves recvBuffer, version_handshake and hints *)
(* as they are.  None of them reaches a later connection: a node being     *)
(* dialled has no bytes, no handshake and no hints of an earlier one.      *)
DialsAreFresh ==
    \A n \in Peer : "CONNECTING" \in nodes[n].state =>
        ~nodes[n].shaken /\ ~nodes[n].partial /\ hints[n] = {}

(* "Requested from nodes" in the report counts getdata messages; because a *)
(* malformed one ends the connection for good and a well-formed one is     *)
(* counted once, it never exceeds the number of peers that asked, which    *)
(* are those that got the transaction or misbehaved.                       *)
RequestsCountPeers ==
    getdata <= Cardinality({n \in Peer : "sent" \in hints[n] \/ "MISSBEHAVED" \in nodes[n].state})

(* Whatever the peers do, the event loop ends once the time is up: nodes   *)
(* dialled late, redialled after a connect timeout or replacing lost ones  *)
(* do not keep it alive.                                                   *)
LoopEnds == expired ~> LoopEnded

(* The group keeps the promise of PeerLife to the broadcast.               *)
Life == INSTANCE PeerLife WITH phase <- [n \in Peer |-> Phase(nodes[n])]
LifeSpec == Life!Spec
=============================================================================
