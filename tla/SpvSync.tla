------------------------------- MODULE SpvSync -------------------------------
(***************************************************************************)
(* The serial sync of src/src/spv.c: one peer at a time is asked for       *)
(* headers; once the chain is within Gap headers of the height that peer   *)
(* announced, the client switches to full blocks and asks for those with   *)
(* getblocks, inv, getdata and block; when the last block of an inv has    *)
(* arrived it reports that the sync is completed and follows new blocks.   *)
(* A periodic state check gives up on peers that do not answer.            *)
(*                                                                         *)
(* The peers serve one chain, of which every header and block is known by  *)
(* its height; forks are the subject of HeaderTree and HeadersDB.  Time is *)
(* counted in state checks: an armed timer holds the number of checks      *)
(* since the request, plus one, and 0 when it is off.                      *)
(***************************************************************************)
EXTENDS NodeGroup, Sequences, FiniteSetsExt

CONSTANTS
    Gap,        \* headers below the announced height at which blocks begin (5)
    Far,        \* distance from the announced height that still needs full invs (1440)
    MaxHeaders, \* MAX_HEADERS_RESULTS
    MaxInv,     \* blocks announced in answer to getblocks (500)
    Limit,      \* HEADERS_MAX_RESPONSE_TIME, in state checks
    Recent,     \* blocks this close below the network's tip are under 30 minutes old
    StartTip,   \* height of the headers database when the client starts
    StartChain, \* height of the network when the client starts
    MaxChain,   \* bound on the height of the network
    Prompt,     \* peers that connect, stay and answer in time
    Faulty,     \* peers that may also answer with too few headers, or with what
                \* does not connect or parse
    MaxBad,     \* bound on such messages
    Word        \* 2^32 in the code: the range of heights

ASSUME SpvSyncAssumption ==
    /\ {Gap, Far, MaxHeaders, MaxInv, Limit, Recent} \subseteq Nat \ {0}
    /\ MaxBad \in Nat
    /\ StartTip \in 0 .. StartChain /\ StartChain \in 1 .. MaxChain
    /\ MaxChain \in Nat /\ Word \in Nat /\ Word > MaxChain
    /\ Prompt \subseteq Peer /\ Faulty \subseteq Peer \ Prompt

VARIABLES
    nodes,      \* nodegroup->nodes
    best,       \* node->bestknownheight
    lastInv,    \* node->last_requested_inv, 0 when none
    breq,       \* node->time_last_request
    hreq,       \* client->last_headersrequest_time
    mode,       \* client->stateflags: "headers" or "blocks"
    tip,        \* height of the chain tip of the headers database
    completed,  \* client->called_sync_completed
    chain,      \* height of the chain the peers serve
    bad,        \* such answers of faulty peers
    owes        \* owes[n]: the messages peer n has still to send, in order

vars == <<nodes, best, lastInv, breq, hreq, mode, tip, completed, chain, bad, owes>>

(* What a handler changes, as one record: several of them run in a row.    *)
Client == [nodes |-> nodes, best |-> best, lastInv |-> lastInv, breq |-> breq,
           hreq |-> hreq, mode |-> mode, tip |-> tip, completed |-> completed,
           owes |-> owes]

\* what a peer still owes is lost with its connection
Becomes(c) ==
    /\ nodes' = c.nodes /\ best' = c.best /\ lastInv' = c.lastInv /\ breq' = c.breq
    /\ hreq' = c.hreq /\ mode' = c.mode /\ tip' = c.tip /\ completed' = c.completed
    /\ owes' = [n \in Peer |-> IF c.nodes[n].events THEN c.owes[n] ELSE <<>>]

Headers(loc)   == [kind |-> "headers", lo |-> loc, hi |-> loc]
Inv(lo, hi)    == [kind |-> "inv", lo |-> lo, hi |-> hi]
Blocks(loc)    == [kind |-> "getblocks", lo |-> loc, hi |-> loc]
Block(h)       == [kind |-> "block", lo |-> h, hi |-> h]

\* unsigned subtraction
Sub(a, b) == (a + Word - b) % Word

Init ==
    /\ nodes \in ConnectNextNodes([n \in Peer |-> NewNode])
    /\ best = [n \in Peer |-> 0] /\ lastInv = [n \in Peer |-> 0]
    /\ breq = [n \in Peer |-> 0] /\ hreq = 0
    /\ mode \in {"headers", "blocks"}   \* full_sync of dogecoin_spv_client_new
    /\ tip = StartTip /\ completed = FALSE
    /\ chain = StartChain /\ bad = 0 /\ owes = [n \in Peer |-> <<>>]

-----------------------------------------------------------------------------
\* dogecoin_node_should_connect_to_more_cb
ShouldConnectMore(N) == AmountOf(N, "CONNECTED") + AmountOf(N, "CONNECTING") < Desired

(* dogecoin_node_connection_state_changed_cb.  The peers it discovers are  *)
(* members of Peer from the start; a dial pass need not reach them.        *)
Refill(N) == IF ShouldConnectMore(N) THEN ConnectNextNodes(N) ELSE {N}

\* dogecoin_node_connection_state_changed with that callback
NodeChanged(N, n) ==
    UNION {StateChanged(M, n, ShouldConnectMore(M)) : M \in Refill(N)}

WithNodes(c, NN) == {[c EXCEPT !.nodes = N] : N \in NN}

Misbehave(c, n) == WithNodes(c, NodeChanged(MarkMisbehaved(c.nodes, n), n))

\* a handler gives up on n: it clears a sync flag and calls the callback
Unsync(c, n, flag) ==
    WithNodes(c, Refill([c.nodes EXCEPT ![n].state = @ \ {flag}]))

-----------------------------------------------------------------------------
Usable(N, n) == "CONNECTED" \in N[n].state /\ N[n].shaken

(* dogecoin_net_spv_node_request_headers_or_blocks, its block locator      *)
(* starting at the chain tip.                                              *)
RequestFrom(c, n, blocks) ==
    IF blocks
    THEN [c EXCEPT !.nodes[n].state = @ \cup {"BLOCKSYNC"}, !.breq[n] = 1,
                   !.owes[n] = Append(@, Blocks(c.tip))]
    ELSE [c EXCEPT !.nodes[n].state = @ \cup {"HEADERSYNC"}, !.hreq = 1,
                   !.owes[n] = Append(@, Headers(c.tip))]

\* mutant: only a block sync under way is noticed
SyncingBlocks(nd) == {"CONNECTED", "BLOCKSYNC"} \subseteq nd.state

Syncing(nd) == "CONNECTED" \in nd.state /\ nd.state \cap {"HEADERSYNC", "BLOCKSYNC"} # {}

(* dogecoin_net_spv_request_headers.  Peers announce a height above 0, so  *)
(* whenever one is usable there is one with the longest chain; the code's  *)
(* two fallbacks only serve groups in which every usable peer announces 0. *)
RequestHeaders(c) ==
    LET usable == {n \in Peer : Usable(c.nodes, n)}
        height == Max({c.best[n] : n \in usable})
        first  == Min({n \in usable : c.best[n] = height})
    IN  IF usable = {} \/ \E n \in Peer : Syncing(c.nodes[n]) THEN c
        ELSE RequestFrom(c, first, c.mode = "blocks")

-----------------------------------------------------------------------------
(* event_cb, and the handshake with the announced height.                  *)
Connected(n) ==
    /\ nodes[n].events /\ "CONNECTING" \in nodes[n].state
    /\ \E c \in WithNodes(Client, NodeChanged(MarkConnected(nodes, n), n)) : Becomes(c)
    /\ UNCHANGED <<chain, bad>>

ConnectionLost(n) ==
    /\ nodes[n].events
    /\ n \notin Prompt
    /\ \E c \in WithNodes(Client, NodeChanged(MarkLost(nodes, n), n)) : Becomes(c)
    /\ UNCHANGED <<chain, bad>>

(* version, verack and dogecoin_net_spv_node_handshake_done.               *)
Handshake(n) ==
    /\ "CONNECTED" \in nodes[n].state /\ ~nodes[n].shaken
    /\ Becomes(RequestHeaders([Client EXCEPT !.nodes[n].shaken = TRUE, !.best[n] = chain]))
    /\ UNCHANGED <<chain, bad>>

-----------------------------------------------------------------------------
\* mutant: a timer that is off counts as well
OlderAlways(t) == t + 1

(* dogecoin_net_spv_periodic_statecheck on the node whose timer fired.     *)
Older(t) == IF t = 0 THEN 0 ELSE IF t > Limit THEN t ELSE t + 1
Stale(t) == t > Limit

\* mutant: a header request that is not answered is only logged
StallLogged(c, n) ==
    IF Stale(c.breq[n]) THEN Misbehave([c EXCEPT !.nodes[n].state = @ \ {"BLOCKSYNC"}], n)
    ELSE {c}

StallChecked(c, n) ==
    LET headers == IF Stale(c.hreq)
                   THEN Misbehave([c EXCEPT !.nodes[n].state = @ \ {"HEADERSYNC"}], n)
                   ELSE {c}
    IN  IF Stale(c.breq[n])
        THEN UNION {Misbehave([d EXCEPT !.nodes[n].state = @ \ {"BLOCKSYNC"}], n) : d \in headers}
        ELSE headers

(* A prompt peer answers before its request is Limit checks old.           *)
InTime ==
    \A p \in Prompt :
        /\ (\E i \in DOMAIN owes[p] : owes[p][i].kind = "headers") => hreq < Limit
        /\ owes[p] # <<>> => breq[p] < Limit

(* node_periodical_timer: a state check if one is due, then, if the dial   *)
(* is late, the connect timeout.                                           *)
Checked(n) ==
    LET aged == [Client EXCEPT !.hreq = Older(@), !.breq = [m \in Peer |-> Older(@[m])]]
    IN  {RequestHeaders(c) : c \in StallChecked(aged, n)}

TimedOut(c, n) ==
    IF "CONNECTING" \in c.nodes[n].state
    THEN WithNodes(c, NodeChanged(MarkTimeout(c.nodes, n), n)) ELSE {c}

TimerTick(n, due, late) ==
    /\ nodes[n].events
    /\ due => InTime
    /\ late => n \notin Prompt
    /\ \E c \in IF due THEN Checked(n) ELSE {Client} :
         \E d \in IF late THEN TimedOut(c, n) ELSE {c} : Becomes(d)
    /\ UNCHANGED <<chain, bad>>

-----------------------------------------------------------------------------
(* dogecoin_net_spv_post_cmd.  The client after the first message that     *)
(* peer n owes has been taken off.                                         *)
Taken(n) == [Client EXCEPT !.owes[n] = Tail(@)]

CanRead(n, kind) ==
    /\ nodes[n].events /\ "CONNECTED" \in nodes[n].state
    /\ owes[n] # <<>> /\ Head(owes[n]).kind = kind

\* within Gap of the height n announced
NearAnnounced(n, h) == h >= Sub(best[n], Gap)

(* A headers message: headers that connect, up to height upTo, then        *)
(* perhaps one that does not; full when there are MaxHeaders of them.      *)
HeadersMessage == [upTo : tip .. chain, breaks : BOOLEAN, full : BOOLEAN]

(* The answer to request m.  Nothing of it connects when the tip is no     *)
(* longer where it was.                                                    *)
Answer(m) ==
    LET last == Min({m.lo + MaxHeaders, chain})
    IN  [upTo   |-> IF m.lo = tip THEN last ELSE tip,
         breaks |-> m.lo # tip /\ last > m.lo,
         full   |-> last = m.lo + MaxHeaders]

\* what a faulty peer may send in its place
FaultyAnswers ==
    {a \in HeadersMessage : IF a.breaks THEN a.full => a.upTo < tip + MaxHeaders
                            ELSE a.full <=> a.upTo = tip + MaxHeaders}

\* mutant: the stall timer is not armed again for the next batch
NextBatchUnwatched(c, n, full) ==
    IF full /\ "BLOCKSYNC" \notin c.nodes[n].state
    THEN [RequestFrom(c, n, FALSE) EXCEPT !.hreq = c.hreq] ELSE c

\* the end of the headers handler: after a full batch the next one is asked for
NextBatch(c, n, full) ==
    IF full /\ "BLOCKSYNC" \notin c.nodes[n].state THEN RequestFrom(c, n, FALSE) ELSE c

(* headers: the stall timer is off whatever the message holds.  Headers    *)
(* are connected one by one up to the first that does not connect, where   *)
(* the peer is given up, or the first near the height the peer announced,  *)
(* where the client switches to blocks and drops the rest.                 *)
HeadersRead(n, a) ==
    LET c    == [Taken(n) EXCEPT !.hreq = 0]
        near == {h \in tip + 1 .. a.upTo : NearAnnounced(n, h)}
        d    == [c EXCEPT !.tip = a.upTo]
    IN  IF near # {}
        THEN {RequestFrom([c EXCEPT !.tip = Min(near), !.mode = "blocks",
                                    !.nodes[n].state = @ \ {"HEADERSYNC"}], n, TRUE)}
        ELSE {NextBatch(e, n, a.full) :
                 e \in IF a.breaks THEN Unsync(d, n, "HEADERSYNC") ELSE {d}}

RecvHeaders(n) ==
    /\ CanRead(n, "headers")
    /\ \E c \in HeadersRead(n, Answer(Head(owes[n]))) : Becomes(c)
    /\ UNCHANGED <<chain, bad>>

RecvFaultyHeaders(n) ==
    /\ CanRead(n, "headers")
    /\ n \in Faulty /\ bad < MaxBad
    /\ \E a \in FaultyAnswers : \E c \in HeadersRead(n, a) : Becomes(c)
    /\ bad' = bad + 1
    /\ UNCHANGED chain

(* A getblocks reaches the peer: it answers with an inv, or, when it has   *)
(* nothing above the locator, not at all.                                  *)
AnswerGetBlocks(n) ==
    /\ CanRead(n, "getblocks")
    /\ LET lo == Head(owes[n]).lo
           hi == Min({lo + MaxInv, chain})
       IN  owes' = [owes EXCEPT ![n] = IF hi > lo THEN <<Inv(lo, hi)>> \o Tail(@) ELSE Tail(@)]
    /\ UNCHANGED <<nodes, best, lastInv, breq, hreq, mode, tip, completed, chain, bad>>

(* inv, heeded from a peer we sync blocks from and asked for with getdata  *)
(* when it is full or we are not too far behind.                           *)
RecvInv(n) ==
    /\ CanRead(n, "inv")
    /\ LET m == Head(owes[n])
       IN  IF /\ "BLOCKSYNC" \in nodes[n].state
              /\ m.hi - m.lo >= MaxInv \/ tip > Sub(best[n], Far)
           THEN Becomes([Taken(n) EXCEPT !.lastInv[n] = m.hi, !.breq[n] = 1,
                            !.owes[n] = @ \o [i \in 1 .. m.hi - m.lo |-> Block(m.lo + i)]])
           ELSE Becomes(Taken(n))
    /\ UNCHANGED <<chain, bad>>

\* the block's time is less than 30 minutes ago
Young(h) == h + Recent > chain

(* block that connects: the stall timer is switched off near the network's *)
(* tip; at the end of an inv the sync is complete or more is asked for.    *)
RecvBlock(n) ==
    /\ CanRead(n, "block") /\ Head(owes[n]).lo = tip + 1
    /\ LET h == tip + 1
           c == [Taken(n) EXCEPT !.tip = h, !.breq[n] = IF Young(h) THEN 0 ELSE 1]
       IN  Becomes(IF h # lastInv[n] THEN c
                   ELSE IF NearAnnounced(n, h) THEN [c EXCEPT !.completed = TRUE]
                   ELSE IF h < Sub(best[n], Far) THEN RequestFrom(c, n, TRUE)
                   ELSE c)
    /\ UNCHANGED <<chain, bad>>

(* block that does not connect.  The stall timer has been armed by then.   *)
RecvStrayBlock(n) ==
    /\ CanRead(n, "block") /\ Head(owes[n]).lo # tip + 1
    /\ \E c \in Unsync([Taken(n) EXCEPT !.breq[n] = 1], n, "BLOCKSYNC") : Becomes(c)
    /\ UNCHANGED <<chain, bad>>

(* block that connects and whose transactions do not parse: its header is  *)
(* popped again.                                                           *)
RecvBadBlock(n) ==
    /\ CanRead(n, "block") /\ Head(owes[n]).lo = tip + 1
    /\ n \in Faulty /\ bad < MaxBad
    /\ \E c \in Unsync([Taken(n) EXCEPT !.breq[n] = IF Young(tip + 1) THEN 0 ELSE 1],
                       n, "BLOCKSYNC") : Becomes(c)
    /\ bad' = bad + 1
    /\ UNCHANGED chain

Reply(n) ==
    \/ RecvHeaders(n) \/ AnswerGetBlocks(n) \/ RecvInv(n) \/ RecvBlock(n)
    \/ RecvStrayBlock(n)

\* a block is mined; the peers that are up announce it
Mine ==
    /\ chain < MaxChain
    /\ chain' = chain + 1
    /\ owes' = [n \in Peer |-> IF Usable(nodes, n) THEN Append(owes[n], Inv(chain, chain + 1))
                               ELSE owes[n]]
    /\ UNCHANGED <<nodes, best, lastInv, breq, hreq, mode, tip, completed, bad>>

Next ==
    \/ \E n \in Peer :
         \/ Connected(n) \/ ConnectionLost(n) \/ Handshake(n)
         \/ \E due, late \in BOOLEAN : TimerTick(n, due, late)
         \/ Reply(n) \/ RecvFaultyHeaders(n) \/ RecvBadBlock(n)
    \/ Mine

Spec == Init /\ [][Next]_vars

(* State checks go on while a node owns its timer; prompt peers connect,   *)
(* shake hands and answer.                                                 *)
FairSpec ==
    /\ Spec
    /\ \A n \in Peer : WF_vars(\E late \in BOOLEAN : TimerTick(n, TRUE, late))
    /\ \A p \in Prompt : WF_vars(Connected(p)) /\ WF_vars(Handshake(p)) /\ WF_vars(Reply(p))

-----------------------------------------------------------------------------
Message == [kind : {"headers", "getblocks", "inv", "block"}, lo : 0 .. MaxChain, hi : 0 .. MaxChain]

(* The state has its type: timers stop at the limit, and the tip is never  *)
(* above the chain the peers serve.                                        *)
TypeOK ==
    /\ nodes \in [Peer -> NodeState]
    /\ {best, lastInv} \subseteq [Peer -> 0 .. MaxChain]
    /\ breq \in [Peer -> 0 .. Limit + 1] /\ hreq \in 0 .. Limit + 1
    /\ mode \in {"headers", "blocks"} /\ completed \in BOOLEAN
    /\ chain \in 0 .. MaxChain /\ tip \in 0 .. chain
    /\ bad \in 0 .. MaxBad
    /\ \A n \in Peer : \A i \in DOMAIN owes[n] : owes[n][i] \in Message

(* dogecoin_net_spv_request_headers asks one peer and leaves the others    *)
(* alone while it is at work, although requests are sent from handshakes,  *)
(* state checks and three message handlers.  Until the client switches to  *)
(* blocks a single peer is at work, and on headers; from then on no peer   *)
(* is, so that no late headers message can move the tip under the blocks.  *)
OneDownloader ==
    LET on(flag) == {n \in Peer : {"CONNECTED", flag} \subseteq nodes[n].state}
    IN  /\ mode = "headers" => on("BLOCKSYNC") = {} /\ \A n, m \in on("HEADERSYNC") : n = m
        /\ mode = "blocks" => on("HEADERSYNC") = {}

\* n carries NODE_HEADERSYNC, which keeps every other peer from being asked
Holds(n) == {"CONNECTED", "HEADERSYNC"} \subseteq nodes[n].state

(* A peer that holds up the header sync is watched by the stall timer, of  *)
(* which the client has one for all peers and which every headers message  *)
(* turns off.  The one exception is a faulty peer that has answered: with  *)
(* too few headers it is asked for no more and keeps NODE_HEADERSYNC.      *)
Watched ==
    \A n \in Peer :
        Holds(n) /\ (n \in Faulty => \E i \in DOMAIN owes[n] : owes[n][i].kind = "headers")
            => hreq > 0

(* With a prompt peer that stays usable, the header sync ends and blocks   *)
(* begin, although the others refuse, drop the connection, fall silent, or *)
(* answer some requests with headers that do not connect.  Only a faulty   *)
(* peer that has sent too few of them and stays connected stops it.        *)
HeadersEnd ==
    <>[](\E p \in Prompt : Usable(nodes, p))
        => <>(mode = "blocks") \/ <>[](\E n \in Faulty : Holds(n) /\ hreq = 0)

(* With such a peer a client that starts with headers gets to full blocks  *)
(* "when reaching the chain tip", and so follows a block mined while it is *)
(* connected (dogecoin_net_spv_post_cmd, the end of the headers branch).   *)
CatchesUp ==
    <>[](\E p \in Prompt : Usable(nodes, p) /\ best[p] < MaxChain) /\ <>(chain = MaxChain)
        => <>(mode = "blocks" /\ tip = MaxChain)

(* The group keeps the promise of PeerLife to the client as well.          *)
Life == INSTANCE PeerLife WITH phase <- [n \in Peer |-> Phase(nodes[n])]
LifeSpec == Life!Spec
=============================================================================
