---------------------------- MODULE SpvSyncProofs ----------------------------
(***************************************************************************)
(* The serial sync for every number of peers, every limit and every length *)
(* of the chain: the state keeps its type, one peer at a time downloads    *)
(* headers and none while blocks are, that peer is watched unless the      *)
(* client starts at the tip or the peer is a faulty one that has answered, *)
(* and the node group implements PeerLife.                                 *)
(*                                                                         *)
(* A handler is a chain of operators on a client record, so the invariant  *)
(* (Good) is a predicate of such a record and the height of the network.   *)
(* The first part says what the operators do to a single node, the second  *)
(* that each of them keeps Good, the third puts the actions together.      *)
(***************************************************************************)
EXTENDS SpvSync, FiniteSetTheorems, SequenceTheorems, WellFoundedInduction, TLAPS

-----------------------------------------------------------------------------
(* The node group, node by node; the same facts as for Broadcast.          *)

(* What the functions of the group do to the node they are about.          *)
Dial(nd) == [nd EXCEPT !.state = @ \cup {"CONNECTING"}, !.events = TRUE]
Rel(nd) == [nd EXCEPT !.events = FALSE]
Cut(nd) ==
    [nd EXCEPT !.state = (@ \ {"CONNECTING", "CONNECTED"}) \cup {"DISCONNECTED"},
               !.events = FALSE]
Ostr(nd) ==
    IF "MISSBEHAVED" \in nd.state /\ nd.state \cap {"CONNECTED", "CONNECTING"} # {}
    THEN Cut(nd) ELSE nd

(* What the events do to the node before the group is told.                *)
Conn(nd) == [nd EXCEPT !.state = (@ \cup {"CONNECTED"}) \ {"CONNECTING", "ERRORED"}]
Lost(nd) == [nd EXCEPT !.state = {"ERRORED", "DISCONNECTED"}]
Tout(nd) == [nd EXCEPT !.state = {"ERRORED", "TIMEOUT"}]
Misb(nd) == [nd EXCEPT !.state = @ \cup {"MISSBEHAVED"}]
Shake(nd) == [nd EXCEPT !.shaken = TRUE]

-----------------------------------------------------------------------------
(* The tests of the group, flag by flag.                                   *)
LEMMA Flags ==
    ASSUME NEW nd
    PROVE  /\ Dialable(nd) <=> /\ "CONNECTED" \notin nd.state
                               /\ "DISCONNECTED" \notin nd.state
                               /\ "CONNECTING" \notin nd.state
           /\ EventsOwned(nd) <=>
                 (nd.events <=> "CONNECTED" \in nd.state \/ "CONNECTING" \in nd.state)
           /\ Ostr(nd) = IF /\ "MISSBEHAVED" \in nd.state
                            /\ "CONNECTED" \in nd.state \/ "CONNECTING" \in nd.state
                         THEN Cut(nd) ELSE nd
<1>1. nd.state \cap {"CONNECTED", "CONNECTING"} # {}
        <=> "CONNECTED" \in nd.state \/ "CONNECTING" \in nd.state
  BY Zenon
<1>2. Dialable(nd) <=> /\ "CONNECTED" \notin nd.state
                       /\ "DISCONNECTED" \notin nd.state
                       /\ "CONNECTING" \notin nd.state
  BY Zenon DEF Dialable
<1> QED
  BY <1>1, <1>2 DEF EventsOwned, Ostr

(* The record updates keep the type of a node.                             *)
LEMMA NodeTypes ==
    ASSUME NEW nd \in NodeState
    PROVE  /\ Dial(nd) \in NodeState /\ Rel(nd) \in NodeState
           /\ Cut(nd) \in NodeState /\ Ostr(nd) \in NodeState
  BY DEF NodeState, Flag, Dial, Rel, Cut, Ostr

(* The fields of an updated node.                                          *)
LEMMA NodeFields ==
    ASSUME NEW nd \in NodeState
    PROVE  /\ Dial(nd).state = nd.state \cup {"CONNECTING"} /\ Dial(nd).events
           /\ (Dial(nd).shaken <=> nd.shaken) /\ (Dial(nd).partial <=> nd.partial)
           /\ Rel(nd).state = nd.state /\ ~Rel(nd).events
           /\ (Rel(nd).shaken <=> nd.shaken) /\ (Rel(nd).partial <=> nd.partial)
           /\ Cut(nd).state = (nd.state \ {"CONNECTING", "CONNECTED"}) \cup {"DISCONNECTED"}
           /\ ~Cut(nd).events
           /\ (Cut(nd).shaken <=> nd.shaken) /\ (Cut(nd).partial <=> nd.partial)
  BY DEF NodeState, Dial, Rel, Cut

(* The same for what the events do.                                        *)
LEMMA EventTypes ==
    ASSUME NEW nd \in NodeState
    PROVE  /\ Conn(nd) \in NodeState /\ Lost(nd) \in NodeState /\ Tout(nd) \in NodeState
           /\ Misb(nd) \in NodeState /\ Shake(nd) \in NodeState
  BY DEF NodeState, Flag, Conn, Lost, Tout, Misb, Shake

(* The fields after an event.                                              *)
LEMMA EventFields ==
    ASSUME NEW nd \in NodeState
    PROVE  /\ Conn(nd).state = (nd.state \cup {"CONNECTED"}) \ {"CONNECTING", "ERRORED"}
           /\ Lost(nd).state = {"ERRORED", "DISCONNECTED"}
           /\ Tout(nd).state = {"ERRORED", "TIMEOUT"}
           /\ Misb(nd).state = nd.state \cup {"MISSBEHAVED"}
           /\ Shake(nd).state = nd.state
           /\ (Conn(nd).events <=> nd.events) /\ (Lost(nd).events <=> nd.events)
           /\ (Tout(nd).events <=> nd.events) /\ (Misb(nd).events <=> nd.events)
           /\ (Shake(nd).events <=> nd.events)
           /\ (Conn(nd).shaken <=> nd.shaken) /\ (Lost(nd).shaken <=> nd.shaken)
           /\ (Tout(nd).shaken <=> nd.shaken) /\ (Misb(nd).shaken <=> nd.shaken)
           /\ Shake(nd).shaken
           /\ (Conn(nd).partial <=> nd.partial) /\ (Lost(nd).partial <=> nd.partial)
           /\ (Tout(nd).partial <=> nd.partial) /\ (Misb(nd).partial <=> nd.partial)
           /\ (Shake(nd).partial <=> nd.partial)
  BY DEF NodeState, Conn, Lost, Tout, Misb, Shake

(* connect_next_nodes dials some nodes that may be dialled and leaves the  *)
(* others alone.                                                           *)
LEMMA DialsSome ==
    ASSUME NEW N \in [Peer -> NodeState], NEW M \in ConnectNextNodes(N)
    PROVE  /\ M \in [Peer -> NodeState]
           /\ \A p \in Peer : M[p] = N[p] \/ (Dialable(N[p]) /\ M[p] = Dial(N[p]))
<1>1. PICK D \in SUBSET {p \in Peer : Dialable(N[p])} : M = N \/ M = Dialled(N, D)
  <2>1. \A k : FirstOf({p \in Peer : Dialable(N[p])}, k) \in SUBSET {p \in Peer : Dialable(N[p])}
    BY DEF FirstOf
  <2> QED
    BY <2>1 DEF ConnectNextNodes
<1>2. CASE M = N
  BY <1>2
<1>3. CASE M = Dialled(N, D)
  <2>1. \A p \in Peer : M[p] = IF p \in D THEN Dial(N[p]) ELSE N[p]
    BY <1>3 DEF Dialled, Dial
  <2>2. \A p \in Peer : Dial(N[p]) \in NodeState
    BY NodeTypes
  <2>3. M \in [Peer -> NodeState]
    <3>1. M = [p \in Peer |-> M[p]]
      BY <1>3 DEF Dialled
    <3> QED
      BY <2>1, <2>2, <3>1
  <2> QED
    BY <2>1, <2>3
<1> QED
  BY <1>1, <1>2, <1>3

(* dogecoin_node_connection_state_changed on node n: an errored node is    *)
(* released, and may be dialled again like any other; a misbehaving one is *)
(* disconnected in the end.                                                *)
Changed(N, n, M) ==
    /\ M \in [Peer -> NodeState]
    /\ \A p \in Peer \ {n} : M[p] = N[p] \/ (Dialable(N[p]) /\ M[p] = Dial(N[p]))
    /\ "ERRORED" \notin N[n].state => M[n] = Ostr(N[n])
    /\ "ERRORED" \in N[n].state =>
          \/ M[n] = Ostr(Rel(N[n]))
          \/ Dialable(Rel(N[n])) /\ M[n] = Ostr(Dial(Rel(N[n])))

(* Whatever the refill dials, that is all a state change does.             *)
LEMMA ChangesNode ==
    ASSUME NEW N \in [Peer -> NodeState], NEW n \in Peer, NEW more,
           NEW M \in StateChanged(N, n, more)
    PROVE  Changed(N, n, M)
<1> DEFINE E == ReleaseEvents(N, n)
<1>1. E = [N EXCEPT ![n] = Rel(N[n])] /\ E \in [Peer -> NodeState]
  BY NodeTypes DEF ReleaseEvents, Rel
<1>2. PICK K : /\ M = Ostracised(K, n)
               /\ \/ "ERRORED" \notin N[n].state /\ K = N
                  \/ "ERRORED" \in N[n].state /\ (K = E \/ K \in ConnectNextNodes(E))
  BY DEF StateChanged
<1> HIDE DEF E
<1>3. /\ K \in [Peer -> NodeState]
      /\ \A p \in Peer : \/ K[p] = N[p]
                         \/ p # n /\ Dialable(N[p]) /\ K[p] = Dial(N[p])
                         \/ p = n
      /\ "ERRORED" \notin N[n].state => K = N
      /\ "ERRORED" \in N[n].state =>
            K[n] = Rel(N[n]) \/ (Dialable(Rel(N[n])) /\ K[n] = Dial(Rel(N[n])))
  <2>1. E[n] = Rel(N[n]) /\ \A p \in Peer \ {n} : E[p] = N[p]
    BY <1>1
  <2>2. CASE "ERRORED" \notin N[n].state
    BY <1>2, <2>2
  <2>3. CASE "ERRORED" \in N[n].state /\ K = E
    BY <2>3, <2>1, <1>1
  <2>4. CASE "ERRORED" \in N[n].state /\ K \in ConnectNextNodes(E)
    <3>1. /\ K \in [Peer -> NodeState]
          /\ \A p \in Peer : K[p] = E[p] \/ (Dialable(E[p]) /\ K[p] = Dial(E[p]))
      BY <2>4, <1>1, DialsSome
    <3> QED
      BY <2>1, <2>4, <3>1
  <2> QED
    BY <1>2, <2>2, <2>3, <2>4
<1>4. M = [K EXCEPT ![n] = Ostr(K[n])]
  <2>1. Disconnect(K, n) = [K EXCEPT ![n] = Cut(K[n])]
    BY <1>3 DEF Disconnect, Cut
  <2>2. K = [K EXCEPT ![n] = K[n]]
    BY <1>3
  <2> QED
    BY <1>2, <2>1, <2>2 DEF Ostracised, Ostr
<1>5. M \in [Peer -> NodeState] /\ M[n] = Ostr(K[n]) /\ \A p \in Peer \ {n} : M[p] = K[p]
  BY <1>3, <1>4, NodeTypes
<1> QED
  BY <1>3, <1>5 DEF Changed

-----------------------------------------------------------------------------
(* Numbers.                                                                *)

(* A non-empty set of naturals has a least member, which Min yields.       *)
LEMMA MinIn ==
    ASSUME NEW T \in SUBSET Nat, T # {}
    PROVE  Min(T) \in T /\ \A y \in T : Min(T) <= y
<1> DEFINE R == OpToRel(<, Nat)
<1>1. ASSUME NEW x \in Nat, NEW y \in Nat, <<y, x>> \notin R PROVE x <= y
  BY <1>1 DEF OpToRel
<1>2. IsWellFoundedOn(R, Nat)
  BY NatLessThanWellFounded, Zenon
<1> HIDE DEF R
<1>3. \E x \in T : \A y \in T : <<y, x>> \notin R
  BY <1>2, WFMin, Zenon
<1>4. \E x \in T : \A y \in T : x <= y
  BY <1>1, <1>3, Zenon
<1> QED
  BY <1>4, Zenon DEF Min

(* A non-empty set of naturals with an upper bound has a greatest one.     *)
LEMMA MaxIn ==
    ASSUME NEW b \in Nat, NEW T \in SUBSET (0 .. b), T # {}
    PROVE  Max(T) \in T /\ \A y \in T : Max(T) >= y
<1> DEFINE U == {b - y : y \in T}
<1>1. U \in SUBSET Nat /\ U # {}
  <2>1. PICK x : x \in T
    OBVIOUS
  <2>2. b - x \in U
    BY <2>1
  <2>3. \A y \in T : b - y \in Nat
    OBVIOUS
  <2> QED
    BY <2>2, <2>3
<1>2. Min(U) \in U /\ \A y \in U : Min(U) <= y
  BY <1>1, MinIn
<1>3. PICK x \in T : Min(U) = b - x
  BY <1>2
<1>4. \A y \in T : b - x <= b - y
  BY <1>2, <1>3
<1>5. \A y \in T : x >= y
  BY <1>4
<1> QED
  BY <1>5, Zenon DEF Max

(* A height below another is subtracted from it without wrapping.          *)
LEMMA SubLow ==
    ASSUME NEW a \in Nat, NEW b \in Nat, b <= a, a < Word
    PROVE  Sub(a, b) = a - b
<1>1. Word \in Nat \ {0} /\ a - b \in Nat /\ a - b < Word
  BY SpvSyncAssumption
<1>2. (a + Word - b) % Word = a - b
  BY <1>1
<1> QED
  BY <1>2 DEF Sub

-----------------------------------------------------------------------------
(* The invariant.                                                          *)

(* A connected node that is asked for headers, or for blocks.              *)
At(nd, flag) == "CONNECTED" \in nd.state /\ flag \in nd.state

(* The places of the headers requests a peer has still to answer.          *)
HeaderAt(q) == {i \in DOMAIN q : q[i].kind = "headers"}

(* One node and what its peer owes: the flags exclude each other, nothing  *)
(* of a connection precedes the first one, and headers are only on their   *)
(* way, once, from a peer that carries NODE_HEADERSYNC.                    *)
Fit(nd, q) ==
    /\ nd \in NodeState
    /\ nd.events => "CONNECTED" \in nd.state \/ "CONNECTING" \in nd.state
    /\ "CONNECTED" \in nd.state => "CONNECTING" \notin nd.state
    /\ "DISCONNECTED" \in nd.state =>
          "CONNECTED" \notin nd.state /\ "CONNECTING" \notin nd.state
    /\ "MISSBEHAVED" \in nd.state => "DISCONNECTED" \in nd.state
    /\ "HEADERSYNC" \in nd.state \/ "BLOCKSYNC" \in nd.state \/ q # <<>> => nd.shaken
    /\ nd.shaken => "CONNECTED" \in nd.state \/ "DISCONNECTED" \in nd.state
    /\ "CONNECTED" \in nd.state /\ HeaderAt(q) # {} => "HEADERSYNC" \in nd.state
    /\ \A i, j \in HeaderAt(q) : i = j

(* The messages on their way when the network has ch blocks.               *)
Msg(ch) == {m \in Message : m.lo <= m.hi /\ m.hi <= ch}

ClientAt(ch) ==
    [nodes : [Peer -> NodeState], best : [Peer -> 0 .. ch], lastInv : [Peer -> 0 .. ch],
     breq : [Peer -> 0 .. Limit + 1], hreq : 0 .. Limit + 1, mode : {"headers", "blocks"},
     tip : 0 .. ch, completed : BOOLEAN, owes : [Peer -> Seq(Msg(ch))]]

(* Until blocks begin one peer is at work, on headers; then none is on     *)
(* headers.                                                                *)
OneAtWork(N, md) ==
    \A n, m \in Peer :
        /\ md = "headers" => ~At(N[n], "BLOCKSYNC")
        /\ md = "headers" /\ At(N[n], "HEADERSYNC") /\ At(N[m], "HEADERSYNC") => n = m
        /\ md = "blocks" => ~At(N[n], "HEADERSYNC")

(* Before blocks begin none is on its way, and headers are asked for from  *)
(* the tip or below.                                                       *)
Early(t) == {m \in Message : m.kind # "block" /\ (m.kind = "headers" => m.lo <= t)}

Safe(c, ch) ==
    /\ c \in ClientAt(ch)
    /\ \A p \in Peer : Fit(c.nodes[p], c.owes[p])
    /\ OneAtWork(c.nodes, c.mode)
    /\ c.mode = "headers" => c.owes \in [Peer -> Seq(Early(c.tip))]

(* The client lacks a header of the network when it starts, and the        *)
(* network is at least Gap blocks long, so that no height the client       *)
(* compares with one announced has wrapped.                                *)
StartsBehind == StartTip < StartChain /\ Gap <= StartChain

(* What keeps the header sync watched.  The tip stays below the network    *)
(* until the switch, so the honest answer to a request is never empty: it  *)
(* is a full batch or brings the switch.  A faulty peer's answer may be    *)
(* too short for either; its timer is off from then on.                    *)
Sought(c, ch) ==
    /\ c.mode = "headers" => c.tip < ch
    /\ \A p \in Peer : c.nodes[p].shaken => c.best[p] >= StartChain

Alarm(c) ==
    \A p \in Peer :
        At(c.nodes[p], "HEADERSYNC") /\ (p \in Faulty => HeaderAt(c.owes[p]) # {}) => c.hreq > 0

Good(c, ch) == Safe(c, ch) /\ (StartsBehind => Sought(c, ch) /\ Alarm(c))

-----------------------------------------------------------------------------
(* One node.                                                               *)

(* A change of a node by the group: it stays fit, is asked for nothing     *)
(* new, and has shaken hands or not as before.                             *)
Moved(nd, q, md) ==
    /\ Fit(md, q)
    /\ \A f \in {"HEADERSYNC", "BLOCKSYNC"} : At(md, f) => At(nd, f)
    /\ md.shaken <=> nd.shaken

(* Nothing happens to the node.                                            *)
LEMMA StayMoved ==
    ASSUME NEW nd, NEW q, Fit(nd, q)
    PROVE  Moved(nd, q, nd)
  BY DEF Moved

(* A node that may be dialled is dialled.                                  *)
LEMMA DialMoved ==
    ASSUME NEW nd, NEW q, Fit(nd, q), Dialable(nd)
    PROVE  /\ Moved(nd, q, Dial(nd))
           /\ Phase(nd) = "new" /\ Phase(Dial(nd)) = "dialling"
<1>1. nd \in NodeState
  BY DEF Fit
<1> DEFINE d == Dial(nd)
<1>2. /\ d \in NodeState /\ d.state = nd.state \cup {"CONNECTING"} /\ d.events
      /\ (d.shaken <=> nd.shaken)
  BY <1>1, NodeTypes, NodeFields
<1> HIDE DEF d
<1>3. /\ "CONNECTED" \notin nd.state /\ "DISCONNECTED" \notin nd.state
      /\ "CONNECTING" \notin nd.state /\ ~nd.shaken
  BY Flags DEF Fit
<1>4. Fit(d, q)
  BY <1>2, <1>3 DEF Fit
<1>5. Phase(nd) = "new" /\ Phase(d) = "dialling" /\ \A f : ~At(d, f)
  BY <1>2, <1>3 DEF Phase, At
<1> QED
  BY <1>2, <1>4, <1>5 DEF Moved, d

(* A dial succeeds.                                                        *)
LEMMA ConnMoved ==
    ASSUME NEW nd, NEW q, Fit(nd, q), nd.events, "CONNECTING" \in nd.state
    PROVE  /\ ~Dialable(Conn(nd)) /\ "ERRORED" \notin Conn(nd).state
           /\ Moved(nd, q, Ostr(Conn(nd)))
           /\ Phase(nd) = "dialling" /\ Phase(Ostr(Conn(nd))) = "connected"
<1>1. nd \in NodeState
  BY DEF Fit
<1> DEFINE c == Conn(nd)
<1>2. /\ c \in NodeState /\ (c.events <=> nd.events)
      /\ c.state = (nd.state \cup {"CONNECTED"}) \ {"CONNECTING", "ERRORED"}
      /\ (c.shaken <=> nd.shaken)
  BY <1>1, EventTypes, EventFields
<1> HIDE DEF c
<1>3. /\ "DISCONNECTED" \notin nd.state /\ "CONNECTED" \notin nd.state
      /\ "MISSBEHAVED" \notin nd.state /\ ~nd.shaken
      /\ "HEADERSYNC" \notin nd.state /\ "BLOCKSYNC" \notin nd.state /\ q = <<>>
  BY DEF Fit
<1>4. Ostr(c) = c /\ ~Dialable(c)
  BY <1>2, <1>3, Flags
<1>5. HeaderAt(q) = {}
  BY <1>3 DEF HeaderAt
<1>6. Fit(c, q)
  BY <1>2, <1>3, <1>5 DEF Fit
<1>7. \A f \in {"HEADERSYNC", "BLOCKSYNC"} : ~At(c, f)
  BY <1>2, <1>3 DEF At
<1>8. Phase(nd) = "dialling" /\ Phase(c) = "connected" /\ "ERRORED" \notin c.state
  BY <1>2, <1>3 DEF Phase
<1> QED
  BY <1>2, <1>4, <1>6, <1>7, <1>8 DEF Moved, c

(* A node that is gone: it is released, and fit whatever was on its way.   *)
LEMMA GoneFit ==
    ASSUME NEW nd, NEW q, NEW md, Fit(nd, q), md \in NodeState, ~md.events,
           "DISCONNECTED" \in md.state, "CONNECTED" \notin md.state,
           "CONNECTING" \notin md.state, md.shaken <=> nd.shaken,
           md.state \subseteq nd.state \cup {"ERRORED", "DISCONNECTED", "MISSBEHAVED"}
    PROVE  Moved(nd, q, md) /\ Phase(md) = "gone"
<1>1. Fit(md, q)
  BY DEF Fit
<1>2. Phase(md) = "gone" /\ \A f : ~At(md, f)
  BY DEF Phase, At
<1> QED
  BY <1>1, <1>2 DEF Moved

(* A connection, or a dial, is lost.                                       *)
LEMMA LostMoved ==
    ASSUME NEW nd, NEW q, Fit(nd, q)
    PROVE  /\ ~Dialable(Lost(nd)) /\ ~Dialable(Rel(Lost(nd)))
           /\ "ERRORED" \in Lost(nd).state
           /\ Moved(nd, q, Ostr(Rel(Lost(nd)))) /\ Phase(Ostr(Rel(Lost(nd)))) = "gone"
<1> DEFINE l == Lost(nd)
           r == Rel(Lost(nd))
<1>1. nd \in NodeState /\ l \in NodeState /\ r \in NodeState
  BY EventTypes, NodeTypes DEF Fit
<1>2. l.state = {"ERRORED", "DISCONNECTED"} /\ (l.shaken <=> nd.shaken)
  BY <1>1, EventFields
<1>3. r.state = l.state /\ ~r.events /\ (r.shaken <=> l.shaken)
  BY <1>1, NodeFields
<1> HIDE DEF l, r
<1>4. Ostr(r) = r /\ ~Dialable(r) /\ ~Dialable(l)
  BY <1>2, <1>3, Flags
<1>5. Moved(nd, q, r) /\ Phase(r) = "gone"
  BY <1>1, <1>2, <1>3, GoneFit
<1> QED
  BY <1>2, <1>4, <1>5 DEF l, r

(* A dial times out.  The client's callback, or the group, may dial the    *)
(* node again; if the callback did, the group releases the new dial.       *)
LEMMA ToutMoved ==
    ASSUME NEW nd, NEW q, Fit(nd, q), "CONNECTING" \in nd.state,
           NEW md \in {Ostr(Rel(Tout(nd))), Ostr(Dial(Rel(Tout(nd)))),
                       Ostr(Rel(Dial(Tout(nd))))}
    PROVE  /\ "ERRORED" \in Tout(nd).state /\ ~Dialable(Rel(Dial(Tout(nd))))
           /\ "ERRORED" \in Dial(Tout(nd)).state
           /\ Moved(nd, q, md) /\ Phase(nd) = "dialling"
           /\ Phase(md) \in {"new", "dialling"}
<1> DEFINE t == Tout(nd)
           r == Rel(t)
           d == Dial(r)
           x == Dial(t)
           y == Rel(x)
<1>1. /\ nd \in NodeState /\ t \in NodeState
      /\ t.state = {"ERRORED", "TIMEOUT"} /\ (t.shaken <=> nd.shaken)
  BY EventTypes, EventFields DEF Fit
<1> HIDE DEF t
<1>2. /\ r \in NodeState /\ r.state = t.state /\ ~r.events /\ (r.shaken <=> t.shaken)
      /\ x \in NodeState /\ x.state = t.state \cup {"CONNECTING"} /\ (x.shaken <=> t.shaken)
  BY <1>1, NodeTypes, NodeFields
<1> HIDE DEF r, x
<1>3. /\ d \in NodeState /\ d.state = r.state \cup {"CONNECTING"} /\ (d.shaken <=> r.shaken)
      /\ y \in NodeState /\ y.state = x.state /\ ~y.events /\ (y.shaken <=> x.shaken)
  BY <1>2, NodeTypes, NodeFields
<1> HIDE DEF d, y
<1>4. Ostr(r) = r /\ Ostr(d) = d /\ Ostr(y) = y /\ ~Dialable(y)
  BY <1>1, <1>2, <1>3, Flags
<1>5. ~nd.shaken /\ q = <<>> /\ Phase(nd) = "dialling"
  BY DEF Fit, Phase
<1>6. HeaderAt(q) = {}
  BY <1>5 DEF HeaderAt
<1>7. ASSUME NEW z \in {r, d, y}
      PROVE  Moved(nd, q, z) /\ Phase(z) \in {"new", "dialling"}
  <2>1. /\ z \in NodeState /\ ~z.shaken
        /\ z.state = {"ERRORED", "TIMEOUT"} \/ z.state = {"ERRORED", "TIMEOUT", "CONNECTING"}
        /\ z.events => "CONNECTING" \in z.state
    BY <1>1, <1>2, <1>3, <1>5, <1>7
  <2>2. Fit(z, q)
    BY <2>1, <1>5, <1>6 DEF Fit
  <2>3. Phase(z) \in {"new", "dialling"} /\ \A f : ~At(z, f)
    BY <2>1 DEF Phase, At
  <2> QED
    BY <1>5, <2>1, <2>2, <2>3 DEF Moved
<1>8. md \in {r, d, y}
  BY <1>4 DEF r, d, x, y, t
<1> QED
  BY <1>1, <1>2, <1>4, <1>5, <1>7, <1>8 DEF r, x, y, t

(* A sync flag is cleared, or set.                                         *)
Strip(nd, flag) == [nd EXCEPT !.state = @ \ {flag}]
Raise(nd, flag) == [nd EXCEPT !.state = @ \cup {flag}]

(* What that does to the node.                                             *)
LEMMA FlagFields ==
    ASSUME NEW nd \in NodeState, NEW f \in {"HEADERSYNC", "BLOCKSYNC"}
    PROVE  /\ Strip(nd, f) \in NodeState /\ Strip(nd, f).state = nd.state \ {f}
           /\ (Strip(nd, f).events <=> nd.events) /\ (Strip(nd, f).shaken <=> nd.shaken)
           /\ Raise(nd, f) \in NodeState /\ Raise(nd, f).state = nd.state \cup {f}
           /\ (Raise(nd, f).events <=> nd.events) /\ (Raise(nd, f).shaken <=> nd.shaken)
  BY DEF NodeState, Flag, Strip, Raise

(* A peer that is dialled, connected or gone loses a sync flag and         *)
(* misbehaves: in the end it is gone.                                      *)
LEMMA MisbMoved ==
    ASSUME NEW nd, NEW q, Fit(nd, q), NEW f \in {"HEADERSYNC", "BLOCKSYNC"},
           \/ "CONNECTED" \in nd.state \/ "CONNECTING" \in nd.state
           \/ "DISCONNECTED" \in nd.state,
           NEW md \in {Ostr(Misb(Strip(nd, f))), Ostr(Rel(Misb(Strip(nd, f))))}
    PROVE  /\ ~Dialable(Misb(Strip(nd, f))) /\ ~Dialable(Rel(Misb(Strip(nd, f))))
           /\ Moved(nd, q, md) /\ Phase(md) = "gone" /\ "DISCONNECTED" \in md.state
<1> DEFINE s == Strip(nd, f)
           m == Misb(s)
           r == Rel(m)
<1>1. /\ nd \in NodeState /\ s \in NodeState /\ s.state = nd.state \ {f}
      /\ (s.shaken <=> nd.shaken) /\ (s.events <=> nd.events)
  BY FlagFields DEF Fit
<1> HIDE DEF s
<1>2. /\ m \in NodeState /\ m.state = s.state \cup {"MISSBEHAVED"}
      /\ (m.shaken <=> s.shaken) /\ (m.events <=> s.events)
  BY <1>1, EventTypes, EventFields
<1> HIDE DEF m
<1>3. r \in NodeState /\ r.state = m.state /\ ~r.events /\ (r.shaken <=> m.shaken)
  BY <1>2, NodeTypes, NodeFields
<1> HIDE DEF r
<1>4. ~Dialable(m) /\ ~Dialable(r)
  BY <1>1, <1>2, <1>3, Flags
<1>5. ASSUME NEW z \in {m, r}
      PROVE  /\ Moved(nd, q, Ostr(z)) /\ Phase(Ostr(z)) = "gone"
             /\ "DISCONNECTED" \in Ostr(z).state
  <2>1. /\ z \in NodeState /\ z.state = (nd.state \ {f}) \cup {"MISSBEHAVED"}
        /\ z.shaken <=> nd.shaken
        /\ z.events => nd.events
    BY <1>1, <1>2, <1>3, <1>5
  <2> DEFINE k == Cut(z)
  <2>2. /\ k \in NodeState /\ ~k.events /\ (k.shaken <=> z.shaken)
        /\ k.state = (z.state \ {"CONNECTING", "CONNECTED"}) \cup {"DISCONNECTED"}
    BY <2>1, NodeTypes, NodeFields
  <2> HIDE DEF k
  <2>3. CASE "CONNECTED" \in nd.state \/ "CONNECTING" \in nd.state
    <3>1. Ostr(z) = k
      BY <2>1, <2>3, Flags DEF k
    <3> QED
      BY <2>1, <2>2, <3>1, GoneFit
  <2>4. CASE "CONNECTED" \notin nd.state /\ "CONNECTING" \notin nd.state
    <3>1. Ostr(z) = z
      BY <2>1, <2>4, Flags
    <3>2. ~z.events
      BY <2>1, <2>4 DEF Fit
    <3> QED
      BY <2>1, <2>4, <3>1, <3>2, GoneFit
  <2> QED
    BY <2>3, <2>4
<1> QED
  BY <1>4, <1>5 DEF m, r, s

-----------------------------------------------------------------------------
(* The table of nodes.                                                     *)

(* Every node but n is as it was, or has been dialled.                     *)
DialsBut(N, n, M) ==
    \A p \in Peer \ {n} : M[p] = N[p] \/ (Dialable(N[p]) /\ M[p] = Dial(N[p]))

(* The client's callback dials nodes that may be dialled.                  *)
LEMMA RefillDials ==
    ASSUME NEW N \in [Peer -> NodeState], NEW M \in Refill(N)
    PROVE  /\ M \in [Peer -> NodeState]
           /\ \A p \in Peer : M[p] = N[p] \/ (Dialable(N[p]) /\ M[p] = Dial(N[p]))
<1>1. M = N \/ M \in ConnectNextNodes(N)
  BY DEF Refill
<1> QED
  BY <1>1, DialsSome

(* A node that was dialled cannot be dialled again.                        *)
LEMMA DialledOnce ==
    ASSUME NEW nd \in NodeState
    PROVE  ~Dialable(Dial(nd))
<1>1. "CONNECTING" \in Dial(nd).state
  BY NodeFields
<1> QED
  BY <1>1, Flags

(* What can become of the node the group is told of: the callback may dial *)
(* it, an errored node is released and may be dialled by the refill, and a *)
(* misbehaving one is disconnected.                                        *)
Outcome(nd, md) ==
    \E x \in {nd, Dial(nd)} :
        /\ x # nd => Dialable(nd)
        /\ "ERRORED" \notin x.state => md = Ostr(x)
        /\ "ERRORED" \in x.state =>
              md = Ostr(Rel(x)) \/ (Dialable(Rel(x)) /\ md = Ostr(Dial(Rel(x))))

(* The group is told of a change of n: callback, refill, ostracism.        *)
LEMMA ToldOf ==
    ASSUME NEW N \in [Peer -> NodeState], NEW n \in Peer, NEW M \in NodeChanged(N, n)
    PROVE  /\ M \in [Peer -> NodeState] /\ DialsBut(N, n, M)
           /\ Outcome(N[n], M[n])
<1>1. PICK K \in Refill(N) : M \in StateChanged(K, n, ShouldConnectMore(K))
  BY DEF NodeChanged
<1>2. /\ K \in [Peer -> NodeState]
      /\ \A p \in Peer : K[p] = N[p] \/ (Dialable(N[p]) /\ K[p] = Dial(N[p]))
  BY <1>1, RefillDials
<1>3. PICK more : more = ShouldConnectMore(K)
  OBVIOUS
<1>4. Changed(K, n, M)
  BY <1>1, <1>2, <1>3, ChangesNode
<1>5. DialsBut(N, n, M)
  BY <1>2, <1>4, DialledOnce DEF Changed, DialsBut
<1> QED
  BY <1>2, <1>4, <1>5 DEF Changed, Outcome

-----------------------------------------------------------------------------
(* The client record under the node group.                                 *)

(* The fields of a client record.                                          *)
LEMMA ClientFields ==
    ASSUME NEW ch \in Nat, NEW c \in ClientAt(ch)
    PROVE  /\ c.nodes \in [Peer -> NodeState] /\ c.best \in [Peer -> 0 .. ch]
           /\ c.lastInv \in [Peer -> 0 .. ch] /\ c.breq \in [Peer -> 0 .. Limit + 1]
           /\ c.hreq \in 0 .. Limit + 1 /\ c.mode \in {"headers", "blocks"}
           /\ c.tip \in 0 .. ch /\ c.completed \in BOOLEAN
           /\ c.owes \in [Peer -> Seq(Msg(ch))]
  BY DEF ClientAt

(* Another table of nodes.                                                 *)
LEMMA NewTable ==
    ASSUME NEW ch \in Nat, NEW c \in ClientAt(ch), NEW M \in [Peer -> NodeState],
           NEW d, d = [c EXCEPT !.nodes = M]
    PROVE  /\ d \in ClientAt(ch) /\ d.nodes = M
           /\ d.best = c.best /\ d.lastInv = c.lastInv /\ d.breq = c.breq
           /\ d.hreq = c.hreq /\ d.mode = c.mode /\ d.tip = c.tip /\ d.owes = c.owes
  BY DEF ClientAt

(* The group changes the nodes of a client, each as a group may.           *)
LEMMA GroupMoves ==
    ASSUME NEW ch \in Nat, NEW c, Good(c, ch), NEW M \in [Peer -> NodeState],
           \A p \in Peer : Moved(c.nodes[p], c.owes[p], M[p]),
           NEW d, d = [c EXCEPT !.nodes = M]
    PROVE  Good(d, ch)
<1>1. c \in ClientAt(ch)
  BY DEF Good, Safe
<1>2. /\ d \in ClientAt(ch) /\ d.nodes = M /\ d.best = c.best /\ d.hreq = c.hreq
      /\ d.mode = c.mode /\ d.tip = c.tip /\ d.owes = c.owes
  BY <1>1, NewTable
<1>3. \A p \in Peer : /\ Fit(d.nodes[p], d.owes[p])
                      /\ At(d.nodes[p], "HEADERSYNC") => At(c.nodes[p], "HEADERSYNC")
                      /\ At(d.nodes[p], "BLOCKSYNC") => At(c.nodes[p], "BLOCKSYNC")
                      /\ d.nodes[p].shaken <=> c.nodes[p].shaken
  BY <1>2 DEF Moved
<1>4. OneAtWork(d.nodes, d.mode)
  BY <1>2, <1>3 DEF OneAtWork, Good, Safe
<1>5. StartsBehind => Sought(d, ch) /\ Alarm(d)
  BY <1>2, <1>3 DEF Good, Sought, Alarm
<1> QED
  BY <1>2, <1>3, <1>4, <1>5 DEF Good, Safe

(* How a step of the group moves a peer it is not about.                   *)
Drifts(N, n, M) ==
    \A p \in Peer \ {n} :
        Phase(M[p]) = Phase(N[p]) \/ (Phase(N[p]) = "new" /\ Phase(M[p]) = "dialling")

(* The nodes other than n, when the group is told of n.                    *)
LEMMA OthersMove ==
    ASSUME NEW ch \in Nat, NEW c, Good(c, ch), NEW n, NEW M, DialsBut(c.nodes, n, M)
    PROVE  /\ \A p \in Peer \ {n} : Moved(c.nodes[p], c.owes[p], M[p])
           /\ Drifts(c.nodes, n, M)
<1>1. \A p \in Peer : Fit(c.nodes[p], c.owes[p])
  BY DEF Good, Safe
<1> QED
  BY <1>1, StayMoved, DialMoved DEF DialsBut, Drifts

(* The group is told of a change of n: the client record stays good if n   *)
(* ends well.                                                              *)
LEMMA TableMoves ==
    ASSUME NEW ch \in Nat, NEW c, Good(c, ch), NEW n \in Peer, NEW nd \in NodeState,
           NEW N, N = [c.nodes EXCEPT ![n] = nd],
           NEW d \in WithNodes(c, NodeChanged(N, n)),
           \A md : Outcome(nd, md) => Moved(c.nodes[n], c.owes[n], md)
    PROVE  /\ Good(d, ch) /\ Drifts(c.nodes, n, d.nodes) /\ Outcome(nd, d.nodes[n])
           /\ d.owes = c.owes /\ d.mode = c.mode
<1>1. c \in ClientAt(ch) /\ c.nodes \in [Peer -> NodeState]
  BY ClientFields DEF Good, Safe
<1>2. PICK M \in NodeChanged(N, n) : d = [c EXCEPT !.nodes = M]
  BY DEF WithNodes
<1>3. N \in [Peer -> NodeState] /\ N[n] = nd /\ \A p \in Peer \ {n} : N[p] = c.nodes[p]
  BY <1>1
<1>4. M \in [Peer -> NodeState] /\ DialsBut(N, n, M) /\ Outcome(nd, M[n])
  BY <1>2, <1>3, ToldOf
<1>5. DialsBut(c.nodes, n, M)
  BY <1>3, <1>4 DEF DialsBut
<1>6. \A p \in Peer : Moved(c.nodes[p], c.owes[p], M[p])
  BY <1>4, <1>5, OthersMove
<1>7. d.nodes = M /\ d.owes = c.owes /\ d.mode = c.mode
  BY <1>1, <1>2, <1>4, NewTable
<1> QED
  BY <1>2, <1>4, <1>5, <1>6, <1>7, GroupMoves, OthersMove

(* event_cb on a dial that succeeds.                                       *)
LEMMA ConnectedGood ==
    ASSUME NEW ch \in Nat, NEW c, Good(c, ch), NEW n \in Peer, c.nodes[n].events,
           "CONNECTING" \in c.nodes[n].state,
           NEW d \in WithNodes(c, NodeChanged(MarkConnected(c.nodes, n), n))
    PROVE  /\ Good(d, ch) /\ Drifts(c.nodes, n, d.nodes)
           /\ Phase(c.nodes[n]) = "dialling" /\ Phase(d.nodes[n]) = "connected"
<1> DEFINE nd == Conn(c.nodes[n])
           N == MarkConnected(c.nodes, n)
<1>1. Fit(c.nodes[n], c.owes[n]) /\ c.nodes[n] \in NodeState
  BY DEF Good, Safe, Fit
<1>2. N = [c.nodes EXCEPT ![n] = nd] /\ nd \in NodeState
  BY <1>1, EventTypes DEF MarkConnected, Conn
<1>3. /\ ~Dialable(nd) /\ "ERRORED" \notin nd.state
      /\ Moved(c.nodes[n], c.owes[n], Ostr(nd))
      /\ Phase(c.nodes[n]) = "dialling" /\ Phase(Ostr(nd)) = "connected"
  BY <1>1, ConnMoved
<1> HIDE DEF nd, N
<1>4. \A md : Outcome(nd, md) => md = Ostr(nd)
  BY <1>3 DEF Outcome
<1>5. d \in WithNodes(c, NodeChanged(N, n))
  BY DEF N
<1> QED
  BY <1>2, <1>3, <1>4, <1>5, TableMoves

(* event_cb on a connection that ends.                                     *)
LEMMA LostGood ==
    ASSUME NEW ch \in Nat, NEW c, Good(c, ch), NEW n \in Peer,
           NEW d \in WithNodes(c, NodeChanged(MarkLost(c.nodes, n), n))
    PROVE  Good(d, ch) /\ Drifts(c.nodes, n, d.nodes) /\ Phase(d.nodes[n]) = "gone"
<1> DEFINE nd == Lost(c.nodes[n])
           N == MarkLost(c.nodes, n)
<1>1. Fit(c.nodes[n], c.owes[n]) /\ c.nodes[n] \in NodeState
  BY DEF Good, Safe, Fit
<1>2. N = [c.nodes EXCEPT ![n] = nd] /\ nd \in NodeState
  BY <1>1, EventTypes DEF MarkLost, Lost
<1>3. /\ ~Dialable(nd) /\ ~Dialable(Rel(nd)) /\ "ERRORED" \in nd.state
      /\ Moved(c.nodes[n], c.owes[n], Ostr(Rel(nd))) /\ Phase(Ostr(Rel(nd))) = "gone"
  BY <1>1, LostMoved
<1> HIDE DEF nd, N
<1>4. \A md : Outcome(nd, md) => md = Ostr(Rel(nd))
  BY <1>3 DEF Outcome
<1>5. d \in WithNodes(c, NodeChanged(N, n))
  BY DEF N
<1> QED
  BY <1>2, <1>3, <1>4, <1>5, TableMoves

(* node_periodical_timer on a dial that is late.                           *)
LEMMA TimedOutGood ==
    ASSUME NEW ch \in Nat, NEW c, Good(c, ch), NEW n \in Peer, NEW d \in TimedOut(c, n)
    PROVE  /\ Good(d, ch) /\ Drifts(c.nodes, n, d.nodes)
           /\ \/ Phase(d.nodes[n]) = Phase(c.nodes[n])
              \/ Phase(c.nodes[n]) = "dialling" /\ Phase(d.nodes[n]) = "new"
<1>1. CASE "CONNECTING" \notin c.nodes[n].state
  BY <1>1 DEF TimedOut, Drifts
<1>2. CASE "CONNECTING" \in c.nodes[n].state
  <2> DEFINE nd == Tout(c.nodes[n])
             N == MarkTimeout(c.nodes, n)
  <2>1. Fit(c.nodes[n], c.owes[n]) /\ c.nodes[n] \in NodeState
    BY DEF Good, Safe, Fit
  <2>2. N = [c.nodes EXCEPT ![n] = nd] /\ nd \in NodeState
    BY <2>1, EventTypes DEF MarkTimeout, Tout
  <2>3. /\ "ERRORED" \in nd.state /\ ~Dialable(Rel(Dial(nd)))
        /\ "ERRORED" \in Dial(nd).state /\ Phase(c.nodes[n]) = "dialling"
        /\ \A md \in {Ostr(Rel(nd)), Ostr(Dial(Rel(nd))), Ostr(Rel(Dial(nd)))} :
              Moved(c.nodes[n], c.owes[n], md) /\ Phase(md) \in {"new", "dialling"}
    BY <1>2, <2>1, ToutMoved
  <2> HIDE DEF nd, N
  <2>4. \A md : Outcome(nd, md) =>
              md \in {Ostr(Rel(nd)), Ostr(Dial(Rel(nd))), Ostr(Rel(Dial(nd)))}
    BY <2>3 DEF Outcome
  <2>5. d \in WithNodes(c, NodeChanged(N, n))
    BY <1>2 DEF TimedOut, N
  <2>6. \A md : Outcome(nd, md) => /\ Moved(c.nodes[n], c.owes[n], md)
                                   /\ Phase(md) \in {"new", "dialling"}
    BY <2>3, <2>4
  <2>7. Good(d, ch) /\ Drifts(c.nodes, n, d.nodes) /\ Outcome(nd, d.nodes[n])
    BY <2>2, <2>5, <2>6, TableMoves
  <2> QED
    BY <2>3, <2>6, <2>7
<1> QED
  BY <1>1, <1>2

(* dogecoin_node_misbehave after a sync flag was cleared.                  *)
LEMMA MisbehaveGood ==
    ASSUME NEW ch \in Nat, NEW c, Good(c, ch), NEW n \in Peer,
           NEW f \in {"HEADERSYNC", "BLOCKSYNC"},
           \/ "CONNECTED" \in c.nodes[n].state \/ "CONNECTING" \in c.nodes[n].state
           \/ "DISCONNECTED" \in c.nodes[n].state,
           NEW d \in Misbehave([c EXCEPT !.nodes[n].state = @ \ {f}], n)
    PROVE  /\ Good(d, ch) /\ Drifts(c.nodes, n, d.nodes)
           /\ Phase(d.nodes[n]) = "gone" /\ "DISCONNECTED" \in d.nodes[n].state
<1> DEFINE b == [c EXCEPT !.nodes[n].state = @ \ {f}]
           nd == Misb(Strip(c.nodes[n], f))
           N == MarkMisbehaved(b.nodes, n)
<1>1. /\ Fit(c.nodes[n], c.owes[n]) /\ c.nodes[n] \in NodeState
      /\ c \in ClientAt(ch) /\ c.nodes \in [Peer -> NodeState]
  BY ClientFields DEF Good, Safe, Fit
<1>2. Strip(c.nodes[n], f) \in NodeState /\ nd \in NodeState
  BY <1>1, FlagFields, EventTypes
<1>3. b.nodes = [c.nodes EXCEPT ![n] = Strip(c.nodes[n], f)]
  BY <1>1 DEF ClientAt, Strip
<1>4. N = [c.nodes EXCEPT ![n] = nd]
  <2>1. b.nodes \in [Peer -> NodeState] /\ b.nodes[n] = Strip(c.nodes[n], f)
    BY <1>1, <1>2, <1>3
  <2>2. N = [b.nodes EXCEPT ![n] = Misb(b.nodes[n])]
    BY <2>1 DEF MarkMisbehaved, Misb
  <2> QED
    BY <1>3, <2>1, <2>2
<1>5. \A M : [b EXCEPT !.nodes = M] = [c EXCEPT !.nodes = M]
  BY <1>1 DEF ClientAt
<1>6. d \in WithNodes(c, NodeChanged(N, n))
  BY <1>5 DEF Misbehave, WithNodes
<1>7. /\ ~Dialable(nd) /\ ~Dialable(Rel(nd))
      /\ \A md \in {Ostr(nd), Ostr(Rel(nd))} :
            /\ Moved(c.nodes[n], c.owes[n], md) /\ Phase(md) = "gone"
            /\ "DISCONNECTED" \in md.state
  BY <1>1, MisbMoved
<1> HIDE DEF nd, N, b
<1>8. \A md : Outcome(nd, md) => md \in {Ostr(nd), Ostr(Rel(nd))}
  BY <1>7 DEF Outcome
<1>9. \A md : Outcome(nd, md) => /\ Moved(c.nodes[n], c.owes[n], md) /\ Phase(md) = "gone"
                                 /\ "DISCONNECTED" \in md.state
  BY <1>7, <1>8
<1>10. Good(d, ch) /\ Drifts(c.nodes, n, d.nodes) /\ Outcome(nd, d.nodes[n])
  BY <1>2, <1>4, <1>6, <1>9, TableMoves
<1> QED
  BY <1>9, <1>10

-----------------------------------------------------------------------------
(* What a peer owes.                                                       *)

(* The messages have their types.                                          *)
LEMMA MessageTypes ==
    ASSUME NEW ch \in 0 .. MaxChain, NEW lo \in 0 .. ch, NEW hi \in lo .. ch
    PROVE  /\ Headers(lo) \in Msg(ch) /\ Blocks(lo) \in Msg(ch)
           /\ Block(lo) \in Msg(ch) /\ Inv(lo, hi) \in Msg(ch)
           /\ Headers(lo).kind = "headers" /\ Blocks(lo).kind = "getblocks"
           /\ Block(lo).kind = "block" /\ Inv(lo, hi).kind = "inv"
<1>1. MaxChain \in Nat
  BY SpvSyncAssumption
<1>2. /\ lo \in 0 .. MaxChain /\ hi \in 0 .. MaxChain /\ lo <= hi /\ lo <= lo /\ hi <= ch
      /\ lo <= ch
  BY <1>1
<1> QED
  BY <1>2 DEF Headers, Blocks, Block, Inv, Msg, Message

(* Messages of a lower network are messages of a higher one.               *)
LEMMA MessageGrows ==
    ASSUME NEW ch \in Nat
    PROVE  Msg(ch) \subseteq Msg(ch + 1)
<1>1. \A m \in Message : m.hi \in Int
  BY SpvSyncAssumption DEF Message
<1> QED
  BY <1>1 DEF Msg

(* A message that is no headers request is added at the end.               *)
LEMMA AppendOther ==
    ASSUME NEW T, NEW q \in Seq(T), NEW m, m.kind # "headers"
    PROVE  HeaderAt(Append(q, m)) = HeaderAt(q)
<1>1. /\ DOMAIN q = 1 .. Len(q) /\ Len(q) \in Nat
      /\ DOMAIN Append(q, m) = 1 .. Len(q) + 1
      /\ \A i \in 1 .. Len(q) : Append(q, m)[i] = q[i]
      /\ Append(q, m)[Len(q) + 1] = m
  OBVIOUS
<1> DEFINE a == Append(q, m)
<1> HIDE DEF a
<1>2. ASSUME NEW i PROVE i \in HeaderAt(a) <=> i \in HeaderAt(q)
  BY <1>1 DEF HeaderAt, a
<1> QED
  BY <1>2, Zenon DEF a

(* The only headers request is added at the end.                           *)
LEMMA AppendHeader ==
    ASSUME NEW T, NEW q \in Seq(T), NEW m, HeaderAt(q) = {}
    PROVE  \A i, j \in HeaderAt(Append(q, m)) : i = j
<1>1. /\ DOMAIN q = 1 .. Len(q) /\ Len(q) \in Nat
      /\ DOMAIN Append(q, m) = 1 .. Len(q) + 1
      /\ \A i \in 1 .. Len(q) : Append(q, m)[i] = q[i]
  OBVIOUS
<1> DEFINE a == Append(q, m)
<1> HIDE DEF a
<1>2. ASSUME NEW i \in HeaderAt(a) PROVE i = Len(q) + 1
  BY <1>1 DEF HeaderAt, a
<1> QED
  BY <1>2 DEF a

(* Messages other than headers requests are added at the end.              *)
LEMMA ConcatOther ==
    ASSUME NEW T, NEW q \in Seq(T), NEW r \in Seq(T),
           \A i \in 1 .. Len(r) : r[i].kind # "headers"
    PROVE  HeaderAt(q \o r) = HeaderAt(q)
<1>1. /\ DOMAIN q = 1 .. Len(q) /\ Len(q) \in Nat /\ Len(r) \in Nat
      /\ DOMAIN (q \o r) = 1 .. Len(q) + Len(r)
      /\ \A i \in 1 .. Len(q) + Len(r) :
            (q \o r)[i] = IF i <= Len(q) THEN q[i] ELSE r[i - Len(q)]
  OBVIOUS
<1> DEFINE a == q \o r
<1> HIDE DEF a
<1>2. ASSUME NEW i \in HeaderAt(a) PROVE i \in HeaderAt(q)
  <2>1. i \in 1 .. Len(q) + Len(r) /\ a[i].kind = "headers"
    BY <1>1 DEF HeaderAt, a
  <2>2. i <= Len(q)
    <3>1. SUFFICES ASSUME i > Len(q) PROVE FALSE
      BY <1>1, <2>1
    <3>2. i - Len(q) \in 1 .. Len(r) /\ a[i] = r[i - Len(q)]
      BY <1>1, <2>1, <3>1 DEF a
    <3> QED
      BY <2>1, <3>2
  <2> QED
    BY <1>1, <2>1, <2>2 DEF HeaderAt, a
<1>3. ASSUME NEW i \in HeaderAt(q) PROVE i \in HeaderAt(a)
  BY <1>1 DEF HeaderAt, a
<1> QED
  BY <1>2, <1>3, Zenon DEF a

(* The first message is taken off.                                         *)
LEMMA TailHeader ==
    ASSUME NEW T, NEW q \in Seq(T), q # <<>>, \A i, j \in HeaderAt(q) : i = j
    PROVE  /\ Tail(q) \in Seq(T) /\ Head(q) \in T
           /\ \A i, j \in HeaderAt(Tail(q)) : i = j
           /\ HeaderAt(Tail(q)) # {} => HeaderAt(q) # {}
           /\ Head(q).kind = "headers" => HeaderAt(q) # {} /\ HeaderAt(Tail(q)) = {}
<1>1. /\ DOMAIN q = 1 .. Len(q) /\ Len(q) \in Nat /\ Len(q) >= 1 /\ Head(q) = q[1]
      /\ Tail(q) \in Seq(T) /\ Head(q) \in T
      /\ DOMAIN Tail(q) = 1 .. Len(q) - 1
      /\ \A i \in 1 .. Len(q) - 1 : Tail(q)[i] = q[i + 1]
  OBVIOUS
<1> DEFINE t == Tail(q)
<1> HIDE DEF t
<1>2. ASSUME NEW i \in HeaderAt(t)
      PROVE  i \in Nat /\ i >= 1 /\ i + 1 \in HeaderAt(q)
  BY <1>1 DEF HeaderAt, t
<1>3. \A i, j \in HeaderAt(t) : i = j
  BY <1>2
<1>4. Head(q).kind = "headers" => 1 \in HeaderAt(q)
  BY <1>1 DEF HeaderAt
<1>5. Head(q).kind = "headers" => HeaderAt(t) = {}
  BY <1>2, <1>4
<1> QED
  BY <1>1, <1>2, <1>3, <1>4, <1>5 DEF t

(* The first message, no headers request, is replaced by another.          *)
LEMMA ReplaceOther ==
    ASSUME NEW T, NEW q \in Seq(T), q # <<>>, Head(q).kind # "headers",
           NEW m \in T, m.kind # "headers"
    PROVE  <<m>> \o Tail(q) \in Seq(T) /\ HeaderAt(<<m>> \o Tail(q)) = HeaderAt(q)
<1> DEFINE a == <<m>> \o Tail(q)
<1>1. /\ DOMAIN q = 1 .. Len(q) /\ Len(q) \in Nat /\ Len(q) >= 1 /\ Head(q) = q[1]
      /\ Tail(q) \in Seq(T) /\ Len(Tail(q)) = Len(q) - 1
      /\ \A i \in 1 .. Len(q) - 1 : Tail(q)[i] = q[i + 1]
  OBVIOUS
<1>2. /\ a \in Seq(T) /\ Len(a) = Len(q) /\ DOMAIN a = 1 .. Len(q)
      /\ a[1] = m /\ \A i \in 2 .. Len(q) : a[i] = Tail(q)[i - 1]
  <2>1. <<m>> \in Seq(T) /\ Len(<<m>>) = 1 /\ <<m>>[1] = m
    OBVIOUS
  <2> QED
    BY <1>1, <2>1
<1> HIDE DEF a
<1>3. \A i \in 2 .. Len(q) : a[i] = q[i]
  BY <1>1, <1>2
<1>4. ASSUME NEW i PROVE i \in HeaderAt(a) <=> i \in HeaderAt(q)
  BY <1>1, <1>2, <1>3 DEF HeaderAt
<1> QED
  BY <1>2, <1>4, Zenon DEF a

-----------------------------------------------------------------------------
(* The requests.                                                           *)

(* A flag is raised on a connected node: that is no step of its life.      *)
LEMMA RaisedPhase ==
    ASSUME NEW nd \in NodeState, NEW f \in {"HEADERSYNC", "BLOCKSYNC"}
    PROVE  Phase(Raise(nd, f)) = Phase(nd) /\ Phase(Strip(nd, f)) = Phase(nd)
<1> DEFINE r == Raise(nd, f)
           s == Strip(nd, f)
<1>1. /\ r.state = nd.state \cup {f} /\ (r.shaken <=> nd.shaken)
      /\ s.state = nd.state \ {f} /\ (s.shaken <=> nd.shaken)
  BY FlagFields
<1> HIDE DEF r, s
<1>2. Phase(r) = Phase(nd) /\ Phase(s) = Phase(nd)
  BY <1>1 DEF Phase
<1> QED
  BY <1>2 DEF r, s

(* The record a request leaves behind: flag f and message m are n's, and   *)
(* the header timer is armed or left alone.                                *)
Asks(c, n, f, m, d, ch) ==
    /\ d \in ClientAt(ch)
    /\ d.nodes = [c.nodes EXCEPT ![n] = Raise(c.nodes[n], f)]
    /\ d.owes = [c.owes EXCEPT ![n] = Append(c.owes[n], m)]
    /\ d.best = c.best /\ d.mode = c.mode /\ d.tip = c.tip
    /\ f = "HEADERSYNC" => d.hreq = 1

(* Both kinds of request.                                                  *)
LEMMA Requested ==
    ASSUME NEW ch \in 0 .. MaxChain, NEW c \in ClientAt(ch), NEW n \in Peer
    PROVE  /\ Asks(c, n, "BLOCKSYNC", Blocks(c.tip), RequestFrom(c, n, TRUE), ch)
           /\ Asks(c, n, "HEADERSYNC", Headers(c.tip), RequestFrom(c, n, FALSE), ch)
<1> USE DEF ClientAt
<1>1. ch \in Nat /\ Limit \in Nat \ {0} /\ 1 \in 0 .. Limit + 1 /\ MaxChain \in Nat
  BY SpvSyncAssumption
<1>2. /\ c.tip \in 0 .. ch /\ c.nodes \in [Peer -> NodeState]
      /\ c.owes \in [Peer -> Seq(Msg(ch))] /\ c.owes[n] \in Seq(Msg(ch))
      /\ c.breq \in [Peer -> 0 .. Limit + 1]
  OBVIOUS
<1>3. Headers(c.tip) \in Msg(ch) /\ Blocks(c.tip) \in Msg(ch)
  BY <1>1, <1>2, MessageTypes
<1> DEFINE H == [c.owes EXCEPT ![n] = Append(c.owes[n], Headers(c.tip))]
           B == [c.owes EXCEPT ![n] = Append(c.owes[n], Blocks(c.tip))]
           NH == [c.nodes EXCEPT ![n] = Raise(c.nodes[n], "HEADERSYNC")]
           NB == [c.nodes EXCEPT ![n] = Raise(c.nodes[n], "BLOCKSYNC")]
           Q == [c.breq EXCEPT ![n] = 1]
           b == [c EXCEPT !.nodes = NB, !.breq = Q, !.owes = B]
           h == [c EXCEPT !.nodes = NH, !.hreq = 1, !.owes = H]
<1>4. /\ H \in [Peer -> Seq(Msg(ch))] /\ B \in [Peer -> Seq(Msg(ch))]
      /\ NH \in [Peer -> NodeState] /\ NB \in [Peer -> NodeState]
      /\ Q \in [Peer -> 0 .. Limit + 1]
  BY <1>1, <1>2, <1>3, FlagFields
<1>5. RequestFrom(c, n, TRUE) = b /\ RequestFrom(c, n, FALSE) = h
  BY DEF RequestFrom, Raise
<1> HIDE DEF H, B, NH, NB, Q
<1>6. /\ b \in ClientAt(ch) /\ b.nodes = NB /\ b.owes = B /\ b.best = c.best
      /\ b.mode = c.mode /\ b.tip = c.tip
  BY <1>4
<1>7. /\ h \in ClientAt(ch) /\ h.nodes = NH /\ h.owes = H /\ h.best = c.best
      /\ h.mode = c.mode /\ h.tip = c.tip /\ h.hreq = 1
  BY <1>1, <1>4
<1> HIDE DEF b, h
<1> QED
  BY <1>5, <1>6, <1>7 DEF H, B, NH, NB, Asks

(* dogecoin_net_spv_node_request_headers_or_blocks asks a usable peer for  *)
(* what the mode says, when no other is asked for headers.                 *)
LEMMA RequestGood ==
    ASSUME NEW ch \in 0 .. MaxChain, NEW c, Safe(c, ch), StartsBehind => Sought(c, ch),
           NEW n \in Peer, Usable(c.nodes, n), NEW blocks \in BOOLEAN,
           blocks <=> c.mode = "blocks",
           ~blocks => /\ HeaderAt(c.owes[n]) = {}
                      /\ \A p \in Peer \ {n} : ~At(c.nodes[p], "HEADERSYNC")
    PROVE  /\ Good(RequestFrom(c, n, blocks), ch)
           /\ \A p \in Peer : Phase(RequestFrom(c, n, blocks).nodes[p]) = Phase(c.nodes[p])
<1> DEFINE d == RequestFrom(c, n, blocks)
           f == IF blocks THEN "BLOCKSYNC" ELSE "HEADERSYNC"
           m == IF blocks THEN Blocks(c.tip) ELSE Headers(c.tip)
           nd == c.nodes[n]
           md == Raise(nd, f)
           q == c.owes[n]
           a == Append(q, m)
<1>1. /\ c \in ClientAt(ch) /\ ch \in Nat /\ c.nodes \in [Peer -> NodeState]
      /\ c.owes \in [Peer -> Seq(Msg(ch))] /\ c.mode \in {"headers", "blocks"}
      /\ c.tip \in 0 .. ch
  <2>1. ch \in Nat
    BY SpvSyncAssumption
  <2> QED
    BY <2>1, ClientFields DEF Safe
<1>2. /\ d \in ClientAt(ch) /\ d.nodes = [c.nodes EXCEPT ![n] = md]
      /\ d.owes = [c.owes EXCEPT ![n] = a]
      /\ d.best = c.best /\ d.mode = c.mode /\ d.tip = c.tip /\ (~blocks => d.hreq = 1)
  <2>1. CASE blocks
    <3>1. d = RequestFrom(c, n, TRUE) /\ f = "BLOCKSYNC" /\ m = Blocks(c.tip)
      BY <2>1
    <3> HIDE DEF d, f, m
    <3>2. Asks(c, n, f, m, d, ch)
      BY <1>1, <3>1, Requested
    <3> QED
      BY <2>1, <3>2 DEF Asks
  <2>2. CASE ~blocks
    <3>1. d = RequestFrom(c, n, FALSE) /\ f = "HEADERSYNC" /\ m = Headers(c.tip)
      BY <2>2
    <3> HIDE DEF d, f, m
    <3>2. Asks(c, n, f, m, d, ch)
      BY <1>1, <3>1, Requested
    <3> QED
      BY <3>1, <3>2 DEF Asks
  <2> QED
    BY <2>1, <2>2
<1>3. /\ f \in {"HEADERSYNC", "BLOCKSYNC"} /\ nd \in NodeState /\ q \in Seq(Msg(ch))
      /\ (blocks => f = "BLOCKSYNC") /\ (~blocks => f = "HEADERSYNC")
  BY <1>1
<1>4. /\ md \in NodeState /\ md.state = nd.state \cup {f} /\ (md.events <=> nd.events)
      /\ (md.shaken <=> nd.shaken)
  BY <1>3, FlagFields
<1>5. /\ blocks => HeaderAt(a) = HeaderAt(q)
      /\ ~blocks => \A i, j \in HeaderAt(a) : i = j
  <2>1. Headers(c.tip).kind = "headers" /\ Blocks(c.tip).kind = "getblocks"
    BY DEF Headers, Blocks
  <2> QED
    BY <1>3, <2>1, AppendOther, AppendHeader
<1>6. Phase(md) = Phase(nd)
  BY <1>3, RaisedPhase
<1>7. Fit(nd, q) /\ "CONNECTED" \in nd.state /\ nd.shaken
  BY DEF Safe, Usable
<1> HIDE DEF d, f, m, md, a
<1>8. Fit(md, a)
  BY <1>3, <1>4, <1>5, <1>7 DEF Fit
<1>9. \A p \in Peer : /\ p # n => d.nodes[p] = c.nodes[p] /\ d.owes[p] = c.owes[p]
                      /\ d.nodes[n] = md /\ d.owes[n] = a
  BY <1>1, <1>2
<1>10. \A p \in Peer : Fit(d.nodes[p], d.owes[p])
  BY <1>8, <1>9 DEF Safe
<1>11. OneAtWork(d.nodes, d.mode)
  <2>1. \A p \in Peer : p # n => /\ (At(d.nodes[p], "HEADERSYNC") <=> At(c.nodes[p], "HEADERSYNC"))
                                 /\ (At(d.nodes[p], "BLOCKSYNC") <=> At(c.nodes[p], "BLOCKSYNC"))
    BY <1>9
  <2>2. /\ blocks => (At(md, "HEADERSYNC") => At(nd, "HEADERSYNC"))
        /\ ~blocks => (At(md, "BLOCKSYNC") => At(nd, "BLOCKSYNC"))
    BY <1>3, <1>4 DEF At
  <2>3. OneAtWork(c.nodes, c.mode)
    BY DEF Safe
  <2>4. CASE blocks
    BY <1>1, <1>2, <1>9, <2>1, <2>2, <2>3, <2>4 DEF OneAtWork
  <2>5. CASE ~blocks
    BY <1>1, <1>2, <1>9, <2>1, <2>2, <2>3, <2>5 DEF OneAtWork
  <2> QED
    BY <2>4, <2>5
<1>12. StartsBehind => Sought(d, ch) /\ Alarm(d)
  <2>1. StartsBehind => Sought(d, ch)
    BY <1>2, <1>4, <1>9 DEF Sought
  <2>2. Alarm(d)
    BY <1>2, <1>11 DEF Alarm, OneAtWork
  <2> QED
    BY <2>1, <2>2
<1>13. \A p \in Peer : Phase(d.nodes[p]) = Phase(c.nodes[p])
  BY <1>6, <1>9
<1>14. ASSUME c.mode = "headers" PROVE d.owes \in [Peer -> Seq(Early(c.tip))]
  <2>1. m = Headers(c.tip)
    BY <1>14 DEF m
  <2>2. m \in Early(c.tip)
    <3>1. c.tip \in 0 .. MaxChain
      BY <1>1, SpvSyncAssumption
    <3> QED
      BY <2>1, <3>1 DEF Early, Headers, Message
  <2>3. c.owes \in [Peer -> Seq(Early(c.tip))]
    BY <1>14 DEF Safe
  <2>4. a \in Seq(Early(c.tip))
    BY <2>2, <2>3 DEF a
  <2> QED
    BY <1>2, <2>3, <2>4
<1> QED
  BY <1>2, <1>10, <1>11, <1>12, <1>13, <1>14 DEF Good, Safe, d

(* The two kinds of request.                                               *)
LEMMA HeadersRequestGood ==
    ASSUME NEW ch \in 0 .. MaxChain, NEW c, Safe(c, ch), StartsBehind => Sought(c, ch),
           NEW n \in Peer, Usable(c.nodes, n), c.mode = "headers", HeaderAt(c.owes[n]) = {},
           \A p \in Peer \ {n} : ~At(c.nodes[p], "HEADERSYNC")
    PROVE  /\ Good(RequestFrom(c, n, FALSE), ch)
           /\ \A p \in Peer : Phase(RequestFrom(c, n, FALSE).nodes[p]) = Phase(c.nodes[p])
<1>1. FALSE \in BOOLEAN /\ (FALSE <=> c.mode = "blocks")
  OBVIOUS
<1> QED
  BY <1>1, RequestGood

LEMMA BlocksRequestGood ==
    ASSUME NEW ch \in 0 .. MaxChain, NEW c, Safe(c, ch), StartsBehind => Sought(c, ch),
           NEW n \in Peer, Usable(c.nodes, n), c.mode = "blocks"
    PROVE  /\ Good(RequestFrom(c, n, TRUE), ch)
           /\ \A p \in Peer : Phase(RequestFrom(c, n, TRUE).nodes[p]) = Phase(c.nodes[p])
<1>1. TRUE \in BOOLEAN /\ (TRUE <=> c.mode = "blocks")
  OBVIOUS
<1> QED
  BY <1>1, RequestGood

(* dogecoin_net_spv_request_headers asks one usable peer, unless one is at *)
(* work.                                                                   *)
LEMMA RequestHeadersGood ==
    ASSUME NEW ch \in 0 .. MaxChain, NEW c, Good(c, ch)
    PROVE  /\ Good(RequestHeaders(c), ch)
           /\ \A p \in Peer : Phase(RequestHeaders(c).nodes[p]) = Phase(c.nodes[p])
<1> DEFINE usable == {n \in Peer : Usable(c.nodes, n)}
           heights == {c.best[n] : n \in usable}
           best1 == {n \in usable : c.best[n] = Max(heights)}
           first == Min(best1)
<1>1. CASE usable = {} \/ \E n \in Peer : Syncing(c.nodes[n])
  BY <1>1 DEF RequestHeaders
<1>2. CASE usable # {} /\ ~\E n \in Peer : Syncing(c.nodes[n])
  <2>1. ch \in Nat /\ c \in ClientAt(ch)
    BY SpvSyncAssumption DEF Good, Safe
  <2>2. c.best \in [Peer -> 0 .. ch] /\ c.mode \in {"headers", "blocks"}
    BY <2>1, ClientFields
  <2>3. first \in usable
    <3>1. heights \in SUBSET (0 .. ch) /\ heights # {}
      BY <1>2, <2>2
    <3>2. Max(heights) \in heights
      BY <2>1, <3>1, MaxIn
    <3>3. PICK n \in usable : c.best[n] = Max(heights)
      BY <3>2
    <3>4. Peer \subseteq Nat
      BY NodeGroupAssumption DEF Peer
    <3>5. best1 # {} /\ best1 \in SUBSET Nat
      BY <3>3, <3>4
    <3>6. first \in best1
      BY <3>5, MinIn
    <3> QED
      BY <3>6
  <2>4. \A p \in Peer : ~At(c.nodes[p], "HEADERSYNC")
    BY <1>2, Zenon DEF Syncing, At
  <2>5. first \in Peer /\ Usable(c.nodes, first) /\ HeaderAt(c.owes[first]) = {}
    <3>1. first \in Peer /\ Usable(c.nodes, first)
      BY <2>3
    <3> HIDE DEF first
    <3>2. Fit(c.nodes[first], c.owes[first])
      BY <3>1 DEF Good, Safe
    <3> QED
      BY <2>4, <3>1, <3>2 DEF Fit, Usable, At
  <2>6. RequestHeaders(c) = RequestFrom(c, first, c.mode = "blocks")
    BY <1>2 DEF RequestHeaders
  <2> HIDE DEF first, usable
  <2>7. \E b \in BOOLEAN : RequestHeaders(c) = RequestFrom(c, first, b) /\ (b <=> c.mode = "blocks")
    BY <2>6, Zenon
  <2>8. PICK b \in BOOLEAN :
          RequestHeaders(c) = RequestFrom(c, first, b) /\ (b <=> c.mode = "blocks")
    BY <2>7
  <2>9. Safe(c, ch) /\ (StartsBehind => Sought(c, ch))
    BY DEF Good
  <2>10. /\ Good(RequestFrom(c, first, b), ch)
         /\ \A p \in Peer : Phase(RequestFrom(c, first, b).nodes[p]) = Phase(c.nodes[p])
    BY <2>4, <2>5, <2>8, <2>9, RequestGood
  <2> QED
    BY <2>8, <2>10, Zenon
<1> QED
  BY <1>1, <1>2

-----------------------------------------------------------------------------
(* The state check and the handlers that give up on a peer.                *)

(* Timers move: the header timer is not switched off.                      *)
LEMMA TimersGood ==
    ASSUME NEW ch \in Nat, NEW c, Good(c, ch), NEW h \in 0 .. Limit + 1,
           c.hreq > 0 => h > 0, NEW b \in [Peer -> 0 .. Limit + 1]
    PROVE  LET d == [c EXCEPT !.hreq = h, !.breq = b]
           IN  Good(d, ch) /\ d.nodes = c.nodes
<1> DEFINE d == [c EXCEPT !.hreq = h, !.breq = b]
<1>1. c \in ClientAt(ch)
  BY DEF Good, Safe
<1>2. /\ d \in ClientAt(ch) /\ d.nodes = c.nodes /\ d.best = c.best /\ d.hreq = h
      /\ d.mode = c.mode /\ d.tip = c.tip /\ d.owes = c.owes
  BY <1>1 DEF ClientAt
<1> HIDE DEF d
<1>3. Good(d, ch)
  BY <1>2 DEF Good, Safe, Sought, Alarm
<1> QED
  BY <1>2, <1>3 DEF d

(* A timer that runs goes on to the limit and stays there.                 *)
LEMMA OlderTimer ==
    ASSUME NEW t \in 0 .. Limit + 1
    PROVE  Older(t) \in 0 .. Limit + 1 /\ (t > 0 => Older(t) > 0)
  BY SpvSyncAssumption DEF Older

(* Two steps of the group after one another.                               *)
LEMMA DriftsOn ==
    ASSUME NEW N, NEW n, NEW M, NEW K, Drifts(N, n, M), Drifts(M, n, K)
    PROVE  Drifts(N, n, K)
  BY DEF Drifts

(* The peer whose timer fired may be given up for its headers, for its     *)
(* blocks or for both.                                                     *)
LEMMA StallGood ==
    ASSUME NEW ch \in Nat, NEW c, Good(c, ch), NEW n \in Peer, c.nodes[n].events,
           NEW d \in StallChecked(c, n)
    PROVE  /\ Good(d, ch) /\ Drifts(c.nodes, n, d.nodes)
           /\ Phase(d.nodes[n]) \in {Phase(c.nodes[n]), "gone"}
<1> DEFINE headers == IF Stale(c.hreq)
                      THEN Misbehave([c EXCEPT !.nodes[n].state = @ \ {"HEADERSYNC"}], n)
                      ELSE {c}
<1>1. "CONNECTED" \in c.nodes[n].state \/ "CONNECTING" \in c.nodes[n].state
  BY DEF Good, Safe, Fit
<1>2. ASSUME NEW e \in headers
      PROVE  /\ Good(e, ch) /\ Drifts(c.nodes, n, e.nodes)
             /\ Phase(e.nodes[n]) \in {Phase(c.nodes[n]), "gone"}
             /\ \/ "CONNECTED" \in e.nodes[n].state \/ "CONNECTING" \in e.nodes[n].state
                \/ "DISCONNECTED" \in e.nodes[n].state
  <2>1. CASE Stale(c.hreq)
    <3>1. e \in Misbehave([c EXCEPT !.nodes[n].state = @ \ {"HEADERSYNC"}], n)
      BY <1>2, <2>1
    <3> QED
      BY <1>1, <3>1, MisbehaveGood
  <2>2. CASE ~Stale(c.hreq)
    <3>1. e = c
      BY <1>2, <2>2
    <3> QED
      BY <1>1, <3>1 DEF Drifts
  <2> QED
    BY <2>1, <2>2
<1>3. CASE Stale(c.breq[n])
  <2>1. PICK e \in headers : d \in Misbehave([e EXCEPT !.nodes[n].state = @ \ {"BLOCKSYNC"}], n)
    BY <1>3 DEF StallChecked
  <2> HIDE DEF headers
  <2>2. Good(d, ch) /\ Drifts(e.nodes, n, d.nodes) /\ Phase(d.nodes[n]) = "gone"
    BY <1>2, <2>1, MisbehaveGood
  <2>3. Drifts(c.nodes, n, d.nodes)
    BY <1>2, <2>1, <2>2, DriftsOn
  <2> QED
    BY <2>2, <2>3
<1>4. CASE ~Stale(c.breq[n])
  <2>1. d \in headers
    BY <1>4 DEF StallChecked
  <2> HIDE DEF headers
  <2> QED
    BY <1>2, <2>1
<1> QED
  BY <1>3, <1>4

(* b is c without the flag f of node n.                                    *)
Without(c, n, f, b) == b = [c EXCEPT !.nodes = [c.nodes EXCEPT ![n] = Strip(c.nodes[n], f)]]

(* A sync flag of n is cleared and the callback called.                    *)
LEMMA UnsyncGood ==
    ASSUME NEW ch \in Nat, NEW c \in ClientAt(ch), NEW n \in Peer,
           NEW f \in {"HEADERSYNC", "BLOCKSYNC"}, NEW b, Without(c, n, f, b), Good(b, ch),
           "CONNECTED" \in c.nodes[n].state, NEW d \in Unsync(c, n, f)
    PROVE  /\ Good(d, ch) /\ d.nodes[n] = Strip(c.nodes[n], f)
           /\ Drifts(c.nodes, n, d.nodes)
           /\ d.owes = c.owes /\ d.mode = c.mode /\ d.hreq = c.hreq
           /\ \A p \in Peer : At(d.nodes[p], "HEADERSYNC") => At(b.nodes[p], "HEADERSYNC")
<1>1. PICK N : N = [c.nodes EXCEPT ![n] = Strip(c.nodes[n], f)] /\ b = [c EXCEPT !.nodes = N]
  BY DEF Without
<1>2. c.nodes \in [Peer -> NodeState] /\ c.nodes[n] \in NodeState
  BY ClientFields
<1> DEFINE s == Strip(c.nodes[n], f)
<1>3. s \in NodeState /\ s.state = c.nodes[n].state \ {f}
  BY <1>2, FlagFields
<1>4. [c.nodes EXCEPT ![n].state = @ \ {f}] = N
  BY <1>1, <1>2 DEF Strip
<1>5. /\ N \in [Peer -> NodeState] /\ N[n] = s
      /\ \A p \in Peer \ {n} : N[p] = c.nodes[p]
  BY <1>1, <1>2, <1>3
<1> HIDE DEF s
<1>6. PICK M \in Refill(N) : d = [c EXCEPT !.nodes = M]
  BY <1>4 DEF Unsync, WithNodes
<1>7. /\ M \in [Peer -> NodeState]
      /\ \A p \in Peer : M[p] = N[p] \/ (Dialable(N[p]) /\ M[p] = Dial(N[p]))
  BY <1>5, <1>6, RefillDials
<1>8. /\ b.nodes = N /\ b.owes = c.owes /\ b.mode = c.mode /\ b.hreq = c.hreq
      /\ d.nodes = M /\ d.owes = c.owes /\ d.mode = c.mode /\ d.hreq = c.hreq
      /\ d = [b EXCEPT !.nodes = M]
  <2>1. [[c EXCEPT !.nodes = N] EXCEPT !.nodes = M] = [c EXCEPT !.nodes = M]
    BY DEF ClientAt
  <2>2. d = [b EXCEPT !.nodes = M]
    BY <1>1, <1>6, <2>1
  <2>3. b.nodes = N /\ b.owes = c.owes /\ b.mode = c.mode /\ b.hreq = c.hreq
    BY <1>1, <1>5, NewTable
  <2>4. d.nodes = M /\ d.owes = c.owes /\ d.mode = c.mode /\ d.hreq = c.hreq
    BY <1>6, <1>7, NewTable
  <2> QED
    BY <2>2, <2>3, <2>4
<1>9. ~Dialable(N[n])
  BY <1>3, <1>5, Flags
<1>10. \A p \in Peer : Fit(N[p], b.owes[p])
  BY <1>8 DEF Good, Safe
<1>11. \A p \in Peer : Moved(N[p], b.owes[p], M[p])
  BY <1>7, <1>10, StayMoved, DialMoved
<1>12. Good(d, ch)
  BY <1>7, <1>8, <1>11, GroupMoves
<1>13. Drifts(c.nodes, n, M)
  BY <1>5, <1>7, <1>10, DialMoved DEF Drifts
<1> QED
  BY <1>5, <1>7, <1>8, <1>9, <1>11, <1>12, <1>13 DEF Moved, s

-----------------------------------------------------------------------------
(* The whole client.                                                       *)

Sound ==
    /\ chain \in StartChain .. MaxChain
    /\ bad \in 0 .. MaxBad
    /\ Good(Client, chain)

(* What a step does to the life of each peer.                              *)
Lives ==
    \A p \in Peer :
        \/ Phase(nodes'[p]) = Phase(nodes[p])
        \/ <<Phase(nodes[p]), Phase(nodes'[p])>> \in Life!Moves

(* The moves of PeerLife that a step of one node makes.                    *)
LEMMA LifeMoves ==
    /\ <<"new", "dialling">> \in Life!Moves /\ <<"dialling", "new">> \in Life!Moves
    /\ <<"dialling", "connected">> \in Life!Moves /\ <<"connected", "up">> \in Life!Moves
    /\ \A f \in {"new", "dialling", "connected", "up"} : <<f, "gone">> \in Life!Moves
  BY DEF Life!Moves

(* The record of the client holds its variables.                           *)
LEMMA ClientIs ==
    /\ Client.nodes = nodes /\ Client.best = best /\ Client.lastInv = lastInv
    /\ Client.breq = breq /\ Client.hreq = hreq /\ Client.mode = mode
    /\ Client.tip = tip /\ Client.completed = completed /\ Client.owes = owes
  BY DEF Client

(* What the peers without a connection owe is lost.                        *)
LEMMA LossGood ==
    ASSUME NEW ch \in Nat, NEW c, Good(c, ch), NEW W,
           W = [n \in Peer |-> IF c.nodes[n].events THEN c.owes[n] ELSE <<>>],
           NEW d,
           d = [nodes |-> c.nodes, best |-> c.best, lastInv |-> c.lastInv, breq |-> c.breq,
                hreq |-> c.hreq, mode |-> c.mode, tip |-> c.tip,
                completed |-> c.completed, owes |-> W]
    PROVE  Good(d, ch)
<1>1. /\ c.nodes \in [Peer -> NodeState] /\ c.best \in [Peer -> 0 .. ch]
      /\ c.lastInv \in [Peer -> 0 .. ch] /\ c.breq \in [Peer -> 0 .. Limit + 1]
      /\ c.hreq \in 0 .. Limit + 1 /\ c.mode \in {"headers", "blocks"}
      /\ c.tip \in 0 .. ch /\ c.completed \in BOOLEAN
      /\ c.owes \in [Peer -> Seq(Msg(ch))]
  BY ClientFields DEF Good, Safe
<1>2. W \in [Peer -> Seq(Msg(ch))] /\ \A p \in Peer : W[p] = c.owes[p] \/ W[p] = <<>>
  BY <1>1
<1>3. /\ d \in ClientAt(ch) /\ d.nodes = c.nodes /\ d.best = c.best /\ d.hreq = c.hreq
      /\ d.mode = c.mode /\ d.tip = c.tip /\ d.owes = W
  BY <1>1, <1>2 DEF ClientAt
<1>4. HeaderAt(<<>>) = {}
  BY DEF HeaderAt
<1>5. \A p \in Peer : Fit(c.nodes[p], W[p])
  BY <1>2, <1>4 DEF Good, Safe, Fit
<1>6. \A T : c.owes \in [Peer -> Seq(T)] => W \in [Peer -> Seq(T)]
  OBVIOUS
<1> QED
  BY <1>2, <1>3, <1>4, <1>5, <1>6 DEF Good, Safe, Sought, Alarm

(* A handler ends in a good record.                                        *)
LEMMA BecomesSound ==
    ASSUME NEW c, Good(c, chain'), Becomes(c), chain' \in StartChain .. MaxChain,
           bad' \in 0 .. MaxBad
    PROVE  Sound' /\ nodes' = c.nodes
<1>1. PICK ch, d : ch = chain' /\ d = Client'
  OBVIOUS
<1>2. ch \in Nat /\ c \in ClientAt(ch)
  BY <1>1, SpvSyncAssumption DEF Good, Safe
<1> DEFINE W == [n \in Peer |-> IF c.nodes[n].events THEN c.owes[n] ELSE <<>>]
<1>3. d = [nodes |-> c.nodes, best |-> c.best, lastInv |-> c.lastInv, breq |-> c.breq,
           hreq |-> c.hreq, mode |-> c.mode, tip |-> c.tip, completed |-> c.completed,
           owes |-> W]
  BY <1>1 DEF Becomes, Client
<1> HIDE DEF W
<1>4. Good(d, ch)
  BY <1>1, <1>2, <1>3, LossGood DEF W
<1> QED
  BY <1>1, <1>4 DEF Sound, Becomes

(* A step in which every peer but n is at most dialled.                    *)
LEMMA DriftLives ==
    ASSUME NEW n \in Peer, NEW M, nodes' = M, Drifts(nodes, n, M),
           \/ Phase(M[n]) = Phase(nodes[n])
           \/ <<Phase(nodes[n]), Phase(M[n])>> \in Life!Moves
    PROVE  Lives
  BY LifeMoves DEF Drifts, Lives

(* The phase of a peer, and what it may still become.                      *)
LEMMA GoneMoves ==
    ASSUME NEW nd
    PROVE  Phase(nd) = "gone" \/ <<Phase(nd), "gone">> \in Life!Moves
  BY LifeMoves DEF Phase

(* event_cb: a dial succeeds.                                              *)
LEMMA ConnectedStep ==
    ASSUME Sound, NEW n \in Peer, Connected(n)
    PROVE  Sound' /\ Lives
<1>1. PICK c \in WithNodes(Client, NodeChanged(MarkConnected(nodes, n), n)) : Becomes(c)
  BY DEF Connected
<1>2. PICK b, ch : b = Client /\ ch = chain
  OBVIOUS
<1>3. /\ Good(b, ch) /\ ch \in Nat /\ b.nodes = nodes
      /\ chain' = ch /\ chain' \in StartChain .. MaxChain /\ bad' \in 0 .. MaxBad
      /\ b.nodes[n].events /\ "CONNECTING" \in b.nodes[n].state
  BY <1>2, ClientIs, SpvSyncAssumption DEF Sound, Connected
<1>4. c \in WithNodes(b, NodeChanged(MarkConnected(b.nodes, n), n))
  BY <1>1, <1>2, <1>3
<1>5. /\ Good(c, ch) /\ Drifts(nodes, n, c.nodes)
      /\ Phase(nodes[n]) = "dialling" /\ Phase(c.nodes[n]) = "connected"
  BY <1>3, <1>4, ConnectedGood
<1>6. Sound' /\ nodes' = c.nodes
  BY <1>1, <1>3, <1>5, BecomesSound
<1> QED
  BY <1>5, <1>6, DriftLives, LifeMoves

(* event_cb: a connection ends.                                            *)
LEMMA ConnectionLostStep ==
    ASSUME Sound, NEW n \in Peer, ConnectionLost(n)
    PROVE  Sound' /\ Lives
<1>1. PICK c \in WithNodes(Client, NodeChanged(MarkLost(nodes, n), n)) : Becomes(c)
  BY DEF ConnectionLost
<1>2. PICK b, ch : b = Client /\ ch = chain
  OBVIOUS
<1>3. /\ Good(b, ch) /\ ch \in Nat /\ b.nodes = nodes
      /\ chain' = ch /\ chain' \in StartChain .. MaxChain /\ bad' \in 0 .. MaxBad
  BY <1>2, ClientIs, SpvSyncAssumption DEF Sound, ConnectionLost
<1>4. c \in WithNodes(b, NodeChanged(MarkLost(b.nodes, n), n))
  BY <1>1, <1>2, <1>3
<1>5. Good(c, ch) /\ Drifts(nodes, n, c.nodes) /\ Phase(c.nodes[n]) = "gone"
  BY <1>3, <1>4, LostGood
<1>6. Sound' /\ nodes' = c.nodes
  BY <1>1, <1>3, <1>5, BecomesSound
<1> QED
  BY <1>5, <1>6, DriftLives, GoneMoves

(* A handshake, and the request it leads to.                               *)
LEMMA HandshakeStep ==
    ASSUME Sound, NEW n \in Peer, Handshake(n)
    PROVE  Sound' /\ Lives
<1>1. PICK b, ch : b = Client /\ ch = chain
  OBVIOUS
<1>2. /\ Good(b, ch) /\ ch \in Nat /\ ch \in 0 .. MaxChain /\ ch >= StartChain
      /\ b.nodes = nodes /\ b.owes = owes /\ b \in ClientAt(ch)
      /\ chain' = ch /\ chain' \in StartChain .. MaxChain /\ bad' \in 0 .. MaxBad
      /\ "CONNECTED" \in b.nodes[n].state /\ ~b.nodes[n].shaken
  BY <1>1, ClientIs, SpvSyncAssumption DEF Sound, Handshake, Good, Safe
<1>3. b.nodes \in [Peer -> NodeState] /\ b.best \in [Peer -> 0 .. ch]
  BY <1>2, ClientFields
<1> DEFINE s == Shake(b.nodes[n])
           N == [b.nodes EXCEPT ![n] = s]
           B == [b.best EXCEPT ![n] = ch]
           c == [b EXCEPT !.nodes = N, !.best = B]
<1>4. /\ s \in NodeState /\ s.state = b.nodes[n].state /\ s.shaken
      /\ (s.events <=> b.nodes[n].events)
  BY <1>3, EventTypes, EventFields
<1>5. Becomes(RequestHeaders(c))
  <2>1. N = [b.nodes EXCEPT ![n].shaken = TRUE]
    BY <1>3 DEF Shake
  <2>2. [Client EXCEPT !.nodes[n].shaken = TRUE, !.best[n] = chain] = c
    BY <1>1, <2>1
  <2> QED
    BY <2>2 DEF Handshake
<1> HIDE DEF s
<1>6. /\ N \in [Peer -> NodeState] /\ N[n] = s /\ B \in [Peer -> 0 .. ch] /\ B[n] = ch
      /\ \A p \in Peer \ {n} : N[p] = b.nodes[p] /\ B[p] = b.best[p]
  BY <1>2, <1>3, <1>4
<1> HIDE DEF N, B
<1>7. /\ c \in ClientAt(ch) /\ c.nodes = N /\ c.best = B /\ c.hreq = b.hreq
      /\ c.mode = b.mode /\ c.tip = b.tip /\ c.owes = b.owes
  BY <1>2, <1>6 DEF ClientAt
<1> HIDE DEF c
<1>8. \A p \in Peer : Fit(b.nodes[p], b.owes[p])
  BY <1>2 DEF Good, Safe
<1>9. Fit(s, b.owes[n])
  BY <1>2, <1>4, <1>8 DEF Fit
<1>10. \A p \in Peer : Fit(N[p], b.owes[p])
  BY <1>6, <1>8, <1>9
<1>11. \A p \in Peer : \A f : At(N[p], f) <=> At(b.nodes[p], f)
  BY <1>4, <1>6 DEF At
<1>12. Good(c, ch)
  <2>1. OneAtWork(c.nodes, c.mode)
    BY <1>2, <1>7, <1>11 DEF OneAtWork, Good, Safe
  <2>2. StartsBehind => Sought(c, ch)
    BY <1>2, <1>6, <1>7 DEF Good, Sought
  <2>3. StartsBehind => Alarm(c)
    BY <1>2, <1>7, <1>11 DEF Good, Alarm
  <2> QED
    BY <1>2, <1>7, <1>10, <2>1, <2>2, <2>3 DEF Good, Safe
<1>13. PICK d : d = RequestHeaders(c)
  OBVIOUS
<1>14. Good(d, ch) /\ \A p \in Peer : Phase(d.nodes[p]) = Phase(c.nodes[p])
  BY <1>2, <1>12, <1>13, RequestHeadersGood
<1>15. Sound' /\ nodes' = d.nodes
  BY <1>2, <1>5, <1>13, <1>14, BecomesSound
<1>16. Phase(nodes[n]) = "connected" /\ Phase(s) = "up"
  BY <1>2, <1>4 DEF Phase
<1> QED
  BY <1>2, <1>6, <1>7, <1>14, <1>15, <1>16, LifeMoves DEF Lives

(* node_periodical_timer: the state check, then the connect timeout.       *)
LEMMA TimerTickStep ==
    ASSUME Sound, NEW n \in Peer, NEW due \in BOOLEAN, NEW late \in BOOLEAN,
           TimerTick(n, due, late)
    PROVE  Sound' /\ Lives
<1>1. PICK b, ch : b = Client /\ ch = chain
  OBVIOUS
<1>2. /\ Good(b, ch) /\ ch \in Nat /\ ch \in 0 .. MaxChain /\ b.nodes = nodes
      /\ chain' = ch /\ chain' \in StartChain .. MaxChain /\ bad' \in 0 .. MaxBad
      /\ b.nodes[n].events /\ b \in ClientAt(ch)
  BY <1>1, ClientIs, SpvSyncAssumption DEF Sound, TimerTick, Good, Safe
<1>3. PICK c \in (IF due THEN Checked(n) ELSE {Client}) :
        \E d \in IF late THEN TimedOut(c, n) ELSE {c} : Becomes(d)
  BY DEF TimerTick
<1>4. PICK d \in (IF late THEN TimedOut(c, n) ELSE {c}) : Becomes(d)
  BY <1>3
<1>5. /\ Good(c, ch) /\ Drifts(nodes, n, c.nodes)
      /\ Phase(c.nodes[n]) \in {Phase(nodes[n]), "gone"}
  <2>1. CASE ~due
    BY <1>1, <1>2, <1>3, <2>1 DEF Drifts
  <2>2. CASE due
    <3> DEFINE h == Older(b.hreq)
               q == [m \in Peer |-> Older(b.breq[m])]
               a == [b EXCEPT !.hreq = h, !.breq = q]
    <3>1. b.hreq \in 0 .. Limit + 1 /\ b.breq \in [Peer -> 0 .. Limit + 1]
      BY <1>2, ClientFields
    <3>2. h \in 0 .. Limit + 1 /\ (b.hreq > 0 => h > 0) /\ q \in [Peer -> 0 .. Limit + 1]
      BY <3>1, OlderTimer
    <3>3. [Client EXCEPT !.hreq = Older(@), !.breq = [m \in Peer |-> Older(@[m])]] = a
      BY <1>1
    <3> HIDE DEF h, q
    <3>4. Good(a, ch) /\ a.nodes = nodes
      BY <1>2, <3>2, TimersGood, ZenonT(30)
    <3>5. PICK e \in StallChecked(a, n) : c = RequestHeaders(e)
      BY <1>3, <2>2, <3>3 DEF Checked
    <3> HIDE DEF a
    <3>6. /\ Good(e, ch) /\ Drifts(nodes, n, e.nodes)
          /\ Phase(e.nodes[n]) \in {Phase(nodes[n]), "gone"}
      BY <1>2, <3>4, <3>5, StallGood
    <3>7. Good(c, ch) /\ \A p \in Peer : Phase(c.nodes[p]) = Phase(e.nodes[p])
      BY <1>2, <3>5, <3>6, RequestHeadersGood
    <3> QED
      BY <3>6, <3>7 DEF Drifts
  <2> QED
    BY <2>1, <2>2
<1>6. /\ Good(d, ch) /\ Drifts(c.nodes, n, d.nodes)
      /\ \/ Phase(d.nodes[n]) = Phase(c.nodes[n])
         \/ Phase(c.nodes[n]) = "dialling" /\ Phase(d.nodes[n]) = "new"
  <2>1. CASE late
    BY <1>2, <1>4, <1>5, <2>1, TimedOutGood
  <2>2. CASE ~late
    BY <1>4, <1>5, <2>2 DEF Drifts
  <2> QED
    BY <2>1, <2>2
<1>7. Sound' /\ nodes' = d.nodes
  BY <1>2, <1>4, <1>6, BecomesSound
<1>8. Drifts(nodes, n, d.nodes)
  BY <1>5, <1>6, DriftsOn
<1>9. \/ Phase(d.nodes[n]) = Phase(nodes[n])
      \/ <<Phase(nodes[n]), Phase(d.nodes[n])>> \in Life!Moves
  BY <1>5, <1>6, GoneMoves, LifeMoves
<1> QED
  BY <1>7, <1>8, <1>9, DriftLives

-----------------------------------------------------------------------------
(* The messages.                                                           *)

(* What is known when a message of n is read.                              *)
Reads(b, ch, n, m, t) ==
    /\ Good(b, ch) /\ ch \in Nat /\ ch \in 0 .. MaxChain /\ ch >= StartChain
    /\ b \in ClientAt(ch) /\ b.owes[n] # <<>> /\ m = Head(b.owes[n])
    /\ "CONNECTED" \in b.nodes[n].state /\ b.nodes[n].shaken
    /\ m \in Msg(ch) /\ t \in ClientAt(ch)
    /\ t.nodes = b.nodes /\ t.best = b.best /\ t.lastInv = b.lastInv /\ t.breq = b.breq
    /\ t.hreq = b.hreq /\ t.mode = b.mode /\ t.tip = b.tip
    /\ t.owes = [b.owes EXCEPT ![n] = Tail(b.owes[n])]
    /\ \A p \in Peer : Fit(b.nodes[p], t.owes[p])
    /\ \A p \in Peer : HeaderAt(t.owes[p]) # {} => HeaderAt(b.owes[p]) # {}
    /\ \A T : b.owes \in [Peer -> Seq(T)] => m \in T /\ t.owes \in [Peer -> Seq(T)]
    /\ m.kind = "headers" => At(b.nodes[n], "HEADERSYNC") /\ HeaderAt(t.owes[n]) = {}

(* The first message of n is taken off.                                    *)
LEMMA Reading ==
    ASSUME Sound, NEW n \in Peer, NEW kind, CanRead(n, kind), NEW b, b = Client,
           NEW ch, ch = chain, NEW t, t = Taken(n), NEW m, m = Head(owes[n])
    PROVE  Reads(b, ch, n, m, t) /\ m.kind = kind /\ b.nodes = nodes
<1>1. /\ Good(b, ch) /\ ch \in Nat /\ ch \in 0 .. MaxChain /\ ch >= StartChain
      /\ b \in ClientAt(ch) /\ b.nodes = nodes /\ b.owes = owes
  BY ClientIs, SpvSyncAssumption DEF Sound, Good, Safe
<1> DEFINE q == b.owes[n]
           W == [b.owes EXCEPT ![n] = Tail(q)]
<1>2. /\ q # <<>> /\ m = Head(q) /\ m.kind = kind /\ "CONNECTED" \in b.nodes[n].state
  BY <1>1 DEF CanRead
<1>3. b.owes \in [Peer -> Seq(Msg(ch))] /\ q \in Seq(Msg(ch))
  BY <1>1, ClientFields
<1>4. t = [b EXCEPT !.owes = W]
  BY DEF Taken
<1>5. \A p \in Peer : Fit(b.nodes[p], b.owes[p])
  BY <1>1 DEF Good, Safe
<1>6. b.nodes[n].shaken /\ \A i, j \in HeaderAt(q) : i = j
  BY <1>2, <1>5 DEF Fit
<1>7. /\ Tail(q) \in Seq(Msg(ch)) /\ m \in Msg(ch)
      /\ \A i, j \in HeaderAt(Tail(q)) : i = j
      /\ HeaderAt(Tail(q)) # {} => HeaderAt(q) # {}
      /\ m.kind = "headers" => HeaderAt(q) # {} /\ HeaderAt(Tail(q)) = {}
  <2> HIDE DEF q
  <2> QED
    BY <1>2, <1>3, <1>6, TailHeader
<1>8. Fit(b.nodes[n], Tail(q))
  BY <1>5, <1>6, <1>7 DEF Fit
<1>9. m.kind = "headers" => At(b.nodes[n], "HEADERSYNC")
  BY <1>2, <1>5, <1>7 DEF Fit, At
<1>10. ASSUME NEW T, b.owes \in [Peer -> Seq(T)]
       PROVE  m \in T /\ W \in [Peer -> Seq(T)]
  <2>1. q \in Seq(T)
    BY <1>10
  <2>2. Head(q) \in T /\ Tail(q) \in Seq(T)
    BY <1>2, <2>1
  <2> QED
    BY <1>2, <1>10, <2>2
<1>11. W \in [Peer -> Seq(Msg(ch))] /\ W[n] = Tail(q) /\ \A p \in Peer \ {n} : W[p] = b.owes[p]
  BY <1>3, <1>7
<1> HIDE DEF q, W
<1>12. /\ t \in ClientAt(ch) /\ t.nodes = b.nodes /\ t.best = b.best
       /\ t.lastInv = b.lastInv /\ t.breq = b.breq /\ t.hreq = b.hreq
       /\ t.mode = b.mode /\ t.tip = b.tip /\ t.owes = W
  BY <1>1, <1>4, <1>11 DEF ClientAt
<1>13. \A p \in Peer : Fit(b.nodes[p], W[p])
  BY <1>5, <1>8, <1>11
<1>14. \A p \in Peer : HeaderAt(W[p]) # {} => HeaderAt(b.owes[p]) # {}
  BY <1>7, <1>11 DEF q
<1> QED
  BY <1>1, <1>2, <1>6, <1>7, <1>9, <1>10, <1>11, <1>12, <1>13, <1>14 DEF Reads, q, W

(* A record with the same nodes, and no headers asked for that were not.   *)
LEMMA SameNodes ==
    ASSUME NEW ch \in Nat, NEW b, Good(b, ch), NEW d \in ClientAt(ch), d.nodes = b.nodes,
           d.mode = b.mode, d.hreq = b.hreq, \A p \in Peer : Fit(b.nodes[p], d.owes[p]),
           d.mode = "headers" =>
              /\ d.owes \in [Peer -> Seq(Early(d.tip))]
              /\ \A p \in Peer : HeaderAt(d.owes[p]) # {} => HeaderAt(b.owes[p]) # {},
           StartsBehind => Sought(d, ch)
    PROVE  Good(d, ch)
<1>1. Safe(d, ch)
  BY DEF Good, Safe
<1>2. ASSUME StartsBehind, d.mode = "headers" PROVE Alarm(d)
  BY <1>2 DEF Good, Alarm
<1>3. ASSUME d.mode = "blocks" PROVE Alarm(d)
  BY <1>1, <1>3 DEF Safe, Alarm, OneAtWork
<1>4. d.mode \in {"headers", "blocks"}
  BY ClientFields
<1> QED
  BY <1>1, <1>2, <1>3, <1>4 DEF Good

(* Without the message the client is as good as with it.                   *)
LEMMA TakenGood ==
    ASSUME NEW b, NEW ch, NEW n, NEW m, NEW t, Reads(b, ch, n, m, t)
    PROVE  Good(t, ch)
<1>1. StartsBehind => Sought(t, ch)
  BY DEF Reads, Good, Sought
<1>2. t.mode = "headers" =>
         /\ t.owes \in [Peer -> Seq(Early(t.tip))]
         /\ \A p \in Peer : HeaderAt(t.owes[p]) # {} => HeaderAt(b.owes[p]) # {}
  BY DEF Reads, Good, Safe
<1> QED
  BY <1>1, <1>2, SameNodes DEF Reads

(* A step in which no node moves.                                          *)
LEMMA StillLives ==
    ASSUME \A p \in Peer : Phase(nodes'[p]) = Phase(nodes[p])
    PROVE  Lives
  BY DEF Lives

(* An inv is heeded or not.                                                *)
LEMMA RecvInvStep ==
    ASSUME Sound, NEW n \in Peer, RecvInv(n)
    PROVE  Sound' /\ Lives
<1>1. PICK b, ch, t, m : b = Client /\ ch = chain /\ t = Taken(n) /\ m = Head(owes[n])
  OBVIOUS
<1>2. Reads(b, ch, n, m, t) /\ m.kind = "inv" /\ b.nodes = nodes
  BY <1>1, Reading DEF RecvInv
<1>3. chain' = ch /\ chain' \in StartChain .. MaxChain /\ bad' \in 0 .. MaxBad
  BY <1>1 DEF Sound, RecvInv
<1> DEFINE B == [i \in 1 .. m.hi - m.lo |-> Block(m.lo + i)]
           d == [t EXCEPT !.lastInv[n] = m.hi, !.breq[n] = 1, !.owes[n] = @ \o B]
<1>4. Good(t, ch)
  BY <1>2, TakenGood
<1>5. CASE Becomes(t)
  <2>1. Sound' /\ nodes' = nodes
    BY <1>2, <1>3, <1>4, <1>5, BecomesSound DEF Reads
  <2> QED
    BY <2>1, StillLives
<1>6. CASE "BLOCKSYNC" \in nodes[n].state /\ Becomes(d)
  <2>1. m.lo \in Nat /\ m.hi \in 0 .. ch /\ m.lo <= m.hi
    BY <1>2, SpvSyncAssumption DEF Reads, Msg, Message
  <2>2. B \in Seq(Msg(ch)) /\ \A i \in 1 .. Len(B) : B[i].kind # "headers"
    <3>1. m.hi - m.lo \in Nat
      BY <2>1
    <3>2. ASSUME NEW i \in 1 .. m.hi - m.lo
          PROVE  Block(m.lo + i) \in Msg(ch) /\ Block(m.lo + i).kind = "block"
      <4>1. m.lo + i \in 0 .. ch
        BY <1>2, <2>1, SMTT(30) DEF Reads
      <4>2. ch \in 0 .. MaxChain /\ m.lo + i \in (m.lo + i) .. ch
        BY <1>2, <4>1 DEF Reads
      <4> QED
        BY <4>1, <4>2, MessageTypes
    <3> QED
      BY <3>1, <3>2
  <2> DEFINE q == t.owes[n]
             W == [t.owes EXCEPT ![n] = q \o B]
             L == [t.lastInv EXCEPT ![n] = m.hi]
             Q == [t.breq EXCEPT ![n] = 1]
  <2> HIDE DEF B
  <2>3. /\ t.owes \in [Peer -> Seq(Msg(ch))] /\ q \in Seq(Msg(ch)) /\ ch \in Nat
        /\ t.lastInv \in [Peer -> 0 .. ch] /\ t.breq \in [Peer -> 0 .. Limit + 1]
    BY <1>2, ClientFields DEF Reads
  <2>4. /\ W \in [Peer -> Seq(Msg(ch))] /\ W[n] = q \o B
        /\ \A p \in Peer \ {n} : W[p] = t.owes[p]
    BY <2>2, <2>3
  <2>5. L \in [Peer -> 0 .. ch] /\ Q \in [Peer -> 0 .. Limit + 1]
    <3>1. 1 \in 0 .. Limit + 1
      BY SpvSyncAssumption
    <3> QED
      BY <2>1, <2>3, <3>1
  <2>6. d = [t EXCEPT !.lastInv = L, !.breq = Q, !.owes = W]
    OBVIOUS
  <2>7. Fit(b.nodes[n], q) /\ b.nodes[n].shaken
    BY <1>2 DEF Reads
  <2>8. HeaderAt(q \o B) = HeaderAt(q)
    BY <2>2, <2>3, ConcatOther
  <2>9. Fit(b.nodes[n], q \o B)
    BY <2>7, <2>8 DEF Fit
  <2> HIDE DEF q, W, L, Q, d
  <2>10. /\ d \in ClientAt(ch) /\ d.nodes = t.nodes /\ d.best = t.best /\ d.hreq = t.hreq
         /\ d.mode = t.mode /\ d.tip = t.tip /\ d.owes = W
    BY <1>2, <2>4, <2>5, <2>6 DEF ClientAt, Reads
  <2>11. \A p \in Peer : Fit(b.nodes[p], W[p])
    BY <1>2, <2>4, <2>9 DEF Reads
  <2>12. b.mode = "blocks"
    BY <1>2, <1>6 DEF Reads, Good, Safe, OneAtWork, At, ClientAt
  <2>13. StartsBehind => Sought(d, ch)
    BY <1>2, <2>10, <2>12 DEF Reads, Good, Sought
  <2>14. Good(d, ch)
    BY <1>2, <1>4, <2>10, <2>11, <2>12, <2>13, SameNodes DEF Reads
  <2>15. Sound' /\ nodes' = nodes
    BY <1>2, <1>3, <1>6, <2>10, <2>14, BecomesSound DEF Reads
  <2> QED
    BY <2>15, StillLives
<1> QED
  BY <1>1, <1>5, <1>6 DEF RecvInv

(* A getblocks is answered.                                                *)
LEMMA AnswerGetBlocksStep ==
    ASSUME Sound, NEW n \in Peer, AnswerGetBlocks(n)
    PROVE  Sound' /\ Lives
<1>1. PICK b, ch, t, m : b = Client /\ ch = chain /\ t = Taken(n) /\ m = Head(owes[n])
  OBVIOUS
<1>2. Reads(b, ch, n, m, t) /\ m.kind = "getblocks" /\ b.nodes = nodes
  BY <1>1, Reading DEF AnswerGetBlocks
<1> DEFINE q == b.owes[n]
           hi == Min({m.lo + MaxInv, ch})
           a == <<Inv(m.lo, hi)>> \o Tail(q)
           s == IF hi > m.lo THEN a ELSE Tail(q)
           W == [b.owes EXCEPT ![n] = s]
<1>3. b.owes = owes /\ owes' = W
  BY <1>1, ClientIs DEF AnswerGetBlocks
<1>4. /\ ch \in Nat /\ ch \in 0 .. MaxChain /\ m.lo \in 0 .. ch /\ q # <<>> /\ m = Head(q)
      /\ Fit(b.nodes[n], q) /\ Fit(b.nodes[n], Tail(q)) /\ t.owes = [b.owes EXCEPT ![n] = Tail(q)]
      /\ b.owes \in [Peer -> Seq(Msg(ch))] /\ q \in Seq(Msg(ch)) /\ Tail(q) \in Seq(Msg(ch))
  <2>1. ch \in Nat /\ b \in ClientAt(ch) /\ m \in Msg(ch) /\ b.owes[n] # <<>>
    BY <1>2 DEF Reads
  <2>2. b.owes \in [Peer -> Seq(Msg(ch))]
    BY <2>1, ClientFields
  <2>3. m.lo \in 0 .. ch
    BY <2>1, SpvSyncAssumption DEF Msg, Message
  <2>4. Fit(b.nodes[n], Tail(q))
    BY <1>2, <2>2 DEF Reads
  <2> QED
    BY <1>2, <2>1, <2>2, <2>3, <2>4 DEF Reads, Good, Safe
<1>5. hi \in Nat /\ hi <= ch
  <2>1. {m.lo + MaxInv, ch} \in SUBSET Nat
    BY <1>4, SpvSyncAssumption
  <2> QED
    BY <2>1, MinIn
<1>6. ASSUME hi > m.lo
      PROVE  /\ Inv(m.lo, hi) \in Msg(ch) /\ Inv(m.lo, hi).kind = "inv"
             /\ \A x : Inv(m.lo, hi) \in Early(x)
  <2>1. hi \in m.lo .. ch
    BY <1>4, <1>5, <1>6
  <2>2. Inv(m.lo, hi) \in Msg(ch) /\ Inv(m.lo, hi).kind = "inv"
    BY <1>4, <2>1, MessageTypes
  <2> QED
    BY <2>2 DEF Early, Msg
<1> HIDE DEF hi
<1>7. ASSUME hi > m.lo
      PROVE  /\ a \in Seq(Msg(ch)) /\ HeaderAt(a) = HeaderAt(q)
             /\ \A x : q \in Seq(Early(x)) => a \in Seq(Early(x))
  <2>1. \A T : /\ q \in Seq(T) /\ Inv(m.lo, hi) \in T
               => a \in Seq(T) /\ HeaderAt(a) = HeaderAt(q)
    <3>1. PICK i : i = Inv(m.lo, hi)
      OBVIOUS
    <3>2. i.kind # "headers" /\ a = <<i>> \o Tail(q)
      BY <1>6, <1>7, <3>1
    <3> HIDE DEF a, q
    <3>3. ASSUME NEW T, q \in Seq(T), i \in T
          PROVE  a \in Seq(T) /\ HeaderAt(a) = HeaderAt(q)
      BY <1>2, <1>4, <3>2, <3>3, ReplaceOther
    <3> QED
      BY <3>1, <3>3
  <2> QED
    BY <1>4, <1>6, <1>7, <2>1
<1>8. s \in Seq(Msg(ch)) /\ Fit(b.nodes[n], s) /\ (HeaderAt(s) # {} => HeaderAt(q) # {})
  <2>1. CASE hi > m.lo
    <3>1. s = a /\ b.nodes[n].shaken
      BY <1>2, <2>1 DEF Reads
    <3> HIDE DEF a, s, q
    <3> QED
      BY <1>4, <1>7, <2>1, <3>1 DEF Fit
  <2>2. CASE ~(hi > m.lo)
    <3>1. s = Tail(q)
      BY <2>2
    <3>2. HeaderAt(Tail(q)) # {} => HeaderAt(q) # {}
      BY <1>2, <1>4 DEF Reads
    <3> QED
      BY <1>4, <3>1, <3>2
  <2> QED
    BY <2>1, <2>2
<1>9. \A x : b.owes \in [Peer -> Seq(Early(x))] => W \in [Peer -> Seq(Early(x))]
  <2>1. SUFFICES ASSUME NEW x, b.owes \in [Peer -> Seq(Early(x))] PROVE s \in Seq(Early(x))
    BY <1>4
  <2>2. q \in Seq(Early(x)) /\ Tail(q) \in Seq(Early(x))
    BY <1>4, <2>1
  <2> QED
    BY <1>7, <2>2
<1> HIDE DEF s
<1>10. /\ W \in [Peer -> Seq(Msg(ch))]
       /\ \A p \in Peer : Fit(b.nodes[p], W[p])
       /\ \A p \in Peer : HeaderAt(W[p]) # {} => HeaderAt(b.owes[p]) # {}
  BY <1>2, <1>4, <1>8 DEF Reads, Good, Safe
<1> HIDE DEF W
<1>11. PICK d : d = Client'
  OBVIOUS
<1>12. /\ chain' = ch /\ bad' = bad /\ nodes' = nodes /\ UNCHANGED best /\ UNCHANGED lastInv
       /\ UNCHANGED breq /\ UNCHANGED hreq /\ UNCHANGED mode /\ UNCHANGED tip
       /\ UNCHANGED completed
  BY <1>1 DEF AnswerGetBlocks
<1>13. /\ d.nodes = b.nodes /\ d.best = b.best /\ d.hreq = b.hreq /\ d.mode = b.mode
       /\ d.tip = b.tip /\ d.owes = W /\ d \in ClientAt(ch)
  <2>1. d = [nodes |-> nodes, best |-> best, lastInv |-> lastInv, breq |-> breq,
             hreq |-> hreq, mode |-> mode, tip |-> tip, completed |-> completed, owes |-> W]
    BY <1>3, <1>11, <1>12 DEF Client
  <2>2. /\ nodes \in [Peer -> NodeState] /\ best \in [Peer -> 0 .. ch]
        /\ lastInv \in [Peer -> 0 .. ch] /\ breq \in [Peer -> 0 .. Limit + 1]
        /\ hreq \in 0 .. Limit + 1 /\ mode \in {"headers", "blocks"}
        /\ tip \in 0 .. ch /\ completed \in BOOLEAN
    <3>1. b \in ClientAt(ch)
      BY <1>2 DEF Reads
    <3> QED
      BY <1>1, <1>4, <3>1, ClientIs, ClientFields
  <2> QED
    BY <1>1, <1>10, <2>1, <2>2, ClientIs DEF ClientAt
<1>14. Good(d, ch)
  <2>1. Good(b, ch) /\ ch \in Nat
    BY <1>2 DEF Reads
  <2>2. StartsBehind => Sought(d, ch)
    BY <1>13, <2>1 DEF Good, Sought
  <2>3. d.mode = "headers" => d.owes \in [Peer -> Seq(Early(d.tip))]
    BY <1>9, <1>13, <2>1 DEF Good, Safe
  <2>4. \A p \in Peer : HeaderAt(d.owes[p]) # {} => HeaderAt(b.owes[p]) # {}
    BY <1>10, <1>13
  <2> QED
    BY <1>10, <1>13, <2>1, <2>2, <2>3, <2>4, SameNodes
<1>15. Sound'
  BY <1>1, <1>11, <1>12, <1>14 DEF Sound
<1> QED
  BY <1>12, <1>15, StillLives

(* A sync flag is cleared, and no headers are on their way if it is the    *)
(* one for headers.                                                        *)
LEMMA StripMoved ==
    ASSUME NEW nd, NEW q, Fit(nd, q), NEW f \in {"HEADERSYNC", "BLOCKSYNC"},
           f = "HEADERSYNC" => HeaderAt(q) = {}
    PROVE  Moved(nd, q, Strip(nd, f))
<1> DEFINE s == Strip(nd, f)
<1>1. /\ s \in NodeState /\ s.state = nd.state \ {f} /\ (s.events <=> nd.events)
      /\ (s.shaken <=> nd.shaken)
  BY FlagFields DEF Fit
<1> HIDE DEF s
<1>2. Fit(s, q)
  BY <1>1 DEF Fit
<1>3. \A g : At(s, g) => At(nd, g)
  BY <1>1 DEF At
<1> QED
  BY <1>1, <1>2, <1>3 DEF Moved, s

(* c is t with another tip and another block timer of n.                   *)
Timed(t, n, h, x, c) == c = [t EXCEPT !.tip = h, !.breq = [t.breq EXCEPT ![n] = x]]

(* A block moves the timer of its peer; the headers mode is over by then.  *)
LEMMA BlockRead ==
    ASSUME NEW b, NEW ch, NEW n \in Peer, NEW m, NEW t, Reads(b, ch, n, m, t),
           m.kind = "block", NEW x \in {0, 1}, NEW h \in 0 .. ch, NEW c, Timed(t, n, h, x, c)
    PROVE  Good(c, ch) /\ c.nodes = b.nodes /\ c.mode = "blocks" /\ c.owes = t.owes
<1>1. b.mode = "blocks"
  <2>1. b.mode \in {"headers", "blocks"}
    BY ClientFields DEF Reads
  <2>2. ASSUME b.mode = "headers" PROVE FALSE
    <3>1. b.owes \in [Peer -> Seq(Early(b.tip))]
      BY <2>2 DEF Reads, Good, Safe
    <3>2. m \in Early(b.tip)
      BY <3>1 DEF Reads
    <3> QED
      BY <3>2 DEF Early
  <2> QED
    BY <2>1, <2>2
<1>2. PICK Q : Q = [t.breq EXCEPT ![n] = x] /\ c = [t EXCEPT !.tip = h, !.breq = Q]
  BY DEF Timed
<1>3. Q \in [Peer -> 0 .. Limit + 1]
  <2>1. t.breq \in [Peer -> 0 .. Limit + 1]
    BY ClientFields DEF Reads
  <2>2. x \in 0 .. Limit + 1
    BY SpvSyncAssumption
  <2> QED
    BY <1>2, <2>1, <2>2
<1>4. t \in ClientAt(ch) /\ ch \in Nat
  BY DEF Reads
<1>5. /\ c \in ClientAt(ch) /\ c.nodes = t.nodes /\ c.best = t.best /\ c.hreq = t.hreq
      /\ c.mode = t.mode /\ c.owes = t.owes
  BY <1>3, <1>2, <1>4 DEF ClientAt
<1>6. Good(t, ch) /\ t.mode = "blocks" /\ t.nodes = b.nodes
  <2>1. Good(t, ch)
    BY TakenGood
  <2> QED
    BY <1>1, <2>1 DEF Reads
<1>7. StartsBehind => Sought(c, ch)
  BY <1>5, <1>6 DEF Good, Sought
<1> QED
  BY <1>4, <1>5, <1>6, <1>7, SameNodes DEF Good, Safe

(* A block that connects.                                                  *)
LEMMA RecvBlockStep ==
    ASSUME Sound, NEW n \in Peer, RecvBlock(n)
    PROVE  Sound' /\ Lives
<1>1. PICK b, ch, t, m : b = Client /\ ch = chain /\ t = Taken(n) /\ m = Head(owes[n])
  OBVIOUS
<1>2. Reads(b, ch, n, m, t) /\ m.kind = "block" /\ b.nodes = nodes
  BY <1>1, Reading DEF RecvBlock
<1>3. chain' = ch /\ chain' \in StartChain .. MaxChain /\ bad' \in 0 .. MaxBad
  BY <1>1 DEF Sound, RecvBlock
<1> DEFINE x == IF Young(tip + 1) THEN 0 ELSE 1
<1>4. PICK h : h = tip + 1
  OBVIOUS
<1>5. h \in 0 .. ch
  <2>1. m.lo = h /\ m \in Msg(ch) /\ ch \in Nat
    BY <1>1, <1>2, <1>4 DEF RecvBlock, Reads
  <2> QED
    BY <2>1, SpvSyncAssumption DEF Msg, Message
<1>6. PICK c : c = [t EXCEPT !.tip = h, !.breq[n] = x]
  OBVIOUS
<1>7. Good(c, ch) /\ c.nodes = nodes /\ c.mode = "blocks" /\ c.owes = t.owes
  <2>1. x \in {0, 1}
    OBVIOUS
  <2> HIDE DEF x
  <2>2. Timed(t, n, h, x, c)
    BY <1>6 DEF Timed
  <2> QED
    BY <1>2, <1>5, <2>1, <2>2, BlockRead
<1>8. \/ Becomes(c) \/ Becomes([c EXCEPT !.completed = TRUE]) \/ Becomes(RequestFrom(c, n, TRUE))
  BY <1>1, <1>4, <1>6 DEF RecvBlock
<1>9. CASE Becomes(c)
  <2>1. Sound' /\ nodes' = nodes
    BY <1>3, <1>7, <1>9, BecomesSound
  <2> QED
    BY <2>1, StillLives
<1>10. CASE Becomes([c EXCEPT !.completed = TRUE])
  <2>1. PICK d : d = [c EXCEPT !.completed = TRUE]
    OBVIOUS
  <2>2. c \in ClientAt(ch) /\ ch \in Nat
    BY <1>2, <1>7 DEF Good, Safe, Reads
  <2>3. /\ d \in ClientAt(ch) /\ d.nodes = c.nodes /\ d.best = c.best /\ d.hreq = c.hreq
        /\ d.mode = c.mode /\ d.owes = c.owes /\ d.tip = c.tip
    BY <2>1, <2>2 DEF ClientAt
  <2>4. Good(d, ch)
    BY <1>7, <2>3 DEF Good, Safe, Sought, Alarm
  <2>5. Sound' /\ nodes' = nodes
    BY <1>3, <1>7, <1>10, <2>1, <2>3, <2>4, BecomesSound
  <2> QED
    BY <2>5, StillLives
<1>11. CASE Becomes(RequestFrom(c, n, TRUE))
  <2>1. PICK d : d = RequestFrom(c, n, TRUE)
    OBVIOUS
  <2>2. Usable(c.nodes, n) /\ ch \in 0 .. MaxChain
    BY <1>2, <1>7 DEF Usable, Reads
  <2>3. Good(d, ch) /\ \A p \in Peer : Phase(d.nodes[p]) = Phase(c.nodes[p])
    BY <1>7, <2>1, <2>2, BlocksRequestGood DEF Good
  <2>4. Sound' /\ nodes' = d.nodes
    BY <1>3, <1>11, <2>1, <2>3, BecomesSound
  <2> QED
    BY <1>7, <2>3, <2>4, StillLives
<1> QED
  BY <1>8, <1>9, <1>10, <1>11

(* A block whose peer is given up for it.                                  *)
LEMMA BlockRefused ==
    ASSUME NEW b, NEW ch, NEW n \in Peer, NEW m, NEW t, Reads(b, ch, n, m, t),
           m.kind = "block", NEW x \in {0, 1}, NEW c, Timed(t, n, t.tip, x, c),
           NEW d \in Unsync(c, n, "BLOCKSYNC")
    PROVE  Good(d, ch) /\ Drifts(b.nodes, n, d.nodes) /\ Phase(d.nodes[n]) = Phase(b.nodes[n])
<1>1. t \in ClientAt(ch) /\ ch \in Nat /\ t.tip \in 0 .. ch
  BY ClientFields DEF Reads
<1>2. Good(c, ch) /\ c.nodes = b.nodes
  BY <1>1, BlockRead
<1>3. /\ c \in ClientAt(ch) /\ c.nodes \in [Peer -> NodeState]
      /\ \A p \in Peer : Fit(c.nodes[p], c.owes[p])
  BY <1>1, <1>2, ClientFields DEF Good, Safe
<1>4. PICK N : N = [c.nodes EXCEPT ![n] = Strip(c.nodes[n], "BLOCKSYNC")]
  OBVIOUS
<1>5. /\ N \in [Peer -> NodeState] /\ N[n] = Strip(c.nodes[n], "BLOCKSYNC")
      /\ \A p \in Peer \ {n} : N[p] = c.nodes[p]
  BY <1>3, <1>4, FlagFields
<1>6. \A p \in Peer : Moved(c.nodes[p], c.owes[p], N[p])
  BY <1>3, <1>5, StripMoved, StayMoved
<1>7. PICK e : e = [c EXCEPT !.nodes = N] /\ Without(c, n, "BLOCKSYNC", e)
  BY <1>4 DEF Without
<1>8. Good(e, ch)
  BY <1>1, <1>2, <1>5, <1>6, <1>7, GroupMoves
<1>9. "CONNECTED" \in c.nodes[n].state
  BY <1>2 DEF Reads
<1>10. /\ Good(d, ch) /\ d.nodes[n] = Strip(c.nodes[n], "BLOCKSYNC")
       /\ Drifts(c.nodes, n, d.nodes)
  <2>1. "BLOCKSYNC" \in {"HEADERSYNC", "BLOCKSYNC"}
    OBVIOUS
  <2> QED
    BY <1>1, <1>3, <1>7, <1>8, <1>9, <2>1, UnsyncGood
<1>11. Phase(d.nodes[n]) = Phase(c.nodes[n])
  BY <1>3, <1>10, RaisedPhase
<1> QED
  BY <1>2, <1>10, <1>11

(* A block that does not connect.                                          *)
LEMMA RecvStrayBlockStep ==
    ASSUME Sound, NEW n \in Peer, RecvStrayBlock(n)
    PROVE  Sound' /\ Lives
<1>1. PICK b, ch, t, m : b = Client /\ ch = chain /\ t = Taken(n) /\ m = Head(owes[n])
  OBVIOUS
<1>2. Reads(b, ch, n, m, t) /\ m.kind = "block" /\ b.nodes = nodes
  BY <1>1, Reading DEF RecvStrayBlock
<1>3. chain' = ch /\ chain' \in StartChain .. MaxChain /\ bad' \in 0 .. MaxBad
  BY <1>1 DEF Sound, RecvStrayBlock
<1>4. PICK c : c = [t EXCEPT !.breq[n] = 1]
  OBVIOUS
<1>5. PICK d \in Unsync(c, n, "BLOCKSYNC") : Becomes(d)
  BY <1>1, <1>4 DEF RecvStrayBlock
<1>6. Good(d, ch) /\ Drifts(nodes, n, d.nodes) /\ Phase(d.nodes[n]) = Phase(nodes[n])
  <2>1. Timed(t, n, t.tip, 1, c)
    BY <1>2, <1>4 DEF Timed, Reads, ClientAt
  <2> QED
    BY <1>2, <1>5, <2>1, BlockRefused
<1>7. Sound' /\ nodes' = d.nodes
  BY <1>3, <1>5, <1>6, BecomesSound
<1> QED
  BY <1>6, <1>7, DriftLives

(* A block whose transactions do not parse.                                *)
LEMMA RecvBadBlockStep ==
    ASSUME Sound, NEW n \in Peer, RecvBadBlock(n)
    PROVE  Sound' /\ Lives
<1>1. PICK b, ch, t, m : b = Client /\ ch = chain /\ t = Taken(n) /\ m = Head(owes[n])
  OBVIOUS
<1>2. Reads(b, ch, n, m, t) /\ m.kind = "block" /\ b.nodes = nodes
  BY <1>1, Reading DEF RecvBadBlock
<1>3. chain' = ch /\ chain' \in StartChain .. MaxChain /\ bad' \in 0 .. MaxBad
  BY <1>1, SpvSyncAssumption DEF Sound, RecvBadBlock
<1> DEFINE x == IF Young(tip + 1) THEN 0 ELSE 1
<1>4. PICK c : c = [t EXCEPT !.breq[n] = x]
  OBVIOUS
<1>5. PICK d \in Unsync(c, n, "BLOCKSYNC") : Becomes(d)
  BY <1>1, <1>4 DEF RecvBadBlock
<1>6. Good(d, ch) /\ Drifts(nodes, n, d.nodes) /\ Phase(d.nodes[n]) = Phase(nodes[n])
  <2>1. x \in {0, 1}
    OBVIOUS
  <2> HIDE DEF x
  <2>2. Timed(t, n, t.tip, x, c)
    BY <1>2, <1>4 DEF Timed, Reads, ClientAt
  <2> QED
    BY <1>2, <1>5, <2>1, <2>2, BlockRefused
<1>7. Sound' /\ nodes' = d.nodes
  BY <1>3, <1>5, <1>6, BecomesSound
<1> QED
  BY <1>6, <1>7, DriftLives

(* When headers are read, theirs is the only peer at work.                 *)
LEMMA HeaderReader ==
    ASSUME NEW b, NEW ch, NEW n \in Peer, NEW m, NEW t, Reads(b, ch, n, m, t),
           m.kind = "headers"
    PROVE  /\ b.mode = "headers" /\ m.lo \in Nat /\ m.lo <= b.tip /\ b.tip \in 0 .. ch
           /\ \A p \in Peer \ {n} : ~At(b.nodes[p], "HEADERSYNC")
           /\ "BLOCKSYNC" \notin b.nodes[n].state
           /\ HeaderAt(t.owes[n]) = {} /\ Usable(b.nodes, n)
           /\ t.owes \in [Peer -> Seq(Early(b.tip))]
<1>1. At(b.nodes[n], "HEADERSYNC") /\ HeaderAt(t.owes[n]) = {} /\ Usable(b.nodes, n)
  BY DEF Reads, Usable
<1>2. b.mode \in {"headers", "blocks"} /\ b.tip \in 0 .. ch
  BY ClientFields DEF Reads
<1>3. OneAtWork(b.nodes, b.mode)
  BY DEF Reads, Good, Safe
<1>4. b.mode = "headers"
  BY <1>1, <1>2, <1>3 DEF OneAtWork
<1>5. /\ \A p \in Peer \ {n} : ~At(b.nodes[p], "HEADERSYNC")
      /\ "BLOCKSYNC" \notin b.nodes[n].state
  BY <1>1, <1>3, <1>4 DEF OneAtWork, At
<1>6. b.owes \in [Peer -> Seq(Early(b.tip))]
  BY <1>4 DEF Reads, Good, Safe
<1>7. m \in Early(b.tip) /\ t.owes \in [Peer -> Seq(Early(b.tip))]
  BY <1>6 DEF Reads
<1>8. m.lo \in Nat /\ m.lo <= b.tip
  BY <1>7, SpvSyncAssumption DEF Early, Message
<1> QED
  BY <1>1, <1>2, <1>4, <1>5, <1>7, <1>8

(* The answer of a peer with the tip at tp: what connects stays within its *)
(* chain, and one that does not break is full or goes to its end.          *)
LEMMA Answered ==
    ASSUME NEW ch \in Nat, NEW tp \in 0 .. ch, NEW m, m.lo \in Nat, m.lo <= tp,
           tp = tip, ch = chain, NEW a, a = Answer(m)
    PROVE  /\ a.upTo \in tp .. ch /\ a.breaks \in BOOLEAN /\ a.full \in BOOLEAN
           /\ ~a.breaks /\ ~a.full => a.upTo = ch
<1>1. PICK last : last = Min({m.lo + MaxHeaders, chain})
  OBVIOUS
<1>2. /\ last \in {m.lo + MaxHeaders, ch} /\ last <= ch /\ last <= m.lo + MaxHeaders
      /\ last \in Nat /\ MaxHeaders \in Nat \ {0}
  <2>1. MaxHeaders \in Nat \ {0} /\ {m.lo + MaxHeaders, ch} \in SUBSET Nat
    BY SpvSyncAssumption
  <2>2. last \in {m.lo + MaxHeaders, ch} /\ \A y \in {m.lo + MaxHeaders, ch} : last <= y
    BY <1>1, <2>1, MinIn
  <2> QED
    BY <2>1, <2>2
<1>3. /\ a.upTo = (IF m.lo = tp THEN last ELSE tp) /\ (a.breaks <=> m.lo # tp /\ last > m.lo)
      /\ (a.full <=> last = m.lo + MaxHeaders)
      /\ a.breaks \in BOOLEAN /\ a.full \in BOOLEAN
  BY <1>1 DEF Answer
<1> QED
  BY <1>2, <1>3

(* A higher tip allows what a lower one did.                               *)
LEMMA EarlyGrows ==
    ASSUME NEW x \in Nat, NEW y \in Nat, x <= y, NEW q, q \in [Peer -> Seq(Early(x))]
    PROVE  q \in [Peer -> Seq(Early(y))]
<1>1. Early(x) \subseteq Early(y)
  <2>1. \A m \in Message : m.lo \in Int
    BY SpvSyncAssumption DEF Message
  <2> QED
    BY <2>1 DEF Early
<1>2. \A r \in Seq(Early(x)) : r \in Seq(Early(y))
  BY <1>1
<1> QED
  BY <1>2

(* The tip at k and the timer off.                                         *)
Advanced(t, k, e) == e = [t EXCEPT !.hreq = 0, !.tip = k]

LEMMA AdvancedSafe ==
    ASSUME NEW b, NEW ch, NEW n \in Peer, NEW m, NEW t, Reads(b, ch, n, m, t),
           m.kind = "headers", NEW k \in b.tip .. ch, NEW e, Advanced(t, k, e)
    PROVE  /\ e \in ClientAt(ch) /\ e.nodes = b.nodes /\ e.best = b.best /\ e.hreq = 0
           /\ e.mode = "headers" /\ e.tip = k /\ e.owes = t.owes /\ Safe(e, ch)
           /\ StartsBehind => (k < ch => Sought(e, ch))
<1>1. /\ b.mode = "headers" /\ b.tip \in 0 .. ch
      /\ t.owes \in [Peer -> Seq(Early(b.tip))]
  BY HeaderReader
<1>2. /\ ch \in Nat /\ t \in ClientAt(ch) /\ t.nodes = b.nodes /\ t.best = b.best
      /\ t.mode = b.mode
  BY DEF Reads
<1>3. k \in 0 .. ch /\ k \in Nat /\ b.tip \in Nat /\ b.tip <= k
  BY <1>1, <1>2
<1>4. /\ e \in ClientAt(ch) /\ e.nodes = t.nodes /\ e.best = t.best /\ e.hreq = 0
      /\ e.mode = t.mode /\ e.tip = k /\ e.owes = t.owes
  <2>1. 0 \in 0 .. Limit + 1
    BY SpvSyncAssumption
  <2> QED
    BY <1>2, <1>3, <2>1 DEF ClientAt, Advanced
<1>5. e.owes \in [Peer -> Seq(Early(e.tip))]
  BY <1>1, <1>3, <1>4, EarlyGrows
<1>6. Safe(e, ch)
  BY <1>2, <1>4, <1>5 DEF Reads, Good, Safe
<1>7. StartsBehind => (k < ch => Sought(e, ch))
  BY <1>2, <1>4 DEF Reads, Good, Sought
<1> QED
  BY <1>1, <1>2, <1>4, <1>6, <1>7

(* What a handler leaves of the peers' lives.                              *)
Follows(N, M) ==
    \A p \in Peer : \/ Phase(M[p]) = Phase(N[p])
                    \/ <<Phase(N[p]), Phase(M[p])>> \in Life!Moves

(* A headers message without one that does not connect: the peer is asked  *)
(* for more after a full one, and is a faulty one otherwise.               *)
LEMMA KeptGood ==
    ASSUME NEW b, NEW ch, NEW n \in Peer, NEW m, NEW t, Reads(b, ch, n, m, t),
           m.kind = "headers", NEW k \in b.tip .. ch, NEW e, Advanced(t, k, e),
           NEW full \in BOOLEAN, StartsBehind => k < ch /\ (full \/ n \in Faulty),
           NEW d, d = NextBatch(e, n, full)
    PROVE  Good(d, ch) /\ Follows(b.nodes, d.nodes)
<1>1. /\ \A p \in Peer \ {n} : ~At(b.nodes[p], "HEADERSYNC")
      /\ "BLOCKSYNC" \notin b.nodes[n].state
      /\ HeaderAt(t.owes[n]) = {} /\ Usable(b.nodes, n)
  BY HeaderReader
<1>2. /\ e \in ClientAt(ch) /\ e.nodes = b.nodes /\ e.hreq = 0
      /\ e.mode = "headers" /\ e.owes = t.owes /\ Safe(e, ch)
      /\ StartsBehind => Sought(e, ch)
  BY AdvancedSafe
<1>3. ch \in Nat /\ ch \in 0 .. MaxChain
  BY DEF Reads
<1>4. CASE full
  <2>1. d = RequestFrom(e, n, FALSE)
    BY <1>1, <1>2, <1>4 DEF NextBatch
  <2>2. \A p \in Peer \ {n} : ~At(e.nodes[p], "HEADERSYNC")
    BY <1>1, <1>2
  <2>3. Usable(e.nodes, n) /\ HeaderAt(e.owes[n]) = {}
    BY <1>1, <1>2
  <2>4. /\ Good(RequestFrom(e, n, FALSE), ch)
        /\ \A p \in Peer : Phase(RequestFrom(e, n, FALSE).nodes[p]) = Phase(e.nodes[p])
    BY <1>2, <1>3, <2>2, <2>3, HeadersRequestGood
  <2> QED
    BY <1>2, <2>1, <2>4 DEF Follows
<1>5. CASE ~full
  <2>1. d = e
    BY <1>5 DEF NextBatch
  <2>2. StartsBehind => Alarm(e)
    BY <1>1, <1>2, <1>5 DEF Alarm
  <2> QED
    BY <1>2, <2>1, <2>2 DEF Good, Follows
<1> QED
  BY <1>4, <1>5

(* A headers message with one that does not connect: its peer is given up, *)
(* and asked again all the same after a full one.                          *)
LEMMA BrokenGood ==
    ASSUME NEW b, NEW ch, NEW n \in Peer, NEW m, NEW t, Reads(b, ch, n, m, t),
           m.kind = "headers", NEW k \in b.tip .. ch, NEW c, Advanced(t, k, c),
           NEW full \in BOOLEAN, StartsBehind => k < ch,
           NEW d \in Unsync(c, n, "HEADERSYNC"), NEW r, r = NextBatch(d, n, full)
    PROVE  Good(r, ch) /\ Follows(b.nodes, r.nodes)
<1>1. /\ \A p \in Peer \ {n} : ~At(b.nodes[p], "HEADERSYNC")
      /\ "BLOCKSYNC" \notin b.nodes[n].state /\ b.mode = "headers"
      /\ HeaderAt(t.owes[n]) = {} /\ Usable(b.nodes, n)
  BY HeaderReader
<1>2. /\ c \in ClientAt(ch) /\ c.nodes = b.nodes /\ c.best = b.best /\ c.hreq = 0
      /\ c.mode = "headers" /\ c.tip = k /\ c.owes = t.owes /\ Safe(c, ch)
      /\ StartsBehind => Sought(c, ch)
  BY AdvancedSafe
<1>3. ch \in Nat /\ ch \in 0 .. MaxChain /\ b \in ClientAt(ch)
  BY DEF Reads
<1>4. c.nodes \in [Peer -> NodeState]
  BY <1>2, <1>3, ClientFields
<1>5. PICK N : N = [c.nodes EXCEPT ![n] = Strip(c.nodes[n], "HEADERSYNC")]
  OBVIOUS
<1>6. PICK e : e = [c EXCEPT !.nodes = N] /\ Without(c, n, "HEADERSYNC", e)
  BY <1>5 DEF Without
<1>7. /\ N \in [Peer -> NodeState] /\ N[n] = Strip(c.nodes[n], "HEADERSYNC")
      /\ \A p \in Peer \ {n} : N[p] = c.nodes[p]
  BY <1>4, <1>5, FlagFields
<1>8. /\ e \in ClientAt(ch) /\ e.nodes = N /\ e.best = c.best /\ e.mode = c.mode
      /\ e.owes = c.owes /\ e.tip = c.tip
  BY <1>2, <1>6, <1>7 DEF ClientAt
<1>9. (N[n].shaken <=> c.nodes[n].shaken) /\ N[n].state = c.nodes[n].state \ {"HEADERSYNC"}
  BY <1>4, <1>7, FlagFields
<1>10. \A p \in Peer : Fit(N[p], t.owes[p])
  <2>1. \A p \in Peer : Fit(c.nodes[p], t.owes[p])
    BY <1>2 DEF Reads
  <2>2. \A p \in Peer : Moved(c.nodes[p], t.owes[p], N[p])
    BY <1>1, <1>7, <2>1, StripMoved, StayMoved
  <2> QED
    BY <2>2 DEF Moved
<1>11. /\ \A p \in Peer : ~At(N[p], "HEADERSYNC")
       /\ \A p \in Peer : ~At(N[p], "BLOCKSYNC")
  <2>1. \A p \in Peer : ~At(c.nodes[p], "BLOCKSYNC")
    BY <1>1, <1>2 DEF Safe, OneAtWork
  <2>2. ~At(N[n], "HEADERSYNC") /\ ~At(N[n], "BLOCKSYNC")
    BY <1>9, <2>1 DEF At
  <2>3. \A p \in Peer \ {n} : N[p] = c.nodes[p] /\ ~At(c.nodes[p], "HEADERSYNC")
    BY <1>1, <1>2, <1>7
  <2> QED
    BY <2>1, <2>2, <2>3
<1>12. Good(e, ch)
  <2>1. Safe(e, ch)
    BY <1>2, <1>8, <1>10, <1>11 DEF Safe, OneAtWork
  <2>2. StartsBehind => Sought(e, ch)
    BY <1>2, <1>7, <1>8, <1>9 DEF Sought
  <2>3. Alarm(e)
    BY <1>8, <1>11 DEF Alarm
  <2> QED
    BY <2>1, <2>2, <2>3 DEF Good
<1>13. "CONNECTED" \in c.nodes[n].state
  BY <1>2 DEF Reads
<1>14. /\ Good(d, ch) /\ d.nodes[n] = Strip(c.nodes[n], "HEADERSYNC")
       /\ Drifts(c.nodes, n, d.nodes) /\ d.owes = c.owes /\ d.mode = c.mode
       /\ \A p \in Peer : At(d.nodes[p], "HEADERSYNC") => At(e.nodes[p], "HEADERSYNC")
  <2>1. "HEADERSYNC" \in {"HEADERSYNC", "BLOCKSYNC"}
    OBVIOUS
  <2>2. Without(c, n, "HEADERSYNC", e) /\ c \in ClientAt(ch) /\ ch \in Nat
    BY <1>2, <1>3, <1>6
  <2> QED
    BY <1>12, <1>13, <2>1, <2>2, UnsyncGood
<1>15. Follows(b.nodes, d.nodes)
  <2>1. Phase(d.nodes[n]) = Phase(c.nodes[n])
    BY <1>4, <1>14, RaisedPhase
  <2> QED
    BY <1>2, <1>14, <2>1, LifeMoves DEF Drifts, Follows
<1>16. CASE r = d
  BY <1>14, <1>15, <1>16
<1>17. CASE r = RequestFrom(d, n, FALSE)
  <2>1. /\ Usable(d.nodes, n) /\ d.mode = "headers" /\ HeaderAt(d.owes[n]) = {}
        /\ \A p \in Peer \ {n} : ~At(d.nodes[p], "HEADERSYNC")
    <3>1. d.nodes[n] = N[n]
      BY <1>7, <1>14
    <3>2. Usable(d.nodes, n)
      BY <1>1, <1>2, <1>9, <3>1 DEF Usable
    <3> QED
      BY <1>1, <1>2, <1>8, <1>11, <1>14, <3>2
  <2>2. Safe(d, ch) /\ (StartsBehind => Sought(d, ch))
    BY <1>14 DEF Good
  <2>3. /\ Good(RequestFrom(d, n, FALSE), ch)
        /\ \A p \in Peer : Phase(RequestFrom(d, n, FALSE).nodes[p]) = Phase(d.nodes[p])
    BY <1>3, <2>1, <2>2, HeadersRequestGood
  <2> QED
    BY <1>15, <1>17, <2>3 DEF Follows
<1> QED
  BY <1>16, <1>17 DEF NextBatch

(* A header near the height the peer announced: the client switches to     *)
(* blocks.                                                                 *)
Switched(t, h, N, g) == g = [t EXCEPT !.hreq = 0, !.tip = h, !.mode = "blocks", !.nodes = N]

LEMMA SwitchGood ==
    ASSUME NEW b, NEW ch, NEW n \in Peer, NEW m, NEW t, Reads(b, ch, n, m, t),
           m.kind = "headers", NEW h \in 0 .. ch, NEW N,
           N = [t.nodes EXCEPT ![n] = Strip(t.nodes[n], "HEADERSYNC")],
           NEW g, Switched(t, h, N, g), NEW d, d = RequestFrom(g, n, TRUE)
    PROVE  Good(d, ch) /\ Follows(b.nodes, d.nodes)
<1>1. /\ \A p \in Peer \ {n} : ~At(b.nodes[p], "HEADERSYNC")
      /\ HeaderAt(t.owes[n]) = {} /\ Usable(b.nodes, n)
  BY HeaderReader
<1>2. ch \in Nat /\ ch \in 0 .. MaxChain /\ t \in ClientAt(ch) /\ t.nodes = b.nodes
  BY DEF Reads
<1>3. /\ t.nodes \in [Peer -> NodeState] /\ N \in [Peer -> NodeState]
      /\ N[n] = Strip(t.nodes[n], "HEADERSYNC")
      /\ \A p \in Peer \ {n} : N[p] = t.nodes[p]
  <2>1. t.nodes \in [Peer -> NodeState]
    BY <1>2, ClientFields
  <2> QED
    BY <2>1, FlagFields
<1>4. /\ g \in ClientAt(ch) /\ g.nodes = N /\ g.best = t.best
      /\ g.mode = "blocks" /\ g.owes = t.owes
  <2>1. 0 \in 0 .. Limit + 1
    BY SpvSyncAssumption
  <2> QED
    BY <1>2, <1>3, <2>1 DEF ClientAt, Switched
<1>5. \A p \in Peer : Fit(t.nodes[p], t.owes[p])
  BY <1>2 DEF Reads
<1>6. \A p \in Peer : Moved(t.nodes[p], t.owes[p], N[p])
  BY <1>1, <1>3, <1>5, StripMoved, StayMoved
<1>7. \A p \in Peer : Fit(N[p], t.owes[p])
  BY <1>6 DEF Moved
<1>8. (N[n].shaken <=> t.nodes[n].shaken) /\ N[n].state = t.nodes[n].state \ {"HEADERSYNC"}
  BY <1>3, FlagFields
<1>9. \A p \in Peer : ~At(N[p], "HEADERSYNC")
  BY <1>1, <1>2, <1>3, <1>8 DEF At
<1>10. Safe(g, ch)
  BY <1>4, <1>7, <1>9 DEF Safe, OneAtWork
<1>11. StartsBehind => Sought(g, ch)
  BY <1>3, <1>4, <1>8 DEF Sought, Reads, Good
<1>12. Usable(g.nodes, n)
  BY <1>1, <1>2, <1>4, <1>8 DEF Usable
<1>13. Good(d, ch) /\ \A p \in Peer : Phase(d.nodes[p]) = Phase(g.nodes[p])
  BY <1>2, <1>4, <1>10, <1>11, <1>12, BlocksRequestGood
<1>14. \A p \in Peer : Phase(N[p]) = Phase(t.nodes[p])
  BY <1>3, RaisedPhase
<1> QED
  BY <1>2, <1>4, <1>13, <1>14 DEF Follows

(* A headers message, whatever it holds.                                   *)
LEMMA HeadersReadGood ==
    ASSUME Sound, NEW n \in Peer, CanRead(n, "headers"), NEW a,
           a.upTo \in tip .. chain, a.breaks \in BOOLEAN, a.full \in BOOLEAN,
           ~a.breaks /\ ~a.full /\ n \notin Faulty => a.upTo = chain,
           NEW d \in HeadersRead(n, a)
    PROVE  Good(d, chain) /\ Follows(nodes, d.nodes)
<1>1. PICK b, ch, t, m : b = Client /\ ch = chain /\ t = Taken(n) /\ m = Head(owes[n])
  OBVIOUS
<1>2. Reads(b, ch, n, m, t) /\ m.kind = "headers" /\ b.nodes = nodes
  BY <1>1, Reading
<1>3. b.mode = "headers" /\ b.tip \in 0 .. ch
  BY <1>2, HeaderReader
<1>4. /\ b.best = best /\ b.tip = tip /\ ch \in Nat /\ best[n] \in 0 .. ch
      /\ t \in ClientAt(ch) /\ ch >= StartChain
  <2>1. /\ b \in ClientAt(ch) /\ ch \in Nat /\ t \in ClientAt(ch) /\ ch >= StartChain
    BY <1>2 DEF Reads
  <2> QED
    BY <1>1, <2>1, ClientIs, ClientFields
<1>5. PICK near, k : near = {h \in tip + 1 .. a.upTo : NearAnnounced(n, h)} /\ k = a.upTo
  OBVIOUS
<1>6. k \in b.tip .. ch /\ near \in SUBSET (0 .. ch)
  BY <1>1, <1>3, <1>4, <1>5
\* short of the switch the tip stays below the network
<1>7. ASSUME StartsBehind, near = {} PROVE k < ch
  <2>1. b.tip < ch /\ best[n] >= StartChain
    BY <1>2, <1>3, <1>4, <1>7 DEF Reads, Good, Sought
  <2>2. Gap \in Nat \ {0} /\ StartChain \in Nat /\ Gap <= StartChain
    BY <1>7, SpvSyncAssumption DEF StartsBehind
  <2>3. Sub(best[n], Gap) = best[n] - Gap
    <3>1. best[n] \in Nat /\ Gap <= best[n] /\ best[n] < Word
      BY <1>1, <1>4, <2>1, <2>2, SpvSyncAssumption DEF Sound
    <3> QED
      BY <2>2, <3>1, SubLow
  <2>4. NearAnnounced(n, ch)
    BY <1>4, <2>2, <2>3 DEF NearAnnounced
  <2>5. ch \notin tip + 1 .. a.upTo
    BY <1>5, <1>7, <2>4
  <2> QED
    BY <1>3, <1>4, <1>5, <1>6, <2>1, <2>5
<1> DEFINE e == [t EXCEPT !.hreq = 0, !.tip = k]
           N == [t.nodes EXCEPT ![n] = Strip(t.nodes[n], "HEADERSYNC")]
           g == [t EXCEPT !.hreq = 0, !.tip = Min(near), !.mode = "blocks", !.nodes = N]
<1>8. Advanced(t, k, e)
  BY DEF Advanced
<1>9. /\ near # {} => d = RequestFrom(g, n, TRUE)
      /\ near = {} /\ ~a.breaks => d = NextBatch(e, n, a.full)
      /\ near = {} /\ a.breaks => \E x \in Unsync(e, n, "HEADERSYNC") : d = NextBatch(x, n, a.full)
  <2>1. [[t EXCEPT !.hreq = 0] EXCEPT !.tip = k] = e
    BY <1>4 DEF ClientAt
  <2> QED
    BY <1>1, <1>5, <2>1 DEF HeadersRead, Strip
<1> HIDE DEF e
<1>10. CASE near # {}
  <2>1. PICK h : h = Min(near)
    OBVIOUS
  <2>2. h \in 0 .. ch
    <3>1. near \in SUBSET Nat
      BY <1>6
    <3> QED
      BY <1>6, <1>10, <2>1, <3>1, MinIn
  <2>3. Switched(t, h, N, g)
    BY <2>1 DEF Switched
  <2> HIDE DEF g
  <2>4. Good(d, ch) /\ Follows(b.nodes, d.nodes)
    BY <1>2, <1>9, <1>10, <2>2, <2>3, SwitchGood
  <2> QED
    BY <1>1, <1>2, <2>4
<1>11. CASE near = {} /\ ~a.breaks
  <2>1. StartsBehind => k < ch /\ (a.full \/ n \in Faulty)
    BY <1>1, <1>4, <1>5, <1>6, <1>7, <1>11
  <2>2. Good(d, ch) /\ Follows(b.nodes, d.nodes)
    BY <1>2, <1>6, <1>8, <1>9, <1>11, <2>1, KeptGood
  <2> QED
    BY <1>1, <1>2, <2>2
<1>12. CASE near = {} /\ a.breaks
  <2>1. PICK x \in Unsync(e, n, "HEADERSYNC") : d = NextBatch(x, n, a.full)
    BY <1>9, <1>12
  <2>2. Good(d, ch) /\ Follows(b.nodes, d.nodes)
    BY <1>2, <1>6, <1>7, <1>8, <1>12, <2>1, BrokenGood
  <2> QED
    BY <1>1, <1>2, <2>2
<1> QED
  BY <1>10, <1>11, <1>12

(* Such a record becomes the client's.                                     *)
LEMMA FollowsStep ==
    ASSUME NEW d, Good(d, chain), Follows(nodes, d.nodes), Becomes(d), chain' = chain,
           Sound, bad' \in 0 .. MaxBad
    PROVE  Sound' /\ Lives
<1>1. chain' \in StartChain .. MaxChain /\ Good(d, chain')
  BY DEF Sound
<1>2. Sound' /\ nodes' = d.nodes
  BY <1>1, BecomesSound
<1> QED
  BY <1>2 DEF Follows, Lives

(* A peer answers with the headers it has.                                 *)
LEMMA RecvHeadersStep ==
    ASSUME Sound, NEW n \in Peer, RecvHeaders(n)
    PROVE  Sound' /\ Lives
<1>1. PICK a, ch, tp, m : a = Answer(m) /\ m = Head(owes[n]) /\ ch = chain /\ tp = tip
  OBVIOUS
<1>2. CanRead(n, "headers") /\ chain' = chain /\ bad' \in 0 .. MaxBad
  BY DEF RecvHeaders, Sound
<1>3. ch \in Nat /\ tp \in 0 .. ch /\ m.lo \in Nat /\ m.lo <= tp
  <2>1. PICK b, t : b = Client /\ t = Taken(n)
    OBVIOUS
  <2>2. Reads(b, ch, n, m, t) /\ m.kind = "headers"
    BY <1>1, <1>2, <2>1, Reading
  <2>3. m.lo \in Nat /\ m.lo <= b.tip /\ b.tip \in 0 .. ch
    BY <2>2, HeaderReader
  <2> QED
    BY <1>1, <2>1, <2>2, <2>3, ClientIs DEF Reads
<1>4. /\ a.upTo \in tip .. chain /\ a.breaks \in BOOLEAN /\ a.full \in BOOLEAN
      /\ ~a.breaks /\ ~a.full => a.upTo = chain
  BY <1>1, <1>3, Answered
<1>5. PICK d \in HeadersRead(n, a) : Becomes(d)
  BY <1>1 DEF RecvHeaders
<1>6. Good(d, chain) /\ Follows(nodes, d.nodes)
  BY <1>2, <1>4, HeadersReadGood
<1> QED
  BY <1>2, <1>5, <1>6, FollowsStep

(* A faulty peer answers in its own way.                                   *)
LEMMA RecvFaultyHeadersStep ==
    ASSUME Sound, NEW n \in Peer, RecvFaultyHeaders(n)
    PROVE  Sound' /\ Lives
<1>1. CanRead(n, "headers") /\ chain' = chain /\ n \in Faulty
  BY DEF RecvFaultyHeaders
<1>2. bad' \in 0 .. MaxBad
  <2>1. bad \in 0 .. MaxBad /\ MaxBad \in Nat /\ bad < MaxBad /\ bad' = bad + 1
    BY SpvSyncAssumption DEF Sound, RecvFaultyHeaders
  <2> QED
    BY <2>1
<1>3. PICK a \in FaultyAnswers : \E d \in HeadersRead(n, a) : Becomes(d)
  BY DEF RecvFaultyHeaders
<1>4. PICK d \in HeadersRead(n, a) : Becomes(d)
  BY <1>3
<1>5. a.upTo \in tip .. chain /\ a.breaks \in BOOLEAN /\ a.full \in BOOLEAN
  BY <1>3 DEF FaultyAnswers, HeadersMessage
<1>6. Good(d, chain) /\ Follows(nodes, d.nodes)
  BY <1>1, <1>5, HeadersReadGood
<1> QED
  BY <1>1, <1>2, <1>4, <1>6, FollowsStep

(* A block is mined and announced.                                         *)
LEMMA MineStep ==
    ASSUME Sound, Mine
    PROVE  Sound' /\ Lives
<1>1. PICK b, ch, d : b = Client /\ ch = chain /\ d = Client'
  OBVIOUS
<1>2. /\ Good(b, ch) /\ ch \in Nat /\ b \in ClientAt(ch) /\ b.nodes = nodes /\ b.owes = owes
      /\ ch \in StartChain .. MaxChain /\ ch < MaxChain /\ chain' = ch + 1
      /\ StartChain \in Nat /\ MaxChain \in Nat
  BY <1>1, ClientIs, SpvSyncAssumption DEF Sound, Good, Safe, Mine
<1> DEFINE i == Inv(ch, ch + 1)
           W == [n \in Peer |-> IF Usable(nodes, n) THEN Append(owes[n], i) ELSE owes[n]]
<1>3. /\ ch + 1 \in Nat /\ ch + 1 \in 0 .. MaxChain /\ ch + 1 \in StartChain .. MaxChain
  BY <1>2
<1>4. i \in Msg(ch + 1) /\ i.kind = "inv" /\ \A x : i \in Early(x)
  <2>1. ch \in 0 .. ch + 1 /\ ch + 1 \in ch .. ch + 1
    BY <1>2
  <2>2. i \in Msg(ch + 1) /\ i.kind = "inv"
    BY <1>3, <2>1, MessageTypes
  <2> QED
    BY <2>2 DEF Early, Msg
<1>5. owes' = W
  BY <1>1 DEF Mine
<1> HIDE DEF i
<1>6. /\ owes \in [Peer -> Seq(Msg(ch))] /\ \A p \in Peer : owes[p] \in Seq(Msg(ch + 1))
  <2>1. owes \in [Peer -> Seq(Msg(ch))]
    BY <1>2, ClientFields
  <2>2. Msg(ch) \subseteq Msg(ch + 1)
    BY <1>2, MessageGrows
  <2>3. \A q \in Seq(Msg(ch)) : q \in Seq(Msg(ch + 1))
    BY <2>2
  <2> QED
    BY <2>1, <2>3
<1>7. W \in [Peer -> Seq(Msg(ch + 1))]
  <2>1. \A p \in Peer : Append(owes[p], i) \in Seq(Msg(ch + 1))
    BY <1>4, <1>6
  <2> QED
    BY <1>6, <2>1
<1>8. ASSUME NEW x, owes \in [Peer -> Seq(Early(x))] PROVE W \in [Peer -> Seq(Early(x))]
  <2>1. \A p \in Peer : owes[p] \in Seq(Early(x)) /\ Append(owes[p], i) \in Seq(Early(x))
    BY <1>4, <1>8
  <2> QED
    BY <2>1
<1>9. ASSUME NEW p \in Peer
      PROVE  Fit(nodes[p], W[p]) /\ HeaderAt(W[p]) = HeaderAt(owes[p])
  <2>1. Fit(nodes[p], owes[p])
    BY <1>2 DEF Good, Safe
  <2>2. CASE Usable(nodes, p)
    <3>1. HeaderAt(Append(owes[p], i)) = HeaderAt(owes[p])
      BY <1>4, <1>6, AppendOther
    <3>2. W[p] = Append(owes[p], i) /\ nodes[p].shaken
      BY <2>2 DEF Usable
    <3> QED
      BY <2>1, <3>1, <3>2 DEF Fit
  <2>3. CASE ~Usable(nodes, p)
    BY <2>1, <2>3
  <2> QED
    BY <2>2, <2>3
<1> HIDE DEF W
<1>10. d = [nodes |-> nodes, best |-> best, lastInv |-> lastInv, breq |-> breq,
            hreq |-> hreq, mode |-> mode, tip |-> tip, completed |-> completed, owes |-> W]
  BY <1>1, <1>5 DEF Client, Mine
<1>11. /\ nodes \in [Peer -> NodeState] /\ best \in [Peer -> 0 .. ch + 1]
       /\ lastInv \in [Peer -> 0 .. ch + 1] /\ breq \in [Peer -> 0 .. Limit + 1]
       /\ hreq \in 0 .. Limit + 1 /\ mode \in {"headers", "blocks"}
       /\ tip \in 0 .. ch + 1 /\ completed \in BOOLEAN /\ tip \in 0 .. ch
       /\ best \in [Peer -> 0 .. ch]
  <2>1. /\ nodes \in [Peer -> NodeState] /\ best \in [Peer -> 0 .. ch]
        /\ lastInv \in [Peer -> 0 .. ch] /\ breq \in [Peer -> 0 .. Limit + 1]
        /\ hreq \in 0 .. Limit + 1 /\ mode \in {"headers", "blocks"}
        /\ tip \in 0 .. ch /\ completed \in BOOLEAN
    BY <1>1, <1>2, ClientIs, ClientFields
  <2>2. \A x \in 0 .. ch : x \in 0 .. ch + 1
    BY <1>2
  <2> QED
    BY <2>1, <2>2
<1>12. /\ d \in ClientAt(ch + 1) /\ d.nodes = nodes /\ d.best = best /\ d.hreq = hreq
       /\ d.mode = mode /\ d.tip = tip /\ d.owes = W
  BY <1>7, <1>10, <1>11 DEF ClientAt
<1>13. Safe(d, ch + 1)
  <2>1. OneAtWork(nodes, mode) /\ (mode = "headers" => owes \in [Peer -> Seq(Early(tip))])
    BY <1>1, <1>2, ClientIs DEF Good, Safe
  <2> QED
    BY <1>8, <1>9, <1>12, <2>1 DEF Safe
<1>14. StartsBehind => Sought(d, ch + 1) /\ Alarm(d)
  <2>1. ASSUME StartsBehind PROVE Sought(d, ch + 1) /\ Alarm(d)
    <3>1. /\ mode = "headers" => tip < ch
          /\ \A p \in Peer : nodes[p].shaken => best[p] >= StartChain
      BY <1>1, <1>2, <2>1, ClientIs DEF Good, Sought
    <3>2. Alarm(d)
      BY <1>1, <1>2, <1>9, <1>12, <2>1, ClientIs DEF Good, Alarm
    <3>3. mode = "headers" => tip < ch + 1
      BY <1>2, <1>11
    <3> QED
      BY <1>12, <3>1, <3>2, <3>3 DEF Sought
  <2> QED
    BY <2>1
<1>15. Sound'
  <2>1. bad' \in 0 .. MaxBad
    BY DEF Mine, Sound
  <2> QED
    BY <1>1, <1>2, <1>3, <1>13, <1>14, <2>1 DEF Sound, Good
<1> QED
  BY <1>15, StillLives DEF Mine


-----------------------------------------------------------------------------
(* The theorems.                                                           *)

(* The client starts with a few peers dialled.                             *)
LEMMA FirstSound ==
    ASSUME Init
    PROVE  Sound /\ \A p \in Peer : Phase(nodes[p]) \in {"new", "dialling"}
<1> DEFINE N == [n \in Peer |-> NewNode]
<1>1. NewNode \in NodeState
  BY DEF NewNode, NodeState, Flag
<1>2. NewNode.state = {} /\ ~NewNode.events /\ ~NewNode.shaken
  BY DEF NewNode
<1>3. HeaderAt(<<>>) = {}
  BY DEF HeaderAt
<1>4. Fit(NewNode, <<>>)
  BY <1>1, <1>2, <1>3 DEF Fit
<1>5. Dialable(NewNode) => Moved(NewNode, <<>>, Dial(NewNode))
  BY <1>4, DialMoved
<1>6. Dial(NewNode).state = {"CONNECTING"} /\ ~Dial(NewNode).shaken
  BY <1>1, <1>2, NodeFields
<1>7. N \in [Peer -> NodeState] /\ \A p \in Peer : N[p] = NewNode
  BY <1>1
<1>8. PICK M : M = nodes /\ M \in ConnectNextNodes(N)
  BY DEF Init
<1> HIDE DEF N
<1>9. /\ M \in [Peer -> NodeState]
      /\ \A p \in Peer : M[p] = N[p] \/ (Dialable(N[p]) /\ M[p] = Dial(N[p]))
  BY <1>7, <1>8, DialsSome
<1>10. ASSUME NEW p \in Peer
       PROVE  /\ Fit(nodes[p], <<>>) /\ ~nodes[p].shaken /\ "CONNECTED" \notin nodes[p].state
              /\ Phase(nodes[p]) \in {"new", "dialling"}
  <2>1. CASE nodes[p] = NewNode
    BY <1>2, <1>4, <2>1 DEF Phase
  <2>2. CASE Dialable(NewNode) /\ nodes[p] = Dial(NewNode)
    BY <1>5, <1>6, <2>2 DEF Phase, Moved
  <2> QED
    BY <1>7, <1>8, <1>9, <2>1, <2>2
<1>11. PICK b, ch : b = Client /\ ch = chain
  OBVIOUS
<1>12. /\ ch = StartChain /\ ch \in Nat /\ ch \in StartChain .. MaxChain /\ bad \in 0 .. MaxBad
  BY <1>11, SpvSyncAssumption DEF Init
<1>13. /\ nodes \in [Peer -> NodeState] /\ best \in [Peer -> 0 .. ch]
       /\ lastInv \in [Peer -> 0 .. ch] /\ breq \in [Peer -> 0 .. Limit + 1]
       /\ hreq \in 0 .. Limit + 1 /\ mode \in {"headers", "blocks"}
       /\ tip \in 0 .. ch /\ completed \in BOOLEAN /\ owes \in [Peer -> Seq(Msg(ch))]
  <2>1. 0 \in 0 .. ch /\ 0 \in 0 .. Limit + 1 /\ StartTip \in 0 .. ch
    BY <1>12, SpvSyncAssumption
  <2>2. nodes \in [Peer -> NodeState]
    BY <1>8, <1>9
  <2>3. completed \in BOOLEAN
    BY DEF Init
  <2>4. <<>> \in Seq(Msg(ch))
    OBVIOUS
  <2>5. /\ best \in [Peer -> 0 .. ch] /\ lastInv \in [Peer -> 0 .. ch]
        /\ breq \in [Peer -> 0 .. Limit + 1] /\ owes \in [Peer -> Seq(Msg(ch))]
    BY <2>1, <2>4, Zenon DEF Init
  <2>6. hreq \in 0 .. Limit + 1 /\ mode \in {"headers", "blocks"} /\ tip \in 0 .. ch
    BY <2>1, Zenon DEF Init
  <2> QED
    BY <2>2, <2>3, <2>5, <2>6
<1>14. b \in ClientAt(ch)
  BY <1>11, <1>13 DEF Client, ClientAt
<1>15. /\ b.nodes = nodes /\ b.mode = mode /\ b.owes = owes /\ b.tip = tip /\ b.best = best
       /\ tip = StartTip /\ owes = [p \in Peer |-> <<>>]
  BY <1>11, ClientIs DEF Init
<1>16. \A T : owes \in [Peer -> Seq(T)]
  BY <1>15
<1>17. Safe(b, ch)
  BY <1>10, <1>14, <1>15, <1>16 DEF Safe, OneAtWork, At
<1>18. StartsBehind => Sought(b, ch) /\ Alarm(b)
  BY <1>10, <1>12, <1>15 DEF StartsBehind, Sought, Alarm, At
<1> QED
  BY <1>10, <1>11, <1>12, <1>17, <1>18 DEF Sound, Good

(* Every step keeps the invariant and moves each peer as PeerLife allows.  *)
LEMMA StepSound ==
    ASSUME Sound, [Next]_vars
    PROVE  Sound' /\ Lives
<1>1. ASSUME NEW n \in Peer, Connected(n) PROVE Sound' /\ Lives
  BY <1>1, ConnectedStep
<1>2. ASSUME NEW n \in Peer, ConnectionLost(n) PROVE Sound' /\ Lives
  BY <1>2, ConnectionLostStep
<1>3. ASSUME NEW n \in Peer, Handshake(n) PROVE Sound' /\ Lives
  BY <1>3, HandshakeStep
<1>4. ASSUME NEW n \in Peer, NEW due \in BOOLEAN, NEW late \in BOOLEAN, TimerTick(n, due, late)
      PROVE  Sound' /\ Lives
  BY <1>4, TimerTickStep
<1>5. ASSUME NEW n \in Peer, Reply(n) PROVE Sound' /\ Lives
  BY <1>5, RecvHeadersStep, AnswerGetBlocksStep, RecvInvStep, RecvBlockStep,
     RecvStrayBlockStep DEF Reply
<1>6. ASSUME NEW n \in Peer, RecvBadBlock(n) PROVE Sound' /\ Lives
  BY <1>6, RecvBadBlockStep
<1>7. ASSUME NEW n \in Peer, RecvFaultyHeaders(n)
      PROVE  Sound' /\ Lives
  BY <1>7, RecvFaultyHeadersStep
<1>8. CASE Mine
  BY <1>8, MineStep
<1>9. CASE UNCHANGED vars
  <2>1. Client' = Client /\ chain' = chain /\ bad' = bad /\ nodes' = nodes
    BY <1>9 DEF vars, Client
  <2>2. Sound'
    BY <2>1 DEF Sound
  <2> QED
    BY <2>1, <2>2, StillLives
<1> QED
  BY <1>1, <1>2, <1>3, <1>4, <1>5, <1>6, <1>7, <1>8, <1>9 DEF Next

(* The invariant holds of every behaviour of the serial sync.              *)
THEOREM SyncSound == Spec => []Sound
<1>1. Init => Sound
  BY FirstSound
<1>2. Sound /\ [Next]_vars => Sound'
  BY StepSound
<1> QED
  BY <1>1, <1>2, PTL DEF Spec

(* The state of the client keeps its type: the tip never passes the chain  *)
(* the peers serve and no message asks for or brings what is above it.     *)
THEOREM SyncTypeCorrect == Spec => []TypeOK
<1>1. Sound => TypeOK
  <2> SUFFICES ASSUME Sound PROVE TypeOK
    OBVIOUS
  <2>1. PICK b, ch : b = Client /\ ch = chain
    OBVIOUS
  <2>2. /\ ch \in Nat /\ ch \in 0 .. MaxChain /\ b \in ClientAt(ch) /\ bad \in 0 .. MaxBad
    BY <2>1, SpvSyncAssumption DEF Sound, Good, Safe
  <2>3. /\ nodes \in [Peer -> NodeState] /\ best \in [Peer -> 0 .. ch]
        /\ lastInv \in [Peer -> 0 .. ch] /\ breq \in [Peer -> 0 .. Limit + 1]
        /\ hreq \in 0 .. Limit + 1 /\ mode \in {"headers", "blocks"}
        /\ tip \in 0 .. ch /\ completed \in BOOLEAN /\ owes \in [Peer -> Seq(Msg(ch))]
    BY <2>1, <2>2, ClientIs, ClientFields
  <2>4. \A x \in 0 .. ch : x \in 0 .. MaxChain
    BY <2>2, SpvSyncAssumption
  <2>5. best \in [Peer -> 0 .. MaxChain] /\ lastInv \in [Peer -> 0 .. MaxChain]
    BY <2>3, <2>4
  <2>6. ASSUME NEW n \in Peer, NEW i \in DOMAIN owes[n] PROVE owes[n][i] \in Message
    <3>1. owes[n] \in Seq(Msg(ch))
      BY <2>3
    <3>2. owes[n][i] \in Msg(ch)
      BY <3>1
    <3> QED
      BY <3>2 DEF Msg
  <2> QED
    BY <2>1, <2>2, <2>3, <2>5, <2>6 DEF TypeOK
<1> QED
  BY <1>1, SyncSound, PTL

(* dogecoin_net_spv_request_headers: until blocks begin at most one peer   *)
(* is at work, and on headers; from then on none is on headers.            *)
THEOREM OnePeerDownloads == Spec => []OneDownloader
<1>1. Sound => OneDownloader
  <2> SUFFICES ASSUME Sound PROVE OneDownloader
    OBVIOUS
  <2>1. OneAtWork(nodes, mode)
    BY ClientIs DEF Sound, Good, Safe
  <2>2. \A n \in Peer : \A f : {"CONNECTED", f} \subseteq nodes[n].state <=> At(nodes[n], f)
    BY DEF At
  <2> QED
    BY <2>1, <2>2 DEF OneAtWork, OneDownloader
<1> QED
  BY <1>1, SyncSound, PTL

(* A client that lacks a header when it starts never waits without the     *)
(* stall timer for a peer that answers as the protocol asks, nor for the   *)
(* answer of any peer at all.  It does wait so for a faulty peer that has  *)
(* answered with too few headers.  (A client that lacks none waits for     *)
(* honest peers too: the run SpvSync_restart shows what comes of it.)      *)
THEOREM HeaderSyncWatched ==
    ASSUME StartsBehind
    PROVE  Spec => []Watched
<1>1. Sound => Watched
  <2> SUFFICES ASSUME Sound PROVE Watched
    OBVIOUS
  <2>1. Alarm(Client)
    BY DEF Sound, Good
  <2> QED
    BY <2>1, ClientIs DEF Alarm, At, HeaderAt, Watched, Holds
<1> QED
  BY <1>1, SyncSound, PTL

(* The node group under the serial sync implements PeerLife, with its      *)
(* refills from callbacks, timeouts and misbehaving peers.                 *)
THEOREM SyncKeepsPeerLife == Spec => LifeSpec
<1> DEFINE ph == [n \in Peer |-> Phase(nodes[n])]
<1>1. Init => Life!Init
  <2> SUFFICES ASSUME Init PROVE Life!Init
    OBVIOUS
  <2>1. \A p \in Peer : Phase(nodes[p]) \in {"new", "dialling"}
    BY FirstSound
  <2> QED
    BY <2>1 DEF Life!Init
<1>2. Sound /\ [Next]_vars => [Life!Next]_ph
  <2> SUFFICES ASSUME Sound, [Next]_vars PROVE Life!Next
    OBVIOUS
  <2>1. Lives
    BY StepSound
  <2>2. \A nd : Phase(nd) \in Life!Phases
    BY DEF Phase, Life!Phases
  <2>3. /\ ph' \in [Peer -> Life!Phases]
        /\ \A p \in Peer : ph'[p] = ph[p] \/ <<ph[p], ph'[p]>> \in Life!Moves
    BY <2>1, <2>2 DEF Lives
  <2> QED
    BY <2>3 DEF Life!Next
<1> QED
  BY <1>1, <1>2, SyncSound, PTL DEF Spec, LifeSpec, Life!Spec
=============================================================================
