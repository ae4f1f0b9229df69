--------------------------- MODULE BroadcastProofs ---------------------------
(***************************************************************************)
(* The node group under a broadcast, for every number of peers and every   *)
(* limit: who owns events, what a dial starts with, how often a peer is    *)
(* counted, and that the group implements PeerLife.                        *)
(*                                                                         *)
(* The invariant is about one node at a time (Sane).  The first part says  *)
(* what the functions of the group do to a single node, for every table;   *)
(* the second follows the events.                                          *)
(***************************************************************************)
EXTENDS Broadcast, FiniteSetTheorems, TLAPS

-----------------------------------------------------------------------------
(* What the functions of the group do to the node they are about.          *)
Dial(nd) == [nd EXCEPT !.state = @ \cup {"CONNECTING"}, !.events = TRUE]
Rel(nd) == [nd EXCEPT !.events = FALSE]
Cut(nd) ==
    [nd EXCEPT !.state = (@ \ {"CONNECTING", "CONNECTED"}) \cup {"DISCONNECTED"},
               !.events = FALSE]
Ostr(nd) ==
    IF "MISSBEHAVED" \in nd.state /\ nd.state \cap {"CONNECTED", "CONNECTING"} # {}
    THEN Cut(nd) ELSE nd

(* What the events do to the node before the group is told.                *)
Conn(nd) == [nd EXCEPT !.state = (@ \cup {"CONNECTED"}) \ {"CONNECTING", "ERRORED"}]
Lost(nd) == [nd EXCEPT !.state = {"ERRORED", "DISCONNECTED"}]
Tout(nd) == [nd EXCEPT !.state = {"ERRORED", "TIMEOUT"}]
Misb(nd) == [nd EXCEPT !.state = @ \cup {"MISSBEHAVED"}]
Left(nd, rest) == [nd EXCEPT !.partial = rest]
Shake(nd) == [nd EXCEPT !.shaken = TRUE]

-----------------------------------------------------------------------------
(* The tests of the group, flag by flag.                                   *)
LEMMA Flags ==
    ASSUME NEW nd
    PROVE  /\ Dialable(nd) <=> /\ "CONNECTED" \notin nd.state
                               /\ "DISCONNECTED" \notin nd.state
                               /\ "CONNECTING" \notin nd.state
           /\ EventsOwned(nd) <=>
                 (nd.events <=> "CONNECTED" \in nd.state \/ "CONNECTING" \in nd.state)
           /\ Ostr(nd) = IF /\ "MISSBEHAVED" \in nd.state
                            /\ "CONNECTED" \in nd.state \/ "CONNECTING" \in nd.state
                         THEN Cut(nd) ELSE nd
<1>1. nd.state \cap {"CONNECTED", "CONNECTING"} # {}
        <=> "CONNECTED" \in nd.state \/ "CONNECTING" \in nd.state
  BY Zenon
<1>2. Dialable(nd) <=> /\ "CONNECTED" \notin nd.state
                       /\ "DISCONNECTED" \notin nd.state
                       /\ "CONNECTING" \notin nd.state
  BY Zenon DEF Dialable
<1> QED
  BY <1>1, <1>2 DEF EventsOwned, Ostr

(* The record updates keep the type of a node.                             *)
LEMMA NodeTypes ==
    ASSUME NEW nd \in NodeState
    PROVE  /\ Dial(nd) \in NodeState /\ Rel(nd) \in NodeState
           /\ Cut(nd) \in NodeState /\ Ostr(nd) \in NodeState
  BY DEF NodeState, Flag, Dial, Rel, Cut, Ostr

(* The fields of an updated node.                                          *)
LEMMA NodeFields ==
    ASSUME NEW nd \in NodeState
    PROVE  /\ Dial(nd).state = nd.state \cup {"CONNECTING"} /\ Dial(nd).events
           /\ (Dial(nd).shaken <=> nd.shaken) /\ (Dial(nd).partial <=> nd.partial)
           /\ Rel(nd).state = nd.state /\ ~Rel(nd).events
           /\ (Rel(nd).shaken <=> nd.shaken) /\ (Rel(nd).partial <=> nd.partial)
           /\ Cut(nd).state = (nd.state \ {"CONNECTING", "CONNECTED"}) \cup {"DISCONNECTED"}
           /\ ~Cut(nd).events
           /\ (Cut(nd).shaken <=> nd.shaken) /\ (Cut(nd).partial <=> nd.partial)
  BY DEF NodeState, Dial, Rel, Cut

(* The same for what the events do.                                        *)
LEMMA EventTypes ==
    ASSUME NEW nd \in NodeState
    PROVE  /\ Conn(nd) \in NodeState /\ Lost(nd) \in NodeState /\ Tout(nd) \in NodeState
           /\ Misb(nd) \in NodeState /\ Shake(nd) \in NodeState
  BY DEF NodeState, Flag, Conn, Lost, Tout, Misb, Shake

(* The fields after an event.                                              *)
LEMMA EventFields ==
    ASSUME NEW nd \in NodeState
    PROVE  /\ Conn(nd).state = (nd.state \cup {"CONNECTED"}) \ {"CONNECTING", "ERRORED"}
           /\ Lost(nd).state = {"ERRORED", "DISCONNECTED"}
           /\ Tout(nd).state = {"ERRORED", "TIMEOUT"}
           /\ Misb(nd).state = nd.state \cup {"MISSBEHAVED"}
           /\ Shake(nd).state = nd.state
           /\ (Conn(nd).events <=> nd.events) /\ (Lost(nd).events <=> nd.events)
           /\ (Tout(nd).events <=> nd.events) /\ (Misb(nd).events <=> nd.events)
           /\ (Shake(nd).events <=> nd.events)
           /\ (Conn(nd).shaken <=> nd.shaken) /\ (Lost(nd).shaken <=> nd.shaken)
           /\ (Tout(nd).shaken <=> nd.shaken) /\ (Misb(nd).shaken <=> nd.shaken)
           /\ Shake(nd).shaken
           /\ (Conn(nd).partial <=> nd.partial) /\ (Lost(nd).partial <=> nd.partial)
           /\ (Tout(nd).partial <=> nd.partial) /\ (Misb(nd).partial <=> nd.partial)
           /\ (Shake(nd).partial <=> nd.partial)
  BY DEF NodeState, Conn, Lost, Tout, Misb, Shake

(* The receive buffer after reading.                                       *)
LEMMA LeftFields ==
    ASSUME NEW nd \in NodeState, NEW rest \in BOOLEAN
    PROVE  /\ Left(nd, rest) \in NodeState
           /\ Left(nd, rest).state = nd.state /\ (Left(nd, rest).events <=> nd.events)
           /\ (Left(nd, rest).shaken <=> nd.shaken) /\ (Left(nd, rest).partial <=> rest)
  BY DEF NodeState, Left

(* connect_next_nodes dials some nodes that may be dialled and leaves the  *)
(* others alone.                                                           *)
LEMMA DialsSome ==
    ASSUME NEW N \in [Peer -> NodeState], NEW M \in ConnectNextNodes(N)
    PROVE  /\ M \in [Peer -> NodeState]
           /\ \A p \in Peer : M[p] = N[p] \/ (Dialable(N[p]) /\ M[p] = Dial(N[p]))
<1>1. PICK D \in SUBSET {p \in Peer : Dialable(N[p])} : M = N \/ M = Dialled(N, D)
  <2>1. \A k : FirstOf({p \in Peer : Dialable(N[p])}, k) \in SUBSET {p \in Peer : Dialable(N[p])}
    BY DEF FirstOf
  <2> QED
    BY <2>1 DEF ConnectNextNodes
<1>2. CASE M = N
  BY <1>2
<1>3. CASE M = Dialled(N, D)
  <2>1. \A p \in Peer : M[p] = IF p \in D THEN Dial(N[p]) ELSE N[p]
    BY <1>3 DEF Dialled, Dial
  <2>2. \A p \in Peer : Dial(N[p]) \in NodeState
    BY NodeTypes
  <2>3. M \in [Peer -> NodeState]
    <3>1. M = [p \in Peer |-> M[p]]
      BY <1>3 DEF Dialled
    <3> QED
      BY <2>1, <2>2, <3>1
  <2> QED
    BY <2>1, <2>3
<1> QED
  BY <1>1, <1>2, <1>3

(* dogecoin_node_connection_state_changed on node n: an errored node is    *)
(* released, and may be dialled again like any other; a misbehaving one is *)
(* disconnected in the end.                                                *)
Changed(N, n, M) ==
    /\ M \in [Peer -> NodeState]
    /\ \A p \in Peer \ {n} : M[p] = N[p] \/ (Dialable(N[p]) /\ M[p] = Dial(N[p]))
    /\ "ERRORED" \notin N[n].state => M[n] = Ostr(N[n])
    /\ "ERRORED" \in N[n].state =>
          \/ M[n] = Ostr(Rel(N[n]))
          \/ Dialable(Rel(N[n])) /\ M[n] = Ostr(Dial(Rel(N[n])))

(* Whatever the refill dials, that is all a state change does.             *)
LEMMA ChangesNode ==
    ASSUME NEW N \in [Peer -> NodeState], NEW n \in Peer, NEW more,
           NEW M \in StateChanged(N, n, more)
    PROVE  Changed(N, n, M)
<1> DEFINE E == ReleaseEvents(N, n)
<1>1. E = [N EXCEPT ![n] = Rel(N[n])] /\ E \in [Peer -> NodeState]
  BY NodeTypes DEF ReleaseEvents, Rel
<1>2. PICK K : /\ M = Ostracised(K, n)
               /\ \/ "ERRORED" \notin N[n].state /\ K = N
                  \/ "ERRORED" \in N[n].state /\ (K = E \/ K \in ConnectNextNodes(E))
  BY DEF StateChanged
<1> HIDE DEF E
<1>3. /\ K \in [Peer -> NodeState]
      /\ \A p \in Peer : \/ K[p] = N[p]
                         \/ p # n /\ Dialable(N[p]) /\ K[p] = Dial(N[p])
                         \/ p = n
      /\ "ERRORED" \notin N[n].state => K = N
      /\ "ERRORED" \in N[n].state =>
            K[n] = Rel(N[n]) \/ (Dialable(Rel(N[n])) /\ K[n] = Dial(Rel(N[n])))
  <2>1. E[n] = Rel(N[n]) /\ \A p \in Peer \ {n} : E[p] = N[p]
    BY <1>1
  <2>2. CASE "ERRORED" \notin N[n].state
    BY <1>2, <2>2
  <2>3. CASE "ERRORED" \in N[n].state /\ K = E
    BY <2>3, <2>1, <1>1
  <2>4. CASE "ERRORED" \in N[n].state /\ K \in ConnectNextNodes(E)
    <3>1. /\ K \in [Peer -> NodeState]
          /\ \A p \in Peer : K[p] = E[p] \/ (Dialable(E[p]) /\ K[p] = Dial(E[p]))
      BY <2>4, <1>1, DialsSome
    <3> QED
      BY <2>1, <2>4, <3>1
  <2> QED
    BY <1>2, <2>2, <2>3, <2>4
<1>4. M = [K EXCEPT ![n] = Ostr(K[n])]
  <2>1. Disconnect(K, n) = [K EXCEPT ![n] = Cut(K[n])]
    BY <1>3 DEF Disconnect, Cut
  <2>2. K = [K EXCEPT ![n] = K[n]]
    BY <1>3
  <2> QED
    BY <1>2, <2>1, <2>2 DEF Ostracised, Ostr
<1>5. M \in [Peer -> NodeState] /\ M[n] = Ostr(K[n]) /\ \A p \in Peer \ {n} : M[p] = K[p]
  BY <1>3, <1>4, NodeTypes
<1> QED
  BY <1>3, <1>5 DEF Changed

-----------------------------------------------------------------------------
(* A node that no function has left half-way: it owns events exactly while *)
(* it is dialled or connected, is at most one of dialled, connected and    *)
(* disconnected, is disconnected if it misbehaved, and has nothing of a    *)
(* connection before its first one.                                        *)
Sane(nd, h) ==
    /\ nd \in NodeState
    /\ EventsOwned(nd)
    /\ "CONNECTED" \in nd.state => "CONNECTING" \notin nd.state
    /\ "DISCONNECTED" \in nd.state =>
          "CONNECTED" \notin nd.state /\ "CONNECTING" \notin nd.state
    /\ "MISSBEHAVED" \in nd.state => "DISCONNECTED" \in nd.state
    /\ "CONNECTED" \notin nd.state /\ "DISCONNECTED" \notin nd.state =>
          ~nd.shaken /\ ~nd.partial /\ h = {}

(* A step of the group on one node that PeerLife allows.                   *)
Lives(nd, md) == Phase(md) = Phase(nd) \/ <<Phase(nd), Phase(md)>> \in Life!Moves

(* The node has asked for the transaction.                                 *)
Asked(nd, h) == "sent" \in h \/ "MISSBEHAVED" \in nd.state

Hint == {"inved", "sent", "seen"}

(* One node over a step: it stays sane, moves as PeerLife allows, and is   *)
(* not forgotten among those that asked.                                   *)
NodeStep(nd, h, md, k) ==
    /\ Sane(md, k) /\ Lives(nd, md)
    /\ Asked(nd, h) => Asked(md, k)

-----------------------------------------------------------------------------
(* The moves of PeerLife that a step of one node makes.                    *)
LEMMA LifeMoves ==
    /\ <<"new", "dialling">> \in Life!Moves /\ <<"dialling", "new">> \in Life!Moves
    /\ <<"dialling", "connected">> \in Life!Moves /\ <<"connected", "up">> \in Life!Moves
    /\ \A f \in {"new", "dialling", "connected", "up"} : <<f, "gone">> \in Life!Moves
  BY DEF Life!Moves

-----------------------------------------------------------------------------
(* One node under each event.                                              *)

(* Nothing happens to the node.                                            *)
LEMMA StayStep ==
    ASSUME NEW nd, NEW h, Sane(nd, h)
    PROVE  NodeStep(nd, h, nd, h)
  BY DEF NodeStep, Lives

(* A node that may be dialled is dialled: it has not misbehaved.           *)
LEMMA DialStep ==
    ASSUME NEW nd, NEW h, Sane(nd, h), Dialable(nd)
    PROVE  NodeStep(nd, h, Dial(nd), h)
<1>1. nd \in NodeState
  BY DEF Sane
<1> DEFINE d == Dial(nd)
<1>2. /\ d \in NodeState /\ d.state = nd.state \cup {"CONNECTING"} /\ d.events
      /\ (d.shaken <=> nd.shaken) /\ (d.partial <=> nd.partial)
  BY <1>1, NodeTypes, NodeFields
<1> HIDE DEF d
<1>3. /\ "CONNECTED" \notin nd.state /\ "DISCONNECTED" \notin nd.state
      /\ "CONNECTING" \notin nd.state /\ "MISSBEHAVED" \notin nd.state
      /\ ~nd.shaken /\ ~nd.partial /\ h = {}
  BY Flags DEF Sane
<1>4. Sane(d, h)
  BY <1>2, <1>3, Flags DEF Sane
<1>5. Lives(nd, d) /\ ~Asked(nd, h)
  BY <1>2, <1>3, LifeMoves DEF Lives, Phase, Asked
<1> QED
  BY <1>4, <1>5 DEF NodeStep, d

(* A dial succeeds.                                                        *)
LEMMA ConnStep ==
    ASSUME NEW nd, NEW h, Sane(nd, h), "CONNECTING" \in nd.state
    PROVE  NodeStep(nd, h, Ostr(Conn(nd)), h)
<1>1. nd \in NodeState
  BY DEF Sane
<1> DEFINE c == Conn(nd)
<1>2. /\ c \in NodeState /\ (c.events <=> nd.events)
      /\ c.state = (nd.state \cup {"CONNECTED"}) \ {"CONNECTING", "ERRORED"}
      /\ (c.shaken <=> nd.shaken)
  BY <1>1, EventTypes, EventFields
<1> HIDE DEF c
<1>3. /\ nd.events /\ "DISCONNECTED" \notin nd.state /\ "CONNECTED" \notin nd.state
      /\ "MISSBEHAVED" \notin nd.state /\ ~nd.shaken /\ h = {}
  BY Flags DEF Sane
<1>4. Ostr(c) = c
  BY <1>2, <1>3, Flags
<1>5. Sane(c, h)
  BY <1>2, <1>3, Flags DEF Sane
<1>6. Lives(nd, c) /\ ~Asked(nd, h)
  BY <1>2, <1>3, LifeMoves DEF Lives, Phase, Asked
<1> QED
  BY <1>4, <1>5, <1>6 DEF NodeStep, c

(* A node that has events is given up.                                     *)
LEMMA CutStep ==
    ASSUME NEW nd, NEW h, Sane(nd, h), nd.events
    PROVE  NodeStep(nd, h, Cut(nd), h)
<1>1. nd \in NodeState
  BY DEF Sane
<1>2. Sane(Cut(nd), h)
  BY <1>1, NodeTypes, NodeFields, Flags DEF Sane
<1>3. Lives(nd, Cut(nd)) /\ (Asked(nd, h) => Asked(Cut(nd), h))
  BY <1>1, NodeFields, Flags, LifeMoves DEF Sane, Lives, Phase, Asked
<1> QED
  BY <1>2, <1>3 DEF NodeStep

(* A connection is lost: the node is released and not dialled again.       *)
LEMMA LostStep ==
    ASSUME NEW nd, NEW h, Sane(nd, h), nd.events
    PROVE  /\ ~Dialable(Rel(Lost(nd)))
           /\ NodeStep(nd, h, Ostr(Rel(Lost(nd))), h)
<1>1. nd \in NodeState /\ Lost(nd) \in NodeState /\ Rel(Lost(nd)) \in NodeState
  BY EventTypes, NodeTypes DEF Sane
<1>2. /\ Rel(Lost(nd)).state = {"ERRORED", "DISCONNECTED"}
      /\ ~Rel(Lost(nd)).events
  BY <1>1, EventFields, NodeFields
<1>3. Ostr(Rel(Lost(nd))) = Rel(Lost(nd)) /\ ~Dialable(Rel(Lost(nd)))
  BY <1>2, Flags
<1>4. Sane(Rel(Lost(nd)), h)
  BY <1>1, <1>2, Flags DEF Sane
<1>5. Lives(nd, Rel(Lost(nd))) /\ (Asked(nd, h) => Asked(Rel(Lost(nd)), h))
  BY <1>1, <1>2, Flags, LifeMoves DEF Sane, Lives, Phase, Asked
<1> QED
  BY <1>3, <1>4, <1>5 DEF NodeStep

(* A dial times out: the node is released, and perhaps dialled again.      *)
LEMMA ToutStep ==
    ASSUME NEW nd, NEW h, Sane(nd, h), "CONNECTING" \in nd.state
    PROVE  /\ NodeStep(nd, h, Ostr(Rel(Tout(nd))), h)
           /\ NodeStep(nd, h, Ostr(Dial(Rel(Tout(nd)))), h)
<1> DEFINE r == Rel(Tout(nd))
           d == Dial(Rel(Tout(nd)))
<1>1. nd \in NodeState /\ r \in NodeState /\ d \in NodeState
  BY EventTypes, NodeTypes DEF Sane
<1>2. /\ r.state = {"ERRORED", "TIMEOUT"} /\ ~r.events
      /\ (r.shaken <=> nd.shaken) /\ (r.partial <=> nd.partial)
  <2>1. Tout(nd) \in NodeState
    BY <1>1, EventTypes
  <2>2. /\ Tout(nd).state = {"ERRORED", "TIMEOUT"}
        /\ (Tout(nd).shaken <=> nd.shaken) /\ (Tout(nd).partial <=> nd.partial)
    BY <1>1, EventFields
  <2>3. /\ r.state = Tout(nd).state /\ ~r.events
        /\ (r.shaken <=> Tout(nd).shaken) /\ (r.partial <=> Tout(nd).partial)
    BY <2>1, NodeFields
  <2> QED
    BY <2>2, <2>3
<1>3. /\ d.state = {"ERRORED", "TIMEOUT", "CONNECTING"} /\ d.events
      /\ (d.shaken <=> nd.shaken) /\ (d.partial <=> nd.partial)
  BY <1>1, <1>2, NodeFields
<1> HIDE DEF r, d
<1>4. Ostr(r) = r /\ Ostr(d) = d
  BY <1>2, <1>3, Flags
<1>5. ~nd.shaken /\ ~nd.partial /\ h = {} /\ "MISSBEHAVED" \notin nd.state
      /\ "CONNECTED" \notin nd.state
  BY DEF Sane
<1>6. Sane(r, h) /\ Sane(d, h)
  BY <1>1, <1>2, <1>3, <1>5, Flags DEF Sane
<1>7. Lives(nd, r) /\ Lives(nd, d) /\ ~Asked(nd, h)
  BY <1>2, <1>3, <1>5, Flags, LifeMoves DEF Lives, Phase, Asked
<1> QED
  BY <1>4, <1>6, <1>7 DEF NodeStep, r, d

(* A message is read and leaves the connection as it is; the node may have *)
(* got a hint, and may have shaken hands.                                  *)
LEMMA ReadStep ==
    ASSUME NEW nd, NEW h, NEW k, NEW rest \in BOOLEAN,
           Sane(nd, h), "CONNECTED" \in nd.state, h \subseteq k
    PROVE  /\ NodeStep(nd, h, Left(nd, rest), k)
           /\ NodeStep(nd, h, Shake(Left(nd, rest)), k)
<1> DEFINE l == Left(nd, rest)
           s == Shake(Left(nd, rest))
<1>1. nd \in NodeState /\ l \in NodeState /\ s \in NodeState
  BY LeftFields, EventTypes DEF Sane
<1>2. l.state = nd.state /\ (l.events <=> nd.events) /\ (l.shaken <=> nd.shaken)
  BY <1>1, LeftFields
<1>3. s.state = nd.state /\ (s.events <=> nd.events) /\ s.shaken
  BY <1>1, <1>2, EventFields
<1> HIDE DEF l, s
<1>4. Sane(l, k) /\ Sane(s, k)
  BY <1>1, <1>2, <1>3, Flags DEF Sane
<1>5. Lives(nd, l) /\ Lives(nd, s)
  BY <1>2, <1>3, LifeMoves DEF Lives, Phase
<1>6. Asked(nd, h) => Asked(l, k) /\ Asked(s, k)
  BY <1>2, <1>3 DEF Asked
<1> QED
  BY <1>4, <1>5, <1>6 DEF NodeStep, l, s

(* A message is read that ends the connection.                             *)
LEMMA ReadCutStep ==
    ASSUME NEW nd, NEW h, NEW rest \in BOOLEAN, Sane(nd, h), "CONNECTED" \in nd.state
    PROVE  NodeStep(nd, h, Cut(Left(nd, rest)), h)
<1> DEFINE l == Left(nd, rest)
<1>1. nd \in NodeState
  BY DEF Sane
<1>2. Sane(l, h)
  BY ReadStep DEF NodeStep
<1>3. l.state = nd.state /\ (l.events <=> nd.events) /\ (l.shaken <=> nd.shaken)
  BY <1>1, LeftFields
<1> HIDE DEF l
<1>4. nd.events
  BY Flags DEF Sane
<1>5. NodeStep(l, h, Cut(l), h)
  BY <1>2, <1>3, <1>4, CutStep
<1>6. Phase(l) = Phase(nd) /\ (Asked(nd, h) => Asked(l, h))
  BY <1>3 DEF Phase, Asked
<1> QED
  BY <1>5, <1>6 DEF NodeStep, Lives, l

(* A message is read that breaks the rules: the node is cut off, errored   *)
(* or not, and remembered as misbehaving.                                  *)
LEMMA MisbStep ==
    ASSUME NEW nd, NEW h, NEW rest \in BOOLEAN, Sane(nd, h), "CONNECTED" \in nd.state
    PROVE  /\ ~Dialable(Rel(Misb(Left(nd, rest))))
           /\ NodeStep(nd, h, Ostr(Misb(Left(nd, rest))), h)
           /\ NodeStep(nd, h, Ostr(Rel(Misb(Left(nd, rest)))), h)
           /\ "MISSBEHAVED" \in Ostr(Misb(Left(nd, rest))).state
           /\ "MISSBEHAVED" \in Ostr(Rel(Misb(Left(nd, rest)))).state
<1> DEFINE m == Misb(Left(nd, rest))
           r == Rel(Misb(Left(nd, rest)))
<1>1. nd \in NodeState /\ Left(nd, rest) \in NodeState /\ m \in NodeState /\ r \in NodeState
  BY LeftFields, EventTypes, NodeTypes DEF Sane
<1>2. Left(nd, rest).state = nd.state
  BY <1>1, LeftFields
<1>3. m.state = nd.state \cup {"MISSBEHAVED"}
  BY <1>1, <1>2, EventFields
<1>4. r.state = nd.state \cup {"MISSBEHAVED"}
  BY <1>1, <1>3, NodeFields
<1> HIDE DEF m, r
<1>5. Ostr(m) = Cut(m) /\ Ostr(r) = Cut(r) /\ ~Dialable(r)
  BY <1>3, <1>4, Flags
<1>6. ASSUME NEW x \in NodeState, x.state = nd.state \cup {"MISSBEHAVED"}
      PROVE  NodeStep(nd, h, Cut(x), h) /\ "MISSBEHAVED" \in Cut(x).state
  <2> DEFINE c == Cut(x)
  <2>1. /\ c \in NodeState /\ ~c.events
        /\ c.state = ((nd.state \cup {"MISSBEHAVED"}) \ {"CONNECTING", "CONNECTED"})
                        \cup {"DISCONNECTED"}
    BY <1>6, NodeTypes, NodeFields
  <2> HIDE DEF c
  <2>2. Sane(c, h)
    BY <2>1, Flags DEF Sane
  <2>3. Lives(nd, c) /\ Asked(c, h) /\ "MISSBEHAVED" \in c.state
    BY <2>1, LifeMoves DEF Lives, Phase, Asked
  <2> QED
    BY <2>2, <2>3 DEF NodeStep, c
<1> QED
  BY <1>1, <1>3, <1>4, <1>5, <1>6 DEF m, r

-----------------------------------------------------------------------------
(* The whole group over a step.                                            *)

(* The types of the tables, and every node as no function leaves it half-  *)
(* way.                                                                    *)
GroupSane ==
    /\ nodes \in [Peer -> NodeState]
    /\ hints \in [Peer -> SUBSET Hint]
    /\ \A p \in Peer : Sane(nodes[p], hints[p])

(* Every node has made a step of its own.                                  *)
Steps ==
    /\ nodes' \in [Peer -> NodeState]
    /\ hints' \in [Peer -> SUBSET Hint]
    /\ \A p \in Peer : NodeStep(nodes[p], hints[p], nodes'[p], hints'[p])

(* A step that ends in dogecoin_node_connection_state_changed: it is enough*)
(* to look at the node it is about.                                        *)
LEMMA ChangeSteps ==
    ASSUME GroupSane, NEW n \in Peer, NEW N, NEW nd \in NodeState,
           N = [nodes EXCEPT ![n] = nd],
           nodes' \in StateChanged(N, n, ShouldConnectMore), UNCHANGED hints,
           "ERRORED" \notin nd.state => NodeStep(nodes[n], hints[n], Ostr(nd), hints[n]),
           "ERRORED" \in nd.state =>
              /\ NodeStep(nodes[n], hints[n], Ostr(Rel(nd)), hints[n])
              /\ Dialable(Rel(nd)) => NodeStep(nodes[n], hints[n], Ostr(Dial(Rel(nd))), hints[n])
    PROVE  Steps
<1>1. N \in [Peer -> NodeState] /\ N[n] = nd /\ \A p \in Peer \ {n} : N[p] = nodes[p]
  BY DEF GroupSane
<1>2. PICK M, more : M = nodes' /\ more = ShouldConnectMore
  OBVIOUS
<1>3. /\ nodes' \in [Peer -> NodeState]
      /\ \A p \in Peer \ {n} : \/ nodes'[p] = N[p]
                               \/ Dialable(N[p]) /\ nodes'[p] = Dial(N[p])
      /\ "ERRORED" \notin nd.state => nodes'[n] = Ostr(nd)
      /\ "ERRORED" \in nd.state =>
            \/ nodes'[n] = Ostr(Rel(nd))
            \/ Dialable(Rel(nd)) /\ nodes'[n] = Ostr(Dial(Rel(nd)))
  <2>1. M \in StateChanged(N, n, more)
    BY <1>2
  <2>2. Changed(N, n, M)
    BY <1>1, <2>1, ChangesNode
  <2> QED
    BY <1>1, <1>2, <2>2 DEF Changed
<1>4. ASSUME NEW p \in Peer
      PROVE  NodeStep(nodes[p], hints[p], nodes'[p], hints[p])
  <2>1. CASE p = n
    BY <1>3, <2>1
  <2>2. CASE p # n
    <3>1. Sane(nodes[p], hints[p])
      BY DEF GroupSane
    <3>2. nodes'[p] = nodes[p] \/ (Dialable(nodes[p]) /\ nodes'[p] = Dial(nodes[p]))
      BY <1>1, <1>3, <2>2
    <3> QED
      BY <3>1, <3>2, StayStep, DialStep
  <2> QED
    BY <2>1, <2>2
<1> QED
  BY <1>3, <1>4 DEF Steps, GroupSane

(* A step that changes one node and at most the hints of that node.        *)
LEMMA OneSteps ==
    ASSUME GroupSane, NEW n \in Peer, NEW nd \in NodeState, NEW k \in SUBSET Hint,
           nodes' = [nodes EXCEPT ![n] = nd],
           hints' = [hints EXCEPT ![n] = k],
           NodeStep(nodes[n], hints[n], nd, k)
    PROVE  Steps
<1>1. ASSUME NEW p \in Peer
      PROVE  NodeStep(nodes[p], hints[p], nodes'[p], hints'[p])
  <2>1. CASE p = n
    BY <2>1 DEF GroupSane
  <2>2. CASE p # n
    <3>1. Sane(nodes[p], hints[p]) /\ nodes'[p] = nodes[p] /\ hints'[p] = hints[p]
      BY <2>2 DEF GroupSane
    <3> QED
      BY <3>1, StayStep
  <2> QED
    BY <2>1, <2>2
<1> QED
  BY <1>1 DEF Steps, GroupSane

(* What the actions do to the table, as changes of one node.               *)
LEMMA TableUpdates ==
    ASSUME GroupSane, NEW n \in Peer, NEW rest \in BOOLEAN
    PROVE  /\ nodes[n] \in NodeState /\ Sane(nodes[n], hints[n]) /\ hints[n] \in SUBSET Hint
           /\ hints = [hints EXCEPT ![n] = hints[n]]
           /\ MarkConnected(nodes, n) = [nodes EXCEPT ![n] = Conn(nodes[n])]
           /\ MarkLost(nodes, n) = [nodes EXCEPT ![n] = Lost(nodes[n])]
           /\ MarkTimeout(nodes, n) = [nodes EXCEPT ![n] = Tout(nodes[n])]
           /\ Disconnect(nodes, n) = [nodes EXCEPT ![n] = Cut(nodes[n])]
           /\ Leave(nodes, n, rest) = [nodes EXCEPT ![n] = Left(nodes[n], rest)]
           /\ MarkMisbehaved(Leave(nodes, n, rest), n)
                 = [nodes EXCEPT ![n] = Misb(Left(nodes[n], rest))]
           /\ Disconnect(Leave(nodes, n, rest), n)
                 = [nodes EXCEPT ![n] = Cut(Left(nodes[n], rest))]
           /\ [Leave(nodes, n, rest) EXCEPT ![n].shaken = TRUE]
                 = [nodes EXCEPT ![n] = Shake(Left(nodes[n], rest))]
<1> USE DEF GroupSane
<1>1. /\ nodes[n] \in NodeState /\ Sane(nodes[n], hints[n]) /\ hints[n] \in SUBSET Hint
      /\ hints = [hints EXCEPT ![n] = hints[n]]
  OBVIOUS
<1>2. /\ MarkConnected(nodes, n) = [nodes EXCEPT ![n] = Conn(nodes[n])]
      /\ MarkLost(nodes, n) = [nodes EXCEPT ![n] = Lost(nodes[n])]
      /\ MarkTimeout(nodes, n) = [nodes EXCEPT ![n] = Tout(nodes[n])]
  BY DEF MarkConnected, MarkLost, MarkTimeout, Conn, Lost, Tout
<1>3. ASSUME NEW N \in [Peer -> NodeState]
      PROVE  /\ Disconnect(N, n) = [N EXCEPT ![n] = Cut(N[n])]
             /\ MarkMisbehaved(N, n) = [N EXCEPT ![n] = Misb(N[n])]
             /\ [N EXCEPT ![n].shaken = TRUE] = [N EXCEPT ![n] = Shake(N[n])]
  BY <1>3 DEF Disconnect, MarkMisbehaved, Cut, Misb, Shake
<1>4. Leave(nodes, n, rest) = [nodes EXCEPT ![n] = Left(nodes[n], rest)]
  BY DEF Leave, Left
<1> DEFINE L == Leave(nodes, n, rest)
<1>5. L \in [Peer -> NodeState] /\ L[n] = Left(nodes[n], rest)
  BY <1>1, <1>4, LeftFields
<1>6. \A x : [L EXCEPT ![n] = x] = [nodes EXCEPT ![n] = x]
  BY <1>4
<1> HIDE DEF L
<1>7. /\ MarkMisbehaved(L, n) = [nodes EXCEPT ![n] = Misb(Left(nodes[n], rest))]
      /\ Disconnect(L, n) = [nodes EXCEPT ![n] = Cut(Left(nodes[n], rest))]
      /\ [L EXCEPT ![n].shaken = TRUE] = [nodes EXCEPT ![n] = Shake(Left(nodes[n], rest))]
  BY <1>3, <1>5, <1>6
<1> QED
  BY <1>1, <1>2, <1>3, <1>4, <1>7 DEF L

(* dogecoin_node_misbehave on a node that is connected.                    *)
LEMMA MisbehaveSteps ==
    ASSUME GroupSane, NEW n \in Peer, NEW rest \in BOOLEAN, CanRead(n),
           nodes' \in Misbehave(Leave(nodes, n, rest), n), UNCHANGED hints
    PROVE  Steps /\ "MISSBEHAVED" \in nodes'[n].state
<1> DEFINE nd == Misb(Left(nodes[n], rest))
           N == MarkMisbehaved(Leave(nodes, n, rest), n)
<1>1. N = [nodes EXCEPT ![n] = nd] /\ Sane(nodes[n], hints[n]) /\ nodes[n] \in NodeState
  BY TableUpdates
<1>2. nd \in NodeState
  BY <1>1, LeftFields, EventTypes
<1>3. "CONNECTED" \in nodes[n].state
  BY DEF CanRead
<1>4. /\ ~Dialable(Rel(nd))
      /\ NodeStep(nodes[n], hints[n], Ostr(nd), hints[n])
      /\ NodeStep(nodes[n], hints[n], Ostr(Rel(nd)), hints[n])
      /\ "MISSBEHAVED" \in Ostr(nd).state /\ "MISSBEHAVED" \in Ostr(Rel(nd)).state
  BY <1>1, <1>3, MisbStep
<1>5. nodes' \in StateChanged(N, n, ShouldConnectMore)
  BY DEF Misbehave
<1> HIDE DEF nd, N
<1>6. Steps
  BY <1>1, <1>2, <1>4, <1>5, ChangeSteps
<1>7. "MISSBEHAVED" \in nodes'[n].state
  <2>1. N \in [Peer -> NodeState] /\ N[n] = nd
    BY <1>1, <1>2 DEF GroupSane
  <2>2. PICK M, more : M = nodes' /\ more = ShouldConnectMore
    OBVIOUS
  <2>3. M \in StateChanged(N, n, more)
    BY <1>5, <2>2
  <2>4. Changed(N, n, M)
    BY <2>1, <2>3, ChangesNode
  <2> QED
    BY <1>4, <2>1, <2>2, <2>4 DEF Changed
<1> QED
  BY <1>6, <1>7

(* Every step of the broadcast is a step of each node.                     *)
LEMMA EveryStep ==
    ASSUME GroupSane, [Next]_vars
    PROVE  Steps
<1>1. ASSUME NEW n \in Peer, Connected(n)
      PROVE  Steps
  <2>1. nodes' \in StateChanged(MarkConnected(nodes, n), n, ShouldConnectMore) /\ UNCHANGED hints
    BY <1>1 DEF Connected
  <2>2. /\ MarkConnected(nodes, n) = [nodes EXCEPT ![n] = Conn(nodes[n])]
        /\ nodes[n] \in NodeState /\ Sane(nodes[n], hints[n])
    BY TableUpdates
  <2>3. Conn(nodes[n]) \in NodeState /\ "ERRORED" \notin Conn(nodes[n]).state
    <3>1. Conn(nodes[n]).state = (nodes[n].state \cup {"CONNECTED"}) \ {"CONNECTING", "ERRORED"}
      BY <2>2, EventFields
    <3> QED
      BY <2>2, <3>1, EventTypes
  <2>4. NodeStep(nodes[n], hints[n], Ostr(Conn(nodes[n])), hints[n])
    BY <1>1, <2>2, ConnStep DEF Connected
  <2> QED
    BY <2>1, <2>2, <2>3, <2>4, ChangeSteps
<1>2. ASSUME NEW n \in Peer, ConnectionLost(n)
      PROVE  Steps
  <2>1. nodes' \in StateChanged(MarkLost(nodes, n), n, ShouldConnectMore) /\ UNCHANGED hints
    BY <1>2 DEF ConnectionLost
  <2>2. /\ MarkLost(nodes, n) = [nodes EXCEPT ![n] = Lost(nodes[n])]
        /\ nodes[n] \in NodeState /\ Sane(nodes[n], hints[n])
    BY TableUpdates
  <2>3. Lost(nodes[n]) \in NodeState /\ "ERRORED" \in Lost(nodes[n]).state
    <3>1. Lost(nodes[n]).state = {"ERRORED", "DISCONNECTED"}
      BY <2>2, EventFields
    <3> QED
      BY <2>2, <3>1, EventTypes
  <2>4. /\ ~Dialable(Rel(Lost(nodes[n])))
        /\ NodeStep(nodes[n], hints[n], Ostr(Rel(Lost(nodes[n]))), hints[n])
    BY <1>2, <2>2, LostStep DEF ConnectionLost
  <2> QED
    BY <2>1, <2>2, <2>3, <2>4, ChangeSteps
<1>3. ASSUME NEW n \in Peer, TimerTick(n)
      PROVE  Steps
  <2>1. nodes[n].events /\ UNCHANGED hints
    BY <1>3 DEF TimerTick
  <2>2. nodes[n] \in NodeState /\ Sane(nodes[n], hints[n])
    BY TableUpdates
  <2>3. CASE nodes' = Disconnect(nodes, n)
    <3>1. /\ nodes' = [nodes EXCEPT ![n] = Cut(nodes[n])] /\ hints[n] \in SUBSET Hint
          /\ hints' = [hints EXCEPT ![n] = hints[n]]
      BY <2>1, <2>3, TableUpdates
    <3>2. Cut(nodes[n]) \in NodeState /\ NodeStep(nodes[n], hints[n], Cut(nodes[n]), hints[n])
      BY <2>1, <2>2, NodeTypes, CutStep
    <3> QED
      BY <3>1, <3>2, OneSteps
  <2>4. CASE /\ "CONNECTING" \in nodes[n].state
             /\ nodes' \in StateChanged(MarkTimeout(nodes, n), n, ShouldConnectMore)
    <3>1. MarkTimeout(nodes, n) = [nodes EXCEPT ![n] = Tout(nodes[n])]
      BY TableUpdates
    <3>2. Tout(nodes[n]) \in NodeState /\ "ERRORED" \in Tout(nodes[n]).state
      BY <2>2, EventTypes, EventFields
    <3>3. /\ NodeStep(nodes[n], hints[n], Ostr(Rel(Tout(nodes[n]))), hints[n])
          /\ NodeStep(nodes[n], hints[n], Ostr(Dial(Rel(Tout(nodes[n])))), hints[n])
      BY <2>2, <2>4, ToutStep
    <3> QED
      BY <2>1, <2>4, <3>1, <3>2, <3>3, ChangeSteps
  <2> QED
    BY <1>3, <2>3, <2>4 DEF TimerTick
<1>4. ASSUME NEW n \in Peer, Garbled(n)
      PROVE  Steps
  BY <1>4, MisbehaveSteps DEF Garbled
<1>5. ASSUME NEW n \in Peer, NEW rest \in BOOLEAN,
             \/ Idle(n, rest) \/ RecvVerack(n, rest) \/ RecvInv(n, rest) \/ RecvGetdata(n, rest)
      PROVE  Steps
  <2> DEFINE l == Left(nodes[n], rest)
  <2>1. /\ nodes[n] \in NodeState /\ Sane(nodes[n], hints[n]) /\ hints[n] \in SUBSET Hint
        /\ hints = [hints EXCEPT ![n] = hints[n]]
        /\ Leave(nodes, n, rest) = [nodes EXCEPT ![n] = l]
        /\ [Leave(nodes, n, rest) EXCEPT ![n].shaken = TRUE] = [nodes EXCEPT ![n] = Shake(l)]
    BY TableUpdates
  <2>2. "CONNECTED" \in nodes[n].state
    BY <1>5 DEF Idle, RecvVerack, RecvInv, RecvGetdata, CanRead
  <2>3. l \in NodeState /\ Shake(l) \in NodeState
    BY <2>1, LeftFields, EventTypes
  <2>4. ASSUME NEW k \in SUBSET Hint, hints[n] \subseteq k
        PROVE  /\ NodeStep(nodes[n], hints[n], l, k)
               /\ NodeStep(nodes[n], hints[n], Shake(l), k)
    BY <2>1, <2>2, <2>4, ReadStep
  <2>5. PICK k \in SUBSET Hint : hints[n] \subseteq k /\ hints' = [hints EXCEPT ![n] = k]
    <3> DEFINE K == {hints[n]} \cup {hints[n] \cup {x} : x \in Hint}
    <3>1. \E k \in K : hints' = [hints EXCEPT ![n] = k]
      BY <1>5, <2>1 DEF Idle, RecvVerack, RecvInv, RecvGetdata, Hint
    <3>2. \A k \in K : k \in SUBSET Hint /\ hints[n] \subseteq k
      BY <2>1
    <3> QED
      BY <3>1, <3>2
  <2>6. nodes' = [nodes EXCEPT ![n] = l] \/ nodes' = [nodes EXCEPT ![n] = Shake(l)]
    BY <1>5, <2>1 DEF Idle, RecvVerack, RecvInv, RecvGetdata
  <2> HIDE DEF l
  <2> QED
    BY <2>3, <2>4, <2>5, <2>6, OneSteps
<1>6. ASSUME NEW n \in Peer, NEW rest \in BOOLEAN, RecvVersionNoNetwork(n, rest)
      PROVE  Steps
  <2>1. nodes' = Disconnect(Leave(nodes, n, rest), n) /\ UNCHANGED hints
    BY <1>6 DEF RecvVersionNoNetwork
  <2>2. /\ nodes' = [nodes EXCEPT ![n] = Cut(Left(nodes[n], rest))]
        /\ hints' = [hints EXCEPT ![n] = hints[n]] /\ hints[n] \in SUBSET Hint
        /\ nodes[n] \in NodeState /\ Sane(nodes[n], hints[n])
    BY <2>1, TableUpdates
  <2>3. Cut(Left(nodes[n], rest)) \in NodeState
    BY <2>2, LeftFields, NodeTypes
  <2>4. NodeStep(nodes[n], hints[n], Cut(Left(nodes[n], rest)), hints[n])
    BY <1>6, <2>2, ReadCutStep DEF RecvVersionNoNetwork, CanRead
  <2> QED
    BY <2>2, <2>3, <2>4, OneSteps
<1>7. ASSUME NEW n \in Peer, NEW rest \in BOOLEAN, RecvGetdataOther(n, rest)
      PROVE  Steps
  BY <1>7, MisbehaveSteps DEF RecvGetdataOther
<1>8. CASE UNCHANGED <<nodes, hints>>
  BY <1>8, StayStep DEF Steps, GroupSane
<1> QED
  BY <1>1, <1>2, <1>3, <1>4, <1>5, <1>6, <1>7, <1>8
     DEF Next, Recv, TimePasses, Done, vars

-----------------------------------------------------------------------------
(* The inductive invariant.                                                *)

(* The counters have their types.                                          *)
CountersTyped ==
    /\ connected \in 0 .. MaxCount /\ inved \in 0 .. MaxPeers
    /\ getdata \in Nat /\ found \in 0 .. MaxCount
    /\ expired \in BOOLEAN

(* Peers are counted where they are remembered.                            *)
Askers == {n \in Peer : Asked(nodes[n], hints[n])}

Sound == GroupSane /\ CountersTyped /\ getdata <= Cardinality(Askers)

(* The group before the first event: some nodes are dialled.               *)
LEMMA FirstDials ==
    ASSUME Init
    PROVE  /\ GroupSane
           /\ \A p \in Peer : Phase(nodes[p]) \in {"new", "dialling"}
<1> DEFINE N == [n \in Peer |-> NewNode]
<1>1. NewNode \in NodeState
  BY DEF NewNode, NodeState, Flag
<1>2. NewNode.state = {} /\ ~NewNode.events /\ ~NewNode.shaken /\ ~NewNode.partial
  BY DEF NewNode
<1>3. Sane(NewNode, {}) /\ Phase(NewNode) = "new"
  BY <1>1, <1>2, Flags DEF Sane, Phase
<1>4. Dialable(NewNode) => Sane(Dial(NewNode), {})
  BY <1>3, DialStep DEF NodeStep
<1>5. Phase(Dial(NewNode)) = "dialling"
  <2>1. Dial(NewNode).state = {"CONNECTING"}
    BY <1>1, <1>2, NodeFields
  <2> QED
    BY <2>1 DEF Phase
<1>6. N \in [Peer -> NodeState] /\ \A p \in Peer : N[p] = NewNode
  BY <1>1
<1>7. PICK M : M = nodes /\ M \in ConnectNextNodes(N)
  BY DEF Init
<1> HIDE DEF N
<1>8. /\ M \in [Peer -> NodeState]
      /\ \A p \in Peer : M[p] = N[p] \/ (Dialable(N[p]) /\ M[p] = Dial(N[p]))
  BY <1>6, <1>7, DialsSome
<1>9. hints = [n \in Peer |-> {}]
  BY DEF Init
<1>10. \A p \in Peer : nodes[p] = NewNode \/ (Dialable(NewNode) /\ nodes[p] = Dial(NewNode))
  BY <1>6, <1>7, <1>8
<1>11. /\ nodes \in [Peer -> NodeState] /\ hints \in [Peer -> SUBSET Hint]
       /\ \A p \in Peer : hints[p] = {}
  BY <1>7, <1>8, <1>9
<1> QED
  BY <1>3, <1>4, <1>5, <1>10, <1>11 DEF GroupSane

(* Each getdata that is counted is the first of its peer.                  *)
LEMMA CountedOnce ==
    ASSUME GroupSane, [Next]_vars
    PROVE  \/ UNCHANGED getdata
           \/ /\ getdata' = getdata + 1
              /\ \E n \in Peer : n \notin Askers /\ n \in Askers'
<1>1. ASSUME NEW n \in Peer, CanRead(n), "sent" \notin hints[n]
      PROVE  n \notin Askers
  <2>1. Sane(nodes[n], hints[n]) /\ "CONNECTED" \in nodes[n].state
    BY <1>1 DEF GroupSane, CanRead
  <2> QED
    BY <1>1, <2>1 DEF Askers, Asked, Sane
<1>2. ASSUME NEW n \in Peer, NEW rest \in BOOLEAN, RecvGetdata(n, rest)
      PROVE  getdata' = getdata + 1 /\ n \notin Askers /\ n \in Askers'
  <2>1. "sent" \in hints'[n]
    BY <1>2 DEF RecvGetdata, GroupSane
  <2> QED
    BY <1>1, <1>2, <2>1 DEF RecvGetdata, Askers, Asked
<1>3. ASSUME NEW n \in Peer, NEW rest \in BOOLEAN, RecvGetdataOther(n, rest)
      PROVE  getdata' = getdata + 1 /\ n \notin Askers /\ n \in Askers'
  <2>1. "MISSBEHAVED" \in nodes'[n].state
    BY <1>3, MisbehaveSteps DEF RecvGetdataOther
  <2> QED
    BY <1>1, <1>3, <2>1 DEF RecvGetdataOther, Askers, Asked
<1> QED
  BY <1>2, <1>3
     DEF Next, Connected, ConnectionLost, TimerTick, Recv, Garbled, Idle, RecvVersionNoNetwork,
         RecvVerack, RecvInv, TimePasses, Done, counters, vars

(* The counters keep their types, and those who asked are not forgotten.   *)
LEMMA StepSound ==
    ASSUME Sound, [Next]_vars
    PROVE  Sound'
<1> USE DEF Sound
<1>1. Steps
  BY EveryStep
<1>2. GroupSane'
  BY <1>1 DEF Steps, NodeStep, GroupSane
<1>3. CountersTyped'
  <2>1. MaxCount \in Nat /\ MaxPeers \in Nat
    BY BroadcastAssumption, NodeGroupAssumption
  <2>2. /\ connected' = connected \/ (connected < MaxCount /\ connected' = connected + 1)
        /\ inved' = inved \/ (inved < MaxPeers /\ inved' = inved + 1)
        /\ found' = found \/ (found < MaxCount /\ found' = found + 1)
    <3>1. ASSUME NEW n \in Peer, NEW rest \in BOOLEAN, RecvVerack(n, rest)
          PROVE  /\ connected < MaxCount /\ connected' = connected + 1 /\ found' = found
                 /\ inved' = inved \/ (inved < MaxPeers /\ inved' = inved + 1)
      BY <3>1 DEF RecvVerack, InvAllowed
    <3>2. ASSUME NEW n \in Peer, NEW rest \in BOOLEAN, RecvInv(n, rest)
          PROVE  /\ found < MaxCount /\ found' = found + 1
                 /\ connected' = connected /\ inved' = inved
      BY <3>2 DEF RecvInv
    <3>3. \/ connected' = connected /\ inved' = inved /\ found' = found
          \/ \E n \in Peer, rest \in BOOLEAN : RecvVerack(n, rest) \/ RecvInv(n, rest)
      BY DEF Next, Connected, ConnectionLost, TimerTick, Recv, Garbled, Idle,
         RecvVersionNoNetwork, RecvGetdata, RecvGetdataOther, TimePasses, Done, counters, vars
    <3> QED
      BY <3>1, <3>2, <3>3
  <2>3. connected' \in 0 .. MaxCount /\ inved' \in 0 .. MaxPeers /\ found' \in 0 .. MaxCount
    BY <2>1, <2>2 DEF CountersTyped
  <2>4. getdata' \in Nat
    BY CountedOnce DEF CountersTyped
  <2>5. expired' \in BOOLEAN
    BY DEF CountersTyped, Next, Connected, ConnectionLost, TimerTick, Recv, Garbled, Idle,
       RecvVersionNoNetwork, RecvVerack, RecvInv, RecvGetdata, RecvGetdataOther, TimePasses, Done,
       counters, vars
  <2> QED
    BY <2>3, <2>4, <2>5 DEF CountersTyped
<1>4. getdata' <= Cardinality(Askers')
  <2>1. IsFiniteSet(Peer)
    BY FS_Interval, NodeGroupAssumption DEF Peer
  <2>2. Askers \subseteq Askers' /\ IsFiniteSet(Askers) /\ IsFiniteSet(Askers')
    <3>1. Askers \subseteq Askers'
      BY <1>1 DEF Steps, NodeStep, Askers
    <3>2. Askers \subseteq Peer /\ Askers' \subseteq Peer
      BY DEF Askers
    <3> QED
      BY <2>1, <3>1, <3>2, FS_Subset
  <2>3. /\ Cardinality(Askers) \in Nat /\ Cardinality(Askers') \in Nat
        /\ Cardinality(Askers) <= Cardinality(Askers')
    BY <2>2, FS_Subset, FS_CardinalityType
  <2>4. CASE UNCHANGED getdata
    BY <2>3, <2>4 DEF CountersTyped
  <2>5. CASE getdata' = getdata + 1 /\ \E n \in Peer : n \notin Askers /\ n \in Askers'
    <3>1. PICK n \in Peer : n \notin Askers /\ n \in Askers'
      BY <2>5
    <3>2. IsFiniteSet(Askers \cup {n}) /\ Cardinality(Askers \cup {n}) = Cardinality(Askers) + 1
      BY <2>2, <3>1, FS_AddElement
    <3>3. Askers \cup {n} \subseteq Askers'
      BY <2>2, <3>1
    <3>4. Cardinality(Askers \cup {n}) <= Cardinality(Askers')
      BY <2>2, <3>2, <3>3, FS_Subset
    <3> QED
      BY <2>3, <2>5, <3>2, <3>4 DEF CountersTyped
  <2> QED
    BY <2>4, <2>5, CountedOnce
<1> QED
  BY <1>2, <1>3, <1>4

(* The invariant holds before the first event.                             *)
LEMMA InitSound == Init => Sound
<1> SUFFICES ASSUME Init PROVE Sound
  OBVIOUS
<1>1. GroupSane
  BY FirstDials
<1>2. CountersTyped
  <2>1. MaxCount \in Nat /\ MaxPeers \in Nat
    BY BroadcastAssumption, NodeGroupAssumption
  <2>2. /\ connected \in 0 .. MaxCount /\ inved \in 0 .. MaxPeers
        /\ getdata \in Nat /\ found \in 0 .. MaxCount
    BY <2>1 DEF Init
  <2>3. expired \in BOOLEAN
    BY DEF Init
  <2> QED
    BY <2>2, <2>3 DEF CountersTyped
<1>3. getdata <= Cardinality(Askers)
  <2>1. IsFiniteSet(Peer)
    BY FS_Interval, NodeGroupAssumption DEF Peer
  <2>2. Askers \subseteq Peer
    BY DEF Askers
  <2>3. Cardinality(Askers) \in Nat
    BY <2>1, <2>2, FS_Subset, FS_CardinalityType
  <2> QED
    BY <2>3 DEF Init
<1> QED
  BY <1>1, <1>2, <1>3 DEF Sound

(* The invariant holds of every behaviour of the broadcast.                *)
THEOREM AlwaysSound == Spec => []Sound
<1>1. Init => Sound
  BY InitSound
<1>2. Sound /\ [Next]_vars => Sound'
  BY StepSound
<1> QED
  BY <1>1, <1>2, PTL DEF Spec

-----------------------------------------------------------------------------
(* The state of a broadcast keeps its type, and no more peers are informed *)
(* than asked for.                                                         *)
THEOREM TypeCorrect == Spec => []TypeOK
<1>1. Sound => TypeOK
  BY DEF Sound, GroupSane, CountersTyped, TypeOK, Hint
<1> QED
  BY <1>1, AlwaysSound, PTL

(* A node owns its events exactly while it is dialled or connected,        *)
(* whichever function of net.c made or released them.                      *)
THEOREM EventsAreOwned == Spec => []NoStrayEvents
<1>1. Sound => NoStrayEvents
  BY DEF Sound, GroupSane, Sane, NoStrayEvents
<1> QED
  BY <1>1, AlwaysSound, PTL

(* What disconnect leaves in a node never reaches a later connection.      *)
THEOREM FreshDials == Spec => []DialsAreFresh
<1>1. Sound => DialsAreFresh
  BY DEF Sound, GroupSane, Sane, DialsAreFresh
<1> QED
  BY <1>1, AlwaysSound, PTL

(* The report of a broadcast never counts more requests than peers asked.  *)
THEOREM CountsPeers == Spec => []RequestsCountPeers
<1>1. Sound => RequestsCountPeers
  BY DEF Sound, Askers, Asked, RequestsCountPeers
<1> QED
  BY <1>1, AlwaysSound, PTL

(* The node group under a broadcast implements PeerLife: each step of the  *)
(* group moves each peer as PeerLife allows, or not at all.                *)
THEOREM KeepsPeerLife == Spec => LifeSpec
<1> DEFINE ph == [n \in Peer |-> Phase(nodes[n])]
<1>1. Init => Life!Init
  <2> SUFFICES ASSUME Init PROVE Life!Init
    OBVIOUS
  <2>1. \A p \in Peer : Phase(nodes[p]) \in {"new", "dialling"}
    BY FirstDials
  <2> QED
    BY <2>1 DEF Life!Init
<1>2. Sound /\ [Next]_vars => [Life!Next]_ph
  <2> SUFFICES ASSUME Sound, [Next]_vars PROVE Life!Next
    OBVIOUS
  <2>1. Steps
    BY EveryStep DEF Sound
  <2>2. \A p \in Peer : Lives(nodes[p], nodes'[p])
    BY <2>1 DEF Steps, NodeStep
  <2>3. \A nd : Phase(nd) \in Life!Phases
    BY DEF Phase, Life!Phases
  <2>4. /\ ph' \in [Peer -> Life!Phases]
        /\ \A p \in Peer : ph'[p] = ph[p] \/ <<ph[p], ph'[p]>> \in Life!Moves
    BY <2>2, <2>3 DEF Lives
  <2> QED
    BY <2>4 DEF Life!Next
<1> QED
  BY <1>1, <1>2, AlwaysSound, PTL DEF Spec, LifeSpec, Life!Spec
=============================================================================
