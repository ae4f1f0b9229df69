---------------------------- MODULE ParHdrProofs ----------------------------
(***************************************************************************)
(* Proofs about the parallel header download, for any number of peers,     *)
(* segments and headers and any behaviour of the peers.                    *)
(***************************************************************************)
EXTENDS ParHdr, HeaderTreeProofs, FiniteSetTheorems, SequenceTheorems

-----------------------------------------------------------------------------
(* Types of the stages the handlers are composed of.                       *)

Segments == [Seg -> SegState]
Flags    == [Node -> BOOLEAN]
Wires    == [Honest -> Seq(GetHeaders)]
Giving   == [Node -> SUBSET Seg]
Messages == [hdrs : Seq(Block), proof : BOOLEAN, garbled : BOOLEAN]

(* The headers staged in the segments K, as the places they take.          *)
Places(S, K) == UNION {{i} \X (1 .. Len(S[i].buf)) : i \in K}

(* A place is a segment of K and a position in its buffer.                 *)
LEMMA PlacesAre ==
    ASSUME NEW S, NEW K
    PROVE  \A x : x \in Places(S, K) <=>
                    \E i \in K : \E k \in 1 .. Len(S[i].buf) : x = <<i, k>>
  BY DEF Places

(* There are finitely many, and Staged counts them.                        *)
LEMMA PlacesFinite ==
    ASSUME NEW S \in Segments, NEW K \in SUBSET Seg
    PROVE  /\ IsFiniteSet(Places(S, K)) /\ Staged(S, K) \in Nat
           /\ Staged(S, K) = Cardinality(Places(S, K))
<1> DEFINE f == [i \in K |-> {i} \X (1 .. Len(S[i].buf))]
           T == {{i} \X (1 .. Len(S[i].buf)) : i \in K}
<1>1. IsFiniteSet(K)
  <2>1. IsFiniteSet(Seg)
    BY FS_Interval, ParHdrAssumption DEF Seg
  <2> QED
    BY <2>1, FS_Subset
<1>2. f \in Surjection(K, T)
  BY DEF Surjection
<1>3. IsFiniteSet(T)
  BY <1>1, <1>2, FS_Surjection
<1>4. \A i \in K : IsFiniteSet({i} \X (1 .. Len(S[i].buf)))
  <2> TAKE i \in K
  <2>1. Len(S[i].buf) \in Nat
    BY DEF SegState, Segments
  <2>2. IsFiniteSet(1 .. Len(S[i].buf))
    BY <2>1, FS_Interval
  <2> QED
    BY <2>2, FS_Product, FS_Singleton
<1>5. IsFiniteSet(UNION T)
  BY <1>3, <1>4, FS_UNION
<1> QED
  BY <1>5, FS_CardinalityType DEF Staged, Places

(* The constants a segment is described by are in range.                   *)
LEMMA SegConstants ==
    ASSUME NEW i \in Seg
    PROVE  /\ i \in Nat
           /\ StartHeight(i) \in Nat /\ StopHeight[i] \in Nat
           /\ Main[StartHeight(i)] \in Header
           /\ StopHash(i) \in Header
<1>1. i \in Nat /\ (i # 0 => i - 1 \in Seg)
  BY ParHdrAssumption DEF Seg
<1>2. StartHeight(i) \in 0 .. ChainHeight
  BY <1>1, ParHdrAssumption DEF StartHeight
<1>3. QED
  BY <1>1, <1>2, ParHdrAssumption DEF StopHash

(* A request names two headers, and queueing it keeps the wire well typed. *)
LEMMA SentType ==
    ASSUME NEW S \in Segments, NEW i \in Seg, NEW w \in Wires, NEW n \in Node
    PROVE  /\ Sent(w, n, Request(S, i)) \in Wires
           /\ n \in Honest => Queued(w[n], Request(S, i)) \in Seq(GetHeaders)
<1>1. Request(S, i) \in GetHeaders
  BY SegConstants DEF Request, GetHeaders, Segments, SegState
<1>2. ASSUME NEW q \in Seq(GetHeaders), NEW r \in GetHeaders
      PROVE  Queued(q, r) \in Seq(GetHeaders)
  <2>1. CASE Len(q) < MaxWire
    BY <2>1 DEF Queued
  <2>2. CASE ~(Len(q) < MaxWire)
    <3>1. q # <<>>
      BY <2>2, ParHdrAssumption
    <3>2. Tail(q) \in Seq(GetHeaders)
      BY <3>1, HeadTailProperties
    <3>3. QED
      BY <2>2, <3>2 DEF Queued
  <2>3. QED
    BY <2>1, <2>2
<1>3. QED
  BY <1>1, <1>2 DEF Sent, Wires

(* Only segments are open for assignment.                                  *)
LEMMA OpenType ==
    ASSUME TypeOK, NEW S, NEW b
    PROVE  Open(S, b) \subseteq Seg /\ Open(S, b) \subseteq Nat
  BY ParHdrAssumption DEF Open, Seg, TypeOK

(* Clearing NODE_HEADERSYNC leaves flags.                                  *)
LEMMA ClearedType ==
    ASSUME NEW P
    PROVE  Cleared(P) \in Flags
  BY DEF Cleared, Flags

(* Answering removes a pending request.                                    *)
LEMMA AnsweredType ==
    ASSUME TypeOK, NEW n \in Node, n \in Honest => wire[n] # <<>>
    PROVE  Answered(n) \in Wires
<1>1. CASE n \in Honest
  <2>1. Tail(wire[n]) \in Seq(GetHeaders)
    BY <1>1, HeadTailProperties DEF TypeOK
  <2>2. QED
    BY <1>1, <2>1 DEF Answered, Wires, TypeOK
<1>2. CASE n \notin Honest
  BY <1>2 DEF Answered, Wires, TypeOK
<1>3. QED
  BY <1>1, <1>2

(* Every message a peer can send is a message of headers, and an honest    *)
(* peer sends one only when a request is pending at it.                    *)
LEMMA ReplyType ==
    ASSUME TypeOK, NEW n \in Node, NEW m \in Reply(n)
    PROVE  m \in Messages /\ (n \in Honest => wire[n] # <<>>)
<1>1. CASE n \in Honest
  <2>1. PICK k \in {1} \cap DOMAIN wire[n] : m = HonestReply(wire[n][k])
    BY <1>1 DEF Reply
  <2> DEFINE r    == wire[n][k]
             lo   == IF OnMain(r.loc) THEN Height[r.loc] ELSE 0
             stop == IF Height[r.stop] > lo THEN Height[r.stop] ELSE ChainHeight
             hi   == Min({stop, lo + MaxBatch, ChainHeight})
  <2>2. wire[n] # <<>> /\ r \in GetHeaders
    BY <1>1, <2>1 DEF TypeOK
  <2>3. lo \in Nat /\ stop \in Nat /\ ChainHeight \in Nat
    BY <2>2, HeaderAssumption, ParHdrAssumption DEF GetHeaders
  <2>4. hi \in Nat /\ hi <= ChainHeight
    <3> HIDE DEF lo, stop
    <3> DEFINE T == {stop, lo + MaxBatch, ChainHeight}
    <3>1. T \in SUBSET Nat /\ T # {} /\ ChainHeight \in T
      BY <2>3, ParHdrAssumption
    <3>2. Min(T) \in T /\ Min(T) <= ChainHeight
      <4> HIDE DEF T
      <4>1. QED
        BY <3>1, MinIn
    <3>3. QED
      BY <3>1, <3>2
  <2>5. MainAfter(lo, hi) \in Seq(Block)
    <3> HIDE DEF lo, hi
    <3>1. \A j \in 1 .. hi - lo : Main[lo + j] \in Block
      BY <2>3, <2>4, ParHdrAssumption
    <3>2. CASE hi - lo \in Nat
      BY <3>1, <3>2 DEF MainAfter
    <3>3. CASE hi - lo \notin Nat
      <4>1. 1 .. hi - lo = {}
        BY <2>3, <2>4, <3>3
      <4>2. MainAfter(lo, hi) = <<>>
        BY <4>1 DEF MainAfter
      <4>3. QED
        BY <4>2
    <3>4. QED
      BY <3>2, <3>3
  <2>6. m = Message(MainAfter(lo, hi), TRUE, FALSE)
    BY <2>1 DEF HonestReply
  <2> HIDE DEF lo, hi
  <2>7. QED
    BY <2>2, <2>5, <2>6 DEF Message, Messages
<1>2. CASE n \notin Honest
  <2>1. PICK t : m \in AnyReply(t)
    BY <1>2 DEF Reply
  <2>2. m \in [hdrs : AnyHdrs(t), proof : BOOLEAN, garbled : BOOLEAN]
    BY <2>1 DEF AnyReply
  <2>3. PICK k \in 0 .. MaxBatch : m.hdrs \in [1 .. k -> Block]
    BY <2>2 DEF AnyHdrs
  <2>4. m.hdrs \in Seq(Block)
    BY <2>3, ParHdrAssumption
  <2>5. QED
    BY <1>2, <2>2, <2>4 DEF Messages
<1>3. QED
  BY <1>1, <1>2

(* par_hdr_recv works on an incomplete segment of the sender.              *)
LEMMA AttachedMin ==
    ASSUME NEW n \in Node, Attached(n) # {}
    PROVE  Min(Attached(n)) \in Attached(n) /\ Min(Attached(n)) \in Seg
<1>1. Attached(n) \in SUBSET Nat
  BY ParHdrAssumption DEF Attached, Seg
<1>2. Min(Attached(n)) \in Attached(n)
  BY <1>1, MinIn
<1>3. QED
  BY <1>2 DEF Attached

-----------------------------------------------------------------------------
(* Handing segments around.  S and T differ at most in who works on the    *)
(* incomplete segments.                                                    *)
Kept(s, t) ==
    /\ t.tip = s.tip /\ t.tipHeight = s.tipHeight
    /\ t.buf = s.buf /\ t.tail = s.tail
    /\ t.complete = s.complete /\ t.flushed = s.flushed
    /\ t.fails = s.fails

Reassigned(S, T) ==
    /\ T \in Segments
    /\ \A i \in Seg : Kept(S[i], T[i]) /\ (S[i].complete => T[i] = S[i])

Peer == Node \cup {NoNode}

(* Reassignments compose, as the four stages of par_hdr_reclaim do.        *)
LEMMA ReassignedTransitive ==
    ASSUME NEW S, NEW T, NEW U, Reassigned(S, T), Reassigned(T, U)
    PROVE  Reassigned(S, U)
  BY DEF Reassigned, Kept

(* Writing owner, shadow and count_at_assign leaves the rest of a segment. *)
LEMMA KeptBy ==
    ASSUME NEW s \in SegState, NEW o \in Peer, NEW p \in Peer, NEW c \in Nat,
           NEW t, t = [s EXCEPT !.owner = o, !.shadow = p, !.atAssign = c]
    PROVE  t \in SegState /\ Kept(s, t)
<1>1. t \in SegState
  BY DEF SegState, Peer
<1>2. Kept(s, t)
  BY DEF SegState, Kept
<1>3. QED
  BY <1>1, <1>2

(* par_hdr_assign writes the owner and count_at_assign.                    *)
LEMMA OwnedKept ==
    ASSUME NEW seg \in SegState, NEW n \in Node
    PROVE  Owned(seg, n) \in SegState /\ Kept(seg, Owned(seg, n))
<1>1. Len(seg.buf) \in Nat /\ seg.shadow \in Peer
  BY DEF SegState, Peer
<1>2. Owned(seg, n) = [seg EXCEPT !.owner = n, !.shadow = seg.shadow, !.atAssign = Len(seg.buf)]
  BY DEF Owned, SegState
<1>3. QED
  BY <1>1, <1>2, KeptBy DEF Peer

(* A stage that rewrites incomplete segments only, keeping their headers.  *)
LEMMA ReassignedBy ==
    ASSUME NEW S \in Segments, NEW T, T = [i \in Seg |-> T[i]],
           \A i \in Seg : \/ T[i] = S[i]
                          \/ T[i] \in SegState /\ Kept(S[i], T[i]) /\ ~S[i].complete
    PROVE  Reassigned(S, T)
<1>1. \A i \in Seg : T[i] \in SegState /\ Kept(S[i], T[i])
  BY DEF Segments, Kept
<1>2. T \in Segments
  BY <1>1 DEF Segments
<1>3. QED
  BY <1>1, <1>2 DEF Reassigned

(* par_hdr_assign hands out an incomplete segment and changes nothing else *)
(* about it.                                                               *)
LEMMA AssignReassigns ==
    ASSUME TypeOK, NEW S \in Segments, NEW b, NEW hs \in Flags, NEW w \in Wires,
           NEW n \in Node, Assign(S, b, hs, w, n)
    PROVE  Reassigned(S, segs') /\ hsync' \in Flags /\ wire' \in Wires
<1>1. CASE ~Busy(S, n) /\ Open(S, b) # {}
  <2> DEFINE i == Min(Open(S, b))
  <2>1. i \in Open(S, b)
    BY <1>1, OpenType, MinIn
  <2>2. i \in Seg /\ ~S[i].complete
    BY <2>1, OpenType DEF Open
  <2>3. /\ segs' = [S EXCEPT ![i] = Owned(S[i], n)] 
        /\ hsync' = [hs EXCEPT ![n] = TRUE]
        /\ wire' = Sent(w, n, Request(S, i))
    BY <1>1 DEF Assign
  <2> HIDE DEF i
  <2>4. Owned(S[i], n) \in SegState /\ Kept(S[i], Owned(S[i], n))
    BY <2>2, OwnedKept DEF Segments
  <2>5. segs' = [j \in Seg |-> segs'[j]] /\ segs'[i] = Owned(S[i], n)
        /\ \A j \in Seg : j # i => segs'[j] = S[j]
    BY <2>2, <2>3 DEF Segments
  <2>6. Reassigned(S, segs')
    BY <2>2, <2>4, <2>5, ReassignedBy
  <2>7. QED
    BY <2>2, <2>3, <2>6, SentType DEF Flags
<1>2. CASE ~(~Busy(S, n) /\ Open(S, b) # {})
  <2>1. segs' = S /\ hsync' = hs /\ wire' = w
    BY <1>2 DEF Assign
  <2>2. QED
    BY <2>1 DEF Reassigned, Kept, Segments
<1>3. QED
  BY <1>1, <1>2

(* par_hdr_reclaim, first stage: a lost segment keeps its headers.         *)
LEMMA ReleasedReassigns ==
    ASSUME TypeOK, NEW stalled
    PROVE  Reassigned(segs, Released(stalled))
<1> DEFINE T == Released(stalled)
<1>1. T = [i \in Seg |-> T[i]] /\ segs \in Segments
  BY DEF Released, Segments, TypeOK
<1>2. ASSUME NEW i \in Seg, i \in Lost(stalled)
      PROVE  T[i] \in SegState /\ Kept(segs[i], T[i]) /\ ~segs[i].complete
  <2>1. segs[i] \in SegState /\ ~segs[i].complete
    BY <1>2 DEF TypeOK, Lost, Held
  <2>2. T[i] = [segs[i] EXCEPT !.owner = NoNode, !.shadow = NoNode]
    BY <1>2 DEF Released
  <2>3. ASSUME NEW s \in SegState, NEW t, t = [s EXCEPT !.owner = NoNode, !.shadow = NoNode]
        PROVE  t \in SegState /\ Kept(s, t)
    <3>1. s.atAssign \in Nat /\ NoNode \in Peer
      BY DEF SegState, Peer
    <3>2. t = [s EXCEPT !.owner = NoNode, !.shadow = NoNode, !.atAssign = s.atAssign]
      BY <2>3 DEF SegState
    <3>3. QED
      BY <3>1, <3>2, KeptBy
  <2> HIDE DEF T
  <2>4. QED
    BY <2>1, <2>2, <2>3
<1>3. ASSUME NEW i \in Seg, i \notin Lost(stalled)
      PROVE  T[i] = segs[i]
  BY <1>3 DEF Released
<1> HIDE DEF T
<1>4. Reassigned(segs, T)
  BY <1>1, <1>2, <1>3, ReassignedBy
<1>5. QED
  BY <1>4 DEF T

(* The pairing of peers with segments stays within both sets.              *)
LEMMA PairingWithin ==
    ASSUME NEW I \in SUBSET Node, NEW F \in SUBSET Seg
    PROVE  /\ Pairing(I, F) \in Giving
           /\ \A i \in Seg : Partner(Pairing(I, F), i) # {} =>
                 /\ i \in F
                 /\ (CHOOSE n \in Partner(Pairing(I, F), i) : TRUE) \in I
<1>1. Pairing(I, F) \in Giving
  BY DEF Pairing, Giving
<1>2. ASSUME NEW i \in Seg, Partner(Pairing(I, F), i) # {}
      PROVE  /\ i \in F
             /\ (CHOOSE n \in Partner(Pairing(I, F), i) : TRUE) \in I
  <2>1. \A n \in Partner(Pairing(I, F), i) : n \in I /\ i \in F
    BY DEF Partner, Pairing
  <2>2. QED
    BY <1>2, <2>1
<1>3. QED
  BY <1>1, <1>2

(* Second stage: free segments get an owner.                               *)
LEMMA HandedOutReassigns ==
    ASSUME TypeOK, NEW S \in Segments
    PROVE  HandOut(S) \in Giving /\ Reassigned(S, HandedOut(S, HandOut(S)))
<1> DEFINE g == HandOut(S)
           T == HandedOut(S, g)
           who(i) == CHOOSE n \in Partner(g, i) : TRUE
<1>1. /\ g \in Giving
      /\ \A i \in Seg : Partner(g, i) # {} => i \in Open(S, buffered) /\ who(i) \in Node
  <2>1. FreePeers(S) \in SUBSET Node /\ Open(S, buffered) \in SUBSET Seg
    BY OpenType DEF FreePeers
  <2>2. QED
    BY <2>1, PairingWithin DEF HandOut
<1>2. T = [i \in Seg |-> T[i]]
  BY DEF HandedOut
<1>3. ASSUME NEW i \in Seg, Partner(g, i) # {}
      PROVE  T[i] \in SegState /\ Kept(S[i], T[i]) /\ ~S[i].complete
  <2>1. S[i] \in SegState /\ ~S[i].complete /\ who(i) \in Node
    BY <1>1, <1>3 DEF Segments, Open
  <2>2. T[i] = Owned(S[i], who(i))
    BY <1>3 DEF HandedOut
  <2> HIDE DEF T, who
  <2>3. QED
    BY <2>1, <2>2, OwnedKept
<1>4. ASSUME NEW i \in Seg, Partner(g, i) = {}
      PROVE  T[i] = S[i]
  BY <1>4 DEF HandedOut
<1> HIDE DEF T, g
<1>5. Reassigned(S, T)
  BY <1>2, <1>3, <1>4, ReassignedBy
<1>6. QED
  BY <1>1, <1>5 DEF T, g

(* Third stage, par_hdr_preempt_head: the flush head changes its owner.    *)
LEMMA PreemptedReassigns ==
    ASSUME TypeOK, NEW S \in Segments, flushIdx \in Seg, ~S[flushIdx].complete,
           Candidates(S) # {}
    PROVE  PreemptedBy(S) \in Giving /\ Reassigned(S, Preempted(S))
<1> DEFINE n == Min(Candidates(S))
           T == Preempted(S)
<1>1. n \in Node
  <2>1. Candidates(S) \in SUBSET Nat
    BY ParHdrAssumption DEF Candidates, Node
  <2>2. n \in Candidates(S)
    BY <2>1, MinIn
  <2>3. QED
    BY <2>2 DEF Candidates
<1>2. PreemptedBy(S) \in Giving
  BY DEF PreemptedBy, Giving
<1>3. S[flushIdx] \in SegState
  BY DEF Segments
<1>4. CASE Busy(Vacated(S), n)
  <2>1. T = [S EXCEPT ![flushIdx].owner = NoNode]
    BY <1>4 DEF Preempted, Vacated
  <2>2. ASSUME NEW s \in SegState, NEW t, t = [s EXCEPT !.owner = NoNode]
        PROVE  t \in SegState /\ Kept(s, t)
    <3>1. s.shadow \in Peer /\ s.atAssign \in Nat /\ NoNode \in Peer
      BY DEF SegState, Peer
    <3>2. t = [s EXCEPT !.owner = NoNode, !.shadow = s.shadow, !.atAssign = s.atAssign]
      BY <2>2 DEF SegState
    <3>3. QED
      BY <3>1, <3>2, KeptBy
  <2>3. /\ T = [i \in Seg |-> T[i]]
        /\ T[flushIdx] = [S[flushIdx] EXCEPT !.owner = NoNode]
        /\ \A i \in Seg : i # flushIdx => T[i] = S[i]
    BY <2>1 DEF Segments
  <2> HIDE DEF T
  <2>4. T[flushIdx] \in SegState /\ Kept(S[flushIdx], T[flushIdx])
    BY <1>3, <2>2, <2>3
  <2>5. QED
    BY <1>2, <2>3, <2>4, ReassignedBy DEF T
<1>5. CASE ~Busy(Vacated(S), n)
  <2>1. T = [S EXCEPT ![flushIdx] = Owned(S[flushIdx], n)]
    BY <1>5 DEF Preempted
  <2>2. Owned(S[flushIdx], n) \in SegState /\ Kept(S[flushIdx], Owned(S[flushIdx], n))
    BY <1>1, <1>3, OwnedKept
  <2> HIDE DEF T, n
  <2>3. /\ T = [i \in Seg |-> T[i]]
        /\ T[flushIdx] = Owned(S[flushIdx], n)
        /\ \A i \in Seg : i # flushIdx => T[i] = S[i]
    BY <2>1 DEF Segments
  <2>4. QED
    BY <1>2, <2>2, <2>3, ReassignedBy DEF T
<1>6. QED
  BY <1>4, <1>5

(* Fourth stage, par_hdr_race_tail: slow segments get a shadow.            *)
LEMMA RacedReassigns ==
    ASSUME TypeOK, NEW S \in Segments, NEW slow \in SUBSET Seg
    PROVE  Race(S, slow) \in Giving /\ Reassigned(S, Raced(S, Race(S, slow)))
<1> DEFINE g == Race(S, slow)
           T == Raced(S, g)
           who(i) == CHOOSE n \in Partner(g, i) : TRUE
<1>1. /\ g \in Giving
      /\ \A i \in Seg : Partner(g, i) # {} => i \in Raceable(S, slow) /\ who(i) \in Node
  <2>1. FreePeers(S) \in SUBSET Node /\ Raceable(S, slow) \in SUBSET Seg
    BY DEF FreePeers, Raceable
  <2>2. QED
    BY <2>1, PairingWithin DEF Race
<1>2. T = [i \in Seg |-> T[i]]
  BY DEF Raced
<1>3. ASSUME NEW i \in Seg, Partner(g, i) # {}
      PROVE  T[i] \in SegState /\ Kept(S[i], T[i]) /\ ~S[i].complete
  <2>1. S[i] \in SegState /\ ~S[i].complete /\ who(i) \in Node
    BY <1>1, <1>3 DEF Segments, Raceable
  <2>2. T[i] = [S[i] EXCEPT !.shadow = who(i)]
    BY <1>3 DEF Raced
  <2>3. ASSUME NEW s \in SegState, NEW n \in Node, NEW t, t = [s EXCEPT !.shadow = n]
        PROVE  t \in SegState /\ Kept(s, t)
    <3>1. s.owner \in Peer /\ s.atAssign \in Nat /\ n \in Peer
      BY DEF SegState, Peer
    <3>2. t = [s EXCEPT !.owner = s.owner, !.shadow = n, !.atAssign = s.atAssign]
      BY <2>3 DEF SegState
    <3>3. QED
      BY <3>1, <3>2, KeptBy
  <2> HIDE DEF T, who
  <2>4. QED
    BY <2>1, <2>2, <2>3
<1>4. ASSUME NEW i \in Seg, Partner(g, i) = {}
      PROVE  T[i] = S[i]
  BY <1>4 DEF Raced
<1> HIDE DEF T, g
<1>5. Reassigned(S, T)
  BY <1>2, <1>3, <1>4, ReassignedBy
<1>6. QED
  BY <1>1, <1>5 DEF T, g

(* The flags and requests the stages leave behind.                         *)
LEMMA MailedType ==
    ASSUME TypeOK, NEW hs \in Flags, NEW w \in Wires, NEW give \in Giving
    PROVE  Flagged(hs, give) \in Flags /\ Mailed(w, give) \in Wires
<1>1. Flagged(hs, give) \in Flags
  BY DEF Flagged, Flags
<1>2. ASSUME NEW n \in Honest, give[n] # {}
      PROVE  Queued(w[n], Request(segs, CHOOSE i \in give[n] : TRUE)) \in Seq(GetHeaders)
  <2> DEFINE i == CHOOSE i \in give[n] : TRUE
  <2>1. n \in Node
    BY ParHdrAssumption
  <2>2. i \in Seg /\ segs \in Segments
    BY <1>2, <2>1 DEF Giving, TypeOK, Segments
  <2> HIDE DEF i
  <2>3. Queued(w[n], Request(segs, i)) \in Seq(GetHeaders)
    BY <2>1, <2>2, SentType
  <2>4. QED
    BY <2>3 DEF i
<1>3. Mailed(w, give) \in Wires
  BY <1>2 DEF Mailed, Wires
<1>4. QED
  BY <1>1, <1>3

(* par_hdr_reclaim only hands segments around.                             *)
LEMMA ReclaimReassigns ==
    ASSUME TypeOK, NEW stalled, NEW rated \in SUBSET Seg, NEW outlier, NEW slow \in SUBSET Seg,
           Reclaim(stalled, rated, outlier, slow)
    PROVE  Reassigned(segs, segs') /\ hsync' \in Flags /\ wire' \in Wires
<1> DEFINE S1  == Released(stalled)
           hs1 == Cleared({segs[i].owner : i \in Lost(stalled)})
           g2  == HandOut(S1)
           S2  == HandedOut(S1, g2)
           pre == Preempts(S2, rated, outlier)
           g3  == IF pre THEN PreemptedBy(S2) ELSE [n \in Node |-> {}]
           S3  == IF pre THEN Preempted(S2) ELSE S2
           hs2 == Flagged(hs1, g2)
           hs3 == IF pre THEN [hs2 EXCEPT ![S2[flushIdx].owner] = FALSE] ELSE hs2
           g4  == Race(S3, slow)
<1>1. /\ segs'  = Raced(S3, g4)
      /\ hsync' = Flagged(Flagged(hs3, g3), g4)
      /\ wire'  = Mailed(Mailed(Mailed(wire, g2), g3), g4)
  BY DEF Reclaim
<1>2. Reassigned(segs, S1) /\ S1 \in Segments /\ hs1 \in Flags
  BY ReleasedReassigns, ClearedType DEF Reassigned
<1>3. g2 \in Giving /\ Reassigned(S1, S2) /\ S2 \in Segments
  <2> HIDE DEF S1
  <2>1. QED
    BY <1>2, HandedOutReassigns DEF Reassigned
<1> HIDE DEF S1, hs1, g2, S2
<1>4. hs2 \in Flags /\ wire \in Wires /\ Mailed(wire, g2) \in Wires
  BY <1>2, <1>3, MailedType DEF TypeOK, Wires
<1>5. g3 \in Giving /\ Reassigned(S2, S3) /\ S3 \in Segments /\ hs3 \in Flags
  <2>1. CASE pre
    <3>1. flushIdx \in Seg /\ ~S2[flushIdx].complete /\ Candidates(S2) # {}
      BY <2>1 DEF Preempts
    <3>2. hs3 \in Flags
      BY <1>4, <2>1 DEF Flags
    <3>3. QED
      BY <1>3, <2>1, <3>1, <3>2, PreemptedReassigns DEF Reassigned
  <2>2. CASE ~pre
    <3>1. g3 \in Giving /\ S3 = S2 /\ hs3 = hs2
      BY <2>2 DEF Giving
    <3>2. QED
      BY <1>3, <1>4, <3>1 DEF Reassigned, Kept
  <2>3. QED
    BY <2>1, <2>2
<1> HIDE DEF g3, S3, hs3, pre
<1>6. g4 \in Giving /\ Reassigned(S3, segs')
  BY <1>1, <1>5, RacedReassigns
<1> HIDE DEF g4
<1>7. Reassigned(segs, segs')
  BY <1>2, <1>3, <1>5, <1>6, ReassignedTransitive
<1>8. Flagged(hs3, g3) \in Flags /\ Mailed(Mailed(wire, g2), g3) \in Wires
  BY <1>4, <1>5, MailedType
<1>9. QED
  BY <1>1, <1>6, <1>7, <1>8, MailedType

-----------------------------------------------------------------------------
(* What par_hdr_recv and par_hdr_flush do to a segment.                    *)

(* A shadow that takes a segment over keeps what is staged in it.          *)
LEMMA TakenKept ==
    ASSUME TypeOK, NEW n \in Node, NEW i \in Seg
    PROVE  Taken(i, n) \in SegState /\ Kept(segs[i], Taken(i, n))
<1>1. segs[i] \in SegState
  BY DEF TypeOK
<1>2. CASE Won(i, n)
  <2>1. ASSUME NEW s \in SegState, NEW t, t = [Owned(s, n) EXCEPT !.shadow = NoNode]
        PROVE  t \in SegState /\ Kept(s, t)
    <3>1. Len(s.buf) \in Nat /\ n \in Peer /\ NoNode \in Peer
      BY DEF SegState, Peer
    <3>2. t = [s EXCEPT !.owner = n, !.shadow = NoNode, !.atAssign = Len(s.buf)]
      BY <2>1 DEF Owned, SegState
    <3>3. QED
      BY <3>1, <3>2, KeptBy
  <2>2. Taken(i, n) = [Owned(segs[i], n) EXCEPT !.shadow = NoNode]
    BY <1>2 DEF Taken
  <2>3. QED
    BY <1>1, <2>1, <2>2
<1>3. CASE ~Won(i, n)
  BY <1>1, <1>3 DEF Taken, Kept
<1>4. QED
  BY <1>2, <1>3

(* Staging headers keeps a segment well typed.                             *)
LEMMA StagedType ==
    ASSUME NEW s \in SegState, NEW b \in Seq(Block), NEW t \in Header, NEW h \in Nat,
           NEW v \in {"none", "valid", "invalid"}
    PROVE  [s EXCEPT !.buf = b, !.tip = t, !.tipHeight = h, !.tail = v] \in SegState
  BY DEF SegState

(* A batch is appended to the segment and moves its tip to the last header *)
(* of the batch; tail is recorded only together with a header.             *)
LEMMA ExtendedFields ==
    ASSUME TypeOK, NEW n \in Node, NEW i \in Seg, NEW m \in Messages
    PROVE  LET e == Extended(i, n, m)
           IN  /\ e \in SegState
               /\ e.buf = segs[i].buf \o m.hdrs
               /\ e.tip = IF Len(m.hdrs) = 0 THEN segs[i].tip ELSE m.hdrs[Len(m.hdrs)]
               /\ e.tipHeight = segs[i].tipHeight + Len(m.hdrs)
               /\ Len(m.hdrs) = 0 => e.tail = segs[i].tail
               /\ e.complete = segs[i].complete /\ e.flushed = segs[i].flushed
               /\ e.fails = segs[i].fails
<1> DEFINE seg == Taken(i, n)
           len == Len(m.hdrs)
           e   == Extended(i, n, m)
           buf == seg.buf \o m.hdrs
           tip == IF len = 0 THEN seg.tip ELSE m.hdrs[len]
           ht  == seg.tipHeight + len
           tl  == IF StopHeight[i] - seg.tipHeight \in 1 .. len
                  THEN (IF m.proof THEN "valid" ELSE "invalid") ELSE seg.tail
<1>1. seg \in SegState /\ Kept(segs[i], seg)
  BY TakenKept
<1>2. m.hdrs \in Seq(Block) /\ m.proof \in BOOLEAN /\ len \in Nat
  BY DEF Messages
<1>3. e = [seg EXCEPT !.buf = buf, !.tip = tip, !.tipHeight = ht, !.tail = tl]
  BY DEF Extended
<1>4. buf \in Seq(Block)
  BY <1>1, <1>2, ConcatProperties DEF SegState
<1>5. tip \in Header
  BY <1>1, <1>2 DEF SegState, Header
<1>6. ht \in Nat
  BY <1>1, <1>2 DEF SegState
<1>7. tl \in {"none", "valid", "invalid"}
  BY <1>1, <1>2 DEF SegState
<1>8. len = 0 => tl = seg.tail
  <2>1. StopHeight[i] - seg.tipHeight \in Int
    BY <1>1, SegConstants DEF SegState
  <2>2. QED
    BY <2>1
<1> HIDE DEF seg, len, e, buf, tip, ht, tl
<1>9. /\ e \in SegState
      /\ e.buf = buf /\ e.tip = tip /\ e.tipHeight = ht /\ e.tail = tl
      /\ e.complete = seg.complete /\ e.flushed = seg.flushed /\ e.fails = seg.fails
  <2>1. seg \in SegState
    BY <1>1
  <2>2. e \in SegState
    BY <2>1, <1>3, <1>4, <1>5, <1>6, <1>7, StagedType
  <2>3. /\ e.buf = buf /\ e.tip = tip /\ e.tipHeight = ht /\ e.tail = tl
        /\ e.complete = seg.complete /\ e.flushed = seg.flushed /\ e.fails = seg.fails
    BY <2>1, <1>3 DEF SegState
  <2>4. QED
    BY <2>2, <2>3
<1>10. QED
  BY <1>1, <1>8, <1>9 DEF Kept, len, buf, tip, ht, tl, e

(* A failed segment is up for assignment again, with nothing staged.       *)
LEMMA FailedFields ==
    ASSUME NEW s \in SegState, NEW t \in Header, NEW h \in Nat
    PROVE  /\ Failed(s, t, h) \in SegState
           /\ \A f : f = Failed(s, t, h) =>
                /\ f.tip = t /\ f.tipHeight = h /\ f.buf = <<>> /\ f.tail = "none"
                /\ ~f.complete /\ f.flushed = s.flushed /\ f.fails = s.fails + 1
<1>1. s.fails + 1 \in Nat /\ <<>> \in Seq(Block) /\ 0 \in Nat
  BY DEF SegState
<1>2. Failed(s, t, h) \in SegState
  BY <1>1 DEF Failed, SegState
<1>3. ASSUME NEW f, f = Failed(s, t, h)
      PROVE  /\ f.tip = t /\ f.tipHeight = h /\ f.buf = <<>> /\ f.tail = "none"
             /\ ~f.complete /\ f.flushed = s.flushed /\ f.fails = s.fails + 1
  BY <1>3 DEF Failed, SegState
<1>4. QED
  BY <1>2, <1>3

(* A completed segment belongs to nobody and keeps what is staged.         *)
LEMMA CompletedFields ==
    ASSUME NEW s \in SegState
    PROVE  LET c == Completed(s)
           IN  /\ c \in SegState
               /\ c.tip = s.tip /\ c.tipHeight = s.tipHeight /\ c.buf = s.buf /\ c.tail = s.tail
               /\ c.complete /\ c.flushed = s.flushed /\ c.fails = s.fails
               /\ c.owner = NoNode /\ c.shadow = NoNode
<1>1. Completed(s) \in SegState
  BY DEF Completed, SegState
<1>2. LET c == Completed(s)
      IN  /\ c.tip = s.tip /\ c.tipHeight = s.tipHeight /\ c.buf = s.buf /\ c.tail = s.tail
          /\ c.complete /\ c.flushed = s.flushed /\ c.fails = s.fails
          /\ c.owner = NoNode /\ c.shadow = NoNode
  BY DEF Completed, SegState
<1>3. QED
  BY <1>1, <1>2

(* T is S with buffers of segments in K freed.                             *)
OnlyFreed(S, K, T) ==
    /\ T \in Segments
    /\ \A i \in Seg :
         /\ i \notin K => T[i] = S[i]
         /\ T[i].buf \in {S[i].buf, <<>>}
         /\ T[i].owner = S[i].owner /\ T[i].shadow = S[i].shadow
         /\ T[i].tip = S[i].tip /\ T[i].tipHeight = S[i].tipHeight
         /\ T[i].complete = S[i].complete /\ T[i].flushed = S[i].flushed
         /\ T[i].fails = S[i].fails

(* Giving the download up frees buffers and changes nothing else.          *)
LEMMA DroppedFields ==
    ASSUME NEW S \in Segments, NEW K \in SUBSET Seg
    PROVE  OnlyFreed(S, K, Dropped(S, K))
<1>1. ASSUME NEW s \in SegState, NEW t, t = [s EXCEPT !.buf = <<>>]
      PROVE  /\ t \in SegState /\ t.buf = <<>>
             /\ t.owner = s.owner /\ t.shadow = s.shadow
             /\ t.tip = s.tip /\ t.tipHeight = s.tipHeight
             /\ t.complete = s.complete /\ t.flushed = s.flushed /\ t.fails = s.fails
  <2>1. <<>> \in Seq(Block)
    OBVIOUS
  <2>2. t \in SegState
    BY <1>1, <2>1 DEF SegState
  <2>3. /\ t.buf = <<>>
        /\ t.owner = s.owner /\ t.shadow = s.shadow
        /\ t.tip = s.tip /\ t.tipHeight = s.tipHeight
        /\ t.complete = s.complete /\ t.flushed = s.flushed /\ t.fails = s.fails
    BY <1>1 DEF SegState
  <2>4. QED
    BY <2>2, <2>3
<1> DEFINE T == Dropped(S, K)
<1>2. T = [i \in Seg |-> T[i]]
  BY DEF Dropped
<1>3. \A i \in Seg : S[i] \in SegState
  BY DEF Segments
<1>4. \A i \in Seg : (i \in K /\ T[i] = [S[i] EXCEPT !.buf = <<>>]) \/ (i \notin K /\ T[i] = S[i])
  BY DEF Dropped
<1> HIDE DEF T
<1>5. ASSUME NEW i \in Seg
      PROVE  /\ T[i] \in SegState
             /\ i \notin K => T[i] = S[i]
             /\ T[i].buf \in {S[i].buf, <<>>}
             /\ T[i].owner = S[i].owner /\ T[i].shadow = S[i].shadow
             /\ T[i].tip = S[i].tip /\ T[i].tipHeight = S[i].tipHeight
             /\ T[i].complete = S[i].complete /\ T[i].flushed = S[i].flushed
             /\ T[i].fails = S[i].fails
  BY <1>1, <1>3, <1>4
<1>6. T \in Segments
  BY <1>2, <1>5 DEF Segments
<1>7. QED
  BY <1>5, <1>6 DEF OnlyFreed, T

-----------------------------------------------------------------------------
(* The effect of every handler on the segments.  A handler extends one     *)
(* segment, completes one, fails one or flushes one; all else it does to   *)
(* the segments is to hand them around.                                    *)

(* T is segs with segment i set back to header t at height h.  Buffers are *)
(* dropped only when the download is given up (go is FALSE).               *)
FailsOne(i, t, h, go, T) ==
    /\ T \in Segments
    /\ T[i].tip = t /\ T[i].tipHeight = h /\ T[i].buf = <<>> /\ T[i].tail = "none"
    /\ ~T[i].complete /\ T[i].flushed = segs[i].flushed
    /\ T[i].fails = segs[i].fails + 1
    /\ \A j \in Seg \ {i} :
         /\ T[j].tip = segs[j].tip /\ T[j].tipHeight = segs[j].tipHeight
         /\ T[j].complete = segs[j].complete /\ T[j].flushed = segs[j].flushed
         /\ T[j].fails = segs[j].fails
         /\ segs[j].complete => T[j].owner = segs[j].owner /\ T[j].shadow = segs[j].shadow
         /\ T[j].buf \in {segs[j].buf, <<>>}
         /\ go => Kept(segs[j], T[j])

(* Failing a segment and reassigning, or failing it and giving up.         *)
LEMMA FailsOneBy ==
    ASSUME TypeOK, NEW i \in Seg, NEW s \in SegState, NEW t \in Header, NEW h \in Nat,
           s.flushed = segs[i].flushed, s.fails = segs[i].fails,
           NEW S, S = [segs EXCEPT ![i] = Failed(s, t, h)], NEW T, NEW go,
           \/ Reassigned(S, T)
           \/ ~go /\ \E K \in SUBSET (Seg \ {i}) : T = Dropped(S, K)
    PROVE  S \in Segments /\ FailsOne(i, t, h, go, T)
<1> DEFINE f == Failed(s, t, h)
<1> HIDE DEF f
<1>1. /\ f \in SegState
      /\ f.tip = t /\ f.tipHeight = h /\ f.buf = <<>> /\ f.tail = "none"
      /\ ~f.complete /\ f.flushed = s.flushed /\ f.fails = s.fails + 1
  <2>1. f = Failed(s, t, h)
    BY DEF f
  <2>2. QED
    BY <2>1, FailedFields
<1>2. S \in Segments /\ S[i] = f /\ \A j \in Seg \ {i} : S[j] = segs[j]
  BY <1>1 DEF TypeOK, Segments, f
<1>3. CASE Reassigned(S, T)
  BY <1>1, <1>2, <1>3 DEF Reassigned, Kept, FailsOne
<1>4. CASE ~go /\ \E K \in SUBSET (Seg \ {i}) : T = Dropped(S, K)
  <2>1. PICK K \in SUBSET (Seg \ {i}) : T = Dropped(S, K)
    BY <1>4
  <2>2. OnlyFreed(S, K, T)
    <3>1. K \in SUBSET Seg
      OBVIOUS
    <3>2. QED
      BY <1>2, <2>1, <3>1, DroppedFields
  <2>3. T \in Segments /\ T[i] = f
    BY <1>2, <2>2 DEF OnlyFreed
  <2>4. ASSUME NEW j \in Seg \ {i}
        PROVE  /\ T[j].tip = segs[j].tip /\ T[j].tipHeight = segs[j].tipHeight
               /\ T[j].complete = segs[j].complete /\ T[j].flushed = segs[j].flushed
               /\ T[j].fails = segs[j].fails
               /\ T[j].owner = segs[j].owner /\ T[j].shadow = segs[j].shadow
               /\ T[j].buf \in {segs[j].buf, <<>>}
    BY <1>2, <2>2 DEF OnlyFreed
  <2>5. QED
    BY <1>1, <1>2, <1>4, <2>3, <2>4 DEF FailsOne
<1>5. QED
  BY <1>2, <1>3, <1>4

(* Staging costs a number of headers.                                      *)
LEMMA ChargedNat ==
    ASSUME TypeOK, NEW m \in Messages
    PROVE  Charged(m) \in Nat
<1>1. Len(m.hdrs) \in Nat /\ buffered \in Nat
  BY DEF Messages, TypeOK
<1>2. CASE m.garbled
  BY <1>1, <1>2 DEF Charged
<1>3. CASE ~m.garbled
  BY <1>1, <1>3 DEF Charged
<1>4. QED
  BY <1>2, <1>3

(* The batch par_hdr_recv drops costs the segment nothing.                 *)
LEMMA DroppedEffect ==
    ASSUME TypeOK, NEW n \in Node, NEW m, RecvDropped(n, m)
    PROVE  /\ Reassigned(segs, segs')
           /\ \E i \in Attached(n) : \A j \in Seg \ {i} : segs'[j] = segs[j]
<1> DEFINE i == Min(Attached(n))
<1>1. i \in Attached(n) /\ i \in Seg /\ ~segs[i].complete
  BY AttachedMin DEF RecvDropped, Attached
<1>2. segs' = [segs EXCEPT ![i] = Taken(i, n)]
  BY DEF RecvDropped
<1> HIDE DEF i
<1>3. Taken(i, n) \in SegState /\ Kept(segs[i], Taken(i, n))
  BY <1>1, TakenKept
<1>4. segs \in Segments
  BY DEF TypeOK, Segments
<1>5. /\ segs' = [j \in Seg |-> segs'[j]]
      /\ segs'[i] = Taken(i, n)
      /\ \A j \in Seg : j # i => segs'[j] = segs[j]
  BY <1>1, <1>2, <1>4 DEF Segments
<1>6. QED
  BY <1>1, <1>3, <1>4, <1>5, ReassignedBy

(* par_hdr_recv on a segment that does not reach its checkpoint.           *)
LEMMA MismatchEffect ==
    ASSUME TypeOK, NEW n \in Node, NEW m \in Messages, n \in Honest => wire[n] # <<>>,
           RecvMismatch(n, m)
    PROVE  /\ \E i \in Seg, t \in Header, h \in Nat :
                 ~segs[i].complete /\ h >= StartHeight(i) /\ FailsOne(i, t, h, active', segs')
           /\ buffered' \in Nat /\ active' \in BOOLEAN /\ (active' => active)
           /\ hsync' \in Flags /\ wire' \in Wires
<1> DEFINE i      == Min(Attached(n))
           seg    == Extended(i, n, m)
           t      == IF TipInside(i) THEN index.tip ELSE Main[StartHeight(i)]
           h      == IF TipInside(i) THEN Height[index.tip] ELSE StartHeight(i)
           retry  == IF TipInside(i) THEN Failed(seg, index.tip, Height[index.tip])
                     ELSE Failed(seg, Main[StartHeight(i)], StartHeight(i))
           S      == [segs EXCEPT ![i] = retry]
           b      == Less(Charged(m), Len(seg.buf))
           hs     == Cleared(Loser(i, n) \cup {n})
<1>1. i \in Seg /\ ~segs[i].complete
  BY AttachedMin DEF RecvMismatch, Attached
<1>2. IF retry.fails >= MaxFlushFails
      THEN /\ active'   = FALSE
           /\ segs'     = Dropped(S, Seg \ {i})
           /\ buffered' = Less(b, Staged(S, Seg \ {i}))
           /\ hsync'    = hs
           /\ wire'     = Answered(n)
      ELSE /\ Assign(S, b, hs, Answered(n), n)
           /\ buffered' = b
           /\ active' = active
  BY DEF RecvMismatch
<1>3. hs \in Flags /\ Answered(n) \in Wires
  BY ClearedType, AnsweredType
<1> HIDE DEF i
<1>4. seg \in SegState /\ seg.flushed = segs[i].flushed /\ seg.fails = segs[i].fails
  BY <1>1, ExtendedFields
<1>5. t \in Header /\ h \in Nat /\ h >= StartHeight(i)
  BY <1>1, SegConstants, HeaderAssumption DEF TypeOK, Index, TipInside
<1>6. retry = Failed(seg, t, h)
  OBVIOUS
<1>7. b \in Nat
  <2>1. Len(seg.buf) \in Nat /\ Len(m.hdrs) \in Nat
    BY <1>4 DEF Messages, SegState
  <2>2. Charged(m) \in Nat
    BY ChargedNat
  <2> HIDE DEF seg
  <2>3. QED
    BY <2>1, <2>2 DEF Less
<1> HIDE DEF seg, t, h, b, hs, retry
<1>8. S = [segs EXCEPT ![i] = Failed(seg, t, h)]
  BY <1>6
<1>9. S \in Segments
  <2>1. Failed(seg, t, h) \in SegState
    BY <1>4, <1>5, FailedFields
  <2>2. QED
    BY <1>1, <1>8, <2>1 DEF TypeOK, Segments
<1> HIDE DEF S
<1>10. CASE retry.fails >= MaxFlushFails
  <2>1. ~active' /\ segs' = Dropped(S, Seg \ {i})
    BY <1>2, <1>10
  <2>2. FailsOne(i, t, h, active', segs')
    BY <1>1, <1>4, <1>5, <1>8, <2>1, FailsOneBy
  <2>3. Staged(S, Seg \ {i}) \in Nat
    BY <1>9, PlacesFinite
  <2>4. buffered' \in Nat
    BY <1>2, <1>7, <1>10, <2>3 DEF Less
  <2>5. QED
    BY <1>1, <1>2, <1>3, <1>5, <1>10, <2>2, <2>4
<1>11. CASE ~(retry.fails >= MaxFlushFails)
  <2>1. Reassigned(S, segs') /\ hsync' \in Flags /\ wire' \in Wires
    BY <1>2, <1>3, <1>9, <1>11, AssignReassigns
  <2>2. FailsOne(i, t, h, active', segs')
    BY <1>1, <1>4, <1>5, <1>8, <2>1, FailsOneBy
  <2>3. QED
    BY <1>1, <1>2, <1>5, <1>7, <1>11, <2>1, <2>2 DEF TypeOK
<1>12. QED
  BY <1>10, <1>11

(* par_hdr_flush on a segment whose tail or headers are refused.           *)
LEMMA FlushFailEffect ==
    ASSUME TypeOK, FlushFail
    PROVE  /\ flushIdx \in Seg /\ segs[flushIdx].complete /\ ~segs[flushIdx].flushed
           /\ FailsOne(flushIdx, index.tip, Height[index.tip], active', segs')
           /\ buffered' \in Nat /\ active' \in BOOLEAN /\ (active' => active)
<1> DEFINE i     == flushIdx
           t     == index.tip
           h     == Height[index.tip]
           retry == Failed(Head0, t, h)
           S     == [segs EXCEPT ![i] = retry]
           b     == Less(buffered, Len(Head0.buf))
           above == flushIdx + 1 .. NumSegs - 1
<1>1. i \in Seg /\ Head0 = segs[i] /\ Head0.complete /\ ~Head0.flushed
  BY ParHdrAssumption DEF FlushFail, HeadReady, Head0, Seg, TypeOK
<1>2. Head0 \in SegState /\ t \in Header /\ h \in Nat
  BY <1>1, HeaderAssumption DEF TypeOK, Index
<1>3. IF retry.fails >= MaxFlushFails
      THEN /\ active'   = FALSE
           /\ segs'     = Dropped(S, above)
           /\ buffered' = Less(b, Staged(S, above))
      ELSE /\ segs' = S /\ buffered' = b
           /\ active' = active
  BY DEF FlushFail
<1>4. b \in Nat
  <2>1. Len(Head0.buf) \in Nat
    BY <1>2 DEF SegState
  <2>2. QED
    BY <2>1 DEF Less, TypeOK
<1>5. above \in SUBSET (Seg \ {i})
  BY <1>1, ParHdrAssumption DEF Seg
<1>6. S \in Segments
  <2>1. retry \in SegState
    BY <1>2, FailedFields
  <2>2. QED
    BY <1>1, <2>1 DEF TypeOK, Segments
<1>7. S = [segs EXCEPT ![i] = Failed(Head0, t, h)]
  OBVIOUS
<1> HIDE DEF t, h, retry, S, b, above
<1>8. CASE retry.fails >= MaxFlushFails
  <2>1. ~active' /\ segs' = Dropped(S, above)
    BY <1>3, <1>8
  <2>2. FailsOne(i, t, h, active', segs')
    BY <1>1, <1>2, <1>5, <1>7, <2>1, FailsOneBy
  <2>3. Staged(S, above) \in Nat
    BY <1>5, <1>6, PlacesFinite
  <2>4. buffered' \in Nat
    BY <1>3, <1>4, <1>8, <2>3 DEF Less
  <2>5. QED
    BY <1>1, <1>3, <1>8, <2>2, <2>4 DEF t, h
<1>9. CASE ~(retry.fails >= MaxFlushFails)
  <2>1. segs' = S /\ active' = active
    BY <1>3, <1>9
  <2>2. Reassigned(S, segs')
    BY <1>6, <2>1 DEF Reassigned, Kept
  <2>3. FailsOne(i, t, h, active', segs')
    BY <1>1, <1>2, <1>7, <2>2, FailsOneBy
  <2>4. QED
    BY <1>1, <1>3, <1>4, <1>9, <2>3 DEF TypeOK, t, h
<1>10. QED
  BY <1>8, <1>9

(* T is segs with a batch staged in segment i, which is then complete iff  *)
(* done; no other segment changes.                                         *)
ExtendsOne(i, m, done, T) ==
    /\ T \in Segments
    /\ T[i].buf = segs[i].buf \o m.hdrs
    /\ T[i].tip = IF Len(m.hdrs) = 0 THEN segs[i].tip ELSE m.hdrs[Len(m.hdrs)]
    /\ T[i].tipHeight = segs[i].tipHeight + Len(m.hdrs)
    /\ Len(m.hdrs) = 0 => T[i].tail = segs[i].tail
    /\ T[i].flushed = segs[i].flushed /\ T[i].fails = segs[i].fails
    /\ T[i].complete <=> done
    /\ done => T[i].owner = NoNode /\ T[i].shadow = NoNode
    /\ \A j \in Seg \ {i} : T[j] = segs[j]

(* par_hdr_recv on a segment that needs more.                              *)
LEMMA MoreEffect ==
    ASSUME TypeOK, NEW n \in Node, NEW m \in Messages, n \in Honest => wire[n] # <<>>,
           RecvMore(n, m)
    PROVE  /\ \E i \in Seg :
                 /\ i \in Attached(n) /\ ~segs[i].complete
                 /\ ExtendsOne(i, m, FALSE, segs') /\ segs'[i].tipHeight < StopHeight[i]
           /\ hsync' \in Flags /\ wire' \in Wires
<1> DEFINE i == Min(Attached(n))
           e == Extended(i, n, m)
           S == [segs EXCEPT ![i] = e]
<1>1. i \in Attached(n) /\ i \in Seg /\ ~segs[i].complete
  BY AttachedMin DEF RecvMore, Attached
<1>2. /\ segs' = S /\ S[i].tipHeight < StopHeight[i]
      /\ hsync' = [Cleared(Loser(i, n)) EXCEPT ![n] = TRUE]
      /\ wire' = Sent(Answered(n), n, Request(S, i))
  BY DEF RecvMore
<1> HIDE DEF i
<1>3. /\ e \in SegState
      /\ e.buf = segs[i].buf \o m.hdrs
      /\ e.tip = IF Len(m.hdrs) = 0 THEN segs[i].tip ELSE m.hdrs[Len(m.hdrs)]
      /\ e.tipHeight = segs[i].tipHeight + Len(m.hdrs)
      /\ Len(m.hdrs) = 0 => e.tail = segs[i].tail
      /\ e.complete = segs[i].complete /\ e.flushed = segs[i].flushed
      /\ e.fails = segs[i].fails
  BY <1>1, ExtendedFields
<1> HIDE DEF e
<1>4. S \in Segments /\ S[i] = e /\ \A j \in Seg \ {i} : S[j] = segs[j]
  BY <1>1, <1>3 DEF TypeOK, Segments
<1> HIDE DEF S
<1>5. ExtendsOne(i, m, FALSE, S)
  BY <1>1, <1>3, <1>4 DEF ExtendsOne
<1>6. Answered(n) \in Wires
  BY AnsweredType
<1>7. wire' \in Wires
  BY <1>1, <1>2, <1>4, <1>6, SentType
<1>8. hsync' \in Flags
  BY <1>2, ClearedType DEF Flags
<1>9. QED
  BY <1>1, <1>2, <1>5, <1>7, <1>8

(* par_hdr_recv on a segment that arrives at its checkpoint.               *)
LEMMA CompleteEffect ==
    ASSUME TypeOK, NEW n \in Node, NEW m \in Messages, n \in Honest => wire[n] # <<>>,
           RecvComplete(n, m)
    PROVE  \E i \in Seg : /\ i \in Attached(n) /\ ~segs[i].complete
                          /\ ExtendsOne(i, m, TRUE, segs') /\ segs'[i].tip = StopHash(i)
<1> DEFINE i == Min(Attached(n))
           e == Extended(i, n, m)
           c == Completed(e)
<1>1. i \in Attached(n) /\ i \in Seg /\ ~segs[i].complete
  BY AttachedMin DEF RecvComplete, Attached
<1>2. /\ segs' = [segs EXCEPT ![i] = c]
      /\ e.tip = StopHash(i)
  BY DEF RecvComplete, Landed
<1> HIDE DEF i
<1>3. /\ e \in SegState
      /\ e.buf = segs[i].buf \o m.hdrs
      /\ e.tip = IF Len(m.hdrs) = 0 THEN segs[i].tip ELSE m.hdrs[Len(m.hdrs)]
      /\ e.tipHeight = segs[i].tipHeight + Len(m.hdrs)
      /\ Len(m.hdrs) = 0 => e.tail = segs[i].tail
      /\ e.complete = segs[i].complete /\ e.flushed = segs[i].flushed
      /\ e.fails = segs[i].fails
  BY <1>1, ExtendedFields
<1> HIDE DEF e
<1>4. /\ c \in SegState
      /\ c.tip = e.tip /\ c.tipHeight = e.tipHeight /\ c.buf = e.buf /\ c.tail = e.tail
      /\ c.complete /\ c.flushed = e.flushed /\ c.fails = e.fails
      /\ c.owner = NoNode /\ c.shadow = NoNode
  BY <1>3, CompletedFields
<1> HIDE DEF c
<1>5. segs' \in Segments /\ segs'[i] = c /\ \A j \in Seg \ {i} : segs'[j] = segs[j]
  BY <1>1, <1>2, <1>4 DEF TypeOK, Segments
<1>6. ExtendsOne(i, m, TRUE, segs')
  BY <1>1, <1>3, <1>4, <1>5 DEF ExtendsOne
<1>7. QED
  BY <1>1, <1>2, <1>4, <1>5, <1>6

(* T is segs with segment i flushed and its buffer given back.             *)
FlushesOne(i, T) ==
    /\ T \in Segments
    /\ T[i].flushed /\ T[i].buf = <<>> /\ T[i].complete = segs[i].complete
    /\ T[i].tip = segs[i].tip /\ T[i].tipHeight = segs[i].tipHeight
    /\ T[i].owner = segs[i].owner /\ T[i].shadow = segs[i].shadow
    /\ \A j \in Seg \ {i} : T[j] = segs[j]

(* par_hdr_flush, the end of a segment.                                    *)
LEMMA FlushSegmentEffect ==
    ASSUME TypeOK, FlushSegment
    PROVE  /\ flushIdx \in Seg /\ segs[flushIdx].complete /\ ~segs[flushIdx].flushed
           /\ FlushesOne(flushIdx, segs')
           /\ flushIdx' \in 0 .. NumSegs /\ buffered' \in Nat
<1>1. flushIdx \in Seg /\ Head0 = segs[flushIdx] /\ Head0.complete /\ ~Head0.flushed
  BY ParHdrAssumption DEF FlushSegment, HeadReady, Head0, Seg, TypeOK
<1>2. ASSUME NEW s \in SegState, NEW t,
             t = [s EXCEPT !.flushed = TRUE, !.buf = <<>>, !.tail = "none"]
      PROVE  /\ t \in SegState
             /\ t.flushed /\ t.buf = <<>> /\ t.complete = s.complete
             /\ t.tip = s.tip /\ t.tipHeight = s.tipHeight
             /\ t.owner = s.owner /\ t.shadow = s.shadow
  <2>1. <<>> \in Seq(Block)
    OBVIOUS
  <2>2. t \in SegState
    BY <1>2, <2>1 DEF SegState
  <2>3. /\ t.flushed /\ t.buf = <<>> /\ t.complete = s.complete
        /\ t.tip = s.tip /\ t.tipHeight = s.tipHeight
        /\ t.owner = s.owner /\ t.shadow = s.shadow
    BY <1>2 DEF SegState
  <2>4. QED
    BY <2>2, <2>3
<1>3. Head0 \in SegState
  BY <1>1 DEF TypeOK
<1>4. segs' = [segs EXCEPT ![flushIdx] = [Head0 EXCEPT !.flushed = TRUE, !.buf = <<>>, !.tail = "none"]]
  BY <1>1 DEF FlushSegment, TypeOK
<1>5. /\ segs'[flushIdx] = [Head0 EXCEPT !.flushed = TRUE, !.buf = <<>>, !.tail = "none"]
      /\ segs' = [j \in Seg |-> segs'[j]]
      /\ \A j \in Seg \ {flushIdx} : segs'[j] = segs[j]
  BY <1>1, <1>4 DEF TypeOK
<1>6. LET t == segs'[flushIdx]
      IN  /\ t \in SegState
          /\ t.flushed /\ t.buf = <<>> /\ t.complete = Head0.complete
          /\ t.tip = Head0.tip /\ t.tipHeight = Head0.tipHeight
          /\ t.owner = Head0.owner /\ t.shadow = Head0.shadow
  BY <1>2, <1>3, <1>5
<1>7. segs' \in Segments
  <2>1. \A j \in Seg : segs'[j] \in SegState
    BY <1>5, <1>6 DEF TypeOK
  <2>2. QED
    BY <1>5, <2>1 DEF Segments
<1>8. FlushesOne(flushIdx, segs')
  BY <1>1, <1>5, <1>6, <1>7 DEF FlushesOne
<1>9. buffered' \in Nat
  <2>1. Len(Head0.buf) \in Nat
    BY <1>3 DEF SegState
  <2>2. QED
    BY <2>1 DEF FlushSegment, Less, TypeOK
<1>10. flushIdx' \in 0 .. NumSegs
  BY <1>1, ParHdrAssumption DEF FlushSegment, Seg, TypeOK
<1>11. QED
  BY <1>1, <1>8, <1>9, <1>10

-----------------------------------------------------------------------------
(* Type correctness.  par_hdr_recv remembers its peer until the flush is   *)
(* over.                                                                   *)
TypeInv == TypeOK /\ (pc # "idle" => cur \in Node)

(* par_hdr_init leaves a well-typed state.                                 *)
LEMMA TypeInit == Init => TypeInv
<1> SUFFICES ASSUME Init PROVE TypeInv
  OBVIOUS
<1>1. \A i \in Seg : FreshSeg(i) \in SegState
  <2> TAKE i \in Seg
  <2>1. <<>> \in Seq(Block) /\ 0 \in Nat
    OBVIOUS
  <2>2. QED
    BY <2>1, SegConstants DEF FreshSeg, SegState
<1>2. segs \in [Seg -> SegState]
  BY <1>1 DEF Init
<1>3. index \in Index
  BY HeaderAssumption DEF Init, NewIndex, Index, Header
<1>4. wire \in [Honest -> Seq(GetHeaders)]
  BY DEF Init
<1>5. conn \in [Node -> {"new", "up", "gone"}] /\ hsync \in [Node -> BOOLEAN]
  BY DEF Init
<1>6. flushIdx \in 0 .. NumSegs
  BY ParHdrAssumption DEF Init
<1>7. QED
  BY <1>2, <1>3, <1>4, <1>5, <1>6 DEF Init, TypeInv, TypeOK

(* Every step keeps the types.                                             *)
LEMMA TypeStep ==
    ASSUME TypeInv, [Next]_vars
    PROVE  TypeInv'
<1> USE DEF Segments, Flags, Wires
<1>1. TypeOK /\ (pc # "idle" => cur \in Node)
  BY DEF TypeInv
<1>2. ASSUME NEW n \in Node, HandshakeDone(n) PROVE TypeInv'
  <2>1. segs' \in Segments /\ hsync' \in Flags /\ wire' \in Wires
    BY <1>1, <1>2, AssignReassigns DEF HandshakeDone, Reassigned, TypeOK
  <2>2. QED
    BY <1>1, <1>2, <2>1 DEF HandshakeDone, TypeInv, TypeOK, dbVars, ctlVars
<1>3. ASSUME NEW n \in Node, Disconnect(n) PROVE TypeInv'
  <2>1. wire' \in Wires
    BY <1>1, <1>3 DEF Disconnect, TypeOK
  <2>2. QED
    BY <1>1, <1>3, <2>1 DEF Disconnect, TypeInv, TypeOK, segVars, dbVars, ctlVars
<1>4. ASSUME NEW n \in Node, Recv(n) PROVE TypeInv'
  <2>1. PICK m \in Reply(n) : \/ RecvUnsolicited(n, m)
                              \/ RecvDropped(n, m)
                              \/ RecvMore(n, m)
                              \/ RecvMismatch(n, m)
                              \/ RecvComplete(n, m)
    BY <1>4 DEF Recv
  <2>2. m \in Messages /\ (n \in Honest => wire[n] # <<>>)
    BY <1>1, ReplyType
  <2>3. Answered(n) \in Wires /\ Charged(m) \in Nat
    BY <1>1, <2>2, AnsweredType, ChargedNat
  <2>4. CASE RecvUnsolicited(n, m)
    <3>1. hsync' \in Flags
      BY <2>4, ClearedType DEF RecvUnsolicited
    <3>2. QED
      BY <1>1, <2>3, <2>4, <3>1
         DEF RecvUnsolicited, TypeInv, TypeOK, segVars, dbVars, ctlVars
  <2>5. CASE RecvDropped(n, m)
    <3>1. segs' \in Segments /\ hsync' \in Flags
      BY <1>1, <2>5, DroppedEffect, ClearedType DEF RecvDropped, Reassigned
    <3>2. QED
      BY <1>1, <2>3, <2>5, <3>1 DEF RecvDropped, TypeInv, TypeOK, dbVars, ctlVars
  <2>6. CASE RecvMore(n, m)
    <3>1. segs' \in Segments /\ hsync' \in Flags /\ wire' \in Wires
      BY <1>1, <2>2, <2>6, MoreEffect DEF ExtendsOne
    <3>2. QED
      BY <1>1, <2>3, <2>6, <3>1 DEF RecvMore, TypeInv, TypeOK, dbVars, ctlVars
  <2>7. CASE RecvMismatch(n, m)
    <3>1. /\ segs' \in Segments /\ hsync' \in Flags /\ wire' \in Wires
          /\ buffered' \in Nat /\ active' \in BOOLEAN
      BY <1>1, <2>2, <2>7, MismatchEffect DEF FailsOne
    <3>2. QED
      BY <1>1, <2>7, <3>1 DEF RecvMismatch, TypeInv, TypeOK, dbVars, ctlVars
  <2>8. CASE RecvComplete(n, m)
    <3>1. segs' \in Segments
      BY <1>1, <2>2, <2>8, CompleteEffect DEF ExtendsOne
    <3>2. hsync' \in Flags
      BY <2>8, ClearedType DEF RecvComplete
    <3>3. QED
      BY <1>1, <2>3, <2>8, <3>1, <3>2 DEF RecvComplete, TypeInv, TypeOK, dbVars
  <2>9. QED
    BY <2>1, <2>4, <2>5, <2>6, <2>7, <2>8
<1>5. CASE FlushHeader
  <2> DEFINE b == Head0.buf[at + 1]
  <2>1. b \in Block
    <3>1. flushIdx \in Seg
      BY <1>1, <1>5, ParHdrAssumption DEF FlushHeader, HeadReady, Seg, TypeOK
    <3>2. Head0.buf \in Seq(Block)
      BY <1>1, <3>1 DEF Head0, TypeOK, SegState
    <3>3. at \in Nat /\ at < Len(Head0.buf)
      BY <1>1, <1>5 DEF FlushHeader, TypeOK
    <3>4. QED
      BY <3>2, <3>3
  <2>2. index' = Connect(index, b, "flush") /\ written' = written \cup {b}
    BY <1>5 DEF FlushHeader
  <2> HIDE DEF b
  <2>3. index' \in Index
    BY <1>1, <2>1, <2>2, ConnectType DEF TypeOK, Mode
  <2>4. QED
    BY <1>1, <1>5, <2>1, <2>2, <2>3
       DEF FlushHeader, TypeInv, TypeOK, segVars, peerVars
<1>6. CASE FlushSegment
  <2>1. segs' \in Segments /\ flushIdx' \in 0 .. NumSegs /\ buffered' \in Nat
    BY <1>1, <1>6, FlushSegmentEffect DEF FlushesOne
  <2>2. QED
    BY <1>1, <1>6, <2>1 DEF FlushSegment, TypeInv, TypeOK, peerVars, dbVars
<1>7. CASE FlushFail
  <2>1. segs' \in Segments /\ buffered' \in Nat /\ active' \in BOOLEAN
    BY <1>1, <1>7, FlushFailEffect DEF FailsOne
  <2>2. QED
    BY <1>1, <1>7, <2>1 DEF FlushFail, TypeInv, TypeOK, peerVars, dbVars
<1>8. CASE FlushDone
  <2>1. segs' \in Segments /\ hsync' \in Flags /\ wire' \in Wires
    <3>1. CASE active
      <4>1. cur \in Node /\ Assign(segs, buffered, hsync, wire, cur)
        BY <1>1, <1>8, <3>1 DEF FlushDone
      <4>2. QED
        BY <1>1, <4>1, AssignReassigns DEF Reassigned, TypeOK
    <3>2. CASE ~active
      BY <1>1, <1>8, <3>2 DEF FlushDone, TypeOK
    <3>3. QED
      BY <3>1, <3>2
  <2>2. active' \in BOOLEAN
    BY <1>8 DEF FlushDone
  <2>3. QED
    BY <1>1, <1>8, <2>1, <2>2 DEF FlushDone, TypeInv, TypeOK, dbVars
<1>9. CASE Tick
  <2>1. PICK stalled, rated, slow \in SUBSET Seg, outlier \in BOOLEAN :
               Reclaim(stalled, rated, outlier, slow)
    BY <1>9 DEF Tick, Ratable, Held
  <2>3. segs' \in Segments /\ hsync' \in Flags /\ wire' \in Wires
    BY <1>1, <2>1, ReclaimReassigns DEF Reassigned
  <2>4. rateRef' \in BOOLEAN
    BY <1>1, <2>1 DEF Reclaim, TypeOK
  <2>5. QED
    BY <1>1, <2>1, <2>3, <2>4 DEF Reclaim, TypeInv, TypeOK, dbVars, ctlVars
<1>10. CASE UNCHANGED vars
  BY <1>1, <1>10 DEF TypeInv, TypeOK, vars, segVars, peerVars, dbVars, ctlVars
<1>11. QED
  BY <1>2, <1>3, <1>4, <1>5, <1>6, <1>7, <1>8, <1>9, <1>10 DEF Next, Flush

(* Every variable of the parallel download keeps its type, however many    *)
(* peers and segments there are and whatever the peers send: in particular *)
(* buffered_bytes never goes negative and flush_idx never passes num_segs. *)
THEOREM TypeCorrect == Spec => []TypeOK
<1>1. Init => TypeInv
  BY TypeInit
<1>2. TypeInv /\ [Next]_vars => TypeInv'
  BY TypeStep
<1>3. TypeInv => TypeOK
  BY DEF TypeInv
<1>4. QED
  BY <1>1, <1>2, <1>3, PTL DEF Spec

-----------------------------------------------------------------------------
(* Seen from the segments and the database there are six kinds of step.    *)
Quiet == UNCHANGED <<flushIdx, index, written>>

HandsAround ==
    Quiet /\ pc' = "idle" /\ (active' => active) /\ Reassigned(segs, segs')

StagesMore ==
    /\ Quiet /\ pc' = "idle" /\ active' = active
    /\ \E i \in Seg, m \in Messages : ~segs[i].complete /\ ExtendsOne(i, m, FALSE, segs')

StagesLast ==
    /\ Quiet /\ pc' = "flush" /\ at' = 0 /\ active /\ active'
    /\ \E i \in Seg, m \in Messages :
         ~segs[i].complete /\ ExtendsOne(i, m, TRUE, segs') /\ segs'[i].tip = StopHash(i)

SetsBack ==
    /\ Quiet /\ pc' # "flush" /\ (active' => active)
    /\ \E i \in Seg, t \in Header, h \in Nat :
         /\ FailsOne(i, t, h, active', segs')
         /\ \/ ~segs[i].complete /\ h >= StartHeight(i)
            \/ i = flushIdx /\ segs[i].complete /\ ~segs[i].flushed /\ h = Height[index.tip]

FlushEnds ==
    /\ FlushSegment /\ flushIdx \in Seg
    /\ segs[flushIdx].complete /\ ~segs[flushIdx].flushed
    /\ FlushesOne(flushIdx, segs')

(* Every step of every handler is of one of these kinds.                   *)
LEMMA StepKinds ==
    ASSUME TypeInv, Next
    PROVE  HandsAround \/ StagesMore \/ StagesLast \/ SetsBack \/ FlushHeader \/ FlushEnds
<1>1. TypeOK /\ (pc # "idle" => cur \in Node)
  BY DEF TypeInv
<1>2. segs \in Segments /\ hsync \in Flags /\ wire \in Wires
  BY <1>1 DEF TypeOK, Segments, Flags, Wires
<1>3. ASSUME UNCHANGED segs PROVE Reassigned(segs, segs')
  BY <1>2, <1>3 DEF Reassigned, Kept
<1>4. ASSUME NEW n \in Node, HandshakeDone(n) PROVE HandsAround
  <2>1. Reassigned(segs, segs')
    BY <1>1, <1>2, <1>4, AssignReassigns DEF HandshakeDone
  <2>2. QED
    BY <1>4, <2>1 DEF HandshakeDone, HandsAround, Quiet, dbVars, ctlVars
<1>5. ASSUME NEW n \in Node, Disconnect(n) PROVE HandsAround
  BY <1>3, <1>5 DEF Disconnect, HandsAround, Quiet, segVars, dbVars, ctlVars
<1>6. ASSUME NEW n \in Node, Recv(n)
      PROVE  HandsAround \/ StagesMore \/ StagesLast \/ SetsBack
  <2>1. PICK m \in Reply(n) : \/ RecvUnsolicited(n, m)
                              \/ RecvDropped(n, m)
                              \/ RecvMore(n, m)
                              \/ RecvMismatch(n, m)
                              \/ RecvComplete(n, m)
    BY <1>6 DEF Recv
  <2>2. m \in Messages /\ (n \in Honest => wire[n] # <<>>)
    BY <1>1, ReplyType
  <2>3. CASE RecvUnsolicited(n, m)
    BY <1>3, <2>3 DEF RecvUnsolicited, Receives, HandsAround, Quiet, segVars, dbVars, ctlVars
  <2>4. CASE RecvDropped(n, m)
    <3>1. Reassigned(segs, segs')
      BY <1>1, <2>4, DroppedEffect
    <3>2. QED
      BY <2>4, <3>1 DEF RecvDropped, Receives, HandsAround, Quiet, dbVars, ctlVars
  <2>5. CASE RecvMore(n, m)
    <3>1. \E i \in Seg : ~segs[i].complete /\ ExtendsOne(i, m, FALSE, segs')
      BY <1>1, <2>2, <2>5, MoreEffect
    <3>2. QED
      BY <2>2, <2>5, <3>1 DEF RecvMore, Receives, StagesMore, Quiet, dbVars, ctlVars
  <2>6. CASE RecvMismatch(n, m)
    <3>1. /\ \E i \in Seg, t \in Header, h \in Nat :
                ~segs[i].complete /\ h >= StartHeight(i) /\ FailsOne(i, t, h, active', segs')
          /\ active' => active
      BY <1>1, <2>2, <2>6, MismatchEffect
    <3>2. QED
      BY <2>6, <3>1 DEF RecvMismatch, Receives, SetsBack, Quiet, dbVars, ctlVars
  <2>7. CASE RecvComplete(n, m)
    <3>1. \E i \in Seg : /\ ~segs[i].complete /\ ExtendsOne(i, m, TRUE, segs')
                         /\ segs'[i].tip = StopHash(i)
      BY <1>1, <2>2, <2>7, CompleteEffect
    <3>2. QED
      BY <2>2, <2>7, <3>1 DEF RecvComplete, Receives, StagesLast, Quiet, dbVars
  <2>8. QED
    BY <2>1, <2>3, <2>4, <2>5, <2>6, <2>7
<1>7. ASSUME FlushSegment PROVE FlushEnds
  BY <1>1, <1>7, FlushSegmentEffect DEF FlushEnds
<1>8. ASSUME FlushFail PROVE SetsBack
  <2>1. index.tip \in Header /\ Height[index.tip] \in Nat
    BY <1>1, HeaderAssumption DEF TypeOK, Index
  <2>2. /\ flushIdx \in Seg /\ segs[flushIdx].complete /\ ~segs[flushIdx].flushed
        /\ FailsOne(flushIdx, index.tip, Height[index.tip], active', segs')
        /\ active' => active
    BY <1>1, <1>8, FlushFailEffect
  <2>3. pc' # "flush" /\ Quiet
    BY <1>8 DEF FlushFail, Quiet, dbVars
  <2>4. QED
    BY <2>1, <2>2, <2>3 DEF SetsBack
<1>9. ASSUME FlushDone PROVE HandsAround
  <2>1. Reassigned(segs, segs')
    <3>1. CASE active
      <4>1. cur \in Node /\ Assign(segs, buffered, hsync, wire, cur)
        BY <1>1, <1>9, <3>1 DEF FlushDone
      <4>2. QED
        BY <1>1, <1>2, <4>1, AssignReassigns
    <3>2. CASE ~active
      BY <1>3, <1>9, <3>2 DEF FlushDone
    <3>3. QED
      BY <3>1, <3>2
  <2>2. QED
    BY <1>9, <2>1 DEF FlushDone, HandsAround, Quiet, dbVars
<1>10. ASSUME Tick PROVE HandsAround
  <2>1. PICK stalled, rated, slow \in SUBSET Seg, outlier \in BOOLEAN :
               Reclaim(stalled, rated, outlier, slow)
    BY <1>10 DEF Tick, Ratable, Held
  <2>2. Reassigned(segs, segs')
    BY <1>1, <2>1, ReclaimReassigns
  <2>3. QED
    BY <2>1, <2>2 DEF Reclaim, HandsAround, Quiet, dbVars, ctlVars
<1>11. QED
  BY <1>4, <1>5, <1>6, <1>7, <1>8, <1>9, <1>10 DEF Next, Flush

-----------------------------------------------------------------------------
(* The flush is in order: every step keeps it so.                          *)
LEMMA FlushOrderedStep ==
    ASSUME TypeInv, TypeInv', FlushOrdered, [Next]_vars
    PROVE  FlushOrdered'
<1>1. flushIdx \in Nat /\ Seg \subseteq Nat
  BY ParHdrAssumption DEF TypeInv, TypeOK, Seg
<1>2. CASE HandsAround
  <2>1. flushIdx' = flushIdx /\ Reassigned(segs, segs')
    BY <1>2 DEF HandsAround, Quiet
  <2>2. QED
    BY <2>1 DEF FlushOrdered, Reassigned, Kept
<1>3. CASE StagesMore
  <2>1. PICK i \in Seg, m \in Messages : ~segs[i].complete /\ ExtendsOne(i, m, FALSE, segs')
    BY <1>3 DEF StagesMore
  <2>2. flushIdx' = flushIdx
    BY <1>3 DEF StagesMore, Quiet
  <2>3. QED
    BY <2>1, <2>2 DEF FlushOrdered, ExtendsOne
<1>4. CASE StagesLast
  <2>1. PICK i \in Seg, m \in Messages : ~segs[i].complete /\ ExtendsOne(i, m, TRUE, segs')
    BY <1>4 DEF StagesLast
  <2>2. flushIdx' = flushIdx
    BY <1>4 DEF StagesLast, Quiet
  <2>3. QED
    BY <2>1, <2>2 DEF FlushOrdered, ExtendsOne
<1>5. CASE SetsBack
  <2>1. PICK i \in Seg, t \in Header, h \in Nat :
          /\ FailsOne(i, t, h, active', segs')
          /\ ~segs[i].complete \/ ~segs[i].flushed
    BY <1>5 DEF SetsBack
  <2>2. flushIdx' = flushIdx
    BY <1>5 DEF SetsBack, Quiet
  <2>3. QED
    BY <2>1, <2>2 DEF FlushOrdered, FailsOne
<1>6. CASE FlushHeader
  <2>1. flushIdx' = flushIdx /\ segs' = segs
    BY <1>6 DEF FlushHeader, segVars
  <2>2. QED
    BY <2>1 DEF FlushOrdered
<1>7. CASE FlushEnds
  <2>1. flushIdx' = flushIdx + 1
    BY <1>7 DEF FlushEnds, FlushSegment
  <2>2. \A j \in Seg : j < flushIdx + 1 <=> (j < flushIdx \/ j = flushIdx)
    BY <1>1
  <2>3. QED
    BY <1>1, <1>7, <2>1, <2>2 DEF FlushOrdered, FlushEnds, FlushesOne
<1>8. CASE UNCHANGED vars
  BY <1>8 DEF FlushOrdered, vars, segVars
<1>9. QED
  BY <1>2, <1>3, <1>4, <1>5, <1>6, <1>7, <1>8, StepKinds

(* The headers database receives the segments in order and without holes,  *)
(* a flushed segment has given its buffer back, and a complete one holds   *)
(* no peer: what par_hdr_check asserts, for any number of peers.           *)
THEOREM FlushInOrder == Spec => []FlushOrdered
<1>1. Init => TypeInv /\ FlushOrdered
  <2>1. ASSUME Init PROVE FlushOrdered
    <3>1. \A i \in Seg : ~(i < flushIdx)
      BY <2>1, ParHdrAssumption DEF Init, Seg
    <3>2. QED
      BY <2>1, <3>1 DEF Init, FlushOrdered, FreshSeg
  <2>2. QED
    BY <2>1, TypeInit
<1>2. TypeInv /\ FlushOrdered /\ [Next]_vars => (TypeInv /\ FlushOrdered)'
  BY TypeStep, FlushOrderedStep
<1>3. QED
  BY <1>1, <1>2, PTL DEF Spec

-----------------------------------------------------------------------------
(* The anchoring argument.  Headers go to the file only behind a header    *)
(* that is there already, so a checkpoint on the file brings the chain     *)
(* below it along.                                                         *)

PrevClosed(W) == \A b \in W : Prev[b] \in W \cup {Genesis}

(* A set closed under Prev that holds a header of the checkpointed chain   *)
(* holds all the headers of that chain below it.                           *)
LEMMA ClosedHoldsChain ==
    ASSUME NEW W \in SUBSET Block, PrevClosed(W),
           NEW H \in 1 .. ChainHeight, Main[H] \in W
    PROVE  \A h \in 1 .. H : Main[h] \in W
<1> DEFINE T == {k \in Nat : k < H /\ Main[H - k] \notin W}
<1> SUFFICES ASSUME T # {} PROVE FALSE
  <2>1. ASSUME NEW h \in 1 .. H, Main[h] \notin W PROVE H - h \in T
    <3>1. H \in Nat /\ h \in Nat /\ H - (H - h) = h /\ H - h \in Nat /\ H - h < H
      BY ParHdrAssumption
    <3>2. QED
      BY <2>1, <3>1
  <2>2. QED
    BY <2>1
<1>1. T \in SUBSET Nat
  OBVIOUS
<1>2. PICK k \in T : \A j \in T : k <= j
  <2> HIDE DEF T
  <2>1. QED
    BY <1>1, MinIn
<1>3. k \in Nat /\ k < H /\ Main[H - k] \notin W /\ H \in Nat
  BY ParHdrAssumption
<1>4. k # 0
  BY <1>3
<1>5. k - 1 \in Nat /\ ~(k <= k - 1) /\ k - 1 < H
  BY <1>3, <1>4
<1>6. k - 1 \notin T
  <2> HIDE DEF T
  <2>1. QED
    BY <1>2, <1>5
<1>7. Main[H - (k - 1)] \in W
  BY <1>5, <1>6
<1> DEFINE h == H - (k - 1)
<1>8. h \in 1 .. ChainHeight /\ h - 1 = H - k /\ H - k \in 1 .. ChainHeight
  BY <1>3, <1>4, ParHdrAssumption
<1> HIDE DEF T
<1>9. Prev[Main[h]] = Main[H - k] /\ Main[H - k] \in Block
  <2> HIDE DEF h
  <2>1. Prev[Main[h]] = Main[h - 1]
    BY <1>8, ParHdrAssumption
  <2>2. QED
    BY <1>8, <2>1, ParHdrAssumption
<1>10. Main[H - k] \in W \cup {Genesis}
  BY <1>7, <1>9 DEF PrevClosed
<1>11. QED
  BY <1>3, <1>9, <1>10, HeaderAssumption

(* Main[h] is at height h.                                                 *)
LEMMA MainHeights == \A h \in 0 .. ChainHeight : Height[Main[h]] = h
<1> DEFINE T == {h \in Nat : h <= ChainHeight /\ Height[Main[h]] # h}
<1> SUFFICES ASSUME T # {} PROVE FALSE
  BY ParHdrAssumption
<1>1. T \in SUBSET Nat
  OBVIOUS
<1>2. PICK h \in T : \A j \in T : h <= j
  <2> HIDE DEF T
  <2>1. QED
    BY <1>1, MinIn
<1>3. h \in Nat /\ h <= ChainHeight /\ Height[Main[h]] # h
  OBVIOUS
<1>4. h # 0
  BY <1>3, HeaderAssumption, ParHdrAssumption
<1>5. h \in 1 .. ChainHeight /\ h - 1 \in Nat /\ h - 1 <= ChainHeight /\ ~(h <= h - 1)
  BY <1>3, <1>4, ParHdrAssumption
<1>6. h - 1 \notin T
  <2> HIDE DEF T
  <2>1. QED
    BY <1>2, <1>5
<1>7. Height[Main[h - 1]] = h - 1
  BY <1>5, <1>6
<1>8. Main[h] \in Block /\ Prev[Main[h]] = Main[h - 1]
  BY <1>5, ParHdrAssumption
<1>9. Height[Main[h]] = Height[Main[h - 1]] + 1
  BY <1>8, HeaderAssumption
<1>10. QED
  BY <1>3, <1>5, <1>7, <1>9

(* A segment that can still be flushed ends in its tip; a proof is on      *)
(* record only for a segment with headers; a complete segment ends in its  *)
(* checkpoint; a flushed one has its checkpoint on the file.               *)
SegsSound ==
    \A i \in Seg :
        /\ segs[i].complete /\ ~segs[i].flushed => segs[i].tip = StopHash(i)
        /\ active /\ ~segs[i].flushed /\ segs[i].buf # <<>> =>
              segs[i].tip = segs[i].buf[Len(segs[i].buf)]
        /\ active /\ ~segs[i].flushed /\ segs[i].tail # "none" => segs[i].buf # <<>>
        /\ segs[i].flushed => StopHash(i) \in written
        /\ segs[i].tipHeight >= StartHeight(i)

(* The file holds every header in memory and, of each header on it, the    *)
(* predecessor; the tip is its highest header.                             *)
DbSound ==
    /\ index.tree \subseteq written
    /\ index.tip \in written \cup {Genesis}
    /\ PrevClosed(written)
    /\ \A b \in written : Height[b] <= Height[index.tip]

(* What the flush has connected of the segment so far is on the file.      *)
FlushSound ==
    pc = "flush" =>
        /\ active
        /\ HeadReady => at <= Len(Head0.buf) /\ \A k \in 1 .. at : Head0.buf[k] \in written

Sound == TypeInv /\ FlushOrdered /\ SegsSound /\ DbSound /\ FlushSound

(* dogecoin_headers_db_connect_hdr writes a header behind its predecessor. *)
LEMMA DbSoundStep ==
    ASSUME Sound, [Next]_vars
    PROVE  DbSound'
<1>1. CASE FlushHeader
  <2> DEFINE b == Head0.buf[at + 1]
  <2>1. b \in Block
    <3>1. flushIdx \in Seg
      BY <1>1, ParHdrAssumption DEF FlushHeader, HeadReady, Seg, Sound, TypeInv, TypeOK
    <3>2. Head0.buf \in Seq(Block)
      BY <3>1 DEF Head0, Sound, TypeInv, TypeOK, SegState
    <3>3. at \in Nat /\ at < Len(Head0.buf)
      BY <1>1 DEF FlushHeader, Sound, TypeInv, TypeOK
    <3>4. QED
      BY <3>2, <3>3
  <2>2. /\ index' = Connect(index, b, "flush") /\ written' = written \cup {b}
        /\ Prev[b] = index.tip \/ Prev[b] \in index.tree
    BY <1>1 DEF FlushHeader, NextConnects, Connects, KnownPrev
  <2> HIDE DEF b
  <2>3. /\ index'.tree \subseteq index.tree \cup {b}
        /\ index'.tip = IF Height[b] > Height[index.tip] THEN b ELSE index.tip
    BY <2>1, <2>2, ConnectType DEF Sound, TypeInv, TypeOK, Mode
  <2>4. Prev[b] \in written \cup {Genesis}
    BY <2>2 DEF Sound, DbSound
  <2>5. index'.tree \subseteq written' /\ index'.tip \in written' \cup {Genesis}
        /\ PrevClosed(written')
    BY <2>2, <2>3, <2>4 DEF Sound, DbSound, PrevClosed
  <2>6. \A c \in written' : Height[c] <= Height[index'.tip]
    <3>1. /\ Height[b] \in Nat /\ Height[index.tip] \in Nat
          /\ \A c \in written : Height[c] \in Nat
      BY <2>1, HeaderAssumption DEF Sound, TypeInv, TypeOK, Index, Header
    <3>2. \A c \in written : Height[c] <= Height[index.tip]
      BY DEF Sound, DbSound
    <3>3. CASE Height[b] > Height[index.tip]
      BY <2>2, <2>3, <3>1, <3>2, <3>3
    <3>4. CASE ~(Height[b] > Height[index.tip])
      BY <2>2, <2>3, <3>1, <3>2, <3>4
    <3>5. QED
      BY <3>3, <3>4
  <2>7. QED
    BY <2>5, <2>6 DEF DbSound
<1>2. CASE UNCHANGED <<index, written>>
  BY <1>2 DEF Sound, DbSound, PrevClosed
<1>3. QED
  BY <1>1, <1>2, StepKinds
     DEF Sound, vars, dbVars, Quiet, HandsAround, StagesMore, StagesLast, SetsBack,
         FlushEnds, FlushSegment

(* A flushed checkpoint is on the file, and the database tip is not below  *)
(* it.                                                                     *)
LEMMA TipAboveCheckpoint ==
    ASSUME Sound, NEW i \in Seg, segs[i].flushed
    PROVE  Height[index.tip] >= StopHeight[i]
<1>1. StopHash(i) \in written
  BY DEF Sound, SegsSound
<1>2. Height[StopHash(i)] = StopHeight[i]
  BY MainHeights, ParHdrAssumption DEF StopHash
<1>3. Height[index.tip] \in Nat /\ StopHeight[i] \in Nat
  BY SegConstants, HeaderAssumption DEF Sound, TypeInv, TypeOK, Index
<1>4. QED
  BY <1>1, <1>2, <1>3 DEF Sound, DbSound

(* Appending a batch moves the end of the buffer to the end of the batch.  *)
LEMMA AppendedEnd ==
    ASSUME NEW b \in Seq(Block), NEW d \in Seq(Block)
    PROVE  /\ Len(d) = 0 => b \o d = b
           /\ Len(d) # 0 => b \o d # <<>> /\ (b \o d)[Len(b \o d)] = d[Len(d)]
<1>1. b \o d \in Seq(Block) /\ Len(b \o d) = Len(b) + Len(d)
  BY ConcatProperties
<1>2. ASSUME Len(d) = 0 PROVE b \o d = b
  BY <1>1, <1>2
<1>3. ASSUME Len(d) # 0 PROVE b \o d # <<>> /\ (b \o d)[Len(b \o d)] = d[Len(d)]
  <2>1. Len(b) \in Nat /\ Len(d) \in Nat
    OBVIOUS
  <2>2. b \o d # <<>>
    BY <1>1, <1>3, <2>1
  <2>3. (b \o d)[Len(b) + Len(d)] = d[Len(d)]
    BY <1>3, <2>1, ConcatProperties
  <2>4. QED
    BY <1>1, <2>2, <2>3
<1>4. QED
  BY <1>2, <1>3

(* Staging a batch keeps an unflushed segment sound.                       *)
LEMMA StagingSound ==
    ASSUME Sound, NEW i \in Seg, NEW m \in Messages, NEW done \in BOOLEAN,
           ~segs[i].complete, ExtendsOne(i, m, done, segs'),
           done => segs'[i].tip = StopHash(i), active' => active, written' = written
    PROVE  SegsSound'
<1>1. ~segs[i].flushed /\ ~segs'[i].flushed
  BY DEF Sound, FlushOrdered, ExtendsOne
<1>2. segs[i].buf \in Seq(Block) /\ m.hdrs \in Seq(Block) /\ Len(m.hdrs) \in Nat
      /\ segs[i].tipHeight \in Nat /\ StartHeight(i) \in Nat
  BY SegConstants DEF Sound, TypeInv, TypeOK, SegState, Messages
<1>3. segs'[i].complete => segs'[i].tip = StopHash(i)
  BY DEF ExtendsOne
<1>4. active' /\ segs'[i].buf # <<>> => segs'[i].tip = segs'[i].buf[Len(segs'[i].buf)]
  <2> DEFINE b == segs'[i].buf
  <2>1. CASE Len(m.hdrs) = 0
    <3>1. b = segs[i].buf /\ segs'[i].tip = segs[i].tip
      BY <1>2, <2>1, AppendedEnd DEF ExtendsOne
    <3>2. QED
      BY <1>1, <3>1 DEF Sound, SegsSound
  <2>2. CASE Len(m.hdrs) # 0
    <3>1. b = segs[i].buf \o m.hdrs /\ segs'[i].tip = m.hdrs[Len(m.hdrs)]
      BY <2>2 DEF ExtendsOne
    <3>2. b[Len(b)] = m.hdrs[Len(m.hdrs)]
      <4> HIDE DEF b
      <4>1. QED
        BY <1>2, <2>2, <3>1, AppendedEnd
    <3>3. QED
      BY <3>1, <3>2
  <2>3. QED
    BY <2>1, <2>2
<1>5. active' /\ segs'[i].tail # "none" => segs'[i].buf # <<>>
  BY <1>1, <1>2, AppendedEnd DEF Sound, SegsSound, ExtendsOne
<1>6. segs'[i].tipHeight >= StartHeight(i)
  BY <1>2 DEF Sound, SegsSound, ExtendsOne
<1>7. \A j \in Seg \ {i} : segs'[j] = segs[j]
  BY DEF ExtendsOne
<1>8. QED
  BY <1>1, <1>3, <1>4, <1>5, <1>6, <1>7 DEF Sound, SegsSound

(* Setting a segment back keeps the segments sound.                        *)
LEMMA SettingBackSound ==
    ASSUME Sound, SetsBack
    PROVE  SegsSound'
<1>1. PICK i \in Seg, t \in Header, h \in Nat :
        /\ FailsOne(i, t, h, active', segs')
        /\ \/ ~segs[i].complete /\ h >= StartHeight(i)
           \/ i = flushIdx /\ segs[i].complete /\ ~segs[i].flushed /\ h = Height[index.tip]
  BY DEF SetsBack
<1>2. ~segs[i].flushed
  BY <1>1 DEF Sound, FlushOrdered
<1>3. h >= StartHeight(i)
  <2>1. CASE i = flushIdx /\ h = Height[index.tip] /\ i # 0
    <3>1. i - 1 \in Seg /\ i - 1 < flushIdx
      BY <2>1, ParHdrAssumption DEF Seg
    <3>2. segs[i - 1].flushed
      BY <3>1 DEF Sound, FlushOrdered
    <3>3. QED
      BY <2>1, <3>1, <3>2, TipAboveCheckpoint DEF StartHeight
  <2>2. CASE i = 0
    BY <2>2 DEF StartHeight
  <2>3. QED
    BY <1>1, <2>1, <2>2
<1>4. written' = written /\ (active' => active)
  BY DEF SetsBack, Quiet
<1>5. /\ ~segs'[i].complete /\ ~segs'[i].flushed /\ segs'[i].buf = <<>>
      /\ segs'[i].tail = "none" /\ segs'[i].tipHeight = h
  BY <1>1, <1>2 DEF FailsOne
<1>6. ASSUME NEW j \in Seg \ {i}
      PROVE  /\ segs'[j].tip = segs[j].tip /\ segs'[j].tipHeight = segs[j].tipHeight
             /\ segs'[j].complete = segs[j].complete /\ segs'[j].flushed = segs[j].flushed
             /\ active' => segs'[j].buf = segs[j].buf /\ segs'[j].tail = segs[j].tail
  BY <1>1 DEF FailsOne, Kept
<1>7. QED
  BY <1>3, <1>4, <1>5, <1>6 DEF Sound, SegsSound

(* A segment is flushed to its end, and its end is its checkpoint.         *)
LEMMA FlushingSound ==
    ASSUME Sound, FlushEnds
    PROVE  SegsSound'
<1> DEFINE i == flushIdx
<1>1. /\ i \in Seg /\ segs[i].complete /\ ~segs[i].flushed /\ FlushesOne(i, segs')
      /\ segs[i].tail = "valid" /\ at = Len(segs[i].buf) /\ pc = "flush" /\ HeadReady
      /\ written' = written /\ active' = active
  BY DEF FlushEnds, FlushSegment, TailVerified, AllConnected, Head0, dbVars
<1>2. active /\ segs[i].buf # <<>> /\ segs[i].buf \in Seq(Block)
  BY <1>1 DEF Sound, FlushSound, SegsSound, TypeInv, TypeOK, SegState
<1>3. at \in 1 .. at
  BY <1>1, <1>2
<1>4. segs[i].buf[at] \in written
  BY <1>1, <1>3 DEF Sound, FlushSound, Head0
<1>5. StopHash(i) = segs[i].buf[at]
  BY <1>1, <1>2 DEF Sound, SegsSound
<1>6. QED
  BY <1>1, <1>4, <1>5 DEF Sound, SegsSound, FlushesOne

(* Every step keeps the segments sound.                                    *)
LEMMA SegsSoundStep ==
    ASSUME Sound, [Next]_vars
    PROVE  SegsSound'
<1>1. CASE HandsAround
  <2>1. (active' => active) /\ Reassigned(segs, segs') /\ written' = written
    BY <1>1 DEF HandsAround, Quiet
  <2>2. QED
    BY <2>1 DEF Sound, SegsSound, Reassigned, Kept
<1>2. CASE StagesMore
  BY <1>2, StagingSound DEF StagesMore, Quiet
<1>3. CASE StagesLast
  BY <1>3, StagingSound DEF StagesLast, Quiet
<1>4. CASE SetsBack
  BY <1>4, SettingBackSound
<1>5. CASE FlushHeader
  <2>1. segs' = segs /\ active' = active /\ written \subseteq written'
    BY <1>5 DEF FlushHeader, segVars
  <2>2. QED
    BY <2>1 DEF Sound, SegsSound
<1>6. CASE FlushEnds
  BY <1>6, FlushingSound
<1>7. CASE UNCHANGED vars
  BY <1>7 DEF Sound, SegsSound, vars, segVars, dbVars
<1>8. QED
  BY <1>1, <1>2, <1>3, <1>4, <1>5, <1>6, <1>7, StepKinds DEF Sound

(* The flush keeps count of what it connected.                             *)
LEMMA FlushSoundStep ==
    ASSUME Sound, TypeInv', [Next]_vars
    PROVE  FlushSound'
<1>1. ASSUME active', at' = 0 PROVE FlushSound'
  <2>1. ASSUME HeadReady' PROVE Len(Head0'.buf) \in Nat
    <3>1. flushIdx' \in Seg
      BY <2>1, ParHdrAssumption DEF HeadReady, Seg, TypeInv, TypeOK
    <3>2. QED
      BY <3>1 DEF Head0, TypeInv, TypeOK, SegState
  <2>2. QED
    BY <1>1, <2>1 DEF FlushSound
<1>2. CASE pc' # "flush"
  BY <1>2 DEF FlushSound
<1>3. CASE StagesLast
  BY <1>1, <1>3 DEF StagesLast
<1>4. CASE FlushHeader
  <2>1. /\ pc = "flush" /\ HeadReady /\ at < Len(Head0.buf) /\ at' = at + 1
        /\ written' = written \cup {Head0.buf[at + 1]} /\ active' = active
        /\ Head0' = Head0 /\ (HeadReady' <=> HeadReady)
    BY <1>4 DEF FlushHeader, segVars, Head0, HeadReady
  <2>2. at \in Nat /\ Len(Head0.buf) \in Nat
    <3>1. flushIdx \in Seg
      BY <2>1, ParHdrAssumption DEF HeadReady, Seg, Sound, TypeInv, TypeOK
    <3>2. QED
      BY <3>1 DEF Head0, Sound, TypeInv, TypeOK, SegState
  <2>3. active /\ \A k \in 1 .. at : Head0.buf[k] \in written
    BY <2>1 DEF Sound, FlushSound
  <2>4. \A k \in 1 .. at' : Head0'.buf[k] \in written'
    BY <2>1, <2>2, <2>3
  <2>5. at' <= Len(Head0'.buf)
    BY <2>1, <2>2
  <2>6. QED
    BY <2>1, <2>3, <2>4, <2>5 DEF FlushSound
<1>5. CASE FlushEnds
  <2>1. at' = 0 /\ active' = active /\ pc = "flush"
    BY <1>5 DEF FlushEnds, FlushSegment
  <2>2. QED
    BY <1>1, <2>1 DEF Sound, FlushSound
<1>6. CASE UNCHANGED vars
  BY <1>6 DEF Sound, FlushSound, Head0, HeadReady, vars, segVars, dbVars, ctlVars
<1>7. QED
  BY <1>2, <1>3, <1>4, <1>5, <1>6, StepKinds DEF Sound, HandsAround, StagesMore, SetsBack

(* Sound is an inductive invariant.                                        *)
LEMMA SoundInvariant == Spec => []Sound
<1>1. ASSUME Init PROVE Sound
  <2>1. ASSUME NEW i \in Seg PROVE segs[i] = FreshSeg(i) /\ ~(i < flushIdx)
    BY <1>1, ParHdrAssumption DEF Init, Seg
  <2>2. ASSUME NEW i \in Seg
        PROVE  /\ ~segs[i].complete /\ ~segs[i].flushed /\ segs[i].buf = <<>>
               /\ segs[i].tail = "none" /\ segs[i].tipHeight = StartHeight(i)
               /\ StartHeight(i) \in Nat
    <3>1. segs[i] = FreshSeg(i)
      BY <2>1
    <3>2. ~segs[i].complete /\ ~segs[i].flushed
      BY <3>1 DEF FreshSeg
    <3>3. segs[i].buf = <<>> /\ segs[i].tail = "none" /\ segs[i].tipHeight = StartHeight(i)
      BY <3>1 DEF FreshSeg
    <3>4. QED
      BY <3>2, <3>3, SegConstants
  <2>3. FlushOrdered
    BY <2>1, <2>2 DEF FlushOrdered
  <2>4. SegsSound
    BY <2>2 DEF SegsSound
  <2>5. DbSound /\ FlushSound
    BY <1>1 DEF Init, NewIndex, DbSound, PrevClosed, FlushSound
  <2>6. QED
    BY <1>1, <2>3, <2>4, <2>5, TypeInit DEF Sound
<1>2. Sound /\ [Next]_vars => Sound'
  <2>1. ASSUME Sound, [Next]_vars PROVE TypeInv'
    BY <2>1, TypeStep DEF Sound
  <2>2. ASSUME Sound, [Next]_vars PROVE FlushOrdered'
    BY <2>1, <2>2, FlushOrderedStep DEF Sound
  <2>3. QED
    BY <2>1, <2>2, DbSoundStep, SegsSoundStep, FlushSoundStep DEF Sound
<1>3. QED
  BY <1>1, <1>2, PTL DEF Spec

(* Skipping proof of work is safe.  Once a segment is flushed, the headers *)
(* file holds the checkpointed chain up to the segment's checkpoint, for   *)
(* any number of peers sending any headers in any order: staged headers    *)
(* are compared with the tip only batch by batch, but par_hdr_flush can    *)
(* write the checkpoint only behind its ancestors.                         *)
THEOREM Anchored == Spec => []CheckpointsAnchored
<1>1. Sound => CheckpointsAnchored
  <2> SUFFICES ASSUME Sound, NEW i \in Seg, segs[i].flushed,
                      NEW h \in 1 .. StopHeight[i]
               PROVE  Main[h] \in written
    BY DEF CheckpointsAnchored
  <2>1. StopHeight[i] \in 1 .. ChainHeight
    BY SegConstants, ParHdrAssumption
  <2>2. Main[StopHeight[i]] \in written /\ PrevClosed(written) /\ written \in SUBSET Block
    BY DEF Sound, SegsSound, DbSound, StopHash, TypeInv, TypeOK
  <2>3. QED
    BY <2>1, <2>2, ClosedHoldsChain
<1>2. QED
  BY <1>1, SoundInvariant, PTL

(* No rewind puts a segment below its own checkpoint, and the database tip *)
(* never falls below a checkpoint that was flushed.                        *)
THEOREM Bracketed == Spec => []TipsBracketed
<1>1. Sound => TipsBracketed
  BY TipAboveCheckpoint DEF TipsBracketed, Sound, SegsSound
<1>2. QED
  BY <1>1, SoundInvariant, PTL

(* flush_idx moves past a segment only when all it staged is on the file.  *)
THEOREM FlushIsComplete == Spec => FlushAdvances
<1> DEFINE A == flushIdx' # flushIdx =>
                  /\ flushIdx' = flushIdx + 1
                  /\ \A k \in 1 .. Len(segs[flushIdx].buf) : segs[flushIdx].buf[k] \in written
<1>1. ASSUME Sound, [Next]_vars PROVE [A]_vars
  <2>1. CASE FlushEnds
    <3>1. /\ flushIdx' = flushIdx + 1 /\ pc = "flush" /\ HeadReady
          /\ at = Len(segs[flushIdx].buf)
      BY <2>1 DEF FlushEnds, FlushSegment, AllConnected, Head0
    <3>2. \A k \in 1 .. at : segs[flushIdx].buf[k] \in written
      BY <1>1, <3>1 DEF Sound, FlushSound, Head0
    <3>3. QED
      BY <3>1, <3>2
  <2>2. CASE flushIdx' = flushIdx
    BY <2>2
  <2>3. CASE UNCHANGED vars
    BY <2>3
  <2>4. QED
    BY <1>1, <2>1, <2>2, <2>3, StepKinds
       DEF Sound, Quiet, HandsAround, StagesMore, StagesLast, SetsBack, FlushHeader, segVars
<1>2. QED
  BY <1>1, SoundInvariant, PTL DEF Spec, FlushAdvances

(* Preempting, racing and reclaiming cost nothing that was downloaded: a   *)
(* segment's buffer shrinks only when it is flushed, when it fails, or     *)
(* when the download is given up.                                          *)
THEOREM NothingLost == Spec => NothingDownloadedIsLost
<1> DEFINE Grows(b, c) == Len(b) <= Len(c) /\ SubSeq(c, 1, Len(b)) = b
           A == \A i \in Seg :
                  \/ /\ Len(segs[i].buf) <= Len(segs'[i].buf)
                     /\ SubSeq(segs'[i].buf, 1, Len(segs[i].buf)) = segs[i].buf
                  \/ segs'[i].flushed
                  \/ segs'[i].fails > segs[i].fails
                  \/ ~active'
<1>1. ASSUME NEW b \in Seq(Block) PROVE Grows(b, b)
  OBVIOUS
<1>2. ASSUME NEW b \in Seq(Block), NEW d \in Seq(Block) PROVE Grows(b, b \o d)
  <2>1. Len(b \o d) = Len(b) + Len(d) /\ b \o d \in Seq(Block)
    BY ConcatProperties
  <2>2. Len(b) \in Nat /\ Len(d) \in Nat
    OBVIOUS
  <2>3. SubSeq(b \o d, 1, Len(b)) = b
    BY <2>1, <2>2, ConcatProperties
  <2>4. QED
    BY <2>1, <2>2, <2>3
<1>3. ASSUME Sound, [Next]_vars PROVE [A]_vars
  <2>1. \A i \in Seg : segs[i].buf \in Seq(Block) /\ segs[i].fails \in Nat
    BY <1>3 DEF Sound, TypeInv, TypeOK, SegState
  <2>2. ASSUME NEW i \in Seg, segs'[i].buf = segs[i].buf
        PROVE  Grows(segs[i].buf, segs'[i].buf)
    BY <1>1, <2>1, <2>2
  <2>3. CASE HandsAround
    <3>1. \A i \in Seg : segs'[i].buf = segs[i].buf
      BY <2>3 DEF HandsAround, Reassigned, Kept
    <3>2. QED
      BY <2>2, <3>1
  <2>4. ASSUME NEW i \in Seg, NEW m \in Messages, NEW done \in BOOLEAN,
               ExtendsOne(i, m, done, segs')
        PROVE  A
    <3>1. m.hdrs \in Seq(Block) /\ segs'[i].buf = segs[i].buf \o m.hdrs
          /\ \A j \in Seg \ {i} : segs'[j].buf = segs[j].buf
      BY <2>4 DEF ExtendsOne, Messages
    <3>2. Grows(segs[i].buf, segs'[i].buf)
      BY <1>2, <2>1, <3>1
    <3>3. QED
      BY <2>2, <3>1, <3>2
  <2>5. CASE SetsBack
    <3>1. PICK i \in Seg, t \in Header, h \in Nat : FailsOne(i, t, h, active', segs')
      BY <2>5 DEF SetsBack
    <3>2. segs'[i].fails > segs[i].fails
      BY <2>1, <3>1 DEF FailsOne
    <3>3. active' => \A j \in Seg \ {i} : segs'[j].buf = segs[j].buf
      BY <3>1 DEF FailsOne, Kept
    <3>4. QED
      BY <2>2, <3>2, <3>3
  <2>6. CASE FlushHeader
    <3>1. segs' = segs
      BY <2>6 DEF FlushHeader, segVars
    <3>2. QED
      BY <2>2, <3>1
  <2>7. CASE FlushEnds
    <3>1. segs'[flushIdx].flushed /\ \A j \in Seg \ {flushIdx} : segs'[j].buf = segs[j].buf
      BY <2>7 DEF FlushEnds, FlushesOne
    <3>2. QED
      BY <2>2, <3>1
  <2>8. CASE UNCHANGED vars
    BY <2>8
  <2>9. QED
    BY <1>3, <2>3, <2>4, <2>5, <2>6, <2>7, <2>8, StepKinds DEF Sound, StagesMore, StagesLast
<1>4. QED
  BY <1>3, SoundInvariant, PTL DEF Spec, NothingDownloadedIsLost

-----------------------------------------------------------------------------
(* One peer, one segment: par_hdr_recv finds the segment a batch belongs   *)
(* to by its sender, so no peer may own or shadow two segments, nor race   *)
(* itself.  Proved for the scheduler as a whole: assignment, reclaiming,   *)
(* preemption and racing.                                                  *)

(* n works on segment i.                                                   *)
On(S, n, i) == S[i].owner = n \/ S[i].shadow = n

OneEach(S) ==
    \A n \in Node, i, j \in Seg :
        /\ On(S, n, i) /\ On(S, n, j) => i = j
        /\ ~(S[i].owner = n /\ S[i].shadow = n)

(* T follows S when a peer works in T only where it did in S, or was free  *)
(* in S and works nowhere else in T.                                       *)
Follows(S, T) ==
    \A n \in Node, i \in Seg :
        /\ On(T, n, i) => \/ On(S, n, i)
                          \/ ~Busy(S, n) /\ \A j \in Seg : On(T, n, j) => j = i
        /\ ~(T[i].owner = n /\ T[i].shadow = n)

(* Such a stage keeps every peer on one segment.                           *)
LEMMA FollowsOneEach ==
    ASSUME NEW S, NEW T, OneEach(S), Follows(S, T)
    PROVE  OneEach(T)
<1> SUFFICES ASSUME NEW n \in Node, NEW i \in Seg, NEW j \in Seg,
                    On(T, n, i), On(T, n, j)
             PROVE  i = j
  BY DEF OneEach, Follows
<1>1. CASE On(S, n, i) /\ On(S, n, j)
  BY <1>1 DEF OneEach
<1>2. CASE ~On(S, n, i)
  BY <1>2 DEF Follows
<1>3. CASE On(S, n, i) /\ ~On(S, n, j)
  <2>1. Busy(S, n)
    BY <1>3 DEF Busy, On
  <2>2. QED
    BY <1>3, <2>1 DEF Follows
<1>4. QED
  BY <1>1, <1>2, <1>3

(* Two elements of a finite set of naturals have different ranks.          *)
LEMMA RankInjective ==
    ASSUME NEW F \in SUBSET Nat, IsFiniteSet(F), NEW x \in F, NEW y \in F,
           Rank(x, F) = Rank(y, F)
    PROVE  x = y
<1>1. ASSUME NEW a \in F, NEW b \in F, a < b PROVE Rank(a, F) # Rank(b, F)
  <2> DEFINE A == {z \in F : z < a}
             B == {z \in F : z < b}
  <2>1. a \in Nat /\ b \in Nat
    OBVIOUS
  <2>2. IsFiniteSet(B)
    BY FS_Subset
  <2>3. A \in SUBSET B
    <3> SUFFICES ASSUME NEW z \in F, z < a PROVE z < b
      OBVIOUS
    <3>1. z \in Nat
      OBVIOUS
    <3>2. QED
      BY <1>1, <2>1, <3>1
  <2>4. a \in B /\ a \notin A
    BY <1>1, <2>1
  <2>5. Cardinality(A) # Cardinality(B)
    <3>1. A # B
      BY <2>4
    <3> HIDE DEF A, B
    <3>2. QED
      BY <2>2, <2>3, <3>1, FS_Subset, FS_CardinalityType
  <2>6. QED
    BY <2>5 DEF Rank
<1>2. x \in Nat /\ y \in Nat
  OBVIOUS
<1>3. ~(x < y) /\ ~(y < x)
  BY <1>1
<1>4. QED
  BY <1>2, <1>3

(* A pairing gives a peer at most one segment.                             *)
LEMMA PairingOne ==
    ASSUME NEW I \in SUBSET Node, NEW F \in SUBSET Seg, NEW n \in Node,
           NEW i \in Pairing(I, F)[n], NEW j \in Pairing(I, F)[n]
    PROVE  i = j
<1>1. IsFiniteSet(F) /\ F \in SUBSET Nat
  <2>1. IsFiniteSet(Seg) /\ Seg \subseteq Nat
    BY FS_Interval, ParHdrAssumption DEF Seg
  <2>2. QED
    BY <2>1, FS_Subset
<1>2. i \in F /\ j \in F /\ Rank(i, F) = Rank(j, F)
  BY DEF Pairing
<1>3. QED
  BY <1>1, <1>2, RankInjective

(* The peer number that stands for nobody is not a peer.                   *)
LEMMA NobodyIsNoPeer == NoNode \notin Node
  BY ParHdrAssumption DEF NoNode, Node

(* The owner and shadow of a segment after the assignments of the model.   *)
LEMMA PeerFields ==
    ASSUME NEW s \in SegState, NEW n \in Node
    PROVE  /\ Owned(s, n).owner = n /\ Owned(s, n).shadow = s.shadow
           /\ [s EXCEPT !.shadow = n].owner = s.owner /\ [s EXCEPT !.shadow = n].shadow = n
           /\ [s EXCEPT !.owner = NoNode].owner = NoNode
           /\ [s EXCEPT !.owner = NoNode].shadow = s.shadow
           /\ [s EXCEPT !.owner = NoNode, !.shadow = NoNode].owner = NoNode
           /\ [s EXCEPT !.owner = NoNode, !.shadow = NoNode].shadow = NoNode
  BY DEF Owned, SegState

(* par_hdr_assign gives a segment only to a peer without one.              *)
LEMMA AssignOneEach ==
    ASSUME TypeOK, NEW S \in Segments, OneEach(S), NEW b, NEW hs, NEW w, NEW n \in Node,
           Assign(S, b, hs, w, n)
    PROVE  OneEach(segs')
<1>1. CASE ~Busy(S, n) /\ Open(S, b) # {}
  <2> DEFINE i == Min(Open(S, b))
  <2>1. i \in Open(S, b)
    BY <1>1, OpenType, MinIn
  <2>2. i \in Seg /\ S[i].owner = NoNode
    BY <2>1, OpenType DEF Open
  <2>3. segs' = [S EXCEPT ![i] = Owned(S[i], n)]
    BY <1>1 DEF Assign
  <2> HIDE DEF i
  <2>4. /\ segs'[i].owner = n /\ segs'[i].shadow = S[i].shadow
        /\ \A j \in Seg \ {i} : segs'[j] = S[j]
    <3>1. S[i] \in SegState
      BY <2>2 DEF Segments
    <3>2. QED
      BY <2>2, <2>3, <3>1, PeerFields DEF Segments
  <2>5. \A j \in Seg : ~On(S, n, j)
    BY <1>1 DEF Busy, On
  <2>6. Follows(S, segs')
    BY <1>1, <2>2, <2>4, <2>5 DEF Follows, On, OneEach
  <2>7. QED
    BY <2>6, FollowsOneEach
<1>2. CASE ~(~Busy(S, n) /\ Open(S, b) # {})
  BY <1>2 DEF Assign
<1>3. QED
  BY <1>1, <1>2

(* Taking segments back.                                                   *)
LEMMA ReleasedOneEach ==
    ASSUME TypeOK, OneEach(segs), NEW stalled
    PROVE  OneEach(Released(stalled))
<1> DEFINE T == Released(stalled)
<1>1. ASSUME NEW i \in Seg
      PROVE  T[i] = segs[i] \/ (T[i].owner = NoNode /\ T[i].shadow = NoNode)
  BY DEF Released, TypeOK, SegState
<1> HIDE DEF T
<1>2. Follows(segs, T)
  BY <1>1, NobodyIsNoPeer DEF Follows, On, OneEach
<1>3. OneEach(T)
  BY <1>2, FollowsOneEach
<1>4. QED
  BY <1>3 DEF T

(* The peers of a pairing: free before, on one segment after.              *)
LEMMA PartnerFree ==
    ASSUME NEW S, NEW F \in SUBSET Seg, NEW i \in Seg, NEW g,
           g = Pairing(FreePeers(S), F), Partner(g, i) # {},
           NEW n, n = CHOOSE k \in Partner(g, i) : TRUE
    PROVE  /\ n \in Node /\ ~Busy(S, n) /\ i \in F
           /\ \A j \in Seg : n \in Partner(g, j) => j = i
<1>1. n \in Partner(g, i)
  OBVIOUS
<1>2. n \in Node /\ i \in g[n] /\ FreePeers(S) \in SUBSET Node
  BY <1>1 DEF Partner, FreePeers
<1>3. n \in FreePeers(S) /\ i \in F
  BY <1>2 DEF Pairing
<1>4. ASSUME NEW j \in Seg, n \in Partner(g, j) PROVE j = i
  <2>1. j \in g[n]
    BY <1>4 DEF Partner
  <2>2. QED
    BY <1>2, <2>1, PairingOne
<1>5. QED
  BY <1>2, <1>3, <1>4 DEF FreePeers

(* Handing free segments to free peers.                                    *)
LEMMA HandedOutOneEach ==
    ASSUME TypeOK, NEW S \in Segments, OneEach(S)
    PROVE  OneEach(HandedOut(S, HandOut(S)))
<1> DEFINE g == HandOut(S)
           T == HandedOut(S, g)
           who(i) == CHOOSE n \in Partner(g, i) : TRUE
<1>1. ASSUME NEW i \in Seg, Partner(g, i) # {}
      PROVE  /\ T[i].owner = who(i) /\ T[i].shadow = S[i].shadow /\ S[i].owner = NoNode
             /\ who(i) \in Node /\ ~Busy(S, who(i)) /\ who(i) \in Partner(g, i)
             /\ \A j \in Seg : who(i) \in Partner(g, j) => j = i
  <2>1. Open(S, buffered) \in SUBSET Seg
    BY OpenType
  <2>2. /\ who(i) \in Node /\ ~Busy(S, who(i)) /\ i \in Open(S, buffered)
        /\ \A j \in Seg : who(i) \in Partner(g, j) => j = i
    BY <1>1, <2>1, PartnerFree DEF HandOut
  <2>3. T[i] = Owned(S[i], who(i)) /\ S[i] \in SegState /\ who(i) \in Partner(g, i)
    BY <1>1 DEF HandedOut, Segments
  <2> HIDE DEF T, g, who
  <2>4. QED
    BY <2>2, <2>3, PeerFields DEF Open
<1>2. ASSUME NEW i \in Seg, Partner(g, i) = {} PROVE T[i] = S[i]
  BY <1>2 DEF HandedOut
<1> HIDE DEF T, g, who
<1>3. ASSUME NEW n \in Node, NEW i \in Seg, On(T, n, i), ~On(S, n, i)
      PROVE  Partner(g, i) # {} /\ n = who(i)
  BY <1>1, <1>2, <1>3 DEF On
<1>4. ASSUME NEW n \in Node, NEW i \in Seg, On(T, n, i), ~On(S, n, i)
      PROVE  ~Busy(S, n) /\ \A j \in Seg : On(T, n, j) => j = i
  <2>1. Partner(g, i) # {} /\ n = who(i)
    BY <1>3, <1>4
  <2>2. ~Busy(S, n) /\ \A j \in Seg : n \in Partner(g, j) => j = i
    BY <1>1, <2>1
  <2>3. ASSUME NEW j \in Seg, On(T, n, j) PROVE j = i
    <3>1. ~On(S, n, j)
      BY <2>2 DEF Busy, On
    <3>2. n \in Partner(g, j)
      BY <1>1, <1>3, <2>3, <3>1
    <3>3. QED
      BY <2>2, <3>2
  <2>4. QED
    BY <2>2, <2>3
<1>5. ASSUME NEW n \in Node, NEW i \in Seg PROVE ~(T[i].owner = n /\ T[i].shadow = n)
  <2>1. CASE Partner(g, i) = {}
    BY <1>2, <2>1 DEF OneEach
  <2>2. CASE Partner(g, i) # {}
    BY <1>1, <2>2 DEF Busy
  <2>3. QED
    BY <2>1, <2>2
<1>6. OneEach(T)
  BY <1>4, <1>5, FollowsOneEach DEF Follows
<1>7. QED
  BY <1>6 DEF T, g

(* Preempting the flush head: a peer that shadows a segment gets nothing.  *)
LEMMA PreemptedOneEach ==
    ASSUME TypeOK, NEW S \in Segments, OneEach(S), flushIdx \in Seg, Candidates(S) # {}
    PROVE  OneEach(Preempted(S))
<1> DEFINE n == Min(Candidates(S))
           T == Preempted(S)
           V == Vacated(S)
<1>1. n \in Node
  <2>1. Candidates(S) \in SUBSET Nat
    BY ParHdrAssumption DEF Candidates, Node
  <2>2. n \in Candidates(S)
    BY <2>1, MinIn
  <2>3. QED
    BY <2>2 DEF Candidates
<1>2. S[flushIdx] \in SegState
  BY DEF Segments
<1>3. /\ V[flushIdx].owner = NoNode /\ V[flushIdx].shadow = S[flushIdx].shadow
      /\ \A i \in Seg \ {flushIdx} : V[i] = S[i]
  <2>1. /\ V[flushIdx] = [S[flushIdx] EXCEPT !.owner = NoNode]
        /\ \A i \in Seg \ {flushIdx} : V[i] = S[i]
    BY DEF Vacated, Segments
  <2>2. QED
    BY <1>1, <1>2, <2>1, PeerFields
<1> HIDE DEF n, V
<1>4. OneEach(V)
  <2>1. Follows(S, V)
    BY <1>3, NobodyIsNoPeer DEF Follows, On, OneEach
  <2>2. QED
    BY <2>1, FollowsOneEach
<1>5. CASE Busy(V, n)
  BY <1>4, <1>5 DEF Preempted, n, V
<1>6. CASE ~Busy(V, n)
  <2>1. T = [S EXCEPT ![flushIdx] = Owned(S[flushIdx], n)]
    BY <1>6 DEF Preempted, n, V
  <2> HIDE DEF T
  <2>2. /\ T[flushIdx].owner = n /\ T[flushIdx].shadow = S[flushIdx].shadow
        /\ \A i \in Seg \ {flushIdx} : T[i] = S[i]
    BY <1>1, <1>2, <2>1, PeerFields DEF Segments
  <2>3. \A j \in Seg : ~On(V, n, j)
    BY <1>6 DEF Busy, On
  <2>4. Follows(V, T)
    BY <1>3, <1>4, <1>6, <2>2, <2>3 DEF Follows, On, OneEach
  <2>5. QED
    BY <1>4, <2>4, FollowsOneEach DEF T
<1>7. QED
  BY <1>5, <1>6

(* Attaching shadows to slow segments.                                     *)
LEMMA RacedOneEach ==
    ASSUME TypeOK, NEW S \in Segments, OneEach(S), NEW slow \in SUBSET Seg
    PROVE  OneEach(Raced(S, Race(S, slow)))
<1> DEFINE g == Race(S, slow)
           T == Raced(S, g)
           who(i) == CHOOSE n \in Partner(g, i) : TRUE
<1>1. ASSUME NEW i \in Seg, Partner(g, i) # {}
      PROVE  /\ T[i].owner = S[i].owner /\ T[i].shadow = who(i)
             /\ who(i) \in Node /\ ~Busy(S, who(i)) /\ who(i) \in Partner(g, i)
             /\ \A j \in Seg : who(i) \in Partner(g, j) => j = i
  <2>1. Raceable(S, slow) \in SUBSET Seg
    BY DEF Raceable
  <2>2. /\ who(i) \in Node /\ ~Busy(S, who(i))
        /\ \A j \in Seg : who(i) \in Partner(g, j) => j = i
    BY <1>1, <2>1, PartnerFree DEF Race
  <2>3. /\ T[i] = [S[i] EXCEPT !.shadow = who(i)] /\ S[i] \in SegState
        /\ who(i) \in Partner(g, i)
    BY <1>1 DEF Raced, Segments
  <2> HIDE DEF T, g, who
  <2>4. QED
    BY <2>2, <2>3, PeerFields
<1>2. ASSUME NEW i \in Seg, Partner(g, i) = {} PROVE T[i] = S[i]
  BY <1>2 DEF Raced
<1> HIDE DEF T, g, who
<1>3. ASSUME NEW n \in Node, NEW i \in Seg, On(T, n, i), ~On(S, n, i)
      PROVE  Partner(g, i) # {} /\ n = who(i)
  BY <1>1, <1>2, <1>3 DEF On
<1>4. ASSUME NEW n \in Node, NEW i \in Seg, On(T, n, i), ~On(S, n, i)
      PROVE  ~Busy(S, n) /\ \A j \in Seg : On(T, n, j) => j = i
  <2>1. Partner(g, i) # {} /\ n = who(i)
    BY <1>3, <1>4
  <2>2. ~Busy(S, n) /\ \A j \in Seg : n \in Partner(g, j) => j = i
    BY <1>1, <2>1
  <2>3. ASSUME NEW j \in Seg, On(T, n, j) PROVE j = i
    <3>1. ~On(S, n, j)
      BY <2>2 DEF Busy, On
    <3>2. n \in Partner(g, j)
      BY <1>1, <1>3, <2>3, <3>1
    <3>3. QED
      BY <2>2, <3>2
  <2>4. QED
    BY <2>2, <2>3
<1>5. ASSUME NEW n \in Node, NEW i \in Seg PROVE ~(T[i].owner = n /\ T[i].shadow = n)
  <2>1. CASE Partner(g, i) = {}
    BY <1>2, <2>1 DEF OneEach
  <2>2. CASE Partner(g, i) # {}
    BY <1>1, <2>2 DEF Busy
  <2>3. QED
    BY <2>1, <2>2
<1>6. OneEach(T)
  BY <1>4, <1>5, FollowsOneEach DEF Follows
<1>7. QED
  BY <1>6 DEF T, g

(* par_hdr_reclaim, the four stages in order.                              *)
LEMMA ReclaimOneEach ==
    ASSUME TypeOK, OneEach(segs), NEW stalled, NEW rated, NEW outlier,
           NEW slow \in SUBSET Seg, Reclaim(stalled, rated, outlier, slow),
           rated \in SUBSET Seg
    PROVE  OneEach(segs')
<1> DEFINE S1  == Released(stalled)
           S2  == HandedOut(S1, HandOut(S1))
           pre == Preempts(S2, rated, outlier)
           S3  == IF pre THEN Preempted(S2) ELSE S2
<1>1. segs' = Raced(S3, Race(S3, slow))
  BY DEF Reclaim
<1>2. OneEach(S1) /\ S1 \in Segments
  BY ReleasedOneEach, ReleasedReassigns DEF Reassigned
<1> HIDE DEF S1
<1>3. OneEach(S2) /\ S2 \in Segments
  BY <1>2, HandedOutOneEach, HandedOutReassigns DEF Reassigned
<1> HIDE DEF S2
<1>4. OneEach(S3) /\ S3 \in Segments
  <2>1. CASE pre
    <3>1. flushIdx \in Seg /\ ~S2[flushIdx].complete /\ Candidates(S2) # {}
      BY <2>1 DEF Preempts
    <3>2. QED
      BY <1>3, <2>1, <3>1, PreemptedOneEach, PreemptedReassigns DEF Reassigned
  <2>2. CASE ~pre
    BY <1>3, <2>2
  <2>3. QED
    BY <2>1, <2>2
<1> HIDE DEF S3
<1>5. QED
  BY <1>1, <1>4, RacedOneEach

(* One segment changes hands between the peers it already has, or loses    *)
(* them; the others keep theirs.                                           *)
Shuffles(i, T) ==
    /\ \/ T[i].owner = segs[i].owner /\ T[i].shadow = segs[i].shadow
       \/ T[i].owner = segs[i].shadow /\ T[i].shadow = NoNode
       \/ T[i].owner = NoNode /\ T[i].shadow = NoNode
    /\ \A j \in Seg \ {i} : T[j].owner = segs[j].owner /\ T[j].shadow = segs[j].shadow

(* Then every peer is still on one segment.                                *)
LEMMA ShufflesOneEach ==
    ASSUME OneEach(segs), NEW i \in Seg, NEW T, Shuffles(i, T)
    PROVE  OneEach(T)
<1>1. Follows(segs, T)
  BY NobodyIsNoPeer DEF Follows, On, OneEach, Shuffles
<1>2. QED
  BY <1>1, FollowsOneEach

(* The winner of a race was the shadow.                                    *)
LEMMA TakenPeers ==
    ASSUME TypeOK, NEW n \in Node, NEW i \in Attached(n)
    PROVE  LET t == Taken(i, n)
           IN  \/ t.owner = segs[i].owner /\ t.shadow = segs[i].shadow
               \/ t.owner = segs[i].shadow /\ t.shadow = NoNode
<1>1. i \in Seg /\ segs[i] \in SegState /\ (segs[i].owner = n \/ segs[i].shadow = n)
  BY DEF Attached, TypeOK
<1>2. CASE Won(i, n)
  <2>1. segs[i].shadow = n
    BY <1>1, <1>2 DEF Won
  <2>2. Taken(i, n) = [Owned(segs[i], n) EXCEPT !.shadow = NoNode]
    BY <1>2 DEF Taken
  <2>3. ASSUME NEW s \in SegState, NEW t, t = [Owned(s, n) EXCEPT !.shadow = NoNode]
        PROVE  t.owner = n /\ t.shadow = NoNode
    BY <2>3 DEF Owned, SegState
  <2>4. Taken(i, n).owner = n /\ Taken(i, n).shadow = NoNode
    BY <1>1, <2>2, <2>3
  <2>5. QED
    BY <2>1, <2>4
<1>3. CASE ~Won(i, n)
  BY <1>3 DEF Taken
<1>4. QED
  BY <1>2, <1>3

(* Staging a batch does not touch who works on the segment.                *)
LEMMA ExtendedPeers ==
    ASSUME TypeOK, NEW n \in Node, NEW i \in Seg, NEW m
    PROVE  /\ Extended(i, n, m).owner = Taken(i, n).owner
           /\ Extended(i, n, m).shadow = Taken(i, n).shadow
<1>1. Taken(i, n) \in SegState
  BY TakenKept
<1> DEFINE s == Taken(i, n)
<1>2. PICK b, t, h, v : Extended(i, n, m) =
           [s EXCEPT !.buf = b, !.tip = t, !.tipHeight = h, !.tail = v]
  BY DEF Extended
<1> HIDE DEF s
<1>3. s \in SegState
  BY <1>1 DEF s
<1>4. Extended(i, n, m).owner = s.owner /\ Extended(i, n, m).shadow = s.shadow
  BY <1>2, <1>3 DEF SegState
<1>5. QED
  BY <1>4 DEF s

(* A failed segment has no peers.                                          *)
LEMMA FailedPeers ==
    ASSUME NEW s \in SegState, NEW t, NEW h
    PROVE  Failed(s, t, h).owner = NoNode /\ Failed(s, t, h).shadow = NoNode
  BY DEF Failed, SegState

(* par_hdr_recv keeps every peer on one segment.                           *)
LEMMA RecvOneEach ==
    ASSUME TypeOK, OneEach(segs), NEW n \in Node, Recv(n)
    PROVE  OneEach(segs')
<1>1. PICK m \in Reply(n) : \/ RecvUnsolicited(n, m)
                            \/ RecvDropped(n, m)
                            \/ RecvMore(n, m)
                            \/ RecvMismatch(n, m)
                            \/ RecvComplete(n, m)
  BY DEF Recv
<1>2. m \in Messages /\ (n \in Honest => wire[n] # <<>>)
  BY ReplyType
<1> DEFINE i == Min(Attached(n))
           e == Extended(i, n, m)
<1>3. CASE RecvUnsolicited(n, m)
  BY <1>3 DEF RecvUnsolicited, segVars
<1>4. ASSUME Attached(n) # {}
      PROVE  /\ i \in Seg /\ i \in Attached(n) /\ segs[i] \in SegState
             /\ e \in SegState
             /\ e.owner = Taken(i, n).owner /\ e.shadow = Taken(i, n).shadow
             /\ \/ e.owner = segs[i].owner /\ e.shadow = segs[i].shadow
                \/ e.owner = segs[i].shadow /\ e.shadow = NoNode
  <2>1. i \in Seg /\ i \in Attached(n)
    BY <1>4, AttachedMin
  <2> HIDE DEF i
  <2>2. e \in SegState /\ segs[i] \in SegState
    BY <1>2, <2>1, ExtendedFields DEF TypeOK
  <2>3. e.owner = Taken(i, n).owner /\ e.shadow = Taken(i, n).shadow
    BY <2>1, ExtendedPeers
  <2>4. \/ Taken(i, n).owner = segs[i].owner /\ Taken(i, n).shadow = segs[i].shadow
        \/ Taken(i, n).owner = segs[i].shadow /\ Taken(i, n).shadow = NoNode
    BY <2>1, TakenPeers
  <2>5. QED
    BY <2>1, <2>2, <2>3, <2>4
<1>5. CASE RecvDropped(n, m)
  <2>1. Attached(n) # {} /\ segs' = [segs EXCEPT ![i] = Taken(i, n)]
    BY <1>5 DEF RecvDropped
  <2> HIDE DEF i
  <2>2. segs'[i] = Taken(i, n) /\ \A j \in Seg \ {i} : segs'[j] = segs[j]
    BY <1>4, <2>1 DEF TypeOK
  <2>3. Shuffles(i, segs')
    BY <1>4, <2>1, <2>2 DEF Shuffles
  <2>4. QED
    BY <1>4, <2>1, <2>3, ShufflesOneEach
<1>6. CASE RecvMore(n, m)
  <2>1. Attached(n) # {} /\ segs' = [segs EXCEPT ![i] = e]
    BY <1>6 DEF RecvMore
  <2> HIDE DEF i, e
  <2>2. segs'[i] = e /\ \A j \in Seg \ {i} : segs'[j] = segs[j]
    BY <1>4, <2>1 DEF TypeOK
  <2>3. Shuffles(i, segs')
    BY <1>4, <2>1, <2>2 DEF Shuffles
  <2>4. QED
    BY <1>4, <2>1, <2>3, ShufflesOneEach
<1>7. CASE RecvComplete(n, m)
  <2>1. Attached(n) # {} /\ segs' = [segs EXCEPT ![i] = Completed(e)]
    BY <1>7 DEF RecvComplete
  <2> HIDE DEF i, e
  <2>2. segs'[i] = Completed(e) /\ \A j \in Seg \ {i} : segs'[j] = segs[j]
    BY <1>4, <2>1 DEF TypeOK
  <2>3. Completed(e).owner = NoNode /\ Completed(e).shadow = NoNode
    BY <1>4, <2>1, CompletedFields
  <2>4. Shuffles(i, segs')
    BY <2>2, <2>3 DEF Shuffles
  <2>5. QED
    BY <1>4, <2>1, <2>4, ShufflesOneEach
<1>8. CASE RecvMismatch(n, m)
  <2> DEFINE t == IF TipInside(i) THEN index.tip ELSE Main[StartHeight(i)]
             h == IF TipInside(i) THEN Height[index.tip] ELSE StartHeight(i)
             S == [segs EXCEPT ![i] = Failed(e, t, h)]
  <2>1. Attached(n) # {}
    BY <1>8 DEF RecvMismatch
  <2>2. \/ segs' = Dropped(S, Seg \ {i})
        \/ \E b, hs, w : Assign(S, b, hs, w, n)
    <3> DEFINE retry == IF TipInside(i) THEN Failed(e, index.tip, Height[index.tip])
                        ELSE Failed(e, Main[StartHeight(i)], StartHeight(i))
               R     == [segs EXCEPT ![i] = retry]
    <3>1. retry = Failed(e, t, h)
      OBVIOUS
    <3>2. \/ segs' = Dropped(R, Seg \ {i})
          \/ \E b, hs, w : Assign(R, b, hs, w, n)
      BY <1>8 DEF RecvMismatch
    <3> HIDE DEF retry, i, e, t, h
    <3>3. QED
      BY <3>1, <3>2
  <2>3. t \in Header /\ h \in Nat
    <3>1. i \in Seg
      BY <1>4, <2>1
    <3> HIDE DEF i
    <3>2. QED
      BY <3>1, SegConstants, HeaderAssumption DEF TypeOK, Index
  <2> HIDE DEF i, e, t, h
  <2>4. Failed(e, t, h) \in SegState
    BY <1>4, <2>1, <2>3, FailedFields
  <2>5. /\ S \in Segments /\ S[i] = Failed(e, t, h)
        /\ \A j \in Seg \ {i} : S[j] = segs[j]
    BY <1>4, <2>1, <2>4 DEF TypeOK, Segments
  <2> HIDE DEF S
  <2>6. Shuffles(i, S)
    BY <1>4, <2>1, <2>5, FailedPeers DEF Shuffles
  <2>7. OneEach(S)
    BY <1>4, <2>1, <2>6, ShufflesOneEach
  <2>8. CASE segs' = Dropped(S, Seg \ {i})
    <3>1. OnlyFreed(S, Seg \ {i}, segs')
      BY <2>5, <2>8, DroppedFields
    <3>2. QED
      BY <2>7, <3>1 DEF OnlyFreed, OneEach, On
  <2>9. CASE \E b, hs, w : Assign(S, b, hs, w, n)
    BY <2>5, <2>7, <2>9, AssignOneEach
  <2>10. QED
    BY <2>2, <2>8, <2>9
<1>9. QED
  BY <1>1, <1>3, <1>5, <1>6, <1>7, <1>8

(* par_hdr_flush frees nobody but the peers of the segment that fails.     *)
LEMMA FlushFailOneEach ==
    ASSUME TypeOK, OneEach(segs), FlushFail
    PROVE  OneEach(segs')
<1> DEFINE f == Failed(Head0, index.tip, Height[index.tip])
           S == [segs EXCEPT ![flushIdx] = f]
           above == flushIdx + 1 .. NumSegs - 1
<1>1. flushIdx \in Seg /\ Head0 \in SegState
  BY ParHdrAssumption DEF FlushFail, HeadReady, Head0, Seg, TypeOK
<1>2. segs' = Dropped(S, above) \/ segs' = S
  BY DEF FlushFail
<1>3. f \in SegState /\ f.owner = NoNode /\ f.shadow = NoNode
  <2>1. index.tip \in Header /\ Height[index.tip] \in Nat
    BY HeaderAssumption DEF TypeOK, Index
  <2>2. QED
    BY <1>1, <2>1, FailedFields, FailedPeers
<1> HIDE DEF f
<1>4. S \in Segments /\ S[flushIdx] = f /\ \A j \in Seg \ {flushIdx} : S[j] = segs[j]
  BY <1>1, <1>3 DEF TypeOK, Segments
<1>5. above \in SUBSET Seg
  BY <1>1, ParHdrAssumption DEF Seg
<1> HIDE DEF S, above
<1>6. OneEach(S)
  <2>1. Shuffles(flushIdx, S)
    BY <1>3, <1>4 DEF Shuffles
  <2>2. QED
    BY <1>1, <2>1, ShufflesOneEach
<1>7. CASE segs' = Dropped(S, above)
  <2>1. OnlyFreed(S, above, segs')
    BY <1>4, <1>5, <1>7, DroppedFields
  <2>2. QED
    BY <1>6, <2>1 DEF OnlyFreed, OneEach, On
<1>8. QED
  BY <1>2, <1>6, <1>7

(* Every step keeps every peer on one segment.                             *)
LEMMA OneEachStep ==
    ASSUME TypeInv, OneEach(segs), [Next]_vars
    PROVE  OneEach(segs')
<1>1. TypeOK /\ segs \in Segments /\ (pc # "idle" => cur \in Node)
  BY DEF TypeInv, TypeOK, Segments
<1>2. ASSUME NEW n \in Node, HandshakeDone(n) PROVE OneEach(segs')
  BY <1>1, <1>2, AssignOneEach DEF HandshakeDone
<1>3. ASSUME NEW n \in Node, Recv(n) PROVE OneEach(segs')
  BY <1>1, <1>3, RecvOneEach
<1>4. CASE FlushSegment
  <2>1. flushIdx \in Seg /\ FlushesOne(flushIdx, segs')
    BY <1>1, <1>4, FlushSegmentEffect
  <2>2. Shuffles(flushIdx, segs')
    BY <2>1 DEF Shuffles, FlushesOne
  <2>3. QED
    BY <2>1, <2>2, ShufflesOneEach
<1>5. CASE FlushFail
  BY <1>1, <1>5, FlushFailOneEach
<1>6. CASE FlushDone
  <2>1. CASE active
    <3>1. cur \in Node /\ Assign(segs, buffered, hsync, wire, cur)
      BY <1>1, <1>6, <2>1 DEF FlushDone
    <3>2. QED
      BY <1>1, <3>1, AssignOneEach
  <2>2. CASE ~active
    BY <1>6, <2>2 DEF FlushDone
  <2>3. QED
    BY <2>1, <2>2
<1>7. CASE Tick
  <2>1. PICK stalled, rated, slow \in SUBSET Seg, outlier \in BOOLEAN :
               Reclaim(stalled, rated, outlier, slow)
    BY <1>7 DEF Tick, Ratable, Held
  <2>2. QED
    BY <1>1, <2>1, ReclaimOneEach
<1>8. CASE UNCHANGED segs
  BY <1>8
<1>9. QED
  BY <1>2, <1>3, <1>4, <1>5, <1>6, <1>7, <1>8
     DEF Next, Flush, Disconnect, FlushHeader, vars, segVars

(* No peer ever owns or shadows two segments, or races itself, however     *)
(* handshakes, late replies, preemption and races interleave.              *)
THEOREM OnePeer == Spec => []OnePeerOneSegment
<1>1. Init => TypeInv /\ OneEach(segs)
  <2>1. ASSUME Init PROVE OneEach(segs)
    <3>1. \A i \in Seg : segs[i] = FreshSeg(i)
      BY <2>1 DEF Init
    <3>2. ASSUME NEW i \in Seg PROVE segs[i].owner = NoNode /\ segs[i].shadow = NoNode
      <4>1. segs[i] = FreshSeg(i)
        BY <3>1
      <4>2. QED
        BY <4>1 DEF FreshSeg
    <3>3. QED
      BY <3>2, NobodyIsNoPeer DEF OneEach, On
  <2>2. QED
    BY <2>1, TypeInit
<1>2. TypeInv /\ OneEach(segs) /\ [Next]_vars => (TypeInv /\ OneEach(segs))'
  BY TypeStep, OneEachStep
<1>3. OneEach(segs) => OnePeerOneSegment
  BY DEF OneEach, On, OnePeerOneSegment
<1>4. QED
  BY <1>1, <1>2, <1>3, PTL DEF Spec

-----------------------------------------------------------------------------
(* The memory budget.                                                      *)

(* The lengths of the buffers.                                             *)
LEMMA BufLen ==
    ASSUME NEW S \in Segments, NEW i \in Seg
    PROVE  S[i] \in SegState /\ S[i].buf \in Seq(Block) /\ Len(S[i].buf) \in Nat
<1>1. S[i] \in SegState
  BY DEF Segments
<1>2. S[i].buf \in Seq(Block)
  BY <1>1 DEF SegState
<1> QED
  BY <1>1, <1>2, LenProperties

(* Where every buffer of K is empty, or no longer than its buffer in M, no *)
(* more is staged.                                                         *)
LEMMA StagedMono ==
    ASSUME NEW S \in Segments, NEW T \in Segments, NEW K \in SUBSET Seg, NEW M \in SUBSET Seg,
           \A i \in K : \/ Len(S[i].buf) = 0
                        \/ i \in M /\ Len(S[i].buf) <= Len(T[i].buf)
    PROVE  Staged(S, K) <= Staged(T, M)
<1>1. Places(S, K) \in SUBSET Places(T, M)
  <2> SUFFICES ASSUME NEW x \in Places(S, K) PROVE x \in Places(T, M)
    OBVIOUS
  <2> PICK i \in K : \E k \in 1 .. Len(S[i].buf) : x = <<i, k>>
    BY PlacesAre
  <2>1. PICK k \in 1 .. Len(S[i].buf) : x = <<i, k>>
    OBVIOUS
  <2>2. Len(S[i].buf) \in Nat /\ Len(T[i].buf) \in Nat
    BY BufLen
  <2>3. i \in M /\ k \in 1 .. Len(T[i].buf)
    BY <2>2
  <2> QED
    BY <2>1, <2>3, PlacesAre
<1> QED
  BY <1>1, PlacesFinite, FS_Subset

(* A segment adds the length of its buffer.                                *)
LEMMA StagedSplit ==
    ASSUME NEW S \in Segments, NEW K \in SUBSET Seg, NEW i \in K
    PROVE  Staged(S, K) = Staged(S, K \ {i}) + Len(S[i].buf)
<1> DEFINE A == Places(S, K \ {i})
           n == Len(S[i].buf)
           B == {i} \X (1 .. n)
<1>1. n \in Nat
  BY BufLen
<1>2. Places(S, K) = A \cup B
  BY DEF Places
<1>3. A \cap B = {}
  BY DEF Places
<1>4. IsFiniteSet(B) /\ Cardinality(B) = n
  <2>1. IsFiniteSet({i}) /\ Cardinality({i}) = 1
    BY FS_Singleton
  <2>2. IsFiniteSet(1 .. n) /\ Cardinality(1 .. n) = n
    BY <1>1, FS_Interval
  <2>3. IsFiniteSet(B) /\ Cardinality(B) = 1 * n
    BY <2>1, <2>2, FS_Product
  <2> QED
    BY <1>1, <2>3
<1>5. IsFiniteSet(A) /\ Staged(S, K \ {i}) = Cardinality(A) /\ Cardinality(A) \in Nat
  BY PlacesFinite, FS_CardinalityType
<1>6. Staged(S, K) = Cardinality(A \cup B)
  BY <1>2, PlacesFinite
<1> HIDE DEF A, B, n
<1>7. Cardinality({}) = 0
  BY FS_EmptySet
<1>8. Cardinality(A \cup B) = Cardinality(A) + Cardinality(B) - Cardinality(A \cap B)
  BY <1>4, <1>5, FS_Union
<1>9. Cardinality(A \cap B) = 0
  BY <1>3, <1>7
<1>10. Staged(S, K) = Cardinality(A) + n
  BY <1>1, <1>4, <1>5, <1>6, <1>8, <1>9
<1> QED
  BY <1>5, <1>10 DEF n

(* Two sets of segments hold no more than each.                            *)
LEMMA StagedUnion ==
    ASSUME NEW S \in Segments, NEW K \in SUBSET Seg, NEW M \in SUBSET Seg
    PROVE  Staged(S, K \cup M) <= Staged(S, K) + Staged(S, M)
<1> DEFINE A == Places(S, K)
           B == Places(S, M)
<1>1. Places(S, K \cup M) = A \cup B
  BY DEF Places
<1>2. /\ IsFiniteSet(A) /\ Staged(S, K) = Cardinality(A)
      /\ IsFiniteSet(B) /\ Staged(S, M) = Cardinality(B)
      /\ Staged(S, K \cup M) = Cardinality(A \cup B)
  BY <1>1, PlacesFinite
<1> HIDE DEF A, B
<1>3. Cardinality(A) \in Nat /\ Cardinality(B) \in Nat /\ Cardinality(A \cap B) \in Nat
  BY <1>2, FS_CardinalityType, FS_Intersection
<1>4. Cardinality(A \cup B) = Cardinality(A) + Cardinality(B) - Cardinality(A \cap B)
  BY <1>2, FS_Union
<1> QED
  BY <1>2, <1>3, <1>4

(* Segments of at most c headers each.                                     *)
LEMMA StagedBound ==
    ASSUME NEW S \in Segments, NEW K \in SUBSET Seg, NEW c \in Nat,
           \A i \in K : Len(S[i].buf) <= c
    PROVE  Cardinality(K) \in Nat /\ Staged(S, K) <= Cardinality(K) * c
<1>1. IsFiniteSet(K) /\ Cardinality(K) \in Nat
  <2>1. IsFiniteSet(Seg)
    BY FS_Interval, ParHdrAssumption DEF Seg
  <2> QED
    BY <2>1, FS_Subset, FS_CardinalityType
<1>2. IsFiniteSet(1 .. c) /\ Cardinality(1 .. c) = c
  BY FS_Interval
<1>3. Places(S, K) \in SUBSET (K \X (1 .. c))
  <2> SUFFICES ASSUME NEW x \in Places(S, K) PROVE x \in K \X (1 .. c)
    OBVIOUS
  <2> PICK i \in K : \E k \in 1 .. Len(S[i].buf) : x = <<i, k>>
    BY PlacesAre
  <2>1. PICK k \in 1 .. Len(S[i].buf) : x = <<i, k>>
    OBVIOUS
  <2>2. Len(S[i].buf) \in Nat
    BY BufLen
  <2>3. k \in 1 .. c
    BY <2>2
  <2> QED
    BY <2>1, <2>3
<1>4. IsFiniteSet(K \X (1 .. c)) /\ Cardinality(K \X (1 .. c)) = Cardinality(K) * c
  BY <1>1, <1>2, FS_Product
<1>5. Cardinality(Places(S, K)) <= Cardinality(K \X (1 .. c))
  BY <1>3, <1>4, FS_Subset
<1> QED
  BY <1>1, <1>4, <1>5, PlacesFinite

(* A message brings at most MaxBatch headers.                              *)
LEMMA ReplyShort ==
    ASSUME TypeOK, NEW n \in Node, NEW m \in Reply(n)
    PROVE  Len(m.hdrs) <= MaxBatch
<1>1. CASE n \in Honest
  <2>1. PICK k \in {1} \cap DOMAIN wire[n] : m = HonestReply(wire[n][k])
    BY <1>1 DEF Reply
  <2> DEFINE r    == wire[n][k]
             lo   == IF OnMain(r.loc) THEN Height[r.loc] ELSE 0
             stop == IF Height[r.stop] > lo THEN Height[r.stop] ELSE ChainHeight
             hi   == Min({stop, lo + MaxBatch, ChainHeight})
  <2>2. r \in GetHeaders
    BY <1>1, <2>1 DEF TypeOK
  <2>3. lo \in Nat /\ stop \in Nat /\ ChainHeight \in Nat /\ MaxBatch \in Nat
    BY <2>2, HeaderAssumption, ParHdrAssumption DEF GetHeaders
  <2>4. hi \in Nat /\ hi <= lo + MaxBatch
    <3> HIDE DEF lo, stop
    <3> DEFINE T == {stop, lo + MaxBatch, ChainHeight}
    <3>1. T \in SUBSET Nat /\ T # {} /\ lo + MaxBatch \in T
      BY <2>3
    <3>2. Min(T) \in T /\ Min(T) <= lo + MaxBatch
      <4> HIDE DEF T
      <4> QED
        BY <3>1, MinIn
    <3> QED
      BY <3>1, <3>2
  <2>5. m.hdrs = MainAfter(lo, hi)
    BY <2>1 DEF HonestReply, Message
  <2> HIDE DEF lo, hi
  <2>6. CASE hi - lo \in Nat
    <3>1. Len(MainAfter(lo, hi)) = hi - lo
      BY <2>6 DEF MainAfter
    <3> QED
      BY <2>3, <2>4, <2>5, <3>1
  <2>7. CASE hi - lo \notin Nat
    <3>1. 1 .. hi - lo = {}
      BY <2>3, <2>4, <2>7
    <3>2. MainAfter(lo, hi) = <<>>
      BY <3>1 DEF MainAfter
    <3> QED
      BY <2>3, <2>5, <3>2
  <2> QED
    BY <2>6, <2>7
<1>2. CASE n \notin Honest
  <2>1. PICK t : m \in AnyReply(t)
    BY <1>2 DEF Reply
  <2>2. m \in [hdrs : AnyHdrs(t), proof : BOOLEAN, garbled : BOOLEAN]
    BY <2>1 DEF AnyReply
  <2>3. PICK k \in 0 .. MaxBatch : m.hdrs \in [1 .. k -> Block]
    BY <2>2 DEF AnyHdrs
  <2>4. Len(m.hdrs) = k
    BY <2>3, ParHdrAssumption
  <2> QED
    BY <2>3, <2>4, ParHdrAssumption
<1> QED
  BY <1>1, <1>2

(* No segment is longer than the longest.                                  *)
LEMMA LongestIs ==
    /\ LongestSeg \in Nat /\ MaxBatch \in Nat /\ MaxBatch >= 1 /\ LongestSeg >= 1
    /\ \A i \in Seg : StopHeight[i] - StartHeight(i) <= LongestSeg
<1> DEFINE T == {StopHeight[i] - StartHeight(i) : i \in Seg}
<1>1. \A i \in Seg : /\ StartHeight(i) \in Nat /\ StopHeight[i] \in 0 .. ChainHeight
                     /\ StartHeight(i) < StopHeight[i]
  BY SegConstants, ParHdrAssumption
<1>2. T \in SUBSET (0 .. ChainHeight) /\ ChainHeight \in Nat
  BY <1>1, ParHdrAssumption
<1>3. 0 \in Seg /\ MaxBatch \in Nat /\ MaxBatch >= 1
  BY ParHdrAssumption DEF Seg
<1>4. \A i \in Seg : StopHeight[i] - StartHeight(i) \in T
  OBVIOUS
<1>5. LongestSeg = Max(T)
  BY DEF LongestSeg
<1>6. Max(T) \in T /\ \A y \in T : Max(T) >= y
  <2>1. T # {}
    BY <1>3, <1>4
  <2> HIDE DEF T
  <2> QED
    BY <1>2, <2>1, MaxIn
<1> HIDE DEF T
<1>7. \A i \in Seg : StopHeight[i] - StartHeight(i) <= LongestSeg
  BY <1>1, <1>2, <1>4, <1>5, <1>6
<1>8. LongestSeg \in Nat
  <2>1. Max(T) \in 0 .. ChainHeight
    BY <1>2, <1>6
  <2> QED
    BY <1>2, <1>5, <2>1
<1>9. LongestSeg >= 1
  <2>1. StopHeight[0] \in Nat /\ StartHeight(0) \in Nat /\ StartHeight(0) < StopHeight[0]
    BY <1>1, <1>2, <1>3
  <2>2. StopHeight[0] - StartHeight(0) <= LongestSeg
    BY <1>3, <1>7
  <2> QED
    BY <1>8, <2>1, <2>2
<1> QED
  BY <1>3, <1>7, <1>8, <1>9

-----------------------------------------------------------------------------
(* What one segment can hold: it is asked for more only below its stop.    *)
PerSeg == LongestSeg + MaxBatch - 1
Room(S) ==
    \A i \in Seg :
        /\ Len(S[i].buf) <= PerSeg
        /\ ~S[i].complete /\ Len(S[i].buf) > 0 =>
              /\ Len(S[i].buf) <= S[i].tipHeight - StartHeight(i)
              /\ S[i].tipHeight < StopHeight[i]

(* buffered_bytes misses nothing that is staged.                           *)
Charges(S, b) == Staged(S, Seg) <= b

(* The segments other than the flush head f that peers work on.            *)
Worked(S, f) == {i \in Seg \ {f} : S[i].owner # NoNode \/ S[i].shadow # NoNode}

Allowance == Max({MaxBuffered - 1, 0})

(* There are at most as many segments as peers, those at work included,    *)
(* without which the staged headers fit the budget: the segments that peers*)
(* were at work on when a segment was last handed out.                     *)
Within(S, f) ==
    \E P \in SUBSET Seg :
        /\ Cardinality(P) <= NumNodes
        /\ Worked(S, f) \subseteq P
        /\ Staged(S, Seg \ (P \cup {f})) <= Allowance

(* No segment gets a peer, and where there was none nothing comes in.      *)
NoNewWork(S, T, f) ==
    /\ Worked(T, f) \subseteq Worked(S, f)
    /\ \A i \in Seg \ {f} : i \in Worked(S, f) \/ Len(T[i].buf) <= Len(S[i].buf)

(* The allowance is a number of headers.                                   *)
LEMMA AllowanceIs ==
    /\ Allowance \in Nat
    /\ \A b \in Nat : b < MaxBuffered => b <= Allowance
<1> DEFINE T == {MaxBuffered - 1, 0}
<1>1. MaxBuffered \in Nat
  BY ParHdrAssumption
<1>2. CASE MaxBuffered = 0
  <2>1. T = {-1, 0} /\ \A b \in Nat : ~(b < MaxBuffered)
    BY <1>1, <1>2
  <2>2. Max(T) \in T /\ Max(T) >= 0
    <3>1. 0 \in T /\ \A y \in T : 0 >= y
      BY <2>1
    <3>2. \E x \in T : \A y \in T : x >= y
      BY <3>1
    <3>3. Max(T) = CHOOSE x \in T : \A y \in T : x >= y
      BY DEF Max
    <3> QED
      BY <3>1, <3>2, <3>3
  <2> QED
    BY <2>1, <2>2 DEF Allowance
<1>3. CASE MaxBuffered # 0
  <2>1. T \in SUBSET (0 .. MaxBuffered - 1) /\ MaxBuffered - 1 \in Nat /\ MaxBuffered - 1 \in T
    BY <1>1, <1>3
  <2>2. Max(T) \in T /\ Max(T) >= MaxBuffered - 1
    <3> HIDE DEF T
    <3> QED
      BY <2>1, MaxIn
  <2>3. Allowance \in Nat /\ Allowance >= MaxBuffered - 1
    BY <2>1, <2>2 DEF Allowance
  <2> QED
    BY <1>1, <2>3
<1> QED
  BY <1>2, <1>3

(* Peers work on at most as many segments as there are peers.              *)
LEMMA WorkedFew ==
    ASSUME NEW S \in Segments, OneEach(S), NEW f
    PROVE  Cardinality(Worked(S, f)) <= NumNodes
<1> DEFINE W == Worked(S, f)
           who == [i \in W |-> IF S[i].owner # NoNode THEN S[i].owner ELSE S[i].shadow]
<1>1. IsFiniteSet(Node) /\ Cardinality(Node) = NumNodes
  BY FS_Interval, ParHdrAssumption DEF Node
<1>2. ASSUME NEW i \in W PROVE i \in Seg /\ who[i] \in Node /\ On(S, who[i], i)
  <2>1. i \in Seg /\ S[i] \in SegState /\ (S[i].owner # NoNode \/ S[i].shadow # NoNode)
    BY DEF Worked, Segments
  <2>2. S[i].owner \in Node \cup {NoNode} /\ S[i].shadow \in Node \cup {NoNode}
    BY <2>1 DEF SegState
  <2> QED
    BY <2>1, <2>2 DEF On
<1> HIDE DEF W
<1>3. \A i, j \in W : who[i] = who[j] => i = j
  <2> HIDE DEF who
  <2> QED
    BY <1>2 DEF OneEach
<1>4. who \in Injection(W, Node)
  BY <1>2, <1>3 DEF Injection, IsInjective
<1> QED
  BY <1>1, <1>4, FS_Injection DEF W

(* Handing out stops when the budget is used up.                           *)
LEMMA WithinAfterHandOut ==
    ASSUME NEW S \in Segments, OneEach(S), NEW b \in Nat, Charges(S, b), b < MaxBuffered,
           NEW f
    PROVE  Within(S, f)
<1> DEFINE P == Worked(S, f)
           R == Seg \ (P \cup {f})
<1>1. P \in SUBSET Seg /\ R \in SUBSET Seg /\ Seg \in SUBSET Seg
  BY DEF Worked
<1>2. \A i \in Seg : Len(S[i].buf) \in Nat
  BY BufLen
<1>3. Staged(S, R) <= Staged(S, Seg) /\ Staged(S, R) \in Nat /\ Staged(S, Seg) \in Nat
  <2>1. \A i \in R : i \in Seg /\ Len(S[i].buf) <= Len(S[i].buf)
    BY <1>2
  <2> HIDE DEF R
  <2> QED
    BY <1>1, <2>1, StagedMono, PlacesFinite
<1>4. Staged(S, R) <= Allowance
  BY <1>3, AllowanceIs DEF Charges
<1>5. Cardinality(P) <= NumNodes
  BY WorkedFew
<1> QED
  BY <1>1, <1>4, <1>5 DEF Within

(* Until then the segments without a peer hold what they held.             *)
LEMMA WithinKept ==
    ASSUME NEW S \in Segments, NEW T \in Segments, NEW f, NEW g,
           Within(S, f), NoNewWork(S, T, f),
           g = f \/ (Worked(T, g) \subseteq Worked(T, f) /\ (f \in Seg => Len(T[f].buf) = 0))
    PROVE  Within(T, g)
<1>1. PICK P \in SUBSET Seg : /\ Cardinality(P) <= NumNodes
                              /\ Worked(S, f) \subseteq P
                              /\ Staged(S, Seg \ (P \cup {f})) <= Allowance
  BY DEF Within
<1> DEFINE K == Seg \ (P \cup {g})
           M == Seg \ (P \cup {f})
<1>2. K \in SUBSET Seg /\ M \in SUBSET Seg
  OBVIOUS
<1>3. \A i \in K : Len(T[i].buf) = 0 \/ (i \in M /\ Len(T[i].buf) <= Len(S[i].buf))
  BY <1>1 DEF NoNewWork
<1>4. Staged(T, K) <= Staged(S, M) /\ Staged(T, K) \in Nat /\ Staged(S, M) \in Nat
  <2> HIDE DEF K, M
  <2> QED
    BY <1>2, <1>3, StagedMono, PlacesFinite
<1>5. Staged(T, K) <= Allowance
  BY <1>1, <1>4, AllowanceIs
<1>6. Worked(T, g) \subseteq P
  BY <1>1 DEF NoNewWork
<1> QED
  BY <1>1, <1>5, <1>6 DEF Within

(* The bound PAR_HDR_MAX_BUFFERED gives.                                   *)
LEMMA WithinGives ==
    ASSUME TypeOK, Room(segs), Within(segs, flushIdx)
    PROVE  WithinBudget
<1>1. PICK P \in SUBSET Seg : /\ Cardinality(P) <= NumNodes
                              /\ Staged(segs, Seg \ (P \cup {flushIdx})) <= Allowance
  BY DEF Within
<1> DEFINE K == Seg \ {flushIdx}
           M == Seg \ (P \cup {flushIdx})
           Q == M \cup P
<1>2. segs \in Segments /\ K \in SUBSET Seg /\ M \in SUBSET Seg /\ Q \in SUBSET Seg
  BY DEF TypeOK, Segments
<1>3. PerSeg \in Nat /\ NumNodes \in Nat
  BY LongestIs, ParHdrAssumption DEF PerSeg
<1>4. Cardinality(P) \in Nat /\ Staged(segs, P) <= Cardinality(P) * PerSeg
  <2>1. \A i \in P : Len(segs[i].buf) <= PerSeg
    BY DEF Room
  <2> QED
    BY <1>2, <1>3, <2>1, StagedBound
<1>5. Cardinality(P) * PerSeg <= NumNodes * PerSeg
  <2>1. ASSUME NEW a \in Nat, NEW b \in Nat, NEW c \in Nat, a <= b PROVE a * c <= b * c
    BY <2>1
  <2> QED
    BY <1>1, <1>3, <1>4, <2>1
<1>6. Staged(segs, Q) <= Staged(segs, M) + Staged(segs, P)
  <2> HIDE DEF M
  <2> QED
    BY <1>2, StagedUnion
<1>7. Staged(segs, K) <= Staged(segs, Q)
  <2>1. \A i \in K : i \in Q /\ Len(segs[i].buf) <= Len(segs[i].buf)
    BY <1>2, BufLen
  <2> HIDE DEF K, Q
  <2> QED
    BY <1>2, <2>1, StagedMono
<1>8. /\ Staged(segs, K) \in Nat /\ Staged(segs, Q) \in Nat
      /\ Staged(segs, M) \in Nat /\ Staged(segs, P) \in Nat
  BY <1>2, PlacesFinite
<1>9. Cardinality(P) * PerSeg \in Nat /\ NumNodes * PerSeg \in Nat
  BY <1>3, <1>4
<1> DEFINE x == Cardinality(P) * PerSeg
           y == NumNodes * PerSeg
<1>10. Staged(segs, K) <= Allowance + y
  <2>1. x \in Nat /\ y \in Nat /\ x <= y /\ Staged(segs, P) <= x
    BY <1>4, <1>5, <1>9
  <2> HIDE DEF x, y, K, M, Q
  <2>2. Staged(segs, M) <= Allowance
    BY <1>1 DEF M
  <2> QED
    BY <1>6, <1>7, <1>8, <2>1, <2>2, AllowanceIs
<1> QED
  BY <1>10 DEF WithinBudget, Allowance, PerSeg

-----------------------------------------------------------------------------
(* Handing segments around stages nothing.                                 *)
LEMMA ReassignedStages ==
    ASSUME NEW S \in Segments, NEW T, Reassigned(S, T), NEW b
    PROVE  /\ T \in Segments
           /\ Room(S) => Room(T)
           /\ Charges(S, b) => Charges(T, b)
           /\ \A f : Worked(T, f) \subseteq Worked(S, f) => NoNewWork(S, T, f)
<1>1. T \in Segments
  BY DEF Reassigned
<1>2. \A i \in Seg : /\ T[i].buf = S[i].buf /\ T[i].tipHeight = S[i].tipHeight
                     /\ T[i].complete = S[i].complete
  BY DEF Reassigned, Kept
<1>3. \A i \in Seg : Len(S[i].buf) \in Nat
  BY BufLen
<1>4. Room(S) => Room(T)
  BY <1>2 DEF Room
<1>5. Staged(T, Seg) = Staged(S, Seg)
  <2>1. Places(T, Seg) = Places(S, Seg)
    BY <1>2 DEF Places
  <2> QED
    BY <1>1, <2>1, PlacesFinite
<1>6. ASSUME NEW f, Worked(T, f) \subseteq Worked(S, f) PROVE NoNewWork(S, T, f)
  BY <1>2, <1>3, <1>6 DEF NoNewWork
<1> QED
  BY <1>1, <1>4, <1>5, <1>6 DEF Charges

(* par_hdr_assign: only the flush head is exempt from the budget.          *)
LEMMA AssignWork ==
    ASSUME TypeOK, NEW S \in Segments, NEW b, NEW hs, NEW w, NEW n \in Node,
           Assign(S, b, hs, w, n)
    PROVE  b < MaxBuffered \/ Worked(segs', flushIdx) \subseteq Worked(S, flushIdx)
<1>1. CASE ~Busy(S, n) /\ Open(S, b) # {}
  <2> DEFINE i == Min(Open(S, b))
  <2>1. i \in Open(S, b)
    BY <1>1, OpenType, MinIn
  <2>2. i \in Seg /\ (i = flushIdx \/ b < MaxBuffered)
    BY <2>1, OpenType DEF Open
  <2>3. segs' = [S EXCEPT ![i] = Owned(S[i], n)]
    BY <1>1 DEF Assign
  <2> HIDE DEF i
  <2>4. \A j \in Seg \ {i} : segs'[j] = S[j]
    BY <2>2, <2>3 DEF Segments
  <2> QED
    BY <2>2, <2>4 DEF Worked
<1>2. CASE ~(~Busy(S, n) /\ Open(S, b) # {})
  BY <1>2 DEF Assign
<1> QED
  BY <1>1, <1>2

(* par_hdr_reclaim: so for its second stage; the others put no peer on a   *)
(* segment that had none, the flush head excepted.                         *)
LEMMA ReclaimWork ==
    ASSUME TypeOK, NEW stalled, NEW rated \in SUBSET Seg, NEW outlier, NEW slow \in SUBSET Seg,
           Reclaim(stalled, rated, outlier, slow)
    PROVE  buffered < MaxBuffered \/ Worked(segs', flushIdx) \subseteq Worked(segs, flushIdx)
<1> DEFINE S1  == Released(stalled)
           g2  == HandOut(S1)
           S2  == HandedOut(S1, g2)
           pre == Preempts(S2, rated, outlier)
           S3  == IF pre THEN Preempted(S2) ELSE S2
           g4  == Race(S3, slow)
           W(S) == Worked(S, flushIdx)
<1>1. segs' = Raced(S3, g4)
  BY DEF Reclaim
<1>2. W(S1) \subseteq W(segs) /\ S1 \in Segments
  <2>1. ASSUME NEW i \in Seg
        PROVE  S1[i] = segs[i] \/ (S1[i].owner = NoNode /\ S1[i].shadow = NoNode)
    BY DEF Released, TypeOK, SegState
  <2>2. S1 \in Segments
    BY ReleasedReassigns DEF Reassigned
  <2> HIDE DEF S1
  <2> QED
    BY <2>1, <2>2 DEF Worked
<1> HIDE DEF S1
<1>3. S2 \in Segments /\ (buffered < MaxBuffered \/ W(S2) \subseteq W(S1))
  <2>1. S2 \in Segments
    BY <1>2, HandedOutReassigns DEF Reassigned
  <2>2. ASSUME NEW i \in Seg PROVE S2[i] = S1[i] \/ i \in Open(S1, buffered)
    <3>1. CASE Partner(g2, i) = {}
      BY <3>1 DEF HandedOut
    <3>2. CASE Partner(g2, i) # {}
      <4>1. PICK n \in Node : i \in g2[n]
        BY <3>2 DEF Partner
      <4> QED
        BY <4>1 DEF HandOut, Pairing
    <3> QED
      BY <3>1, <3>2
  <2> HIDE DEF S2, g2
  <2>3. \A i \in Open(S1, buffered) : i = flushIdx \/ buffered < MaxBuffered
    BY DEF Open
  <2> QED
    BY <2>1, <2>2, <2>3 DEF Worked
<1> HIDE DEF S2
<1>4. S3 \in Segments /\ W(S3) \subseteq W(S2)
  <2>1. CASE pre
    <3>1. flushIdx \in Seg /\ ~S2[flushIdx].complete /\ Candidates(S2) # {}
      BY <2>1 DEF Preempts
    <3>2. S3 \in Segments
      BY <1>3, <2>1, <3>1, PreemptedReassigns DEF Reassigned
    <3>3. \A i \in Seg \ {flushIdx} : S3[i] = S2[i]
      BY <1>3, <2>1, <3>1 DEF Preempted, Vacated, Segments
    <3> HIDE DEF S3
    <3> QED
      BY <3>2, <3>3 DEF Worked
  <2>2. CASE ~pre
    BY <1>3, <2>2
  <2> QED
    BY <2>1, <2>2
<1> HIDE DEF S3
<1>5. W(segs') \subseteq W(S3)
  <2>1. ASSUME NEW i \in Seg PROVE segs'[i] = S3[i] \/ S3[i].owner # NoNode
    <3>1. CASE Partner(g4, i) = {}
      BY <1>1, <3>1 DEF Raced
    <3>2. CASE Partner(g4, i) # {}
      <4>1. PICK n \in Node : i \in g4[n]
        BY <3>2 DEF Partner
      <4> QED
        BY <4>1 DEF Race, Pairing, Raceable
    <3> QED
      BY <3>1, <3>2
  <2> QED
    BY <2>1 DEF Worked
<1> QED
  BY <1>2, <1>3, <1>4, <1>5

-----------------------------------------------------------------------------
(* Nothing staged costs nothing.                                           *)
LEMMA NoneStaged ==
    ASSUME NEW T \in Segments, NEW b \in Nat, \A i \in Seg : T[i].buf = <<>>
    PROVE  Charges(T, b)
<1>1. \A i \in Seg : Len(T[i].buf) = 0
  OBVIOUS
<1>2. Staged(T, Seg) <= Cardinality(Seg) * 0 /\ Cardinality(Seg) \in Nat
  BY <1>1, StagedBound
<1>3. Staged(T, Seg) \in Nat
  BY PlacesFinite
<1> QED
  BY <1>2, <1>3 DEF Charges

(* The segment at which par_hdr_recv stages a batch had a peer, so the     *)
(* batch is no new work, and it is charged for.                            *)
LEMMA ExtendedBudget ==
    ASSUME TypeOK, SegsSound, Room(segs), Charges(segs, buffered),
           NEW n \in Node, NEW i \in Attached(n), NEW m \in Messages, Len(m.hdrs) <= MaxBatch,
           NEW done, NEW T, ExtendsOne(i, m, done, T), ~done => T[i].tipHeight < StopHeight[i]
    PROVE  Room(T) /\ Charges(T, Charged(m)) /\ NoNewWork(segs, T, flushIdx)
<1> DEFINE len == Len(m.hdrs)
           old == Len(segs[i].buf)
           new == Len(T[i].buf)
<1>1. /\ i \in Seg /\ ~segs[i].complete /\ (segs[i].owner = n \/ segs[i].shadow = n)
      /\ n # NoNode /\ segs \in Segments /\ T \in Segments
      /\ \A j \in Seg \ {i} : T[j] = segs[j]
  BY NobodyIsNoPeer DEF Attached, TypeOK, Segments, ExtendsOne
<1>2. len \in Nat /\ old \in Nat /\ new = old + len /\ new \in Nat
  <2>1. m.hdrs \in Seq(Block) /\ segs[i].buf \in Seq(Block) /\ T[i].buf = segs[i].buf \o m.hdrs
    BY <1>1, BufLen DEF Messages, ExtendsOne
  <2> QED
    BY <2>1, ConcatProperties, LenProperties
<1>3. /\ segs[i].tipHeight \in Nat /\ StartHeight(i) \in Nat /\ StopHeight[i] \in Nat
      /\ segs[i].tipHeight >= StartHeight(i) /\ T[i].tipHeight = segs[i].tipHeight + len
      /\ T[i].complete <=> done
  <2>1. segs[i].tipHeight \in Nat
    BY <1>1 DEF TypeOK, SegState
  <2>2. StartHeight(i) \in Nat /\ StopHeight[i] \in Nat
    BY <1>1, SegConstants, ParHdrAssumption
  <2> QED
    BY <1>1, <2>1, <2>2 DEF SegsSound, ExtendsOne
<1>4. /\ LongestSeg \in Nat /\ MaxBatch \in Nat /\ MaxBatch >= 1 /\ LongestSeg >= 1
      /\ StopHeight[i] - StartHeight(i) <= LongestSeg
      /\ PerSeg = LongestSeg + MaxBatch - 1
  BY <1>1, LongestIs DEF PerSeg
<1>5. old > 0 => old <= segs[i].tipHeight - StartHeight(i) /\ segs[i].tipHeight < StopHeight[i]
  BY <1>1 DEF Room
<1>6. /\ new <= PerSeg
      /\ ~T[i].complete /\ new > 0 =>
            new <= T[i].tipHeight - StartHeight(i) /\ T[i].tipHeight < StopHeight[i]
  <2> HIDE DEF len, old, new
  <2>1. len <= MaxBatch
    BY DEF len
  <2>2. new <= PerSeg
    BY <1>2, <1>3, <1>4, <1>5, <2>1
  <2> QED
    BY <1>2, <1>3, <1>5, <2>2
<1>7. Room(T)
  BY <1>1, <1>6 DEF Room
<1>8. Charges(T, Charged(m))
  <2> DEFINE rest == Seg \ {i}
             x    == Staged(segs, rest)
             y    == Staged(T, rest)
  <2>1. Staged(segs, Seg) = x + old /\ Staged(T, Seg) = y + new
    BY <1>1, StagedSplit
  <2>2. x \in Nat /\ y \in Nat
    BY <1>1, PlacesFinite
  <2>3. y = x
    <3>1. Places(T, rest) = Places(segs, rest)
      BY <1>1 DEF Places
    <3> QED
      BY <1>1, <3>1, PlacesFinite
  <2>4. buffered \in Nat /\ Charged(m) \in Nat /\ Charged(m) >= buffered + len
    <3>1. buffered \in Nat
      BY DEF TypeOK
    <3>2. CASE m.garbled
      BY <1>2, <3>1, <3>2 DEF Charged
    <3>3. CASE ~m.garbled
      BY <1>2, <3>1, <3>3 DEF Charged
    <3> QED
      BY <3>1, <3>2, <3>3
  <2> HIDE DEF x, y, old, new, len
  <2>5. x + old <= buffered
    BY <2>1 DEF Charges
  <2>6. y + new <= Charged(m)
    BY <1>2, <2>2, <2>3, <2>4, <2>5
  <2> QED
    BY <2>1, <2>6 DEF Charges
<1>9. NoNewWork(segs, T, flushIdx)
  <2>1. i # flushIdx => i \in Worked(segs, flushIdx)
    BY <1>1 DEF Worked
  <2>2. \A j \in Seg : Len(segs[j].buf) \in Nat
    BY <1>1, BufLen
  <2>3. Worked(T, flushIdx) \subseteq Worked(segs, flushIdx)
    BY <1>1, <2>1 DEF Worked
  <2> QED
    BY <1>1, <2>1, <2>2, <2>3 DEF NoNewWork
<1> QED
  BY <1>7, <1>8, <1>9

(* A segment set back gives up what it staged.                             *)
LEMMA SetBackBudget ==
    ASSUME TypeOK, Room(segs), NEW i \in Seg, NEW t, NEW h, NEW go, NEW T,
           FailsOne(i, t, h, go, T)
    PROVE  /\ Room(T)
           /\ Staged(T, Seg) <= Staged(segs, Seg \ {i})
           /\ Worked(T, flushIdx) \subseteq Worked(segs, flushIdx)
                 => NoNewWork(segs, T, flushIdx)
<1>1. segs \in Segments /\ T \in Segments
  BY DEF TypeOK, Segments, FailsOne
<1>2. T[i].buf = <<>> /\ Len(T[i].buf) = 0
  BY DEF FailsOne
<1>3. \A j \in Seg \ {i} : /\ T[j].complete = segs[j].complete
                           /\ T[j].tipHeight = segs[j].tipHeight
                           /\ T[j].buf \in {segs[j].buf, <<>>}
  BY DEF FailsOne
<1>4. \A j \in Seg : Len(segs[j].buf) \in Nat /\ Len(T[j].buf) \in Nat
  BY <1>1, BufLen
<1>5. \A j \in Seg : \/ Len(T[j].buf) = 0
                     \/ j \in Seg \ {i} /\ Len(T[j].buf) = Len(segs[j].buf)
  BY <1>2, <1>3
<1>6. Staged(T, Seg) <= Staged(segs, Seg \ {i})
  <2>1. \A j \in Seg : \/ Len(T[j].buf) = 0
                       \/ j \in Seg \ {i} /\ Len(T[j].buf) <= Len(segs[j].buf)
    BY <1>4, <1>5
  <2>2. Seg \ {i} \in SUBSET Seg /\ Seg \in SUBSET Seg
    OBVIOUS
  <2> QED
    BY <1>1, <2>1, <2>2, StagedMono
<1>7. Room(T)
  <2>1. PerSeg \in Nat
    BY LongestIs DEF PerSeg
  <2>2. ASSUME NEW j \in Seg
        PROVE  /\ Len(T[j].buf) <= PerSeg
               /\ ~T[j].complete /\ Len(T[j].buf) > 0 =>
                     /\ Len(T[j].buf) <= T[j].tipHeight - StartHeight(j)
                     /\ T[j].tipHeight < StopHeight[j]
    <3>1. CASE Len(T[j].buf) = 0
      BY <2>1, <3>1
    <3>2. CASE j \in Seg \ {i} /\ Len(T[j].buf) = Len(segs[j].buf)
      BY <1>3, <3>2 DEF Room
    <3> QED
      BY <1>5, <3>1, <3>2
  <2> QED
    BY <2>2 DEF Room
<1>8. \A j \in Seg : Len(T[j].buf) <= Len(segs[j].buf)
  BY <1>4, <1>5
<1> QED
  BY <1>6, <1>7, <1>8 DEF NoNewWork

(* A buffer of k headers among b charged leaves the rest charged.          *)
LEMMA RestCharged ==
    ASSUME NEW S \in Segments, NEW i \in Seg, NEW b \in Nat, NEW k \in Nat, NEW c \in Nat,
           Charges(S, b), b + k <= c
    PROVE  /\ Less(c, Len(S[i].buf) + k) \in Nat
           /\ Staged(S, Seg \ {i}) <= Less(c, Len(S[i].buf) + k)
<1> DEFINE x == Staged(S, Seg \ {i})
           y == Len(S[i].buf)
<1>1. Staged(S, Seg) = x + y /\ x \in Nat /\ y \in Nat
  BY StagedSplit, PlacesFinite, BufLen
<1>2. x + y <= b
  BY <1>1 DEF Charges
<1> HIDE DEF x, y
<1>3. Less(c, y + k) \in Nat /\ x <= Less(c, y + k)
  BY <1>1, <1>2 DEF Less
<1> QED
  BY <1>3 DEF x, y

(* The budget after a handler: what is staged is charged, no segment holds *)
(* too much, and new work is only begun below the budget.                  *)
Budgeted(T, b) ==
    /\ Charges(T, b) /\ Room(T)
    /\ b < MaxBuffered \/ NoNewWork(segs, T, flushIdx)

(* par_hdr_recv, a segment on the wrong header.                            *)
LEMMA MismatchBudget ==
    ASSUME TypeOK, Room(segs), Charges(segs, buffered), NEW n \in Node, NEW m \in Messages,
           n \in Honest => wire[n] # <<>>, RecvMismatch(n, m)
    PROVE  Budgeted(segs', buffered')
<1> DEFINE i      == Min(Attached(n))
           seg    == Extended(i, n, m)
           t      == IF TipInside(i) THEN index.tip ELSE Main[StartHeight(i)]
           h      == IF TipInside(i) THEN Height[index.tip] ELSE StartHeight(i)
           retry  == IF TipInside(i) THEN Failed(seg, index.tip, Height[index.tip])
                     ELSE Failed(seg, Main[StartHeight(i)], StartHeight(i))
           S      == [segs EXCEPT ![i] = retry]
           b      == Less(Charged(m), Len(seg.buf))
           hs     == Cleared(Loser(i, n) \cup {n})
           f      == Failed(seg, t, h)
<1>1. i \in Seg
  BY AttachedMin DEF RecvMismatch
<1>2. IF retry.fails >= MaxFlushFails
      THEN /\ active'   = FALSE
           /\ segs'     = Dropped(S, Seg \ {i})
           /\ buffered' = Less(b, Staged(S, Seg \ {i}))
      ELSE /\ Assign(S, b, hs, Answered(n), n)
           /\ buffered' = b
  BY DEF RecvMismatch
<1>3. hs \in Flags /\ Answered(n) \in Wires
  BY ClearedType, AnsweredType
<1> HIDE DEF i
<1>4. seg \in SegState /\ seg.flushed = segs[i].flushed /\ seg.fails = segs[i].fails
  BY <1>1, ExtendedFields
<1>5. t \in Header /\ h \in Nat
  BY <1>1, SegConstants, HeaderAssumption DEF TypeOK, Index
<1>6. retry = f
  OBVIOUS
<1>7. Len(seg.buf) = Len(segs[i].buf) + Len(m.hdrs) /\ Len(m.hdrs) \in Nat
  <2>1. seg.buf = segs[i].buf \o m.hdrs
    BY <1>1, ExtendedFields
  <2>2. segs[i].buf \in Seq(Block) /\ m.hdrs \in Seq(Block)
    BY <1>1, BufLen DEF TypeOK, Segments, Messages
  <2> QED
    BY <2>1, <2>2, ConcatProperties, LenProperties
<1>8. segs \in Segments /\ buffered \in Nat
  BY DEF TypeOK, Segments
<1>9. b \in Nat /\ Staged(segs, Seg \ {i}) <= b
  <2>1. Charged(m) \in Nat
    BY ChargedNat
  <2>2. buffered + Len(m.hdrs) <= Charged(m)
    <3>1. CASE m.garbled
      BY <1>7, <1>8, <3>1 DEF Charged
    <3>2. CASE ~m.garbled
      BY <1>7, <1>8, <3>2 DEF Charged
    <3> QED
      BY <3>1, <3>2
  <2> HIDE DEF seg
  <2>3. b = Less(Charged(m), Len(segs[i].buf) + Len(m.hdrs))
    BY <1>7
  <2> HIDE DEF b
  <2> QED
    BY <1>1, <1>7, <1>8, <2>1, <2>2, <2>3, RestCharged
<1> HIDE DEF seg, t, h, b, hs, retry
<1>10. S = [segs EXCEPT ![i] = f]
  BY <1>6
<1>11. f \in SegState /\ f.owner = NoNode /\ f.shadow = NoNode
  BY <1>4, <1>5, FailedFields, FailedPeers
<1>12. S \in Segments /\ S[i] = f /\ \A j \in Seg \ {i} : S[j] = segs[j]
  <2> HIDE DEF f, S
  <2> QED
    BY <1>1, <1>8, <1>10, <1>11 DEF Segments
<1>13. Worked(S, flushIdx) \subseteq Worked(segs, flushIdx)
  <2> HIDE DEF f, S
  <2> QED
    BY <1>11, <1>12 DEF Worked
<1>14. CASE retry.fails >= MaxFlushFails
  <2>1. /\ segs' = Dropped(S, Seg \ {i}) /\ ~active'
        /\ buffered' = Less(b, Staged(S, Seg \ {i}))
    BY <1>2, <1>14
  <2>2. Staged(S, Seg \ {i}) \in Nat
    <3> HIDE DEF S
    <3> QED
      BY <1>12, PlacesFinite
  <2>3. buffered' \in Nat
    BY <1>9, <2>1, <2>2 DEF Less
  <2>4. FailsOne(i, t, h, FALSE, segs')
    <3> HIDE DEF S
    <3> QED
      BY <1>1, <1>4, <1>5, <1>10, <2>1, FailsOneBy DEF f
  <2>5. OnlyFreed(S, Seg \ {i}, segs')
    <3> HIDE DEF S
    <3> QED
      BY <1>12, <2>1, DroppedFields
  <2>6. \A j \in Seg : segs'[j].buf = <<>>
    <3>1. segs'[i].buf = <<>>
      BY <2>4 DEF FailsOne
    <3>2. \A j \in Seg \ {i} : segs'[j].buf = <<>>
      <4>1. ASSUME NEW s \in SegState PROVE [s EXCEPT !.buf = <<>>].buf = <<>>
        BY DEF SegState
      <4>2. \A j \in Seg : S[j] \in SegState
        BY <1>12 DEF Segments
      <4> HIDE DEF S
      <4> QED
        BY <2>1, <4>1, <4>2 DEF Dropped
    <3> QED
      BY <3>1, <3>2
  <2>7. segs' \in Segments /\ Worked(segs', flushIdx) \subseteq Worked(segs, flushIdx)
    <3> HIDE DEF S
    <3> QED
      BY <1>13, <2>5 DEF OnlyFreed, Worked
  <2>8. Charges(segs', buffered')
    BY <2>3, <2>6, <2>7, NoneStaged
  <2>9. Room(segs') /\ NoNewWork(segs, segs', flushIdx)
    BY <1>1, <2>4, <2>7, SetBackBudget
  <2> QED
    BY <2>8, <2>9 DEF Budgeted
<1>15. CASE ~(retry.fails >= MaxFlushFails)
  <2>1. Assign(S, b, hs, Answered(n), n) /\ buffered' = b
    BY <1>2, <1>15
  <2> HIDE DEF S
  <2>2. Reassigned(S, segs')
    BY <1>3, <1>12, <2>1, AssignReassigns
  <2>3. b < MaxBuffered \/ Worked(segs', flushIdx) \subseteq Worked(S, flushIdx)
    BY <1>12, <2>1, AssignWork
  <2>4. FailsOne(i, t, h, TRUE, segs')
    BY <1>1, <1>4, <1>5, <1>10, <2>2, FailsOneBy DEF f
  <2>5. /\ Room(segs') /\ Staged(segs', Seg) <= Staged(segs, Seg \ {i})
        /\ Worked(segs', flushIdx) \subseteq Worked(segs, flushIdx)
              => NoNewWork(segs, segs', flushIdx)
    BY <1>1, <2>4, SetBackBudget
  <2>6. Charges(segs', b)
    <3>1. Staged(segs', Seg) \in Nat /\ Staged(segs, Seg \ {i}) \in Nat
      <4>1. segs' \in Segments
        BY <2>4 DEF FailsOne
      <4>2. Seg \ {i} \in SUBSET Seg /\ Seg \in SUBSET Seg
        OBVIOUS
      <4> QED
        BY <1>8, <4>1, <4>2, PlacesFinite
    <3> QED
      BY <1>9, <2>5, <3>1 DEF Charges
  <2> QED
    BY <1>13, <2>1, <2>3, <2>5, <2>6 DEF Budgeted
<1> QED
  BY <1>14, <1>15

(* par_hdr_flush, a segment that fails.  The segments below it are flushed *)
(* and hold nothing.                                                       *)
LEMMA FlushFailBudget ==
    ASSUME TypeOK, FlushOrdered, Room(segs), Charges(segs, buffered), FlushFail
    PROVE  Budgeted(segs', buffered')
<1> DEFINE i     == flushIdx
           t     == index.tip
           h     == Height[index.tip]
           retry == Failed(Head0, t, h)
           S     == [segs EXCEPT ![i] = retry]
           b     == Less(buffered, Len(Head0.buf))
           above == flushIdx + 1 .. NumSegs - 1
<1>1. i \in Seg /\ Head0 = segs[i] /\ segs \in Segments /\ buffered \in Nat
  BY ParHdrAssumption DEF FlushFail, HeadReady, Head0, Seg, TypeOK, Segments
<1>2. FailsOne(i, t, h, active', segs')
  BY FlushFailEffect
<1>3. IF retry.fails >= MaxFlushFails
      THEN segs' = Dropped(S, above) /\ buffered' = Less(b, Staged(S, above))
      ELSE segs' = S /\ buffered' = b
  BY DEF FlushFail
<1>4. retry \in SegState /\ retry.owner = NoNode /\ retry.shadow = NoNode
  <2>1. Head0 \in SegState /\ t \in Header /\ h \in Nat
    BY <1>1, HeaderAssumption DEF TypeOK, Index
  <2> QED
    BY <2>1, FailedFields, FailedPeers
<1>5. b \in Nat /\ Staged(segs, Seg \ {i}) <= b
  <2>1. Len(segs[i].buf) \in Nat
    BY <1>1, BufLen
  <2>2. b = Less(buffered, Len(segs[i].buf) + 0)
    BY <1>1, <2>1
  <2>3. buffered + 0 <= buffered
    BY <1>1
  <2> HIDE DEF b, i
  <2> QED
    BY <1>1, <2>2, <2>3, RestCharged
<1>6. above \in SUBSET Seg /\ \A j \in Seg : j # i /\ j \notin above => j < flushIdx
  BY <1>1, ParHdrAssumption DEF Seg
<1> HIDE DEF retry, b, above, t, h
<1>7. S \in Segments /\ S[i] = retry /\ \A j \in Seg \ {i} : S[j] = segs[j]
  BY <1>1, <1>4 DEF Segments
<1> HIDE DEF S
<1>8. Worked(S, flushIdx) \subseteq Worked(segs, flushIdx)
  BY <1>4, <1>7 DEF Worked
<1>9. /\ Room(segs') /\ Staged(segs', Seg) <= Staged(segs, Seg \ {i})
      /\ Worked(segs', flushIdx) \subseteq Worked(segs, flushIdx)
            => NoNewWork(segs, segs', flushIdx)
  <2> HIDE DEF i
  <2> QED
    BY <1>1, <1>2, SetBackBudget
<1>10. CASE retry.fails >= MaxFlushFails
  <2>1. segs' = Dropped(S, above) /\ buffered' = Less(b, Staged(S, above))
    BY <1>3, <1>10
  <2>2. Staged(S, above) \in Nat
    BY <1>6, <1>7, PlacesFinite
  <2>3. buffered' \in Nat
    BY <1>5, <2>1, <2>2 DEF Less
  <2>4. OnlyFreed(S, above, segs')
    BY <1>6, <1>7, <2>1, DroppedFields
  <2>5. \A j \in Seg : segs'[j].buf = <<>>
    <3>1. segs'[i].buf = <<>>
      BY <1>2 DEF FailsOne
    <3>2. \A j \in above : segs'[j].buf = <<>>
      <4>1. ASSUME NEW s \in SegState PROVE [s EXCEPT !.buf = <<>>].buf = <<>>
        BY DEF SegState
      <4>2. \A j \in Seg : S[j] \in SegState
        BY <1>7 DEF Segments
      <4> QED
        BY <1>6, <2>1, <4>1, <4>2 DEF Dropped
    <3>3. ASSUME NEW j \in Seg, j # i, j \notin above PROVE segs'[j].buf = <<>>
      <4>1. segs'[j] = segs[j] /\ segs[j].buf = <<>>
        BY <1>6, <1>7, <2>4, <3>3 DEF OnlyFreed, FlushOrdered
      <4> QED
        BY <4>1
    <3> QED
      BY <3>1, <3>2, <3>3
  <2>6. segs' \in Segments /\ Worked(segs', flushIdx) \subseteq Worked(segs, flushIdx)
    BY <1>8, <2>4 DEF OnlyFreed, Worked
  <2>7. Charges(segs', buffered')
    BY <2>3, <2>5, <2>6, NoneStaged
  <2> QED
    BY <1>9, <2>6, <2>7 DEF Budgeted
<1>11. CASE ~(retry.fails >= MaxFlushFails)
  <2>1. segs' = S /\ buffered' = b
    BY <1>3, <1>11
  <2>2. Staged(segs', Seg) \in Nat /\ Staged(segs, Seg \ {i}) \in Nat
    <3>1. segs' \in Segments /\ Seg \ {i} \in SUBSET Seg /\ Seg \in SUBSET Seg
      BY <1>7, <2>1
    <3> QED
      BY <1>1, <3>1, PlacesFinite
  <2>3. Charges(segs', b)
    BY <1>5, <1>9, <2>2 DEF Charges
  <2> QED
    BY <1>8, <1>9, <2>1, <2>3 DEF Budgeted
<1> QED
  BY <1>10, <1>11

(* par_hdr_recv keeps to the budget.                                       *)
LEMMA RecvBudget ==
    ASSUME TypeOK, SegsSound, Room(segs), Charges(segs, buffered), NEW n \in Node, Recv(n)
    PROVE  Budgeted(segs', buffered') /\ flushIdx' = flushIdx
<1>1. PICK m \in Reply(n) : \/ RecvUnsolicited(n, m)
                            \/ RecvDropped(n, m)
                            \/ RecvMore(n, m)
                            \/ RecvMismatch(n, m)
                            \/ RecvComplete(n, m)
  BY DEF Recv
<1>2. m \in Messages /\ (n \in Honest => wire[n] # <<>>) /\ Len(m.hdrs) <= MaxBatch
  BY ReplyType, ReplyShort
<1>3. segs \in Segments /\ \A j \in Seg : Len(segs[j].buf) \in Nat
  BY BufLen DEF TypeOK, Segments
<1>4. NoNewWork(segs, segs, flushIdx)
  BY <1>3 DEF NoNewWork
<1>5. flushIdx' = flushIdx
  BY <1>1 DEF RecvUnsolicited, RecvDropped, RecvMore, RecvMismatch, RecvComplete, segVars
<1>6. CASE RecvUnsolicited(n, m)
  BY <1>4, <1>5, <1>6 DEF RecvUnsolicited, segVars, Budgeted
<1>7. CASE RecvDropped(n, m)
  <2>1. Reassigned(segs, segs')
    BY <1>7, DroppedEffect
  <2>2. PICK i \in Attached(n) : \A j \in Seg \ {i} : segs'[j] = segs[j]
    BY <1>7, DroppedEffect
  <2>3. i = flushIdx \/ i \in Worked(segs, flushIdx)
    BY NobodyIsNoPeer DEF Attached, Worked
  <2>4. Worked(segs', flushIdx) \subseteq Worked(segs, flushIdx)
    BY <2>2, <2>3 DEF Worked
  <2>5. /\ Room(segs) => Room(segs')
        /\ Charges(segs, buffered) => Charges(segs', buffered)
        /\ NoNewWork(segs, segs', flushIdx)
    BY <1>3, <2>1, <2>4, ReassignedStages
  <2>6. buffered' = buffered
    BY <1>7 DEF RecvDropped
  <2> QED
    BY <1>5, <2>5, <2>6 DEF Budgeted
<1>8. CASE RecvMore(n, m)
  <2>1. PICK i \in Seg : /\ i \in Attached(n) /\ ExtendsOne(i, m, FALSE, segs')
                         /\ segs'[i].tipHeight < StopHeight[i]
    BY <1>2, <1>8, MoreEffect
  <2>2. Room(segs') /\ Charges(segs', Charged(m)) /\ NoNewWork(segs, segs', flushIdx)
    BY <1>2, <2>1, ExtendedBudget
  <2> QED
    BY <1>5, <1>8, <2>2 DEF RecvMore, Budgeted
<1>9. CASE RecvComplete(n, m)
  <2>1. PICK i \in Seg : i \in Attached(n) /\ ExtendsOne(i, m, TRUE, segs')
    BY <1>2, <1>9, CompleteEffect
  <2>2. Room(segs') /\ Charges(segs', Charged(m)) /\ NoNewWork(segs, segs', flushIdx)
    BY <1>2, <2>1, ExtendedBudget
  <2> QED
    BY <1>5, <1>9, <2>2 DEF RecvComplete, Budgeted
<1>10. CASE RecvMismatch(n, m)
  BY <1>2, <1>5, <1>10, MismatchBudget
<1> QED
  BY <1>1, <1>6, <1>7, <1>8, <1>9, <1>10

(* par_hdr_flush, the end of a segment: the head passes to the next.       *)
LEMMA FlushSegmentBudget ==
    ASSUME TypeOK, FlushOrdered, Room(segs), Charges(segs, buffered),
           Within(segs, flushIdx), FlushSegment
    PROVE  Charges(segs', buffered') /\ Room(segs') /\ Within(segs', flushIdx')
<1> DEFINE i == flushIdx
           b == Less(buffered, Len(segs[i].buf))
<1>1. /\ i \in Seg /\ segs[i].complete /\ FlushesOne(i, segs')
      /\ segs \in Segments /\ buffered \in Nat
  BY FlushSegmentEffect DEF TypeOK, Segments
<1>2. /\ segs' \in Segments /\ segs'[i].buf = <<>> /\ \A j \in Seg \ {i} : segs'[j] = segs[j]
      /\ segs'[i].complete /\ segs'[i].owner = NoNode /\ segs'[i].shadow = NoNode
  BY <1>1 DEF FlushesOne, FlushOrdered
<1>3. buffered' = b /\ flushIdx' = flushIdx + 1
  BY DEF FlushSegment, Head0
<1>4. b \in Nat /\ Staged(segs, Seg \ {i}) <= b
  <2>1. Len(segs[i].buf) \in Nat
    BY <1>1, BufLen
  <2>2. b = Less(buffered, Len(segs[i].buf) + 0)
    BY <1>1, <2>1
  <2>3. buffered + 0 <= buffered
    BY <1>1
  <2> HIDE DEF b, i
  <2> QED
    BY <1>1, <2>2, <2>3, RestCharged
<1>5. \A j \in Seg : Len(segs[j].buf) \in Nat
  BY <1>1, BufLen
<1>6. Charges(segs', buffered')
  <2>1. Seg \ {i} \in SUBSET Seg /\ Seg \in SUBSET Seg
    OBVIOUS
  <2>2. \A j \in Seg : \/ Len(segs'[j].buf) = 0
                       \/ j \in Seg \ {i} /\ Len(segs'[j].buf) <= Len(segs[j].buf)
    BY <1>2, <1>5
  <2>3. Staged(segs', Seg) <= Staged(segs, Seg \ {i})
    BY <1>1, <1>2, <2>1, <2>2, StagedMono
  <2>4. Staged(segs', Seg) \in Nat /\ Staged(segs, Seg \ {i}) \in Nat
    BY <1>1, <1>2, <2>1, PlacesFinite
  <2> QED
    BY <1>3, <1>4, <2>3, <2>4 DEF Charges
<1>7. Room(segs')
  <2>1. PerSeg \in Nat
    BY LongestIs DEF PerSeg
  <2> QED
    BY <1>2, <2>1 DEF Room
<1>8. NoNewWork(segs, segs', i) /\ Worked(segs', flushIdx') \subseteq Worked(segs', i)
  BY <1>2, <1>5 DEF NoNewWork, Worked
<1>9. Within(segs', flushIdx')
  <2>1. Len(segs'[i].buf) = 0
    BY <1>2
  <2> QED
    BY <1>1, <1>2, <1>8, <2>1, WithinKept
<1> QED
  BY <1>6, <1>7, <1>9

(* What every step keeps: buffered_bytes misses nothing, no segment holds  *)
(* more than it can, and all but what the peers are at work on fits.       *)
BudgetInv ==
    /\ Charges(segs, buffered) /\ Room(segs) /\ Within(segs, flushIdx)

(* Every event keeps it.                                                   *)
LEMMA BudgetStep ==
    ASSUME Sound, OneEach(segs), BudgetInv, [Next]_vars
    PROVE  BudgetInv'
<1>1. /\ TypeOK /\ segs \in Segments /\ (pc # "idle" => cur \in Node)
      /\ FlushOrdered /\ SegsSound
  BY DEF Sound, TypeInv, TypeOK, Segments
<1>2. Charges(segs, buffered) /\ Room(segs) /\ Within(segs, flushIdx)
  BY DEF BudgetInv
<1>3. OneEach(segs') /\ segs' \in Segments /\ buffered' \in Nat
  BY OneEachStep, TypeStep DEF Sound, TypeInv, TypeOK, Segments
<1>4. hsync \in Flags /\ wire \in Wires
  BY <1>1 DEF TypeOK, Flags, Wires
<1>5. ASSUME Budgeted(segs', buffered'), flushIdx' = flushIdx
      PROVE  BudgetInv'
  <2>1. CASE buffered' < MaxBuffered
    <3>1. Within(segs', flushIdx)
      BY <1>3, <1>5, <2>1, WithinAfterHandOut DEF Budgeted
    <3> QED
      BY <1>5, <3>1 DEF Budgeted, BudgetInv
  <2>2. CASE NoNewWork(segs, segs', flushIdx)
    <3>1. Within(segs', flushIdx)
      BY <1>1, <1>2, <1>3, <2>2, WithinKept
    <3> QED
      BY <1>5, <3>1 DEF Budgeted, BudgetInv
  <2> QED
    BY <1>5, <2>1, <2>2 DEF Budgeted
<1>6. ASSUME Reassigned(segs, segs'), buffered' = buffered,
             buffered < MaxBuffered \/ Worked(segs', flushIdx) \subseteq Worked(segs, flushIdx)
      PROVE  Budgeted(segs', buffered')
  <2>1. /\ Room(segs) => Room(segs')
        /\ Charges(segs, buffered) => Charges(segs', buffered)
        /\ Worked(segs', flushIdx) \subseteq Worked(segs, flushIdx)
              => NoNewWork(segs, segs', flushIdx)
    BY <1>1, <1>6, ReassignedStages
  <2> QED
    BY <1>2, <1>6, <2>1 DEF Budgeted
<1>7. ASSUME NEW n \in Node, HandshakeDone(n) PROVE BudgetInv'
  <2>1. /\ Assign(segs, buffered, hsync, wire, n)
        /\ buffered' = buffered /\ flushIdx' = flushIdx
    BY <1>7 DEF HandshakeDone
  <2>2. Reassigned(segs, segs')
    BY <1>1, <1>4, <2>1, AssignReassigns
  <2>3. buffered < MaxBuffered \/ Worked(segs', flushIdx) \subseteq Worked(segs, flushIdx)
    BY <1>1, <2>1, AssignWork
  <2> QED
    BY <1>5, <1>6, <2>1, <2>2, <2>3
<1>8. ASSUME NEW n \in Node, Recv(n) PROVE BudgetInv'
  BY <1>1, <1>2, <1>5, <1>8, RecvBudget
<1>9. CASE FlushSegment
  BY <1>1, <1>2, <1>9, FlushSegmentBudget DEF BudgetInv
<1>10. CASE FlushFail
  <2>1. Budgeted(segs', buffered') /\ flushIdx' = flushIdx
    BY <1>1, <1>2, <1>10, FlushFailBudget DEF FlushFail
  <2> QED
    BY <1>5, <2>1
<1>11. CASE UNCHANGED <<segs, buffered, flushIdx>>
  BY <1>2, <1>11 DEF BudgetInv
<1>12. CASE FlushDone
  <2>1. CASE active
    <3>1. /\ cur \in Node /\ Assign(segs, buffered, hsync, wire, cur)
          /\ buffered' = buffered /\ flushIdx' = flushIdx
      BY <1>1, <1>12, <2>1 DEF FlushDone
    <3>2. Reassigned(segs, segs')
      BY <1>1, <1>4, <3>1, AssignReassigns
    <3>3. buffered < MaxBuffered \/ Worked(segs', flushIdx) \subseteq Worked(segs, flushIdx)
      BY <1>1, <3>1, AssignWork
    <3> QED
      BY <1>5, <1>6, <3>1, <3>2, <3>3
  <2>2. CASE ~active
    BY <1>11, <1>12, <2>2 DEF FlushDone
  <2> QED
    BY <2>1, <2>2
<1>13. CASE Tick
  <2>1. PICK stalled, rated, slow \in SUBSET Seg, outlier \in BOOLEAN :
               Reclaim(stalled, rated, outlier, slow)
    BY <1>13 DEF Tick, Ratable, Held
  <2>2. Reassigned(segs, segs')
    BY <1>1, <2>1, ReclaimReassigns
  <2>3. buffered < MaxBuffered \/ Worked(segs', flushIdx) \subseteq Worked(segs, flushIdx)
    BY <1>1, <2>1, ReclaimWork
  <2>4. buffered' = buffered /\ flushIdx' = flushIdx
    BY <2>1 DEF Reclaim
  <2> QED
    BY <1>5, <1>6, <2>2, <2>3, <2>4
<1> QED
  BY <1>7, <1>8, <1>9, <1>10, <1>11, <1>12, <1>13
     DEF Next, Flush, Disconnect, FlushHeader, vars, segVars

(* PAR_HDR_MAX_BUFFERED bounds the memory of the download: whatever the    *)
(* peers send and however segments are taken back, raced and retried, what *)
(* is staged above the flush head is at most the budget plus one segment   *)
(* and one message for every peer.                                         *)
THEOREM StagedWithinBudget == Spec => []WithinBudget
<1>1. ASSUME Init PROVE OneEach(segs) /\ BudgetInv
  <2>1. segs \in Segments /\ TypeOK /\ buffered = 0 /\ \A i \in Seg : segs[i] = FreshSeg(i)
    BY <1>1, TypeInit DEF Init, TypeInv, TypeOK, Segments
  <2>2. ASSUME NEW i \in Seg
        PROVE  segs[i].owner = NoNode /\ segs[i].shadow = NoNode /\ segs[i].buf = <<>>
    <3>1. segs[i] = FreshSeg(i)
      BY <2>1
    <3> QED
      BY <3>1 DEF FreshSeg
  <2>3. OneEach(segs)
    BY <2>2, NobodyIsNoPeer DEF OneEach, On
  <2>4. Charges(segs, 0) /\ \A b \in Nat : Charges(segs, b)
    BY <2>1, <2>2, NoneStaged
  <2>5. Room(segs)
    <3>1. PerSeg \in Nat
      BY LongestIs DEF PerSeg
    <3> QED
      BY <2>2, <3>1 DEF Room
  <2>6. Within(segs, flushIdx)
    <3>1. Worked(segs, flushIdx) = {}
      BY <2>2 DEF Worked
    <3>2. Cardinality({}) <= NumNodes
      BY FS_EmptySet, ParHdrAssumption
    <3>3. Staged(segs, Seg \ ({} \cup {flushIdx})) <= Allowance
      <4> DEFINE R == Seg \ ({} \cup {flushIdx})
      <4>1. \A i \in R : Len(segs[i].buf) = 0
        BY <2>2
      <4>2. R \in SUBSET Seg /\ {} \in SUBSET Seg
        OBVIOUS
      <4> HIDE DEF R
      <4>3. Staged(segs, R) <= Cardinality(R) * 0 /\ Cardinality(R) \in Nat
        BY <2>1, <4>1, <4>2, StagedBound
      <4>4. Staged(segs, R) \in Nat
        BY <2>1, <4>2, PlacesFinite
      <4> QED
        BY <4>3, <4>4, AllowanceIs DEF R
    <3> QED
      BY <3>1, <3>2, <3>3 DEF Within
  <2> QED
    BY <2>1, <2>3, <2>4, <2>5, <2>6 DEF BudgetInv
<1>2. Sound /\ OneEach(segs) /\ BudgetInv /\ [Next]_vars => (OneEach(segs) /\ BudgetInv)'
  BY BudgetStep, OneEachStep DEF Sound
<1>3. Sound /\ BudgetInv => WithinBudget
  BY WithinGives DEF BudgetInv, Sound, TypeInv
<1> QED
  BY <1>1, <1>2, <1>3, SoundInvariant, PTL DEF Spec
=============================================================================
