------------------------------- MODULE ParHdr -------------------------------
(***************************************************************************)
(* The parallel genesis header download of src/src/spv.c, par_hdr_init to  *)
(* par_hdr_free.                                                           *)
(*                                                                         *)
(* The chain up to the last compiled-in checkpoint is cut into segments at *)
(* the checkpoints.  Every segment is handed to one peer, which delivers   *)
(* its headers in batches; the headers are staged in memory and flushed    *)
(* into the headers database strictly in segment order, without checking   *)
(* proof of work, because both ends of a segment are pinned to a           *)
(* checkpoint.  A periodic task takes segments back from peers that are    *)
(* gone or silent, hands free segments out, preempts a slow owner of the   *)
(* segment the flush waits for and attaches a second peer (a shadow) to    *)
(* slow segments.                                                          *)
(*                                                                         *)
(* All of it runs on one event loop: an event is handled to its end before *)
(* the next one.  What interleaves are the events -- handshakes, replies   *)
(* (late, stale, from the loser of a race), disconnects and timer ticks.   *)
(* The flush, which writes one header at a time, is spread over several    *)
(* steps during which pc is not "idle" and no event is accepted.           *)
(*                                                                         *)
(* Time is abstracted: which owners have been silent for longer than       *)
(* PAR_HDR_SEG_TIMEOUT and how the measured download rates compare are     *)
(* choices of the timer tick, limited to those the code's conditions on    *)
(* its timestamps and counters leave open.                                 *)
(***************************************************************************)
EXTENDS HeaderTree, Sequences

CONSTANTS
    NumNodes,       \* peers 1 .. NumNodes, in the order of nodegroup->nodes
    NumSegs,        \* s->num_segs
    StopHeight,     \* StopHeight[i]: the checkpoint height ending segment i
    ChainHeight,    \* height of the checkpointed chain; at least the last checkpoint
    Main,           \* Main[h]: the header at height h of that chain
    Honest,         \* peers that answer every request from that chain
    Prompt,         \* honest peers that stay connected and answer in time
    MaxBatch,       \* headers in one message (bound; 2000 on the network)
    MaxBuffered,    \* PAR_HDR_MAX_BUFFERED, counted in headers
    MaxFlushFails,  \* PAR_HDR_MAX_FLUSH_FAILS
    Crowd,          \* rated segments that make a median (3 in the code)
    MaxWire,        \* bound on the requests pending at one honest peer
    MaxGarbled      \* bound on buffered at which a garbled record still comes

Node   == 1 .. NumNodes
NoNode == 0                      \* node_id / shadow_id = -1
Seg    == 0 .. NumSegs - 1

StartHeight(i) == IF i = 0 THEN 0 ELSE StopHeight[i - 1]

ASSUME ParHdrAssumption ==
    /\ NumNodes \in Nat \ {0}
    /\ NumSegs \in Nat \ {0}
    /\ ChainHeight \in Nat
    /\ StopHeight \in [Seg -> 0 .. ChainHeight]
    /\ \A i \in Seg : StartHeight(i) < StopHeight[i]
    /\ Main \in [0 .. ChainHeight -> Header]
    /\ Main[0] = Genesis
    /\ \A h \in 1 .. ChainHeight : Main[h] \in Block /\ Prev[Main[h]] = Main[h - 1]
    /\ Prompt \subseteq Honest
    /\ Honest \subseteq Node
    /\ MaxBatch \in Nat \ {0}
    /\ MaxBuffered \in Nat
    /\ MaxFlushFails \in Nat \ {0}
    /\ Crowd \in Nat
    /\ MaxWire \in Nat \ {0}
    /\ MaxGarbled \in Nat

VARIABLES
    segs,      \* s->segs
    flushIdx,  \* s->flush_idx
    buffered,  \* s->buffered_bytes / PAR_HDR_RAW_LEN
    rateRef,   \* s->rate_ref > 0
    active,    \* s->active
    conn,      \* conn[n]: "new", "up" (connected, handshake done) or "gone"
    hsync,     \* hsync[n]: NODE_HEADERSYNC is set
    wire,      \* wire[n]: requests an honest peer has not answered yet
    index,     \* the headers database in memory
    written,   \* the headers on the headers file
    pc,        \* "idle", or inside par_hdr_recv: "flush", "failed"
    at,        \* headers of the segment at flush_idx connected so far
    cur        \* the peer whose batch par_hdr_recv is handling

segVars  == <<segs, flushIdx, buffered, rateRef, active>>
peerVars == <<conn, hsync, wire>>
dbVars   == <<index, written>>
ctlVars  == <<pc, at, cur>>
vars     == <<segVars, peerVars, dbVars, ctlVars>>

-----------------------------------------------------------------------------
(* A segment.  Fields of par_hdr_seg that only repeat others are left out: *)
(* count and cap (Len(buf)), shadow_at (never read), and requested_at and  *)
(* assigned_at, which are non-zero whenever the segment has an owner.      *)
SegState ==
    [owner    : Node \cup {NoNode},         \* node_id
     shadow   : Node \cup {NoNode},         \* shadow_id
     atAssign : Nat,                        \* count_at_assign
     tip      : Header, tipHeight : Nat,    \* tip_hash, tip_height
     buf      : Seq(Block),                 \* buf[0 .. count-1]
     tail     : {"none", "valid", "invalid"},  \* tail_raw, and its proof
     complete : BOOLEAN, flushed : BOOLEAN, fails : Nat]

\* par_hdr_init
FreshSeg(i) ==
    [owner |-> NoNode, shadow |-> NoNode, atAssign |-> 0,
     tip |-> Main[StartHeight(i)], tipHeight |-> StartHeight(i),
     buf |-> <<>>, tail |-> "none",
     complete |-> FALSE, flushed |-> FALSE, fails |-> 0]

StopHash(i) == Main[StopHeight[i]]

Init ==
    /\ segs = [i \in Seg |-> FreshSeg(i)]
    /\ flushIdx = 0 /\ buffered = 0 /\ rateRef = FALSE /\ active = TRUE
    /\ conn = [n \in Node |-> "new"]
    /\ hsync = [n \in Node |-> FALSE]
    /\ wire = [n \in Honest |-> <<>>]
    /\ index = NewIndex /\ written = {}
    /\ pc = "idle" /\ at = 0 /\ cur = NoNode

\* NODE_CONNECTED and version_handshake
Usable(n) == conn[n] = "up"

\* mutant: a peer that only shadows a segment counts as free
BusyAsOwner(S, n) == \E i \in Seg : S[i].owner = n

\* mutant: only the segments it races for make a peer busy
BusyAsShadow(S, n) == \E i \in Seg : S[i].shadow = n

\* node n owns or shadows a segment
Busy(S, n) == \E i \in Seg : S[i].owner = n \/ S[i].shadow = n

\* uint64_t a - b, floored at 0
Less(a, b) == IF a > b THEN a - b ELSE 0

\* headers staged in the segments K
Staged(S, K) == Cardinality(UNION {{i} \X (1 .. Len(S[i].buf)) : i \in K})

-----------------------------------------------------------------------------
(* par_hdr_send_getheaders: ask n for what follows the segment's tip.      *)
GetHeaders == [loc : Header, stop : Header]
Request(S, i) == [loc |-> S[i].tip, stop |-> StopHash(i)]

\* a peer with MaxWire requests pending forgets the oldest
Queued(q, r) == IF Len(q) < MaxWire THEN Append(q, r) ELSE Append(Tail(q), r)

Sent(w, n, r) == IF n \in Honest THEN [w EXCEPT ![n] = Queued(@, r)] ELSE w

\* mutant: no segment is exempt from the memory budget
OpenWithinBudget(S, b) ==
    {i \in flushIdx .. NumSegs - 1 :
        ~S[i].complete /\ S[i].owner = NoNode /\ b < MaxBuffered}

\* mutant: there is no memory budget
OpenAlways(S, b) ==
    {i \in flushIdx .. NumSegs - 1 : ~S[i].complete /\ S[i].owner = NoNode}

(* The segment par_hdr_assign gives to n: the lowest one that is neither   *)
(* complete nor owned.  Only the flush head is exempt from the memory      *)
(* budget.                                                                 *)
Open(S, b) ==
    {i \in flushIdx .. NumSegs - 1 :
        /\ ~S[i].complete
        /\ S[i].owner = NoNode
        /\ i = flushIdx \/ b < MaxBuffered}

Owned(seg, n) == [seg EXCEPT !.owner = n, !.atAssign = Len(seg.buf)]

(* par_hdr_assign(n) on the segments S, with b headers staged.  Every      *)
(* caller passes a peer that is connected and has shaken hands.            *)
Assign(S, b, hs, w, n) ==
    IF ~Busy(S, n) /\ Open(S, b) # {}
    THEN LET i == Min(Open(S, b))
         IN  /\ segs'  = [S EXCEPT ![i] = Owned(S[i], n)]
             /\ hsync' = [hs EXCEPT ![n] = TRUE]
             /\ wire'  = Sent(w, n, Request(S, i))
    ELSE segs' = S /\ hsync' = hs /\ wire' = w

-----------------------------------------------------------------------------
(* dogecoin_net_spv_node_handshake_done.  Once the parallel download is    *)
(* over the sequential path is asked instead, which is not part of this    *)
(* module.                                                                 *)
HandshakeDone(n) ==
    /\ pc = "idle" /\ active
    /\ conn[n] = "new"
    /\ conn' = [conn EXCEPT ![n] = "up"]
    /\ Assign(segs, buffered, hsync, wire, n)
    /\ UNCHANGED <<flushIdx, buffered, rateRef, active, dbVars, ctlVars>>

(* event_cb, end of file or error: the state word is overwritten.  A       *)
(* disconnected node is never dialled again.                               *)
Disconnect(n) ==
    /\ pc = "idle"
    /\ conn[n] = "up" /\ n \notin Prompt
    /\ conn'  = [conn EXCEPT ![n] = "gone"]
    /\ hsync' = [hsync EXCEPT ![n] = FALSE]
    /\ wire'  = IF n \in Honest THEN [wire EXCEPT ![n] = <<>>] ELSE wire
    /\ UNCHANGED <<segVars, dbVars, ctlVars>>

-----------------------------------------------------------------------------
(* Headers messages.  hdrs are the records that parse, in order; proof     *)
(* says whether the record that reaches stop_height carries valid work;    *)
(* garbled that they are followed by a record whose AuxPoW data            *)
(* par_hdr_skip_auxpow cannot skip.  A message cut short anywhere else is  *)
(* a message with fewer headers.                                           *)
Message(hdrs, proof, garbled) ==
    [hdrs |-> hdrs, proof |-> proof, garbled |-> garbled]

MainAfter(lo, hi) == [k \in 1 .. hi - lo |-> Main[lo + k]]

(* What a peer on the checkpointed chain answers (external): the headers   *)
(* after the locator up to hash_stop, from genesis if it does not know the *)
(* locator.                                                                *)
OnMain(b) == \E h \in 0 .. ChainHeight : Main[h] = b
HonestReply(r) ==
    LET lo   == IF OnMain(r.loc) THEN Height[r.loc] ELSE 0
        stop == IF Height[r.stop] > lo THEN Height[r.stop] ELSE ChainHeight
    IN  Message(MainAfter(lo, Min({stop, lo + MaxBatch, ChainHeight})), TRUE, FALSE)

(* What any other peer may answer for a segment at tip t.  A batch that    *)
(* does not continue from t is dropped whole, so one header stands for all *)
(* of those.                                                               *)
AnyHdrs(t) ==
    {s \in UNION {[1 .. k -> Block] : k \in 0 .. MaxBatch} :
        Len(s) > 1 => Prev[s[1]] = t}
AnyReply(t) ==
    {m \in [hdrs : AnyHdrs(t), proof : BOOLEAN, garbled : BOOLEAN] :
        m.garbled => buffered < MaxGarbled}

\* the segments n owns or shadows, among those still incomplete
Attached(n) ==
    {i \in Seg : ~segs[i].complete /\ (segs[i].owner = n \/ segs[i].shadow = n)}

Reply(n) ==
    IF n \in Honest THEN {HonestReply(wire[n][k]) : k \in {1} \cap DOMAIN wire[n]}
    ELSE AnyReply(IF Attached(n) = {} THEN Genesis
                  ELSE segs[Min(Attached(n))].tip)

Answered(n) == IF n \in Honest THEN [wire EXCEPT ![n] = Tail(@)] ELSE wire

(* A message of n can be handled: it is the next event and the parallel    *)
(* download is on.                                                         *)
Receives(n) == pc = "idle" /\ active /\ conn[n] = "up"

(* A shadow that delivers first takes the segment over.                    *)
Won(i, n) == segs[i].owner # n
Taken(i, n) ==
    IF Won(i, n) THEN [Owned(segs[i], n) EXCEPT !.shadow = NoNode] ELSE segs[i]
Loser(i, n) == IF Won(i, n) THEN {segs[i].owner} ELSE {}

\* NODE_HEADERSYNC cleared on the peers P
Cleared(P) == [n \in Node |-> hsync[n] /\ n \notin P]

Continues(i, m) == m.hdrs # <<>> => Prev[m.hdrs[1]] = segs[i].tip

(* The segment with the batch staged.  Only the first header was compared  *)
(* with the tip; tip_height counts headers.                                *)
Extended(i, n, m) ==
    LET seg == Taken(i, n)
        len == Len(m.hdrs)
    IN  [seg EXCEPT
            !.buf       = @ \o m.hdrs,
            !.tip       = IF len = 0 THEN @ ELSE m.hdrs[len],
            !.tipHeight = @ + len,
            !.tail      = IF StopHeight[i] - seg.tipHeight \in 1 .. len
                          THEN (IF m.proof THEN "valid" ELSE "invalid") ELSE @]

\* mutant: a garbled record is taken off buffered_bytes, which never held it
ChargedBack(m) == buffered + Len(m.hdrs) - (IF m.garbled THEN 1 ELSE 0)

\* buffered_bytes is charged for a garbled record although it is not staged
Charged(m) == buffered + Len(m.hdrs) + (IF m.garbled THEN 1 ELSE 0)

(* par_hdr_recv, no segment: unsolicited, discarded.                       *)
RecvUnsolicited(n, m) ==
    /\ Receives(n)
    /\ Attached(n) = {}
    /\ hsync' = Cleared({n})
    /\ wire'  = Answered(n)
    /\ UNCHANGED <<segVars, conn, dbVars, ctlVars>>

(* par_hdr_recv, the batch does not continue the segment: dropped, and     *)
(* nothing is requested until the segment is taken back.                   *)
RecvDropped(n, m) ==
    /\ Receives(n)
    /\ Attached(n) # {}
    /\ LET i == Min(Attached(n))
       IN  /\ ~Continues(i, m)
           /\ segs'  = [segs EXCEPT ![i] = Taken(i, n)]
           /\ hsync' = Cleared(Loser(i, n))
    /\ wire' = Answered(n)
    /\ UNCHANGED <<flushIdx, buffered, rateRef, active, conn, dbVars, ctlVars>>

(* par_hdr_recv, the segment needs more headers.                           *)
RecvMore(n, m) ==
    /\ Receives(n)
    /\ Attached(n) # {}
    /\ LET i == Min(Attached(n))
           S == [segs EXCEPT ![i] = Extended(i, n, m)]
       IN  /\ Continues(i, m)
           /\ S[i].tipHeight < StopHeight[i]
           /\ segs'  = S
           /\ hsync' = [Cleared(Loser(i, n)) EXCEPT ![n] = TRUE]
           /\ wire'  = Sent(Answered(n), n, Request(S, i))
    /\ buffered' = Charged(m)
    /\ UNCHANGED <<flushIdx, rateRef, active, conn, dbVars, ctlVars>>

-----------------------------------------------------------------------------
(* A segment put back up for assignment after it failed, to be resumed     *)
(* from header t at height th.                                             *)
Failed(seg, t, th) ==
    [seg EXCEPT !.owner = NoNode, !.shadow = NoNode, !.atAssign = 0,
                !.tip = t, !.tipHeight = th, !.buf = <<>>, !.tail = "none",
                !.complete = FALSE, !.fails = @ + 1]

Dropped(S, K) == [i \in Seg |-> IF i \in K THEN [S[i] EXCEPT !.buf = <<>>] ELSE S[i]]

\* mutant: any header at stop_height will do
LandsAnywhere(i, seg) == TRUE

\* the terminal check: the segment arrived at its checkpoint
Landed(i, seg) == seg.tip = StopHash(i)

\* mutant: the lower bound is forgotten
BelowStop(i) == Height[index.tip] <= StopHeight[i]

\* the tip of the database lies inside segment i
TipInside(i) ==
    /\ Height[index.tip] > StartHeight(i)
    /\ Height[index.tip] <= StopHeight[i]

(* par_hdr_recv, stop_height reached on the wrong header: the segment is   *)
(* retried from the database tip if that is inside it, otherwise from its  *)
(* checkpoint; after MaxFlushFails failures the parallel download ends.    *)
RecvMismatch(n, m) ==
    /\ Receives(n)
    /\ Attached(n) # {}
    /\ LET i      == Min(Attached(n))
           seg    == Extended(i, n, m)
           retry  == IF TipInside(i) THEN Failed(seg, index.tip, Height[index.tip])
                     ELSE Failed(seg, Main[StartHeight(i)], StartHeight(i))
           S      == [segs EXCEPT ![i] = retry]
           b      == Less(Charged(m), Len(seg.buf))
           hs     == Cleared(Loser(i, n) \cup {n})
       IN  /\ Continues(i, m)
           /\ seg.tipHeight >= StopHeight[i]
           /\ ~Landed(i, seg)
           /\ IF retry.fails >= MaxFlushFails
              THEN /\ active'   = FALSE
                   /\ segs'     = Dropped(S, Seg \ {i})
                   /\ buffered' = Less(b, Staged(S, Seg \ {i}))
                   /\ hsync'    = hs
                   /\ wire'     = Answered(n)
              ELSE /\ Assign(S, b, hs, Answered(n), n)
                   /\ buffered' = b
                   /\ UNCHANGED active
    /\ UNCHANGED <<flushIdx, rateRef, conn, dbVars, ctlVars>>

\* mutant: owner and shadow stay attached
CompletedAttached(seg) == [seg EXCEPT !.complete = TRUE]

Completed(seg) ==
    [seg EXCEPT !.complete = TRUE, !.owner = NoNode, !.shadow = NoNode]

(* par_hdr_recv, the segment landed on its checkpoint: it is complete and  *)
(* belongs to nobody; par_hdr_flush follows.                               *)
RecvComplete(n, m) ==
    /\ Receives(n)
    /\ Attached(n) # {}
    /\ LET i   == Min(Attached(n))
           seg == Extended(i, n, m)
       IN  /\ Continues(i, m)
           /\ seg.tipHeight >= StopHeight[i]
           /\ Landed(i, seg)
           /\ segs'  = [segs EXCEPT ![i] = Completed(seg)]
           /\ hsync' = Cleared(Loser(i, n) \cup {n})
    /\ buffered' = Charged(m)
    /\ wire' = Answered(n)
    /\ pc' = "flush" /\ at' = 0 /\ cur' = n
    /\ UNCHANGED <<flushIdx, rateRef, active, conn, dbVars>>

-----------------------------------------------------------------------------
(* par_hdr_flush: the loop over the complete segments at flush_idx.        *)
Head0 == segs[flushIdx]
HeadReady == flushIdx < NumSegs /\ Head0.complete /\ ~Head0.flushed

\* par_hdr_verify_tail
TailVerified == Head0.tail = "valid"

NextConnects == Connects(index, Head0.buf[at + 1], "flush")

\* mutant: the segment counts as flushed whatever connected
AnyConnected == at <= Len(Head0.buf)

AllConnected == at = Len(Head0.buf)

FlushHeader ==
    /\ pc = "flush" /\ HeadReady /\ TailVerified
    /\ at < Len(Head0.buf)
    /\ NextConnects
    /\ index'   = Connect(index, Head0.buf[at + 1], "flush")
    /\ written' = written \cup {Head0.buf[at + 1]}
    /\ at'      = at + 1
    /\ UNCHANGED <<segVars, peerVars, pc, cur>>

FlushSegment ==
    /\ pc = "flush" /\ HeadReady /\ TailVerified
    /\ AllConnected
    /\ segs'     = [segs EXCEPT ![flushIdx].flushed = TRUE,
                                ![flushIdx].buf = <<>>,
                                ![flushIdx].tail = "none"]
    /\ flushIdx' = flushIdx + 1
    /\ buffered' = Less(buffered, Len(Head0.buf))
    /\ at'       = 0
    /\ UNCHANGED <<rateRef, active, peerVars, dbVars, pc, cur>>

(* The segment resumes from what the database reached; when it keeps       *)
(* failing, the segments above it give up their buffers and the parallel   *)
(* download ends.                                                          *)
FlushFail ==
    /\ pc = "flush" /\ HeadReady
    /\ \/ ~TailVerified
       \/ at < Len(Head0.buf) /\ ~NextConnects
    /\ LET retry == Failed(Head0, index.tip, Height[index.tip])
           S     == [segs EXCEPT ![flushIdx] = retry]
           b     == Less(buffered, Len(Head0.buf))
           above == flushIdx + 1 .. NumSegs - 1
       IN  IF retry.fails >= MaxFlushFails
           THEN /\ active'   = FALSE
                /\ segs'     = Dropped(S, above)
                /\ buffered' = Less(b, Staged(S, above))
           ELSE /\ segs' = S /\ buffered' = b
                /\ UNCHANGED active
    /\ pc' = "failed" /\ at' = 0
    /\ UNCHANGED <<flushIdx, rateRef, peerVars, dbVars, cur>>

(* After the flush: the peer gets its next segment, and the download is    *)
(* over once every segment has been flushed.                               *)
FlushDone ==
    /\ pc = "failed" \/ (pc = "flush" /\ ~HeadReady)
    /\ IF active THEN Assign(segs, buffered, hsync, wire, cur)
       ELSE UNCHANGED <<segs, hsync, wire>>
    /\ active' = (active /\ flushIdx < NumSegs)
    /\ pc' = "idle" /\ cur' = NoNode
    /\ UNCHANGED <<flushIdx, buffered, rateRef, conn, dbVars, at>>

-----------------------------------------------------------------------------
(* par_hdr_reclaim, from the periodic statecheck.  Its four stages are     *)
(* operators on the segments.                                              *)

\* position of x in the increasing enumeration of X
Rank(x, X) == Cardinality({y \in X : y < x})

(* Peers I and segments F walked in increasing order, one segment each.    *)
Pairing(I, F) ==
    [n \in Node |-> IF n \in I THEN {i \in F : Rank(i, F) = Rank(n, I)} ELSE {}]
Partner(give, i) == {n \in Node : i \in give[n]}

Flagged(hs, give) == [n \in Node |-> hs[n] \/ give[n] # {}]
Mailed(w, give) ==
    [n \in Honest |-> IF give[n] = {} THEN w[n]
                      ELSE Queued(w[n], Request(segs, CHOOSE i \in give[n] : TRUE))]

FreePeers(S) == {n \in Node : Usable(n) /\ ~Busy(S, n)}

(* 1. Segments whose owner is gone, or has been silent too long.  A prompt *)
(* peer is silent only when nothing is pending at it.                      *)
Held(S) == {i \in Seg : ~S[i].complete /\ S[i].owner # NoNode}
MayStall(i) ==
    segs[i].owner \in Prompt => wire[segs[i].owner] = <<>>
Lost(stalled) ==
    {i \in Held(segs) : ~Usable(segs[i].owner) \/ i \in stalled}
\* mutant: a new owner starts over
ReleasedAfresh(stalled) ==
    [i \in Seg |-> IF i \in Lost(stalled) THEN FreshSeg(i) ELSE segs[i]]

Released(stalled) ==
    [i \in Seg |-> IF i \in Lost(stalled)
                   THEN [segs[i] EXCEPT !.owner = NoNode, !.shadow = NoNode]
                   ELSE segs[i]]

(* 2. Free segments to free peers, both in order.                          *)
HandOut(S) == Pairing(FreePeers(S), Open(S, buffered))
HandedOut(S, give) ==
    [i \in Seg |-> IF Partner(give, i) = {} THEN S[i]
                   ELSE Owned(S[i], CHOOSE n \in Partner(give, i) : TRUE)]

(* par_hdr_seg_rate can be positive only if the owner delivered something  *)
(* since it took the segment.                                              *)
Ratable(S) == {i \in Seg : S[i].owner # NoNode /\ Len(S[i].buf) > S[i].atAssign}

(* 3. The owner of the flush head loses it if it is an outlier against the *)
(* median of the others, or against the last such median.  A candidate to  *)
(* take over is a peer that owns no segment; one that shadows a segment    *)
(* counts as free here, but par_hdr_assign will not give it anything.      *)
SeesCrowd(rated) == flushIdx \in rated /\ Cardinality(rated \ {flushIdx}) >= Crowd
Candidates(S) == {n \in Node : Usable(n) /\ \A i \in Seg : S[i].owner # n}
Preempts(S, rated, outlier) ==
    /\ flushIdx \in rated /\ ~S[flushIdx].complete
    /\ SeesCrowd(rated) \/ rateRef
    /\ outlier
    /\ Candidates(S) # {}
Vacated(S) == [S EXCEPT ![flushIdx].owner = NoNode]
PreemptedBy(S) ==
    LET n == Min(Candidates(S))
    IN  [k \in Node |-> IF k = n /\ ~Busy(Vacated(S), n) THEN {flushIdx} ELSE {}]
Preempted(S) ==
    LET n == Min(Candidates(S))
    IN  IF Busy(Vacated(S), n) THEN Vacated(S)
        ELSE [S EXCEPT ![flushIdx] = Owned(@, n)]

(* 4. par_hdr_race_tail: idle peers shadow the slow segments, lowest       *)
(* first.  Without a reference the mean of the current rates serves, which *)
(* not every rated segment can be below.                                   *)
Raceable(S, slow) ==
    {i \in slow : i >= flushIdx /\ ~S[i].complete
                  /\ S[i].owner # NoNode /\ S[i].shadow = NoNode}
Race(S, slow) == Pairing(FreePeers(S), Raceable(S, slow))
Raced(S, give) ==
    [i \in Seg |-> IF Partner(give, i) = {} THEN S[i]
                   ELSE [S[i] EXCEPT !.shadow = CHOOSE n \in Partner(give, i) : TRUE]]

Reclaim(stalled, rated, outlier, slow) ==
    /\ pc = "idle" /\ active
    /\ \E n \in Node : conn[n] # "gone"        \* a timer is running
    /\ LET S1  == Released(stalled)
           hs1 == Cleared({segs[i].owner : i \in Lost(stalled)})
           g2  == HandOut(S1)
           S2  == HandedOut(S1, g2)
           pre == Preempts(S2, rated, outlier)
           g3  == IF pre THEN PreemptedBy(S2) ELSE [n \in Node |-> {}]
           S3  == IF pre THEN Preempted(S2) ELSE S2
           hs2 == Flagged(hs1, g2)
           hs3 == IF pre THEN [hs2 EXCEPT ![S2[flushIdx].owner] = FALSE] ELSE hs2
           g4  == Race(S3, slow)
       IN  /\ rated \subseteq Ratable(S2)
           /\ slow \subseteq Ratable(S3)
           /\ rateRef' = (rateRef \/ SeesCrowd(rated))
           /\ slow = {} \/ rateRef' \/ slow # rated \cap Ratable(S3)
           /\ segs'  = Raced(S3, g4)
           /\ hsync' = Flagged(Flagged(hs3, g3), g4)
           /\ wire'  = Mailed(Mailed(Mailed(wire, g2), g3), g4)
    /\ UNCHANGED <<flushIdx, buffered, active, conn, dbVars, ctlVars>>

-----------------------------------------------------------------------------
Recv(n) ==
    \E m \in Reply(n) :
        \/ RecvUnsolicited(n, m)
        \/ RecvDropped(n, m)
        \/ RecvMore(n, m)
        \/ RecvMismatch(n, m)
        \/ RecvComplete(n, m)

Flush == FlushHeader \/ FlushSegment \/ FlushFail \/ FlushDone

Tick ==
    \E stalled \in SUBSET {i \in Held(segs) : MayStall(i)},
       rated \in SUBSET Ratable(segs), outlier \in BOOLEAN :
        \E slow \in SUBSET rated : Reclaim(stalled, rated, outlier, slow)

Next ==
    \/ \E n \in Node : HandshakeDone(n) \/ Disconnect(n) \/ Recv(n)
    \/ Flush
    \/ Tick

Spec == Init /\ [][Next]_vars

(* A prompt peer answers; the event loop finishes the handler it is in;    *)
(* the timer of a node fires every few seconds, and an owner that stays    *)
(* silent past PAR_HDR_SEG_TIMEOUT is found out by it.                     *)
TickTakes(i) ==
    \E stalled \in SUBSET {k \in Held(segs) : MayStall(k)} :
        i \in stalled /\ Reclaim(stalled, {}, FALSE, {})

Fairness ==
    /\ WF_vars(Flush)
    /\ WF_vars(Tick)
    /\ \A i \in Seg : WF_vars(TickTakes(i))
    /\ \A n \in Prompt : WF_vars(HandshakeDone(n)) /\ WF_vars(Recv(n))

FairSpec == Spec /\ Fairness

-----------------------------------------------------------------------------
(* Every variable has its type: the counters of par_hdr_recv and           *)
(* par_hdr_flush never go below zero, and every staged header, request and *)
(* tip is a header that can exist.                                         *)
TypeOK ==
    /\ segs \in [Seg -> SegState]
    /\ flushIdx \in 0 .. NumSegs
    /\ buffered \in Nat
    /\ rateRef \in BOOLEAN /\ active \in BOOLEAN
    /\ conn \in [Node -> {"new", "up", "gone"}]
    /\ hsync \in [Node -> BOOLEAN]
    /\ wire \in [Honest -> Seq(GetHeaders)]
    /\ index \in Index
    /\ written \subseteq Block
    /\ pc \in {"idle", "flush", "failed"}
    /\ at \in Nat
    /\ cur \in Node \cup {NoNode}

(* The anchoring argument behind skip_pow: once a segment is flushed, the  *)
(* whole checkpointed chain up to its checkpoint is on the headers file,   *)
(* whatever the peers sent.                                                *)
CheckpointsAnchored ==
    \A i \in Seg : segs[i].flushed =>
        \A h \in 1 .. StopHeight[i] : Main[h] \in written

(* par_hdr_check: the flush is in order and without holes, a flushed       *)
(* segment was complete and gave its buffer back, and a complete segment   *)
(* keeps no peer out of the assignment pool.                               *)
FlushOrdered ==
    \A i \in Seg :
        /\ segs[i].flushed <=> i < flushIdx
        /\ segs[i].flushed => segs[i].complete /\ segs[i].buf = <<>>
        /\ segs[i].complete => segs[i].owner = NoNode /\ segs[i].shadow = NoNode

(* par_hdr_check: one peer, one segment -- as owner or as shadow -- and a  *)
(* peer does not race itself.  par_hdr_recv relies on it to tell which     *)
(* segment a batch is for.                                                 *)
OnePeerOneSegment ==
    \A n \in Node, i, j \in Seg :
        /\ (n \in {segs[i].owner, segs[i].shadow} /\ n \in {segs[j].owner, segs[j].shadow})
              => i = j
        /\ ~(segs[i].owner = n /\ segs[i].shadow = n)

(* par_hdr_check: a segment's tip never falls below its start -- also not  *)
(* when a failed flush rewinds it to the tip of the database, which lies   *)
(* at or above every flushed checkpoint.                                   *)
TipsBracketed ==
    /\ \A i \in Seg : segs[i].tipHeight >= StartHeight(i)
    /\ \A i \in Seg : segs[i].flushed => Height[index.tip] >= StopHeight[i]

(* par_hdr_reclaim, par_hdr_preempt_head, par_hdr_race_tail: taking a      *)
(* segment from a peer costs nothing already downloaded.  What is staged   *)
(* only grows, until it is flushed, fails, or the download is given up.    *)
NothingDownloadedIsLost ==
    [][\A i \in Seg :
         \/ /\ Len(segs[i].buf) <= Len(segs'[i].buf)
            /\ SubSeq(segs'[i].buf, 1, Len(segs[i].buf)) = segs[i].buf
         \/ segs'[i].flushed
         \/ segs'[i].fails > segs[i].fails
         \/ ~active']_vars

(* Flushing is never undone and skips nothing: flush_idx moves by one and  *)
(* only past a segment all of whose staged headers went into the database. *)
FlushAdvances ==
    [][flushIdx' # flushIdx =>
         /\ flushIdx' = flushIdx + 1
         /\ \A k \in 1 .. Len(segs[flushIdx].buf) : segs[flushIdx].buf[k] \in written]_vars

(* PAR_HDR_MAX_BUFFERED: what is staged above the flush head stays within  *)
(* the budget plus what the peers already at work may still deliver.       *)
LongestSeg == Max({StopHeight[i] - StartHeight(i) : i \in Seg})
WithinBudget ==
    Staged(segs, Seg \ {flushIdx}) <=
        Max({MaxBuffered - 1, 0}) + NumNodes * (LongestSeg + MaxBatch - 1)

(* With a prompt peer ahead of the silent ones the download comes to an    *)
(* end, and on the checkpointed chain that end is the last checkpoint.     *)
Completes == <>[](flushIdx = NumSegs /\ index.tip = StopHash(NumSegs - 1))
=============================================================================
