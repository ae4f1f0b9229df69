---------------------------- MODULE FilteredScan ----------------------------
(***************************************************************************)
(* The scan of old blocks through a bloom filter (spvnode -g) of           *)
(* src/src/spv.c: dogecoin_net_spv_request_filtered_history and the        *)
(* merkleblock and tx branches of dogecoin_net_spv_post_cmd, from the      *)
(* moment the header sync has completed.                                   *)
(*                                                                         *)
(* The client asks one peer for a window of filtered blocks, and a peer    *)
(* answers each with a merkleblock and then the transactions that match    *)
(* the filter it holds at that moment.  A transaction that pays the wallet *)
(* always matches, by the hash of a key.  One that only spends from it     *)
(* shows the key and not its hash, and matches when the outpoint it spends *)
(* is in the filter, in the order of its bytes on the wire.  New blocks,   *)
(* asked from the peer that announces them, come in between.               *)
(***************************************************************************)
EXTENDS Integers, Sequences, SequencesExt

CONSTANTS
    Tx,          \* the wallet's transactions on the chain
    TxHeight,    \* the height of the block of each
    Parent,      \* the transaction it spends from, NULL for a payment
    NULL,
    NumPeers,    \* connected peers that serve filtered blocks; the scan asks peer 1
    Announcer,   \* the peer that is synced with and announces new blocks
    StartTip,    \* height of the chain when the sync completes
    MaxTip,      \* bound: new blocks up to this height
    Window,      \* max_historical_request_blocks: 50000
    TailLimit    \* repeated requests for a window: 8

Peer == 1 .. NumPeers

ASSUME FilteredScanAssumption ==
    /\ IsFiniteSet(Tx) /\ NULL \notin Tx
    /\ TxHeight \in [Tx -> 1 .. MaxTip]
    /\ Parent \in [Tx -> Tx \cup {NULL}]
    /\ \A t \in Tx : Parent[t] # NULL => TxHeight[Parent[t]] < TxHeight[t]
    /\ NumPeers \in Nat \ {0} /\ Announcer \in Peer
    /\ StartTip \in 1 .. MaxTip /\ MaxTip \in Nat
    /\ Window \in Nat \ {0} /\ TailLimit \in Nat

VARIABLES
    cl,        \* the client
    toPeer,    \* toPeer[p]: what peer p has yet to read
    toClient,  \* toClient[p]: what p has sent
    filter,    \* filter[p]: the filter p holds
    netTip     \* height of the last block announced

vars == <<cl, toPeer, toClient, filter, netTip>>

None == [tx |-> NULL, height |-> -1]

(* An outpoint in a filter, with the order of the bytes of the hash.       *)
Element == [tx : Tx, order : {"wire", "reversed"}]

(* dogecoin_tx_hash leaves the bytes as the digest has them, which is how  *)
(* an input on the wire names the transaction it spends from.              *)
TxHash(t) == [tx |-> t, order |-> "wire"]

\* outpoint[b] = txid[31 - b]
Reversed(e) == [e EXCEPT !.order = IF @ = "wire" THEN "reversed" ELSE "wire"]

Client ==
    [tip     : 0 .. MaxTip,             \* the chain tip
     lastEnd : -1 .. MaxTip,            \* filtered_history_last_end_height
     tails   : 0 .. TailLimit,          \* filtered_history_tail_rerequest_count
     last    : [tx : Tx \cup {NULL}, height : -1 .. MaxTip],
                                        \* filtered_history_last_rerequest_*
     block   : -1 .. MaxTip,            \* merkle_match_blockindex
     pending : SUBSET Tx,               \* merkle_match_tree, not yet consumed
     filter  : SUBSET Element,          \* bloom_filter, without the hashes of keys
     found   : SUBSET Tx]               \* handed to sync_transaction

Get(h) == [type |-> "get", arg |-> h]
Load(F) == [type |-> "load", arg |-> F]
Add(e) == [type |-> "add", arg |-> e]
Merkle(h, M) == [type |-> "merkle", height |-> h, matched |-> M, tx |-> NULL]
TxMsg(t) == [type |-> "tx", height |-> -1, matched |-> {}, tx |-> t]

Lesser(a, b) == IF a < b THEN a ELSE b

(* A client with what it has sent: out[p] is sent to peer p.               *)
Idle(c) == [client |-> c, out |-> [p \in Peer |-> <<>>]]

-----------------------------------------------------------------------------
\* mutant: a window starts one block too late
RequestFromBeyond(c, depth) ==
    LET start == IF depth > 0 THEN c.tip - depth + 1 ELSE 1
    IN  IF c.lastEnd >= start THEN c.lastEnd + 2 ELSE start

\* mutant: what has been asked for already is asked for again
RequestFromStart(c, depth) == IF depth > 0 THEN c.tip - depth + 1 ELSE 1

(* dogecoin_net_spv_request_filtered_history: heights already asked for    *)
(* are left out, whatever the depth; depth 0 is everything there is.       *)
RequestFrom(c, depth) ==
    LET start == IF depth > 0 THEN c.tip - depth + 1 ELSE 1
    IN  IF c.lastEnd >= start THEN c.lastEnd + 1 ELSE start

RequestFilteredHistory(r, depth) ==
    LET c     == r.client
        start == RequestFrom(c, depth)
        end   == Lesser(c.tip, start + Window - 1)
        gets  == [i \in 1 .. end - start + 1 |-> Get(start + i - 1)]
    IN  IF start > c.tip THEN r
        ELSE [client |-> [c EXCEPT !.lastEnd = end],
              out    |-> [r.out EXCEPT ![1] = @ \o <<Load(c.filter)>> \o gets]]

(* The end of the window has come in, with no transaction outstanding, and *)
(* there is more of the chain to ask for.                                  *)
WindowRead(c, h, M) == M = {} /\ h >= c.lastEnd /\ c.lastEnd < c.tip

(* The merkleblock branch: the block is the next one or a known one; what  *)
(* was still expected of the block before is given up.                     *)
RecvMerkleblock(c, h, M) ==
    LET c1 == [c EXCEPT !.tip = IF h = c.tip + 1 THEN h ELSE @,
                        !.pending = M, !.block = h]
    IN  IF c.lastEnd >= 0 /\ WindowRead(c1, h, M)
        THEN RequestFilteredHistory(Idle([c1 EXCEPT !.tails = 0, !.last = None]), 0)
        ELSE Idle(c1)

(* The outpoints of a transaction that was found, with its hash reversed,  *)
(* go into the client's filter and, by dogecoin_spv_client_filteradd, to   *)
(* every connected peer.                                                   *)
FilterAdd(r, t) ==
    LET e == Reversed(TxHash(t))
    IN  [client |-> [r.client EXCEPT !.filter = @ \cup {e}],
         out    |-> [p \in Peer |-> Append(r.out[p], Add(e))]]

\* mutant: the number of repeated requests is not limited
TailNeededAlways(c, t) ==
    /\ c.lastEnd >= 0 /\ c.block < c.lastEnd
    /\ c.tip > c.block
    /\ c.last # [tx |-> t, height |-> c.block]

(* Blocks above the one the transaction was found in are asked for again,  *)
(* with its outpoints in the filter that is loaded.                        *)
TailNeeded(c, t) ==
    /\ c.tails < TailLimit
    /\ c.lastEnd >= 0 /\ c.block < c.lastEnd
    /\ c.tip > c.block
    /\ c.last # [tx |-> t, height |-> c.block]

RequestTail(r, t) ==
    LET c == r.client
    IN  RequestFilteredHistory(
            [r EXCEPT !.client.tails = @ + 1,
                      !.client.last = [tx |-> t, height |-> c.block],
                      !.client.lastEnd = c.block],
            c.tip - c.block)

\* mutant: blocks are asked for again in place of handling the transaction
RecvTxTailFirst(c, t) ==
    IF t \notin c.pending THEN Idle(c)
    ELSE LET r == FilterAdd(Idle([c EXCEPT !.pending = @ \ {t}]), t)
         IN  IF TailNeeded(r.client, t) THEN RequestTail(r, t)
             ELSE [r EXCEPT !.client.found = @ \cup {t}]

(* The tx branch, in filtered mode.                                        *)
RecvTx(c, t) ==
    IF t \notin c.pending THEN Idle(c)
    ELSE LET r  == FilterAdd(Idle([c EXCEPT !.pending = @ \ {t}, !.found = @ \cup {t}]), t)
             r1 == IF TailNeeded(r.client, t) THEN RequestTail(r, t) ELSE r
         IN  IF r1.client.pending = {} THEN [r1 EXCEPT !.client.block = -1] ELSE r1

-----------------------------------------------------------------------------
(* spv_sync_completed asks for everything up to the tip.                   *)
Init ==
    LET c == [tip |-> StartTip, lastEnd |-> -1, tails |-> 0, last |-> None,
              block |-> -1, pending |-> {}, filter |-> {}, found |-> {}]
        r == RequestFilteredHistory(Idle(c), StartTip)
    IN  /\ cl = r.client
        /\ toPeer = r.out
        /\ toClient = [p \in Peer |-> <<>>]
        /\ filter = [p \in Peer |-> {}]
        /\ netTip = StartTip

\* the client has handled a message
Becomes(r) ==
    /\ cl' = r.client
    /\ toPeer' = [p \in Peer |-> toPeer[p] \o r.out[p]]

Recv(p) ==
    /\ toClient[p] # <<>>
    /\ LET m == Head(toClient[p])
       IN  Becomes(IF m.type = "merkle" THEN RecvMerkleblock(cl, m.height, m.matched)
                   ELSE RecvTx(cl, m.tx))
    /\ toClient' = [toClient EXCEPT ![p] = Tail(@)]
    /\ UNCHANGED <<filter, netTip>>

(* A block is announced; the inv branch asks for it as a filtered block.   *)
NewBlock ==
    /\ netTip < MaxTip
    /\ netTip' = netTip + 1
    /\ toPeer' = [toPeer EXCEPT ![Announcer] = Append(@, Get(netTip + 1))]
    /\ UNCHANGED <<cl, toClient, filter>>

(* A peer reads its messages in order.  The filter is loaded with          *)
(* BLOOM_UPDATE_ALL: the peer adds the outpoints of what it finds.         *)
Matches(F, h) ==
    LET here == {t \in Tx : TxHeight[t] = h}
    IN  {t \in here : Parent[t] = NULL \/ TxHash(Parent[t]) \in F}

Serve(p) ==
    /\ toPeer[p] # <<>>
    /\ LET m == Head(toPeer[p])
           M == Matches(filter[p], m.arg)
       IN  CASE m.type = "load" ->
                    filter' = [filter EXCEPT ![p] = m.arg] /\ UNCHANGED toClient
             [] m.type = "add" ->
                    filter' = [filter EXCEPT ![p] = @ \cup {m.arg}] /\ UNCHANGED toClient
             [] m.type = "get" ->
                    /\ filter' = [filter EXCEPT ![p] = @ \cup {TxHash(t) : t \in M}]
                    /\ toClient' = [toClient EXCEPT ![p] =
                          Append(@, Merkle(m.arg, M)) \o [i \in 1 .. Cardinality(M) |->
                                                            TxMsg(SetToSeq(M)[i])]]
    /\ toPeer' = [toPeer EXCEPT ![p] = Tail(@)]
    /\ UNCHANGED <<cl, netTip>>

Step(p) == Recv(p) \/ Serve(p)

\* the scan is over: no message is on its way
Quiet == \A p \in Peer : toPeer[p] = <<>> /\ toClient[p] = <<>>

Done == Quiet /\ netTip = MaxTip /\ UNCHANGED vars

Next == NewBlock \/ Done \/ \E p \in Peer : Step(p)

Spec == Init /\ [][Next]_vars

(* Peers answer, the client reads what arrives, and blocks are found.      *)
FairSpec == Spec /\ WF_vars(NewBlock) /\ \A p \in Peer : WF_vars(Step(p))

-----------------------------------------------------------------------------
(* The client's fields have their types, and the tails stay within their   *)
(* limit.                                                                  *)
TypeOK ==
    /\ cl \in Client
    /\ filter \in [Peer -> SUBSET Element]
    /\ netTip \in StartTip .. MaxTip

(* A transaction that spends from another reaches the wallet after it,     *)
(* which the wallet relies on to mark the output spent.                    *)
OutputsFirst == \A t \in cl.found : Parent[t] # NULL => Parent[t] \in cl.found

(* When no message is on its way, every payment to the wallet up to the    *)
(* end of the last window is found, although matches move the end of the   *)
(* window back and each merkleblock gives up what was still awaited of the *)
(* one before.                                                             *)
PaymentsFound ==
    Quiet => \A t \in Tx : Parent[t] = NULL /\ TxHeight[t] <= cl.lastEnd => t \in cl.found

(* So is every transaction that spends from one: outpoints are added to    *)
(* the filter and blocks asked for again "after new matched tx to catch    *)
(* spends" (the tx branch of dogecoin_net_spv_post_cmd).                   *)
SpendsFound ==
    Quiet => \A t \in Tx : TxHeight[t] <= cl.lastEnd /\ Parent[t] \in cl.found => t \in cl.found

(* The windows, the repeated requests and the new blocks do not go on for  *)
(* ever, and the scan reaches the tip.                                     *)
ScanEnds == <>[](Quiet /\ cl.lastEnd >= StartTip)
=============================================================================
