------------------------- MODULE FilteredScanProofs -------------------------
(***************************************************************************)
(* Proofs about the scan of old blocks, for every chain, every window and  *)
(* every limit: its types, for any number of peers; and, when the peer     *)
(* that is scanned also announces the new blocks, that a spend reaches the *)
(* wallet after what it spends (ScanInOrder), and that no payment of a     *)
(* window that was asked for is missed (ScanFindsPayments).                *)
(***************************************************************************)
EXTENDS FilteredScan, FiniteSetTheorems, SequenceTheorems, TLAPS

(* What the client sends, and what peers send.                             *)
Ask ==
    {Get(h) : h \in 1 .. MaxTip} \cup {Load(F) : F \in SUBSET Element} \cup {Add(e) : e \in Element}
Reply == {Merkle(h, M) : h \in 1 .. MaxTip, M \in SUBSET Tx} \cup {TxMsg(t) : t \in Tx}

(* What dogecoin_net_spv_request_filtered_history sends.                   *)
Gets(s, e) == [i \in 1 .. e - s + 1 |-> Get(s + i - 1)]
Stream(F, s, e) == <<Load(F)>> \o Gets(s, e)

Outs == [Peer -> Seq(Ask)]
Asking(out, F, s, e) == [out EXCEPT ![1] = @ \o Stream(F, s, e)]
Nothing == [p \in Peer |-> <<>>]

(* What the client adds to the filters for a transaction, and what a peer  *)
(* adds for those it matches.                                              *)
Entry(t) == Reversed(TxHash(t))
Entries(M) == {TxHash(t) : t \in M}

(* Both are of the transactions they stand for.                            *)
LEMMA EntryIs ==
    ASSUME NEW t
    PROVE  /\ Entry(t).tx = t /\ TxHash(t).tx = t
           /\ t \in Tx => Entry(t) \in Element /\ TxHash(t) \in Element
<1>1. TxHash(t).tx = t /\ (t \in Tx => TxHash(t) \in Element)
  BY DEF TxHash, Element
<1>2. Reversed(TxHash(t)) = [tx |-> t, order |-> "reversed"]
  BY DEF Reversed, TxHash
<1> QED
  BY <1>1, <1>2 DEF Entry, Element

(* The message that adds an outpoint.                                      *)
LEMMA OneAdd ==
    ASSUME NEW t \in Tx
    PROVE  /\ <<Add(Entry(t))>> \in Seq(Ask) /\ Len(<<Add(Entry(t))>>) = 1
           /\ <<Add(Entry(t))>>[1] = Add(Entry(t))
           /\ Add(Entry(t)).type = "add" /\ Add(Entry(t)).arg = Entry(t)
<1>1. Add(Entry(t)) \in Ask
  BY EntryIs DEF Ask
<1>2. Add(Entry(t)).type = "add" /\ Add(Entry(t)).arg = Entry(t)
  BY DEF Add
<1> QED
  BY <1>1, <1>2

-----------------------------------------------------------------------------
(* Messages.                                                               *)

(* A message of the client is one of three kinds.                          *)
LEMMA AskKinds ==
    ASSUME NEW m \in Ask
    PROVE  /\ m.type \in {"get", "load", "add"}
           /\ m.type = "get" => m.arg \in 1 .. MaxTip /\ m = Get(m.arg)
           /\ m.type = "load" => m.arg \in SUBSET Element /\ m = Load(m.arg)
           /\ m.type = "add" => m.arg \in Element /\ m = Add(m.arg)
<1>1. CASE \E h \in 1 .. MaxTip : m = Get(h)
  BY <1>1 DEF Get
<1>2. CASE \E F \in SUBSET Element : m = Load(F)
  BY <1>2 DEF Load
<1>3. CASE \E e \in Element : m = Add(e)
  BY <1>3 DEF Add
<1> QED
  BY <1>1, <1>2, <1>3 DEF Ask

(* A message of a peer is one of two.                                      *)
LEMMA ReplyKinds ==
    ASSUME NEW m \in Reply
    PROVE  /\ m.type \in {"merkle", "tx"}
           /\ m.type = "merkle" => m.height \in 1 .. MaxTip /\ m.matched \in SUBSET Tx
           /\ m.type = "tx" => m.tx \in Tx /\ m.matched = {}
<1>1. CASE \E h \in 1 .. MaxTip, M \in SUBSET Tx : m = Merkle(h, M)
  BY <1>1 DEF Merkle
<1>2. CASE \E t \in Tx : m = TxMsg(t)
  BY <1>2 DEF TxMsg
<1> QED
  BY <1>1, <1>2 DEF Reply

(* The members of a concatenation.                                         *)
LEMMA ConcatAt ==
    ASSUME NEW S, NEW a \in Seq(S), NEW b \in Seq(S), NEW c, c = a \o b
    PROVE  /\ c \in Seq(S) /\ Len(c) = Len(a) + Len(b)
           /\ Len(a) \in Nat /\ Len(b) \in Nat /\ Len(c) \in Nat
           /\ \A i \in 1 .. Len(a) : c[i] = a[i]
           /\ \A i \in 1 .. Len(b) : c[Len(a) + i] = b[i]
<1>1. Len(a) \in Nat /\ Len(b) \in Nat
  BY LenProperties
<1> QED
  BY <1>1, ConcatProperties

(* The messages of a window, one by one.                                   *)
LEMMA StreamSeq ==
    ASSUME NEW F \in SUBSET Element, NEW s \in 1 .. MaxTip, NEW e \in s .. MaxTip
    PROVE  /\ Stream(F, s, e) \in Seq(Ask) /\ Len(Stream(F, s, e)) = e - s + 2
           /\ Stream(F, s, e)[1] = Load(F)
           /\ \A h \in s .. e : Stream(F, s, e)[h - s + 2] = Get(h)
           /\ \A i \in 2 .. e - s + 2 : Stream(F, s, e)[i].type = "get"
<1> DEFINE G == Gets(s, e)
           n == e - s + 1
<1>1. n \in Nat /\ MaxTip \in Nat
  BY FilteredScanAssumption
<1>2. \A i \in 1 .. n : Get(s + i - 1) \in Ask
  BY <1>1 DEF Ask
<1>3. G \in Seq(Ask) /\ Len(G) = n /\ \A i \in 1 .. n : G[i] = Get(s + i - 1)
  BY <1>1, <1>2 DEF Gets
<1> HIDE DEF G
<1> DEFINE L == <<Load(F)>>
<1>4. L \in Seq(Ask) /\ Len(L) = 1 /\ L[1] = Load(F) /\ Stream(F, s, e) = L \o G
  BY DEF Ask, Stream, G
<1> HIDE DEF L
<1> DEFINE X == Stream(F, s, e)
<1>5. X = L \o G
  BY <1>4
<1> HIDE DEF X
<1>6. /\ X \in Seq(Ask) /\ Len(X) = 1 + n /\ X[1] = L[1]
      /\ \A i \in 1 .. n : X[1 + i] = G[i]
  <2>1. G \in Seq(Ask) /\ L \in Seq(Ask)
    BY <1>3, <1>4
  <2>2. /\ X \in Seq(Ask) /\ Len(X) = Len(L) + Len(G)
        /\ \A i \in 1 .. Len(L) : X[i] = L[i]
        /\ \A i \in 1 .. Len(G) : X[Len(L) + i] = G[i]
    BY <1>5, <2>1, ConcatAt
  <2>3. 1 \in 1 .. Len(L) /\ Len(L) = 1 /\ Len(G) = n
    BY <1>3, <1>4
  <2>4. X[1] = L[1]
    BY <2>2, <2>3
  <2> HIDE DEF n
  <2>5. \A i \in 1 .. n : X[1 + i] = G[i]
    BY <2>2, <2>3
  <2> QED
    BY <2>2, <2>3, <2>4, <2>5
<1>7. \A h \in s .. e : X[h - s + 2] = Get(h)
  <2> TAKE h \in s .. e
  <2>1. h - s + 1 \in 1 .. n /\ 1 + (h - s + 1) = h - s + 2 /\ s + (h - s + 1) - 1 = h
    BY <1>1
  <2> QED
    BY <1>3, <1>6, <2>1
<1>8. \A i \in 2 .. e - s + 2 : X[i].type = "get"
  <2> TAKE i \in 2 .. e - s + 2
  <2>1. i - 1 \in 1 .. n /\ 1 + (i - 1) = i
    BY <1>1
  <2>2. X[i] = Get(s + (i - 1) - 1)
    BY <1>3, <1>6, <2>1
  <2> QED
    BY <2>2 DEF Get
<1>9. 1 + n = e - s + 2
  BY <1>1
<1> QED
  BY <1>4, <1>6, <1>7, <1>8, <1>9 DEF X

(* A request for a window is well-formed.                                  *)
LEMMA AskingOuts ==
    ASSUME NEW out \in Outs, NEW F \in SUBSET Element, NEW s \in 1 .. MaxTip, NEW e \in s .. MaxTip
    PROVE  /\ Asking(out, F, s, e) \in Outs
           /\ Asking(out, F, s, e)[1] = out[1] \o Stream(F, s, e)
           /\ \A p \in Peer \ {1} : Asking(out, F, s, e)[p] = out[p]
<1>1. Stream(F, s, e) \in Seq(Ask) /\ 1 \in Peer
  <2>1. Stream(F, s, e) \in Seq(Ask)
    BY StreamSeq
  <2>2. 1 \in Peer
    BY FilteredScanAssumption DEF Peer
  <2> QED
    BY <2>1, <2>2
<1>2. out[1] \o Stream(F, s, e) \in Seq(Ask)
  <2>1. out[1] \in Seq(Ask)
    BY <1>1 DEF Outs
  <2> QED
    BY <1>1, <2>1, ConcatProperties
<1> QED
  BY <1>1, <1>2 DEF Outs, Asking

-----------------------------------------------------------------------------
(* What the handlers do to the client and what they send.                  *)

Made(tip, lastEnd, tails, last, block, pending, fltr, found) ==
    [tip |-> tip, lastEnd |-> lastEnd, tails |-> tails, last |-> last, block |-> block,
     pending |-> pending, filter |-> fltr, found |-> found]

(* The fields of a client record.                                          *)
LEMMA MadeFields ==
    \A tip, lastEnd, tails, last, block, pending, fltr, found :
        LET d == Made(tip, lastEnd, tails, last, block, pending, fltr, found)
        IN  /\ d.tip = tip /\ d.lastEnd = lastEnd /\ d.tails = tails /\ d.last = last
            /\ d.block = block /\ d.pending = pending /\ d.filter = fltr /\ d.found = found
            /\ (/\ tip \in 0 .. MaxTip /\ lastEnd \in -1 .. MaxTip /\ tails \in 0 .. TailLimit
                /\ last \in [tx : Tx \cup {NULL}, height : -1 .. MaxTip]
                /\ block \in -1 .. MaxTip /\ pending \in SUBSET Tx
                /\ fltr \in SUBSET Element /\ found \in SUBSET Tx) => d \in Client
  BY DEF Made, Client

(* Their types.                                                            *)
LEMMA ClientFields ==
    ASSUME NEW c \in Client
    PROVE  /\ c.tip \in 0 .. MaxTip /\ c.lastEnd \in -1 .. MaxTip /\ c.tails \in 0 .. TailLimit
           /\ c.last \in [tx : Tx \cup {NULL}, height : -1 .. MaxTip]
           /\ c.block \in -1 .. MaxTip /\ c.pending \in SUBSET Tx
           /\ c.filter \in SUBSET Element /\ c.found \in SUBSET Tx
           /\ MaxTip \in Nat /\ TailLimit \in Nat /\ Window \in Nat \ {0} /\ 1 \in Peer
  BY FilteredScanAssumption DEF Client, Peer

(* dogecoin_net_spv_request_filtered_history moves the end of the window   *)
(* and sends the blocks up to it to the first peer.                        *)
Requested(c, out, s, r) ==
    \E e \in s .. c.tip :
        r = [client |-> Made(c.tip, e, c.tails, c.last, c.block, c.pending, c.filter, c.found),
             out    |-> [out EXCEPT ![1] = @ \o Stream(c.filter, s, e)]]

(* A request moves the end of the window and sends its stream to the first *)
(* peer.                                                                   *)
LEMMA RequestDoes ==
    ASSUME NEW c \in Client, NEW out \in Outs, NEW depth,
           RequestFrom(c, depth) \in 1 .. c.tip
    PROVE  Requested(c, out, RequestFrom(c, depth),
                     RequestFilteredHistory([client |-> c, out |-> out], depth))
<1> DEFINE s == RequestFrom(c, depth)
           r == RequestFilteredHistory([client |-> c, out |-> out], depth)
<1> DEFINE e == Lesser(c.tip, s + Window - 1)
<1>1. /\ c.tip \in 0 .. MaxTip /\ c.filter \in SUBSET Element /\ MaxTip \in Nat
      /\ Window \in Nat \ {0} /\ 1 \in Peer /\ out \in [Peer -> Seq(Ask)]
  BY ClientFields DEF Outs
<1> HIDE DEF s
<1>1a. s \in 1 .. c.tip
  BY DEF s
<1>2. e \in s .. c.tip
  BY <1>1, <1>1a DEF Lesser
<1>3. r = [client |-> [c EXCEPT !.lastEnd = e],
           out    |-> [out EXCEPT ![1] = (@ \o <<Load(c.filter)>>) \o Gets(s, e)]]
  BY <1>1, <1>1a DEF RequestFilteredHistory, Gets, s
<1> HIDE DEF e, r
<1>4. (out[1] \o <<Load(c.filter)>>) \o Gets(s, e) = out[1] \o Stream(c.filter, s, e)
  <2>1. e \in s .. MaxTip /\ s \in 1 .. MaxTip
    BY <1>1, <1>1a, <1>2
  <2> DEFINE L == <<Load(c.filter)>>
             G == Gets(s, e)
             a == out[1]
  <2>2. G \in Seq(Ask)
    <3>1. e - s + 1 \in Nat /\ \A i \in 1 .. e - s + 1 : Get(s + i - 1) \in Ask
      BY <1>1, <2>1 DEF Ask
    <3> QED
      BY <3>1 DEF Gets
  <2>3. a \in Seq(Ask) /\ L \in Seq(Ask)
    BY <1>1 DEF Ask
  <2>4. Stream(c.filter, s, e) = L \o G
    BY DEF Stream
  <2> HIDE DEF L, G, a
  <2>5. (a \o L) \o G = a \o (L \o G)
    BY <2>2, <2>3, ConcatAssociative
  <2> QED
    BY <2>4, <2>5 DEF L, G, a
<1>5. [c EXCEPT !.lastEnd = e] =
         Made(c.tip, e, c.tails, c.last, c.block, c.pending, c.filter, c.found)
  BY DEF Client, Made
<1>6. Requested(c, out, s, r)
  BY <1>2, <1>3, <1>4, <1>5 DEF Requested
<1> QED
  BY <1>6 DEF s, r

(* The merkleblock branch: the client waits for the block's transactions,  *)
(* and may ask for the next window.                                        *)
MerkleDone(c, h, M, d) ==
    /\ d \in Client /\ d.pending = M /\ d.block = h
    /\ d.filter = c.filter /\ d.found = c.found
    /\ d.tip = IF h = c.tip + 1 THEN h ELSE c.tip

Kept(c, out, r) ==
    /\ r.client.lastEnd = c.lastEnd /\ r.client.last = c.last /\ r.client.tails = c.tails
    /\ r.out = out

NextWindow(c, r) ==
    /\ r.client.pending = {} /\ r.client.block >= c.lastEnd
    /\ r.client.last = None /\ r.client.tails = 0
    /\ c.lastEnd >= 0 /\ r.client.lastEnd \in c.lastEnd + 1 .. r.client.tip
    /\ r.out = Asking(Nothing, c.filter, c.lastEnd + 1, r.client.lastEnd)

(* A merkleblock makes its transactions the awaited ones; it may open the  *)
(* next window, and sends nothing else.                                    *)
LEMMA MerkleDoes ==
    ASSUME NEW c \in Client, NEW h \in 1 .. MaxTip, NEW M \in SUBSET Tx,
           NEW r, r = RecvMerkleblock(c, h, M)
    PROVE  /\ MerkleDone(c, h, M, r.client)
           /\ Kept(c, Nothing, r) \/ NextWindow(c, r)
<1> DEFINE tip == IF h = c.tip + 1 THEN h ELSE c.tip
           c1 == [c EXCEPT !.tip = IF h = c.tip + 1 THEN h ELSE @,
                           !.pending = M, !.block = h]
           c2 == [c1 EXCEPT !.tails = 0, !.last = None]
<1>1. /\ c.tip \in 0 .. MaxTip /\ c.lastEnd \in -1 .. MaxTip /\ c.tails \in 0 .. TailLimit
      /\ c.last \in [tx : Tx \cup {NULL}, height : -1 .. MaxTip]
      /\ c.filter \in SUBSET Element /\ c.found \in SUBSET Tx
      /\ MaxTip \in Nat /\ TailLimit \in Nat /\ 1 \in Peer /\ Nothing \in Outs
      /\ None \in [tx : Tx \cup {NULL}, height : -1 .. MaxTip] /\ 0 \in 0 .. TailLimit
      /\ tip \in 0 .. MaxTip /\ h \in -1 .. MaxTip
  BY ClientFields DEF Nothing, None, Outs
<1>2. /\ c1 = Made(tip, c.lastEnd, c.tails, c.last, h, M, c.filter, c.found)
      /\ c2 = Made(tip, c.lastEnd, 0, None, h, M, c.filter, c.found)
  <2>1. c1 = [c EXCEPT !.tip = tip, !.pending = M, !.block = h]
    OBVIOUS
  <2> HIDE DEF tip, c1
  <2>2. c1 = Made(tip, c.lastEnd, c.tails, c.last, h, M, c.filter, c.found)
    BY <2>1 DEF Made, Client
  <2>3. c2 = [c1 EXCEPT !.tails = 0, !.last = None]
    OBVIOUS
  <2> HIDE DEF c2
  <2>4. c1.tip = tip /\ c1.lastEnd = c.lastEnd /\ c1.block = h /\ c1.pending = M
        /\ c1.filter = c.filter /\ c1.found = c.found /\ c1 \in Client
    BY <1>1, <2>2, MadeFields
  <2>5. c2 = Made(c1.tip, c1.lastEnd, 0, None, c1.block, c1.pending, c1.filter, c1.found)
    BY <2>3, <2>4 DEF Made, Client
  <2> QED
    BY <2>2, <2>4, <2>5
<1>5. r = IF c.lastEnd >= 0 /\ WindowRead(c1, h, M)
          THEN RequestFilteredHistory([client |-> c2, out |-> Nothing], 0)
          ELSE [client |-> c1, out |-> Nothing]
  BY DEF RecvMerkleblock, Idle, Nothing
<1> HIDE DEF c1, c2
<1>3. /\ MerkleDone(c, h, M, c1) /\ c1.lastEnd = c.lastEnd /\ c1.last = c.last
      /\ c1.tails = c.tails /\ c1.tip = tip
  <2> HIDE DEF tip
  <2>1. /\ c1 \in Client /\ c1.pending = M /\ c1.block = h /\ c1.filter = c.filter
        /\ c1.found = c.found /\ c1.tip = tip /\ c1.lastEnd = c.lastEnd
        /\ c1.last = c.last /\ c1.tails = c.tails
    BY <1>1, <1>2, MadeFields
  <2> QED
    BY <2>1 DEF MerkleDone, tip
<1> HIDE DEF tip
<1>4. /\ c2 \in Client /\ c2.lastEnd = c.lastEnd /\ c2.tip = tip /\ c2.filter = c.filter
      /\ c2.tails = 0 /\ c2.last = None /\ c2.block = h /\ c2.pending = M
      /\ c2.found = c.found
  BY <1>1, <1>2, MadeFields
<1>6. CASE c.lastEnd >= 0 /\ WindowRead(c1, h, M)
  <2>1. r = RequestFilteredHistory([client |-> c2, out |-> Nothing], 0)
    BY <1>5, <1>6
  <2>2. c.lastEnd >= 0 /\ c.lastEnd < tip
    BY <1>3, <1>6 DEF WindowRead
  <2>3. /\ c.lastEnd + 1 = RequestFrom(c2, 0) /\ c.lastEnd + 1 \in 1 .. c2.tip
        /\ 0 \in 0 .. MaxTip
    BY <1>1, <1>4, <2>2 DEF RequestFrom
  <2> DEFINE s == c.lastEnd + 1
  <2>3a. s = RequestFrom(c2, 0) /\ s \in 1 .. c2.tip
    BY <2>3
  <2> HIDE DEF s
  <2>3b. Requested(c2, Nothing, s, r)
    BY <1>1, <1>4, <2>1, <2>3a, RequestDoes
  <2>4. PICK e \in s .. c2.tip :
           r = [client |-> Made(c2.tip, e, c2.tails, c2.last, c2.block, c2.pending, c2.filter,
                                c2.found),
                out    |-> [Nothing EXCEPT ![1] = @ \o Stream(c2.filter, s, e)]]
    BY <2>3b DEF Requested
  <2>5. r.client = Made(tip, e, 0, None, h, M, c.filter, c.found)
        /\ r.out = [Nothing EXCEPT ![1] = @ \o Stream(c.filter, c.lastEnd + 1, e)]
    BY <1>4, <2>4 DEF s
  <2>6. e \in -1 .. MaxTip /\ e \in c.lastEnd + 1 .. tip
    BY <1>1, <1>4, <2>4 DEF s
  <2>7. /\ r.client \in Client /\ r.client.tip = tip /\ r.client.lastEnd = e
        /\ r.client.tails = 0 /\ r.client.last = None /\ r.client.block = h
        /\ r.client.pending = M /\ r.client.filter = c.filter /\ r.client.found = c.found
    BY <1>1, <2>5, <2>6, MadeFields, SMTT(30)
  <2>8. NextWindow(c, r)
    <3>1. M = {} /\ h >= c.lastEnd
      BY <1>3, <1>6 DEF WindowRead
    <3> QED
      BY <2>2, <2>5, <2>6, <2>7, <3>1 DEF NextWindow, Asking
  <2>9. MerkleDone(c, h, M, r.client)
    BY <2>7 DEF MerkleDone, tip
  <2> QED
    BY <2>8, <2>9
<1>7. CASE ~(c.lastEnd >= 0 /\ WindowRead(c1, h, M))
  <2>1. r.client = c1 /\ r.out = Nothing
    BY <1>5, <1>7
  <2>2. Kept(c, Nothing, r)
    BY <1>3, <2>1 DEF Kept
  <2> QED
    BY <1>3, <2>1, <2>2
<1> QED
  BY <1>6, <1>7

(* The tx branch, for a transaction that is awaited: it is handed over and *)
(* added to the filters, and the blocks above may be asked for again.      *)
TxDone(c, t, d) ==
    /\ d \in Client /\ d.pending = c.pending \ {t} /\ d.found = c.found \cup {t}
    /\ d.filter = c.filter \cup {Entry(t)} /\ d.tip = c.tip
    /\ d.block = IF d.pending = {} THEN -1 ELSE c.block

Adds(t) == [p \in Peer |-> <<Add(Entry(t))>>]

(* All peers are sent the outpoint.                                        *)
LEMMA AddsIs ==
    ASSUME NEW t \in Tx
    PROVE  Adds(t) \in Outs /\ \A p \in Peer : Adds(t)[p] = <<Add(Entry(t))>>
<1> DEFINE L == <<Add(Entry(t))>>
<1>1. L \in Seq(Ask)
  BY OneAdd
<1>2. Adds(t) = [p \in Peer |-> L]
  BY DEF Adds
<1> HIDE DEF L
<1>3. Adds(t) \in Outs /\ \A p \in Peer : Adds(t)[p] = L
  BY <1>1, <1>2 DEF Outs
<1> QED
  BY <1>3 DEF L

TailAsked(c, t, r) ==
    /\ r.client.last = [tx |-> t, height |-> c.block]
    /\ r.client.tails = c.tails + 1
    /\ r.client.lastEnd \in c.block + 1 .. c.tip
    /\ r.out = Asking(Adds(t), r.client.filter, c.block + 1, r.client.lastEnd)

(* An awaited transaction is found and added to the filters; the blocks    *)
(* above may be asked for again.                                           *)
LEMMA TxDoes ==
    ASSUME NEW c \in Client, NEW t \in c.pending, c.block >= 1,
           NEW r, r = RecvTx(c, t)
    PROVE  /\ TxDone(c, t, r.client)
           /\ IF TailNeeded(c, t) THEN TailAsked(c, t, r) ELSE Kept(c, Adds(t), r)
<1> DEFINE pend == c.pending \ {t}
           fltr == c.filter \cup {Entry(t)}
           found == c.found \cup {t}
           here == [tx |-> t, height |-> c.block]
           c0 == [c EXCEPT !.pending = @ \ {t}, !.found = @ \cup {t}]
           c1 == [c0 EXCEPT !.filter = @ \cup {Entry(t)}]
           q  == [client |-> c1, out |-> Adds(t)]
           r1 == IF TailNeeded(q.client, t) THEN RequestTail(q, t) ELSE q
<1>1. /\ c.tip \in 0 .. MaxTip /\ c.lastEnd \in -1 .. MaxTip /\ c.tails \in 0 .. TailLimit
      /\ c.last \in [tx : Tx \cup {NULL}, height : -1 .. MaxTip] /\ c.block \in 1 .. MaxTip
      /\ pend \in SUBSET Tx /\ fltr \in SUBSET Element /\ found \in SUBSET Tx
      /\ here \in [tx : Tx \cup {NULL}, height : -1 .. MaxTip] /\ t \in Tx
      /\ MaxTip \in Nat /\ TailLimit \in Nat /\ 1 \in Peer /\ c.block \in -1 .. MaxTip
  <2>1. t \in Tx /\ Entry(t) \in Element
    BY ClientFields, EntryIs
  <2> QED
    BY <2>1, ClientFields
<1>2. Adds(t) \in Outs
  BY <1>1, AddsIs
<1>3. r = IF r1.client.pending = {} THEN [r1 EXCEPT !.client.block = -1] ELSE r1
  <2>1. Append(<<>>, Add(Entry(t))) = <<Add(Entry(t))>>
    OBVIOUS
  <2>2. FilterAdd(Idle(c0), t) = q
    BY <2>1 DEF FilterAdd, Idle, Adds, Entry
  <2> QED
    BY <2>2 DEF RecvTx
<1>4. c1 = Made(c.tip, c.lastEnd, c.tails, c.last, c.block, pend, fltr, found)
  <2>1. c0 = [c EXCEPT !.pending = pend, !.found = found]
    OBVIOUS
  <2> HIDE DEF c0, pend, found
  <2>2. c0 = Made(c.tip, c.lastEnd, c.tails, c.last, c.block, pend, c.filter, found)
    BY <2>1 DEF Made, Client
  <2>3. c0.filter = c.filter
    BY <2>2, MadeFields
  <2>4. c1 = [c0 EXCEPT !.filter = fltr]
    BY <2>3
  <2> HIDE DEF c1, fltr
  <2> QED
    BY <2>2, <2>4 DEF Made
<1> HIDE DEF pend, fltr, found, here, c0, c1
<1>5. /\ c1 \in Client /\ c1.pending = pend /\ c1.found = found /\ c1.filter = fltr
      /\ c1.tip = c.tip /\ c1.block = c.block /\ c1.lastEnd = c.lastEnd
      /\ c1.last = c.last /\ c1.tails = c.tails
  BY <1>1, <1>4, MadeFields
<1>6. r1 = IF TailNeeded(c, t) THEN RequestTail(q, t) ELSE q
  <2>1. TailNeeded(c1, t) <=> TailNeeded(c, t)
    BY <1>5 DEF TailNeeded
  <2> QED
    BY <2>1
<1>7. q = [client |-> c1, out |-> Adds(t)]
  OBVIOUS
<1> HIDE DEF q, r1
<1>8. ASSUME NEW d \in Client, NEW out, r1 = [client |-> d, out |-> out], d.tip = c.tip,
             d.block = c.block, d.pending = pend, d.filter = fltr, d.found = found
      PROVE  /\ TxDone(c, t, r.client) /\ r.client.lastEnd = d.lastEnd
             /\ r.client.last = d.last /\ r.client.tails = d.tails /\ r.out = out
  <2>1. CASE pend = {}
    <3>1. r = [client |-> [d EXCEPT !.block = -1], out |-> out]
      BY <1>3, <1>8, <2>1
    <3> DEFINE e == [d EXCEPT !.block = -1]
    <3>2. /\ e.tip = d.tip /\ e.lastEnd = d.lastEnd /\ e.tails = d.tails /\ e.last = d.last
          /\ e.block = -1 /\ e.pending = d.pending /\ e.filter = d.filter /\ e.found = d.found
      BY DEF Client
    <3>3. -1 \in -1 .. MaxTip
      BY <1>1
    <3>4. e \in Client
      BY <3>3 DEF Client
    <3> HIDE DEF e
    <3>5. r.client = e /\ r.out = out
      BY <3>1 DEF e
    <3> QED
      BY <1>8, <2>1, <3>2, <3>4, <3>5 DEF TxDone, pend, fltr, found
  <2>2. CASE pend # {}
    <3>1. r.client = d /\ r.out = out
      BY <1>3, <1>8, <2>2
    <3> QED
      BY <1>8, <2>2, <3>1 DEF TxDone, pend, fltr, found
  <2> QED
    BY <2>1, <2>2
<1>9. CASE ~TailNeeded(c, t)
  <2>1. r1 = [client |-> c1, out |-> Adds(t)]
    BY <1>6, <1>7, <1>9
  <2>2. /\ TxDone(c, t, r.client) /\ r.client.lastEnd = c1.lastEnd
        /\ r.client.last = c1.last /\ r.client.tails = c1.tails /\ r.out = Adds(t)
    BY <1>5, <1>8, <2>1
  <2>3. Kept(c, Adds(t), r)
    BY <1>5, <2>2 DEF Kept
  <2> QED
    BY <1>9, <2>2, <2>3
<1>10. CASE TailNeeded(c, t)
  <2> DEFINE c2 == Made(c.tip, c.block, c.tails + 1, here, c.block, pend, fltr, found)
  <2>1. c.tails + 1 \in 0 .. TailLimit /\ c.tip > c.block
    BY <1>1, <1>10 DEF TailNeeded
  <2>2. /\ c2 \in Client /\ c2.tip = c.tip /\ c2.lastEnd = c.block /\ c2.tails = c.tails + 1
        /\ c2.last = here /\ c2.block = c.block /\ c2.pending = pend /\ c2.filter = fltr
        /\ c2.found = found
    BY <1>1, <2>1, MadeFields
  <2> DEFINE q2 == [q EXCEPT !.client.tails = @ + 1,
                             !.client.last = [tx |-> t, height |-> q.client.block],
                             !.client.lastEnd = q.client.block]
  <2>3. q2 = [client |-> c2, out |-> Adds(t)]
    <3>1. q.client = c1 /\ q.out = Adds(t)
      BY <1>7
    <3>2. q2 = [q EXCEPT !.client.tails = c.tails + 1, !.client.last = here,
                         !.client.lastEnd = c.block]
      BY <1>5, <3>1 DEF here
    <3> HIDE DEF q2, c2
    <3> DEFINE x == c.tails + 1
    <3> HIDE DEF x
    <3>3. q2 = [q EXCEPT !.client.tails = x, !.client.last = here, !.client.lastEnd = c.block]
      BY <3>2 DEF x
    <3>4. q2 = [client |-> Made(c.tip, c.block, x, here, c.block, pend, fltr, found),
                out    |-> Adds(t)]
      BY <1>4, <1>7, <3>3, ZenonT(40) DEF Made
    <3> QED
      BY <3>4 DEF x, c2
  <2> HIDE DEF c2
  <2>4. r1 = RequestFilteredHistory([client |-> c2, out |-> Adds(t)], c.tip - c.block)
    <3>1. q.client.tip = c.tip /\ q.client.block = c.block
      BY <1>5, <1>7
    <3>2. RequestTail(q, t) = RequestFilteredHistory(q2, q.client.tip - q.client.block)
      BY DEF RequestTail
    <3> HIDE DEF q2
    <3> QED
      BY <1>6, <1>10, <2>3, <3>1, <3>2
  <2> DEFINE s == c.block + 1
             n == c.tip - c.block
  <2>5. s = RequestFrom(c2, n) /\ s \in 1 .. c2.tip
    BY <1>1, <2>1, <2>2 DEF RequestFrom
  <2>6. r1 = RequestFilteredHistory([client |-> c2, out |-> Adds(t)], n)
    BY <2>4
  <2> HIDE DEF s, n, q2
  <2>7. Requested(c2, Adds(t), s, r1)
    BY <1>2, <2>2, <2>5, <2>6, RequestDoes
  <2>8. PICK e \in s .. c2.tip :
           r1 = [client |-> Made(c2.tip, e, c2.tails, c2.last, c2.block, c2.pending, c2.filter,
                                 c2.found),
                 out    |-> [Adds(t) EXCEPT ![1] = @ \o Stream(c2.filter, s, e)]]
    BY <2>7 DEF Requested
  <2> DEFINE d == Made(c2.tip, e, c2.tails, c2.last, c2.block, c2.pending, c2.filter, c2.found)
             o == [Adds(t) EXCEPT ![1] = @ \o Stream(c2.filter, s, e)]
  <2>9. e \in -1 .. MaxTip /\ e \in c.block + 1 .. c.tip
    BY <1>1, <2>2, <2>8 DEF s
  <2>10. /\ d \in Client /\ d.tip = c.tip /\ d.lastEnd = e /\ d.tails = c.tails + 1
         /\ d.last = here /\ d.block = c.block /\ d.pending = pend /\ d.filter = fltr
         /\ d.found = found
    BY <1>1, <2>1, <2>2, <2>9, MadeFields
  <2>11. r1 = [client |-> d, out |-> o]
    BY <2>8
  <2> HIDE DEF d, o
  <2>12. /\ TxDone(c, t, r.client) /\ r.client.lastEnd = d.lastEnd
         /\ r.client.last = d.last /\ r.client.tails = d.tails /\ r.out = o
    BY <1>8, <2>10, <2>11
  <2>13. r.client.filter = c2.filter
    BY <2>2, <2>12 DEF TxDone, fltr
  <2>14. r.out = Asking(Adds(t), r.client.filter, c.block + 1, r.client.lastEnd)
    BY <2>10, <2>12, <2>13 DEF o, s, Asking
  <2>15. TailAsked(c, t, r)
    BY <2>9, <2>10, <2>12, <2>14 DEF here, TailAsked
  <2> QED
    BY <1>10, <2>12, <2>15
<1> QED
  BY <1>9, <1>10

-----------------------------------------------------------------------------
(* What a peer answers.                                                    *)

(* SetToSeq lists every member of a finite set once.                       *)
LEMMA SetToSeqLists ==
    ASSUME NEW M \in SUBSET Tx
    PROVE  /\ Cardinality(M) \in Nat
           /\ SetToSeq(M) \in [1 .. Cardinality(M) -> M]
           /\ \A i, j \in 1 .. Cardinality(M) : i # j => SetToSeq(M)[i] # SetToSeq(M)[j]
           /\ \A t \in M : \E i \in 1 .. Cardinality(M) : SetToSeq(M)[i] = t
<1> DEFINE n == Cardinality(M)
           f == SetToSeq(M)
<1>1. IsFiniteSet(M)
  BY FilteredScanAssumption, FS_Subset
<1>2. n \in Nat /\ ExistsBijection(1 .. n, M)
  BY <1>1, FS_CardinalityType
<1>3. \E g \in [1 .. n -> M] : IsInjective(g)
  BY <1>2 DEF ExistsBijection, Bijection, Injection
<1>4. f \in [1 .. n -> M] /\ IsInjective(f)
  BY <1>3 DEF SetToSeq
<1> HIDE DEF f
<1>5. f \in Injection(1 .. n, M)
  BY <1>4 DEF Injection
<1>6. Cardinality(1 .. n) = n
  <2>1. 1 \in Int /\ n \in Int
    BY <1>2
  <2>2. Cardinality(1 .. n) = IF 1 > n THEN 0 ELSE n - 1 + 1
    BY <2>1, FS_Interval
  <2> QED
    BY <1>2, <2>2
<1>7. f \in Surjection(1 .. n, M)
  BY <1>1, <1>5, <1>6, FS_Injection
<1> QED
  BY <1>2, <1>4, <1>7 DEF IsInjective, Surjection, f

Txs(M) == [i \in 1 .. Cardinality(M) |-> TxMsg(SetToSeq(M)[i])]
Answer(h, M) == <<Merkle(h, M)>> \o Txs(M)

(* A block is answered by its merkleblock and then the transactions of it  *)
(* that match, each once.                                                  *)
LEMMA AnswerIs ==
    ASSUME NEW h \in 1 .. MaxTip, NEW M \in SUBSET Tx, NEW B \in Seq(Reply)
    PROVE  /\ Answer(h, M) \in Seq(Reply) /\ Cardinality(M) \in Nat
           /\ Len(Answer(h, M)) = Cardinality(M) + 1
           /\ Answer(h, M)[1] = Merkle(h, M)
           /\ \A i \in 1 .. Cardinality(M) : Answer(h, M)[i + 1] = TxMsg(SetToSeq(M)[i])
           /\ Append(B, Merkle(h, M)) \o Txs(M) = B \o Answer(h, M)
<1> DEFINE n == Cardinality(M)
           X == Answer(h, M)
           T == Txs(M)
           L == <<Merkle(h, M)>>
<1>1. n \in Nat /\ SetToSeq(M) \in [1 .. n -> M]
  BY SetToSeqLists
<1>2. \A i \in 1 .. n : TxMsg(SetToSeq(M)[i]) \in Reply
  BY <1>1 DEF Reply
<1>3. T \in Seq(Reply) /\ Len(T) = n /\ \A i \in 1 .. n : T[i] = TxMsg(SetToSeq(M)[i])
  BY <1>1, <1>2 DEF Txs
<1>4. L \in Seq(Reply) /\ Len(L) = 1 /\ L[1] = Merkle(h, M)
  BY DEF Reply
<1>5. X = L \o T
  BY DEF Answer
<1>6. Append(B, Merkle(h, M)) = B \o L
  <2>1. Merkle(h, M) \in Reply
    BY DEF Reply
  <2> QED
    BY <2>1, AppendIsConcat
<1> HIDE DEF n, X, T, L
<1>7. /\ X \in Seq(Reply) /\ Len(X) = Len(L) + Len(T)
      /\ \A i \in 1 .. Len(L) : X[i] = L[i]
      /\ \A i \in 1 .. Len(T) : X[Len(L) + i] = T[i]
  <2>1. L \in Seq(Reply) /\ T \in Seq(Reply)
    BY <1>3, <1>4
  <2> QED
    BY <1>5, <2>1, ConcatAt
<1>8. (B \o L) \o T = B \o (L \o T)
  <2>1. L \in Seq(Reply) /\ T \in Seq(Reply)
    BY <1>3, <1>4
  <2> QED
    BY <2>1, ConcatAssociative
<1>9. \A i \in 1 .. n : X[i + 1] = TxMsg(SetToSeq(M)[i])
  <2> TAKE i \in 1 .. n
  <2>1. i + 1 = 1 + i
    BY <1>1
  <2> QED
    BY <1>3, <1>4, <1>7, <2>1
<1>10. Len(X) = n + 1 /\ X[1] = Merkle(h, M)
  BY <1>1, <1>3, <1>4, <1>7
<1> QED
  BY <1>1, <1>5, <1>6, <1>7, <1>8, <1>9, <1>10 DEF n, X, T, L

(* The match of a filter and a block.                                      *)
LEMMA MatchesIs ==
    ASSUME NEW F, NEW h
    PROVE  /\ Matches(F, h) \in SUBSET Tx
           /\ \A t \in Tx : t \in Matches(F, h) <=>
                 TxHeight[t] = h /\ (Parent[t] = NULL \/ TxHash(Parent[t]) \in F)
  BY DEF Matches

-----------------------------------------------------------------------------
(* Types.                                                                  *)

TypeInv ==
    /\ cl \in Client /\ filter \in [Peer -> SUBSET Element] /\ netTip \in StartTip .. MaxTip
    /\ toPeer \in Outs /\ toClient \in [Peer -> Seq(Reply)]
    /\ cl.pending # {} => cl.block >= 1

(* Handling a message keeps the client and what it sends well-formed.      *)
HandledWell(r) ==
    r.client \in Client /\ r.out \in Outs /\ (r.client.pending # {} => r.client.block >= 1)

(* Types after a merkleblock.                                              *)
LEMMA MerkleWell ==
    ASSUME NEW c \in Client, NEW h \in 1 .. MaxTip, NEW M \in SUBSET Tx
    PROVE  HandledWell(RecvMerkleblock(c, h, M))
<1> DEFINE r == RecvMerkleblock(c, h, M)
           d == r.client
           s == c.lastEnd + 1
<1>1. MerkleDone(c, h, M, d) /\ (Kept(c, Nothing, r) \/ NextWindow(c, r))
  BY MerkleDoes
<1> HIDE DEF r
<1>2. d \in Client /\ d.block >= 1
  BY <1>1 DEF MerkleDone
<1>3. Nothing \in Outs
  BY DEF Nothing, Outs
<1>4. CASE NextWindow(c, r)
  <2>1. /\ MaxTip \in Nat /\ d.tip \in 0 .. MaxTip /\ c.filter \in SUBSET Element
        /\ c.lastEnd \in -1 .. MaxTip
    BY <1>2, ClientFields
  <2>2. s \in 1 .. MaxTip /\ d.lastEnd \in s .. MaxTip
    BY <1>4, <2>1 DEF NextWindow
  <2> DEFINE F == c.filter
             e == d.lastEnd
             o == Nothing
  <2>3. r.out = Asking(o, F, s, e)
    BY <1>4 DEF NextWindow
  <2>4. o \in Outs /\ F \in SUBSET Element /\ s \in 1 .. MaxTip /\ e \in s .. MaxTip
    BY <1>3, <2>1, <2>2
  <2> HIDE DEF s, F, e, o
  <2>5. r.out \in Outs
    <3>1. Asking(o, F, s, e) \in Outs
      BY <2>4, AskingOuts
    <3> QED
      BY <2>3, <3>1
  <2> QED
    BY <1>2, <2>5 DEF HandledWell, r
<1>5. CASE Kept(c, Nothing, r)
  BY <1>2, <1>3, <1>5 DEF Kept, HandledWell, r
<1> QED
  BY <1>1, <1>4, <1>5

(* Types after a transaction.                                              *)
LEMMA TxWell ==
    ASSUME NEW c \in Client, NEW t \in c.pending, c.block >= 1
    PROVE  HandledWell(RecvTx(c, t))
<1> DEFINE r == RecvTx(c, t)
           d == r.client
           s == c.block + 1
<1>1. /\ TxDone(c, t, d)
      /\ IF TailNeeded(c, t) THEN TailAsked(c, t, r) ELSE Kept(c, Adds(t), r)
  BY TxDoes
<1> HIDE DEF r
<1>2. d \in Client /\ (d.pending # {} => d.block >= 1)
  BY <1>1 DEF TxDone
<1>3. Adds(t) \in Outs
  <2>1. t \in Tx
    BY ClientFields
  <2> QED
    BY <2>1, AddsIs
<1>4. CASE TailAsked(c, t, r)
  <2>1. /\ MaxTip \in Nat /\ c.tip \in 0 .. MaxTip /\ d.filter \in SUBSET Element
        /\ c.block \in 1 .. MaxTip
    <3>1. c.block \in -1 .. MaxTip /\ MaxTip \in Nat
      BY ClientFields
    <3> QED
      BY <1>2, <3>1, ClientFields
  <2>2. s \in 1 .. MaxTip /\ d.lastEnd \in s .. MaxTip
    BY <1>4, <2>1 DEF TailAsked
  <2> DEFINE F == d.filter
             e == d.lastEnd
             o == Adds(t)
  <2>3. r.out = Asking(o, F, s, e)
    BY <1>4 DEF TailAsked
  <2>4. o \in Outs /\ F \in SUBSET Element /\ s \in 1 .. MaxTip /\ e \in s .. MaxTip
    BY <1>3, <2>1, <2>2
  <2> HIDE DEF s, F, e, o
  <2>5. r.out \in Outs
    <3>1. Asking(o, F, s, e) \in Outs
      BY <2>4, AskingOuts
    <3> QED
      BY <2>3, <3>1
  <2> QED
    BY <1>2, <2>5 DEF HandledWell, r
<1>5. CASE Kept(c, Adds(t), r)
  BY <1>2, <1>3, <1>5 DEF Kept, HandledWell, r
<1> QED
  BY <1>1, <1>4, <1>5

(* Types after either of the two.                                          *)
LEMMA HandlerTypes ==
    ASSUME NEW c \in Client, c.pending # {} => c.block >= 1, NEW m \in Reply
    PROVE  HandledWell(IF m.type = "merkle" THEN RecvMerkleblock(c, m.height, m.matched)
                       ELSE RecvTx(c, m.tx))
<1>1. CASE m.type = "merkle"
  BY <1>1, ReplyKinds, MerkleWell
<1>2. CASE m.type # "merkle" /\ m.tx \notin c.pending
  <2>1. RecvTx(c, m.tx) = Idle(c)
    BY <1>2 DEF RecvTx
  <2>2. Idle(c).client = c /\ Idle(c).out \in Outs
    BY DEF Idle, Outs
  <2>3. HandledWell(Idle(c))
    BY <2>2 DEF HandledWell
  <2> QED
    BY <1>2, <2>1, <2>3
<1>3. CASE m.type # "merkle" /\ m.tx \in c.pending
  BY <1>3, TxWell
<1> QED
  BY <1>1, <1>2, <1>3

(* The first request: everything up to the tip, or a window of it.         *)
Fresh == Made(StartTip, -1, 0, None, -1, {}, {}, {})

(* The scan starts with the first window.                                  *)
LEMMA InitDoes ==
    ASSUME Init
    PROVE  /\ \E e \in 1 .. StartTip :
                 /\ cl = Made(StartTip, e, 0, None, -1, {}, {}, {})
                 /\ toPeer = Asking(Nothing, {}, 1, e)
           /\ toClient = Nothing /\ filter = [p \in Peer |-> {}] /\ netTip = StartTip
<1> DEFINE r == RequestFilteredHistory(Idle(Fresh), StartTip)
<1>1. /\ cl = r.client /\ toPeer = r.out
      /\ toClient = Nothing /\ filter = [p \in Peer |-> {}] /\ netTip = StartTip
  BY DEF Init, Fresh, Made, Nothing
<1>2. Idle(Fresh) = [client |-> Fresh, out |-> Nothing] /\ Nothing \in Outs
  BY DEF Idle, Nothing, Outs
<1>3. StartTip \in 1 .. MaxTip /\ MaxTip \in Nat /\ TailLimit \in Nat
  BY FilteredScanAssumption
<1>4. /\ Fresh \in Client /\ Fresh.tip = StartTip /\ Fresh.lastEnd = -1 /\ Fresh.tails = 0
      /\ Fresh.last = None /\ Fresh.block = -1 /\ Fresh.pending = {} /\ Fresh.filter = {}
      /\ Fresh.found = {}
  <2>1. /\ None \in [tx : Tx \cup {NULL}, height : -1 .. MaxTip] /\ -1 \in -1 .. MaxTip
        /\ 0 \in 0 .. TailLimit /\ StartTip \in 0 .. MaxTip /\ {} \in SUBSET Tx /\ {} \in SUBSET Element
    BY <1>3 DEF None
  <2> QED
    BY <2>1, MadeFields DEF Fresh
<1>5. RequestFrom(Fresh, StartTip) = 1 /\ 1 \in 1 .. Fresh.tip
  BY <1>3, <1>4 DEF RequestFrom
<1>6. Requested(Fresh, Nothing, 1, r)
  BY <1>2, <1>4, <1>5, RequestDoes
<1> HIDE DEF r
<1>7. PICK e \in 1 .. StartTip :
         r = [client |-> Made(StartTip, e, 0, None, -1, {}, {}, {}),
              out    |-> [Nothing EXCEPT ![1] = @ \o Stream({}, 1, e)]]
  BY <1>4, <1>6 DEF Requested
<1> QED
  BY <1>1, <1>7 DEF Asking

(* The types hold at the start.                                            *)
LEMMA InitTypes ==
    ASSUME Init PROVE TypeInv
<1>1. PICK e \in 1 .. StartTip :
         /\ cl = Made(StartTip, e, 0, None, -1, {}, {}, {})
         /\ toPeer = Asking(Nothing, {}, 1, e)
  BY InitDoes
<1>2. toClient = Nothing /\ filter = [p \in Peer |-> {}] /\ netTip = StartTip
  BY InitDoes
<1>3. StartTip \in 1 .. MaxTip /\ MaxTip \in Nat /\ TailLimit \in Nat
  BY FilteredScanAssumption
<1>4. cl \in Client /\ cl.pending = {}
  <2>1. /\ None \in [tx : Tx \cup {NULL}, height : -1 .. MaxTip] /\ -1 \in -1 .. MaxTip
        /\ 0 \in 0 .. TailLimit /\ StartTip \in 0 .. MaxTip /\ {} \in SUBSET Tx /\ {} \in SUBSET Element
        /\ e \in -1 .. MaxTip
    BY <1>3 DEF None
  <2> QED
    BY <1>1, <2>1, MadeFields
<1>5. toPeer \in Outs
  <2>1. Nothing \in Outs /\ {} \in SUBSET Tx /\ {} \in SUBSET Element /\ 1 \in 1 .. MaxTip /\ e \in 1 .. MaxTip
    BY <1>3 DEF Nothing, Outs
  <2> QED
    BY <1>1, <2>1, AskingOuts
<1>6. toClient \in [Peer -> Seq(Reply)] /\ filter \in [Peer -> SUBSET Element]
  BY <1>2 DEF Nothing
<1>7. netTip \in StartTip .. MaxTip
  BY <1>2, <1>3
<1> QED
  BY <1>4, <1>5, <1>6, <1>7 DEF TypeInv

(* What a peer's step does.                                                *)
LEMMA ServeDoes ==
    ASSUME TypeInv, NEW p \in Peer, Serve(p)
    PROVE  LET m == toPeer[p][1]
               M == Matches(filter[p], m.arg)
           IN  /\ toPeer[p] # <<>> /\ m \in Ask
               /\ toPeer' = [toPeer EXCEPT ![p] = Tail(@)] /\ UNCHANGED <<cl, netTip>>
               /\ \/ /\ m.type = "load" /\ m.arg \in SUBSET Element /\ toClient' = toClient
                     /\ filter' = [filter EXCEPT ![p] = m.arg]
                  \/ /\ m.type = "add" /\ m.arg \in Element /\ toClient' = toClient
                     /\ filter' = [filter EXCEPT ![p] = @ \cup {m.arg}]
                  \/ /\ m.type = "get" /\ m.arg \in 1 .. MaxTip
                     /\ filter' = [filter EXCEPT ![p] = @ \cup Entries(M)]
                     /\ toClient' = [toClient EXCEPT ![p] = @ \o Answer(m.arg, M)]
<1> DEFINE m == toPeer[p][1]
           M == Matches(filter[p], m.arg)
<1>1. toPeer[p] \in Seq(Ask) /\ toClient[p] \in Seq(Reply) /\ toPeer[p] # <<>>
  BY DEF TypeInv, Outs, Serve
<1>2. Head(toPeer[p]) = m /\ m \in Ask
  BY <1>1
<1>3. /\ m.type \in {"get", "load", "add"}
      /\ m.type = "get" => m.arg \in 1 .. MaxTip
      /\ m.type = "load" => m.arg \in SUBSET Element
      /\ m.type = "add" => m.arg \in Element
  BY <1>2, AskKinds
<1>4. toPeer' = [toPeer EXCEPT ![p] = Tail(@)] /\ UNCHANGED <<cl, netTip>>
  BY DEF Serve
<1>5. CASE m.type = "load"
  <2>1. filter' = [filter EXCEPT ![p] = m.arg] /\ toClient' = toClient
    BY <1>2, <1>5 DEF Serve
  <2> QED
    BY <1>1, <1>2, <1>3, <1>4, <1>5, <2>1
<1>6. CASE m.type = "add"
  <2>1. filter' = [filter EXCEPT ![p] = @ \cup {m.arg}] /\ toClient' = toClient
    BY <1>2, <1>6 DEF Serve
  <2> QED
    BY <1>1, <1>2, <1>3, <1>4, <1>6, <2>1
<1>7. CASE m.type = "get"
  <2>1. /\ filter' = [filter EXCEPT ![p] = @ \cup Entries(M)]
        /\ toClient' = [toClient EXCEPT ![p] = Append(@, Merkle(m.arg, M)) \o Txs(M)]
    BY <1>2, <1>7 DEF Serve, Txs, Entries
  <2>2. Append(toClient[p], Merkle(m.arg, M)) \o Txs(M) = toClient[p] \o Answer(m.arg, M)
    <3>1. M \in SUBSET Tx /\ m.arg \in 1 .. MaxTip
      BY <1>3, <1>7, MatchesIs
    <3> HIDE DEF M, m
    <3> QED
      BY <1>1, <3>1, AnswerIs
  <2>3. toClient' = [toClient EXCEPT ![p] = @ \o Answer(m.arg, M)]
    BY <2>1, <2>2
  <2> QED
    BY <1>1, <1>2, <1>3, <1>4, <1>7, <2>1, <2>3
<1> QED
  BY <1>3, <1>5, <1>6, <1>7

(* Every step keeps the types.                                             *)
LEMMA NextTypes ==
    ASSUME TypeInv, [Next]_vars PROVE TypeInv'
<1>1. /\ cl \in Client /\ filter \in [Peer -> SUBSET Element] /\ netTip \in StartTip .. MaxTip
      /\ toPeer \in [Peer -> Seq(Ask)] /\ toClient \in [Peer -> Seq(Reply)]
      /\ cl.pending # {} => cl.block >= 1
  BY DEF TypeInv, Outs
<1>2. MaxTip \in Nat /\ StartTip \in 1 .. MaxTip /\ Announcer \in Peer
  BY FilteredScanAssumption
<1>3. CASE UNCHANGED vars \/ Done
  BY <1>3 DEF TypeInv, Done, vars
<1>4. CASE NewBlock
  <2>1. Get(netTip + 1) \in Ask
    <3>1. netTip + 1 \in 1 .. MaxTip
      BY <1>1, <1>2, <1>4 DEF NewBlock
    <3> QED
      BY <3>1 DEF Ask
  <2>2. toPeer' = [toPeer EXCEPT ![Announcer] = Append(@, Get(netTip + 1))]
    BY <1>4 DEF NewBlock
  <2>3. toPeer' \in [Peer -> Seq(Ask)]
    BY <1>1, <1>2, <2>1, <2>2
  <2>4. netTip' \in StartTip .. MaxTip /\ cl' = cl /\ filter' = filter /\ toClient' = toClient
    BY <1>1, <1>2, <1>4 DEF NewBlock
  <2> QED
    BY <1>1, <2>3, <2>4 DEF TypeInv, Outs
<1>5. ASSUME NEW p \in Peer, Recv(p) PROVE TypeInv'
  <2> DEFINE m == Head(toClient[p])
             r == IF m.type = "merkle" THEN RecvMerkleblock(cl, m.height, m.matched)
                  ELSE RecvTx(cl, m.tx)
  <2>1. toClient[p] # <<>> /\ toClient[p] \in Seq(Reply)
    BY <1>1, <1>5 DEF Recv
  <2>2. m \in Reply /\ Tail(toClient[p]) \in Seq(Reply)
    BY <2>1
  <2>3. Becomes(r)
    BY <1>5 DEF Recv
  <2>4. toClient' = [toClient EXCEPT ![p] = Tail(@)] /\ filter' = filter /\ netTip' = netTip
    BY <1>5 DEF Recv
  <2> HIDE DEF m
  <2>5. HandledWell(r)
    BY <1>1, <2>2, HandlerTypes
  <2> HIDE DEF r
  <2>6. cl' \in Client /\ (cl'.pending # {} => cl'.block >= 1)
    BY <2>3, <2>5 DEF Becomes, HandledWell
  <2>7. toPeer' \in [Peer -> Seq(Ask)]
    <3>1. r.out \in [Peer -> Seq(Ask)]
      BY <2>5 DEF HandledWell, Outs
    <3>2. toPeer' = [q \in Peer |-> toPeer[q] \o r.out[q]]
      BY <2>3 DEF Becomes
    <3> QED
      BY <1>1, <3>1, <3>2
  <2>8. toClient' \in [Peer -> Seq(Reply)]
    BY <1>1, <2>2, <2>4
  <2> QED
    BY <1>1, <2>4, <2>6, <2>7, <2>8 DEF TypeInv, Outs
<1>6. ASSUME NEW p \in Peer, Serve(p) PROVE TypeInv'
  <2> DEFINE m == toPeer[p][1]
             M == Matches(filter[p], m.arg)
  <2>1. /\ toPeer[p] # <<>> /\ m \in Ask
        /\ toPeer' = [toPeer EXCEPT ![p] = Tail(@)] /\ UNCHANGED <<cl, netTip>>
        /\ \/ /\ m.type = "load" /\ m.arg \in SUBSET Element /\ toClient' = toClient
              /\ filter' = [filter EXCEPT ![p] = m.arg]
           \/ /\ m.type = "add" /\ m.arg \in Element /\ toClient' = toClient
              /\ filter' = [filter EXCEPT ![p] = @ \cup {m.arg}]
           \/ /\ m.type = "get" /\ m.arg \in 1 .. MaxTip
              /\ filter' = [filter EXCEPT ![p] = @ \cup Entries(M)]
              /\ toClient' = [toClient EXCEPT ![p] = @ \o Answer(m.arg, M)]
    BY <1>6, ServeDoes
  <2>2. M \in SUBSET Tx
    BY MatchesIs
  <2> HIDE DEF M, m
  <2>0. Entries(M) \in SUBSET Element
    BY <2>2, EntryIs DEF Entries
  <2>3. filter' \in [Peer -> SUBSET Element]
    BY <1>1, <2>0, <2>1
  <2>4. toPeer' \in [Peer -> Seq(Ask)]
    <3>1. toPeer[p] \in Seq(Ask) /\ Tail(toPeer[p]) \in Seq(Ask)
      BY <1>1, <2>1
    <3> QED
      BY <1>1, <2>1, <3>1
  <2>5. toClient' \in [Peer -> Seq(Reply)]
    <3>1. CASE toClient' = toClient
      BY <1>1, <3>1
    <3>2. CASE m.arg \in 1 .. MaxTip /\ toClient' = [toClient EXCEPT ![p] = @ \o Answer(m.arg, M)]
      <4>1. Answer(m.arg, M) \in Seq(Reply)
        BY <1>1, <2>2, <3>2, AnswerIs
      <4> QED
        BY <1>1, <3>2, <4>1
    <3> QED
      BY <2>1, <3>1, <3>2
  <2> QED
    BY <1>1, <2>1, <2>3, <2>4, <2>5 DEF TypeInv, Outs
<1> QED
  BY <1>3, <1>4, <1>5, <1>6 DEF Next, Step

(* The client's fields have their types and the repeated requests stay     *)
(* within their limit, whichever peers serve the blocks and announce them. *)
THEOREM ScanTypes == Spec => []TypeOK
<1>1. Init => TypeInv
  BY InitTypes
<1>2. TypeInv /\ [Next]_vars => TypeInv'
  BY NextTypes
<1>3. TypeInv => TypeOK
  BY DEF TypeInv, TypeOK
<1> QED
  BY <1>1, <1>2, <1>3, PTL DEF Spec

-----------------------------------------------------------------------------
(* What is on its way to the client: after each merkleblock its matched    *)
(* transactions, each once, and before the first one those that are        *)
(* awaited.                                                                *)
Ahead(B, i, j) == i < j /\ \A k \in i + 1 .. j : B[k].type = "tx"

Run(B, i, S) ==
    /\ \A j \in 1 .. Len(B) : Ahead(B, i, j) => B[j].tx \in S
    /\ \A j, k \in 1 .. Len(B) : Ahead(B, i, j) /\ Ahead(B, i, k) /\ j # k => B[j].tx # B[k].tx
    /\ \A t \in S : \E j \in 1 .. Len(B) : Ahead(B, i, j) /\ B[j].tx = t

Runs(B, M) ==
    /\ Run(B, 0, M)
    /\ \A i \in 1 .. Len(B) : B[i].type = "merkle" => Run(B, i, B[i].matched)

(* The rest of a queue.                                                    *)
LEMMA TailAt ==
    ASSUME NEW S, NEW B \in Seq(S), B # <<>>, NEW C, C = Tail(B)
    PROVE  /\ C \in Seq(S) /\ Len(B) \in Nat \ {0} /\ Len(C) = Len(B) - 1 /\ B[1] \in S
           /\ \A i \in 1 .. Len(C) : C[i] = B[i + 1] /\ i + 1 \in 1 .. Len(B)
  OBVIOUS

(* A run of the rest is a run of the queue.                                *)
LEMMA AheadTail ==
    ASSUME NEW B \in Seq(Reply), B # <<>>, NEW C, C = Tail(B), NEW i \in Nat,
           NEW j \in 1 .. Len(C)
    PROVE  Ahead(C, i, j) <=> Ahead(B, i + 1, j + 1)
<1>1. /\ Len(B) \in Nat \ {0} /\ Len(C) = Len(B) - 1
      /\ \A k \in 1 .. Len(C) : C[k] = B[k + 1]
  BY TailAt
<1>2. ASSUME Ahead(C, i, j), NEW k \in (i + 1) + 1 .. j + 1 PROVE B[k].type = "tx"
  <2>1. k - 1 \in i + 1 .. j /\ k - 1 \in 1 .. Len(C) /\ (k - 1) + 1 = k
    BY <1>1
  <2> QED
    BY <1>1, <1>2, <2>1 DEF Ahead
<1>3. ASSUME Ahead(B, i + 1, j + 1), NEW k \in i + 1 .. j PROVE C[k].type = "tx"
  <2>1. k + 1 \in (i + 1) + 1 .. j + 1 /\ k \in 1 .. Len(C)
    BY <1>1
  <2> QED
    BY <1>1, <1>3, <2>1 DEF Ahead
<1> QED
  BY <1>1, <1>2, <1>3 DEF Ahead

(* A merkleblock further back keeps its transactions behind it.            *)
LEMMA RunTail ==
    ASSUME NEW B \in Seq(Reply), B # <<>>, NEW C, C = Tail(B), NEW i \in Nat, NEW S,
           Run(B, i + 1, S)
    PROVE  Run(C, i, S)
<1>1. /\ Len(B) \in Nat \ {0} /\ Len(C) = Len(B) - 1
      /\ \A k \in 1 .. Len(C) : C[k] = B[k + 1] /\ k + 1 \in 1 .. Len(B)
  BY TailAt
<1>2. \A j \in 1 .. Len(C) : Ahead(C, i, j) <=> Ahead(B, i + 1, j + 1)
  BY AheadTail
<1>3. ASSUME NEW j \in 1 .. Len(C), Ahead(C, i, j) PROVE C[j].tx \in S
  BY <1>1, <1>2, <1>3 DEF Run
<1>4. ASSUME NEW j \in 1 .. Len(C), NEW k \in 1 .. Len(C), Ahead(C, i, j), Ahead(C, i, k),
             j # k
      PROVE  C[j].tx # C[k].tx
  <2>1. j + 1 # k + 1
    BY <1>1, <1>4
  <2> QED
    BY <1>1, <1>2, <1>4, <2>1 DEF Run
<1>5. ASSUME NEW t \in S PROVE \E j \in 1 .. Len(C) : Ahead(C, i, j) /\ C[j].tx = t
  <2>1. PICK j \in 1 .. Len(B) : Ahead(B, i + 1, j) /\ B[j].tx = t
    BY <1>5 DEF Run
  <2>2. j - 1 \in 1 .. Len(C) /\ (j - 1) + 1 = j
    BY <1>1, <2>1 DEF Ahead
  <2> QED
    BY <1>1, <1>2, <2>1, <2>2
<1> QED
  BY <1>3, <1>4, <1>5 DEF Run

(* A merkleblock is read when nothing is awaited, and what it matched is   *)
(* awaited next.                                                           *)
LEMMA RunsMerkle ==
    ASSUME NEW B \in Seq(Reply), B # <<>>, NEW M, Runs(B, M), B[1].type = "merkle"
    PROVE  M = {} /\ Runs(Tail(B), B[1].matched)
<1> DEFINE C == Tail(B)
<1>1. /\ Len(B) \in Nat \ {0} /\ Len(C) = Len(B) - 1
      /\ \A k \in 1 .. Len(C) : C[k] = B[k + 1] /\ k + 1 \in 1 .. Len(B)
  BY TailAt
<1>2. \A j \in 1 .. Len(B) : ~Ahead(B, 0, j)
  <2>1. \A j \in 1 .. Len(B) : 1 \in 0 + 1 .. j
    BY <1>1
  <2> QED
    BY <2>1 DEF Ahead
<1>3. M = {}
  BY <1>2 DEF Runs, Run
<1> HIDE DEF C
<1>4. C = Tail(B)
  BY DEF C
<1>5. Run(C, 0, B[1].matched)
  <2>1. 1 \in 1 .. Len(B) /\ 0 + 1 = 1 /\ 0 \in Nat
    BY <1>1
  <2>2. Run(B, 0 + 1, B[1].matched)
    BY <2>1 DEF Runs
  <2> QED
    BY <1>4, <2>1, <2>2, RunTail
<1>6. ASSUME NEW i \in 1 .. Len(C), C[i].type = "merkle" PROVE Run(C, i, C[i].matched)
  <2>1. Run(B, i + 1, C[i].matched) /\ i \in Nat
    BY <1>1, <1>6 DEF Runs
  <2> QED
    BY <1>4, <2>1, RunTail
<1> QED
  BY <1>3, <1>5, <1>6 DEF Runs, C

(* A transaction that is read is awaited, and comes once.                  *)
LEMMA RunsTx ==
    ASSUME NEW B \in Seq(Reply), B # <<>>, NEW M, Runs(B, M), B[1].type = "tx"
    PROVE  B[1].tx \in M /\ Runs(Tail(B), M \ {B[1].tx})
<1> DEFINE C == Tail(B)
           t == B[1].tx
<1>1. /\ Len(B) \in Nat \ {0} /\ Len(C) = Len(B) - 1
      /\ \A k \in 1 .. Len(C) : C[k] = B[k + 1] /\ k + 1 \in 1 .. Len(B)
  BY TailAt
<1> HIDE DEF C
<1>2. Ahead(B, 0, 1) /\ 1 \in 1 .. Len(B)
  BY <1>1 DEF Ahead
<1>3. t \in M
  BY <1>2 DEF Runs, Run
<1>4. \A j \in 1 .. Len(C) : Ahead(C, 0, j) <=> Ahead(B, 0, j + 1)
  <2> TAKE j \in 1 .. Len(C)
  <2>1. Ahead(C, 0, j) <=> Ahead(B, 0 + 1, j + 1)
    BY AheadTail DEF C
  <2>2. Ahead(B, 0 + 1, j + 1) <=> Ahead(B, 0, j + 1)
    <3>1. 0 + 1 < j + 1 /\ 0 < j + 1 /\ 0 + 1 .. j + 1 = {1} \cup (0 + 1) + 1 .. j + 1
      BY <1>1
    <3> QED
      BY <3>1 DEF Ahead
  <2> QED
    BY <2>1, <2>2
<1>5. Run(C, 0, M \ {t})
  <2>1. ASSUME NEW j \in 1 .. Len(C), Ahead(C, 0, j) PROVE C[j].tx \in M \ {t}
    <3>1. j + 1 # 1
      BY <1>1
    <3> QED
      BY <1>1, <1>2, <1>4, <2>1, <3>1 DEF Runs, Run
  <2>2. ASSUME NEW j \in 1 .. Len(C), NEW k \in 1 .. Len(C), Ahead(C, 0, j), Ahead(C, 0, k),
               j # k
        PROVE  C[j].tx # C[k].tx
    <3>1. j + 1 # k + 1
      BY <1>1, <2>2
    <3> QED
      BY <1>1, <1>4, <2>2, <3>1, SMTT(30) DEF Runs, Run
  <2>3. ASSUME NEW u \in M \ {t} PROVE \E j \in 1 .. Len(C) : Ahead(C, 0, j) /\ C[j].tx = u
    <3>1. PICK j \in 1 .. Len(B) : Ahead(B, 0, j) /\ B[j].tx = u
      BY <2>3 DEF Runs, Run
    <3>2. j # 1
      BY <2>3, <3>1
    <3>3. j - 1 \in 1 .. Len(C) /\ (j - 1) + 1 = j
      BY <1>1, <3>1, <3>2
    <3> QED
      BY <1>1, <1>4, <3>1, <3>3
  <2> QED
    BY <2>1, <2>2, <2>3 DEF Run
<1>6. ASSUME NEW i \in 1 .. Len(C), C[i].type = "merkle" PROVE Run(C, i, C[i].matched)
  <2>1. Run(B, i + 1, C[i].matched) /\ i \in Nat
    BY <1>1, <1>6 DEF Runs
  <2> QED
    BY <2>1, RunTail DEF C
<1> QED
  BY <1>3, <1>5, <1>6 DEF Runs, C

(* A queue with an answer at its end.                                      *)
LEMMA AnswerAt ==
    ASSUME NEW B \in Seq(Reply), NEW h \in 1 .. MaxTip, NEW N \in SUBSET Tx
    PROVE  LET D == B \o Answer(h, N)
               n == Len(B)
               z == Cardinality(N)
           IN  /\ n \in Nat /\ z \in Nat /\ Len(D) = n + z + 1 /\ D \in Seq(Reply)
               /\ \A i \in 1 .. n : D[i] = B[i]
               /\ D[n + 1] = Merkle(h, N)
               /\ \A i \in 1 .. z : D[n + 1 + i] = TxMsg(SetToSeq(N)[i])
<1> DEFINE D == B \o Answer(h, N)
           X == Answer(h, N)
           n == Len(B)
           z == Cardinality(N)
<1>1. /\ X \in Seq(Reply) /\ z \in Nat /\ Len(X) = z + 1 /\ X[1] = Merkle(h, N)
      /\ \A i \in 1 .. z : X[i + 1] = TxMsg(SetToSeq(N)[i])
  BY AnswerIs
<1>2. D = B \o X /\ X \in Seq(Reply)
  BY <1>1
<1> HIDE DEF D, X, z
<1>3. /\ D \in Seq(Reply) /\ Len(D) = Len(B) + Len(X) /\ Len(B) \in Nat
      /\ \A i \in 1 .. Len(B) : D[i] = B[i]
      /\ \A i \in 1 .. Len(X) : D[Len(B) + i] = X[i]
  BY <1>2, ConcatAt
<1> HIDE DEF n
<1>4. D \in Seq(Reply) /\ Len(D) = n + z + 1 /\ n \in Nat /\ D[n + 1] = Merkle(h, N)
  <2>1. 1 \in 1 .. Len(X)
    BY <1>1
  <2> QED
    BY <1>1, <1>3, <2>1 DEF n
<1>5. ASSUME NEW i \in 1 .. z PROVE D[n + 1 + i] = TxMsg(SetToSeq(N)[i])
  <2> DEFINE x == Len(X)
  <2>3. z \in Nat /\ x = z + 1 /\ n \in Nat
    BY <1>1, <1>4
  <2> HIDE DEF x
  <2>4. i + 1 \in 1 .. x /\ n + (i + 1) = n + 1 + i
    BY <2>3
  <2>1. i + 1 \in 1 .. Len(X) /\ n + (i + 1) = n + 1 + i
    BY <2>4 DEF x
  <2>2. D[n + (i + 1)] = X[i + 1]
    BY <1>3, <2>1 DEF n
  <2> QED
    BY <1>1, <2>1, <2>2
<1>6. \A i \in 1 .. n : D[i] = B[i]
  BY <1>3 DEF n
<1> QED
  BY <1>1, <1>4, <1>5, <1>6 DEF D, n, z

(* A peer's answer adds a run of its own.                                  *)
LEMMA RunsAnswer ==
    ASSUME NEW B \in Seq(Reply), NEW M, Runs(B, M), NEW h \in 1 .. MaxTip,
           NEW N \in SUBSET Tx
    PROVE  Runs(B \o Answer(h, N), M)
<1> DEFINE D == B \o Answer(h, N)
           n == Len(B)
           z == Cardinality(N)
           f == SetToSeq(N)
<1>1. /\ n \in Nat /\ z \in Nat /\ Len(D) = n + z + 1
      /\ \A i \in 1 .. n : D[i] = B[i]
      /\ D[n + 1] = Merkle(h, N)
      /\ \A i \in 1 .. z : D[n + 1 + i] = TxMsg(f[i])
  BY AnswerAt
<1>2. /\ f \in [1 .. z -> N]
      /\ \A i, j \in 1 .. z : i # j => f[i] # f[j]
      /\ \A t \in N : \E i \in 1 .. z : f[i] = t
  BY SetToSeqLists
<1> HIDE DEF D, n, z, f
<1>3. D[n + 1].type = "merkle" /\ D[n + 1].matched = N
  BY <1>1 DEF Merkle
<1>4. \A i \in 1 .. z : D[n + 1 + i].type = "tx" /\ D[n + 1 + i].tx = f[i]
  <2> TAKE i \in 1 .. z
  <2>1. D[n + 1 + i] = TxMsg(f[i])
    BY <1>1
  <2> QED
    BY <2>1 DEF TxMsg
<1>5. ASSUME NEW i \in 0 .. n, NEW S, Run(B, i, S) PROVE Run(D, i, S)
  <2>1. \A j \in 1 .. Len(D) : Ahead(D, i, j) <=> j \in 1 .. n /\ Ahead(B, i, j)
    <3> TAKE j \in 1 .. Len(D)
    <3>1. CASE j \in 1 .. n
      <4>1. \A k \in i + 1 .. j : k \in 1 .. n
        BY <1>1, <3>1
      <4>2. \A k \in i + 1 .. j : D[k] = B[k]
        BY <1>1, <4>1
      <4> QED
        BY <3>1, <4>2 DEF Ahead
    <3>2. CASE j \notin 1 .. n
      <4>1. n + 1 \in i + 1 .. j
        BY <1>1, <3>2
      <4> QED
        BY <1>3, <3>2, <4>1 DEF Ahead
    <3> QED
      BY <3>1, <3>2
  <2>2. 1 .. n \subseteq 1 .. Len(D)
    BY <1>1
  <2> QED
    BY <1>1, <1>5, <2>1, <2>2 DEF Run, n
<1>6. Run(D, n + 1, N)
  <2>1. \A j \in 1 .. Len(D) : Ahead(D, n + 1, j) => j - n - 1 \in 1 .. z /\ n + 1 + (j - n - 1) = j
    BY <1>1 DEF Ahead
  <2>2. \A i \in 1 .. z : n + 1 + i \in 1 .. Len(D) /\ Ahead(D, n + 1, n + 1 + i)
    <3> TAKE i \in 1 .. z
    <3>1. \A k \in (n + 1) + 1 .. n + 1 + i : k - n - 1 \in 1 .. z /\ n + 1 + (k - n - 1) = k
      BY <1>1
    <3>2. \A k \in (n + 1) + 1 .. n + 1 + i : D[k].type = "tx"
      BY <1>4, <3>1
    <3> QED
      BY <1>1, <3>2 DEF Ahead
  <2>3. ASSUME NEW j \in 1 .. Len(D), Ahead(D, n + 1, j) PROVE D[j].tx \in N
    BY <1>2, <1>4, <2>1, <2>3
  <2>4. ASSUME NEW j \in 1 .. Len(D), NEW k \in 1 .. Len(D), Ahead(D, n + 1, j),
               Ahead(D, n + 1, k), j # k
        PROVE  D[j].tx # D[k].tx
    <3>1. j - n - 1 # k - n - 1
      BY <1>1, <2>4
    <3> QED
      BY <1>2, <1>4, <2>1, <2>4, <3>1
  <2>5. ASSUME NEW t \in N
        PROVE  \E j \in 1 .. Len(D) : Ahead(D, n + 1, j) /\ D[j].tx = t
    BY <1>2, <1>4, <2>2, <2>5
  <2> QED
    BY <2>3, <2>4, <2>5 DEF Run
<1>7. ASSUME NEW i \in 1 .. Len(D), D[i].type = "merkle" PROVE Run(D, i, D[i].matched)
  <2>1. CASE i \in 1 .. n
    <3>1. D[i] = B[i] /\ i \in 0 .. n
      BY <1>1, <2>1
    <3>2. Run(B, i, D[i].matched)
      BY <1>7, <2>1, <3>1 DEF Runs, n
    <3> QED
      BY <1>5, <3>1, <3>2
  <2>2. CASE i = n + 1
    BY <1>3, <1>6, <2>2
  <2>3. CASE i \notin 1 .. n + 1
    <3>1. i - n - 1 \in 1 .. z /\ n + 1 + (i - n - 1) = i
      BY <1>1, <2>3
    <3> QED
      BY <1>4, <1>7, <3>1
  <2> QED
    BY <1>1, <2>1, <2>2, <2>3
<1>8. Run(D, 0, M)
  <2>1. 0 \in 0 .. n /\ Run(B, 0, M)
    BY <1>1 DEF Runs
  <2> QED
    BY <1>5, <2>1
<1> QED
  BY <1>7, <1>8 DEF Runs, D

-----------------------------------------------------------------------------
(* What the client knows: a transaction it has or awaits, or one that a    *)
(* merkleblock on its way, before the n-th message, tells of.              *)
Know(S, B, n, t) == t \in S \/ \E j \in 1 .. Len(B) : j < n /\ t \in B[j].matched

(* The filter is of what was found; a peer only has outpoints of what the  *)
(* client has found or is about to; and the parent of a matched            *)
(* transaction reaches the client before it.                               *)
KnowInv(c, B, P) ==
    /\ \A x \in c.filter : x.tx \in c.found
    /\ \A t \in c.pending : TxHeight[t] = c.block /\ (Parent[t] # NULL => Parent[t] \in c.found)
    /\ \A i \in 1 .. Len(B) : \A t \in B[i].matched :
          /\ TxHeight[t] = B[i].height
          /\ (Parent[t] # NULL => Know(c.found \cup c.pending, B, i, Parent[t]))
    /\ \A x \in P : Know(c.found \cup c.pending, B, Len(B) + 1, x.tx)

(* A peer is only told of what was found.                                  *)
Told(A, F) ==
    \A i \in 1 .. Len(A) : /\ A[i].type = "load" => \A x \in A[i].arg : x.tx \in F
                           /\ A[i].type = "add" => A[i].arg.tx \in F

(* The first message is read: what it told of is awaited.                  *)
LEMMA KnowTail ==
    ASSUME NEW B \in Seq(Reply), B # <<>>, NEW S, NEW S2, S \subseteq S2,
           B[1].matched \subseteq S2, NEW n \in Nat, NEW t, Know(S, B, n, t)
    PROVE  Know(S2, Tail(B), n - 1, t)
<1> DEFINE C == Tail(B)
<1>1. /\ Len(B) \in Nat \ {0} /\ Len(C) = Len(B) - 1
      /\ \A k \in 1 .. Len(C) : C[k] = B[k + 1]
  BY TailAt
<1> HIDE DEF C
<1>2. CASE t \in S
  BY <1>2 DEF Know
<1>3. CASE \E j \in 1 .. Len(B) : j < n /\ t \in B[j].matched
  <2>1. PICK j \in 1 .. Len(B) : j < n /\ t \in B[j].matched
    BY <1>3
  <2>2. CASE j = 1
    BY <2>1, <2>2 DEF Know
  <2>3. CASE j # 1
    <3>1. j - 1 \in 1 .. Len(C) /\ (j - 1) + 1 = j /\ j - 1 < n - 1
      BY <1>1, <2>1, <2>3
    <3>2. t \in C[j - 1].matched
      BY <1>1, <2>1, <3>1
    <3> QED
      BY <3>1, <3>2 DEF Know, C
  <2> QED
    BY <2>2, <2>3
<1> QED
  BY <1>2, <1>3 DEF Know

(* What was known before the last messages still is.                       *)
LEMMA KnowConcat ==
    ASSUME NEW B \in Seq(Reply), NEW D \in Seq(Reply), Len(D) >= Len(B),
           \A i \in 1 .. Len(B) : D[i] = B[i],
           NEW S, NEW n \in Nat, NEW m \in Nat, n <= m, NEW t, Know(S, B, n, t)
    PROVE  Know(S, D, m, t)
<1>1. Len(B) \in Nat /\ Len(D) \in Nat
  OBVIOUS
<1>2. CASE t \in S
  BY <1>2 DEF Know
<1>3. CASE \E j \in 1 .. Len(B) : j < n /\ t \in B[j].matched
  <2>1. PICK j \in 1 .. Len(B) : j < n /\ t \in B[j].matched
    BY <1>3
  <2>2. j \in 1 .. Len(D) /\ j < m /\ D[j] = B[j]
    BY <1>1, <2>1
  <2> QED
    BY <2>1, <2>2 DEF Know
<1> QED
  BY <1>2, <1>3 DEF Know

(* What is known from an empty queue, or from its beginning.               *)
LEMMA KnowFirst ==
    ASSUME NEW B \in Seq(Reply), NEW S, NEW n, NEW t, Know(S, B, n, t), B = <<>> \/ n = 1
    PROVE  t \in S
<1>1. Len(B) \in Nat /\ (B = <<>> => Len(B) = 0)
  OBVIOUS
<1>2. CASE n = 1
  <2>1. \A j \in 1 .. Len(B) : ~(j < 1)
    BY <1>1
  <2> QED
    BY <1>2, <2>1 DEF Know
<1>3. CASE B = <<>>
  <2>1. \A j : j \notin 1 .. Len(B)
    BY <1>1, <1>3
  <2> QED
    BY <2>1 DEF Know
<1> QED
  BY <1>2, <1>3

(* KnowInv when a merkleblock is read.                                     *)
LEMMA KnowMerkle ==
    ASSUME NEW B \in Seq(Reply), B # <<>>, NEW P, NEW c, NEW d, KnowInv(c, B, P),
           c.pending = {}, d.found = c.found, d.filter = c.filter,
           d.pending = B[1].matched, d.block = B[1].height
    PROVE  KnowInv(d, Tail(B), P)
<1> DEFINE C == Tail(B)
           S == c.found \cup c.pending
           S2 == d.found \cup d.pending
<1>1. /\ Len(B) \in Nat \ {0} /\ Len(C) = Len(B) - 1
      /\ \A k \in 1 .. Len(C) : C[k] = B[k + 1] /\ k + 1 \in 1 .. Len(B)
  BY TailAt
<1>2. S \subseteq S2 /\ B[1].matched \subseteq S2 /\ S = c.found
  OBVIOUS
<1>3. /\ \A x \in c.filter : x.tx \in c.found
      /\ \A i \in 1 .. Len(B) : \A t \in B[i].matched :
            TxHeight[t] = B[i].height /\ (Parent[t] # NULL => Know(S, B, i, Parent[t]))
      /\ \A x \in P : Know(S, B, Len(B) + 1, x.tx)
  BY DEF KnowInv
<1> HIDE DEF C, S, S2
<1>4. \A t : \A n \in Nat : Know(S, B, n, t) => Know(S2, C, n - 1, t)
  BY <1>2, KnowTail DEF C
<1>5. ASSUME NEW t \in d.pending
      PROVE  TxHeight[t] = d.block /\ (Parent[t] # NULL => Parent[t] \in d.found)
  <2>1. 1 \in 1 .. Len(B) /\ t \in B[1].matched
    BY <1>1, <1>5
  <2>2. TxHeight[t] = B[1].height /\ (Parent[t] # NULL => Know(S, B, 1, Parent[t]))
    BY <1>3, <2>1
  <2> QED
    BY <1>2, <2>2, KnowFirst
<1>6. ASSUME NEW i \in 1 .. Len(C), NEW t \in C[i].matched
      PROVE  TxHeight[t] = C[i].height /\ (Parent[t] # NULL => Know(S2, C, i, Parent[t]))
  <2>1. C[i] = B[i + 1] /\ i + 1 \in 1 .. Len(B) /\ i + 1 \in Nat /\ (i + 1) - 1 = i
    BY <1>1
  <2>2. TxHeight[t] = C[i].height /\ (Parent[t] # NULL => Know(S, B, i + 1, Parent[t]))
    BY <1>3, <1>6, <2>1
  <2>3. Parent[t] # NULL => Know(S2, C, (i + 1) - 1, Parent[t])
    BY <1>4, <2>1, <2>2
  <2> QED
    BY <2>1, <2>2, <2>3
<1>7. ASSUME NEW x \in P PROVE Know(S2, C, Len(C) + 1, x.tx)
  <2>1. Len(B) + 1 \in Nat /\ (Len(B) + 1) - 1 = Len(C) + 1
    BY <1>1
  <2>2. Know(S2, C, (Len(B) + 1) - 1, x.tx)
    BY <1>3, <1>4, <1>7, <2>1
  <2> QED
    BY <2>1, <2>2
<1>8. \A x \in d.filter : x.tx \in d.found
  BY <1>3
<1> QED
  BY <1>5, <1>6, <1>7, <1>8 DEF KnowInv, C, S2

(* KnowInv when a transaction is read.                                     *)
LEMMA KnowTx ==
    ASSUME NEW B \in Seq(Reply), B # <<>>, NEW P, NEW c, NEW d, KnowInv(c, B, P),
           B[1].type = "tx", NEW t, t \in c.pending, TxDone(c, t, d)
    PROVE  KnowInv(d, Tail(B), P) /\ (Parent[t] # NULL => Parent[t] \in c.found)
<1> DEFINE C == Tail(B)
           S == c.found \cup c.pending
           S2 == d.found \cup d.pending
<1>1. /\ Len(B) \in Nat \ {0} /\ Len(C) = Len(B) - 1 /\ B[1] \in Reply
      /\ \A k \in 1 .. Len(C) : C[k] = B[k + 1] /\ k + 1 \in 1 .. Len(B)
  BY TailAt
<1>0. /\ d.pending = c.pending \ {t} /\ d.found = c.found \cup {t}
      /\ d.filter = c.filter \cup {Entry(t)} /\ (d.pending # {} => d.block = c.block)
  BY DEF TxDone
<1>2. S \subseteq S2 /\ B[1].matched \subseteq S2
  <2>1. B[1].matched = {}
    BY <1>1, ReplyKinds
  <2> QED
    BY <1>0, <2>1
<1>3. /\ \A x \in c.filter : x.tx \in c.found
      /\ \A u \in c.pending : TxHeight[u] = c.block /\ (Parent[u] # NULL => Parent[u] \in c.found)
      /\ \A i \in 1 .. Len(B) : \A u \in B[i].matched :
            TxHeight[u] = B[i].height /\ (Parent[u] # NULL => Know(S, B, i, Parent[u]))
      /\ \A x \in P : Know(S, B, Len(B) + 1, x.tx)
  BY DEF KnowInv
<1> HIDE DEF C, S, S2
<1>4. \A u : \A n \in Nat : Know(S, B, n, u) => Know(S2, C, n - 1, u)
  BY <1>2, KnowTail DEF C
<1>5. ASSUME NEW u \in d.pending
      PROVE  TxHeight[u] = d.block /\ (Parent[u] # NULL => Parent[u] \in d.found)
  BY <1>0, <1>3, <1>5
<1>6. ASSUME NEW i \in 1 .. Len(C), NEW u \in C[i].matched
      PROVE  TxHeight[u] = C[i].height /\ (Parent[u] # NULL => Know(S2, C, i, Parent[u]))
  <2>1. C[i] = B[i + 1] /\ i + 1 \in 1 .. Len(B) /\ i + 1 \in Nat /\ (i + 1) - 1 = i
    BY <1>1
  <2>2. TxHeight[u] = C[i].height /\ (Parent[u] # NULL => Know(S, B, i + 1, Parent[u]))
    BY <1>3, <1>6, <2>1
  <2>3. Parent[u] # NULL => Know(S2, C, (i + 1) - 1, Parent[u])
    BY <1>4, <2>1, <2>2
  <2> QED
    BY <2>1, <2>2, <2>3
<1>7. ASSUME NEW x \in P PROVE Know(S2, C, Len(C) + 1, x.tx)
  <2>1. Len(B) + 1 \in Nat /\ (Len(B) + 1) - 1 = Len(C) + 1
    BY <1>1
  <2>2. Know(S2, C, (Len(B) + 1) - 1, x.tx)
    BY <1>3, <1>4, <1>7, <2>1
  <2> QED
    BY <2>1, <2>2
<1>8. \A x \in d.filter : x.tx \in d.found
  BY <1>0, <1>3, EntryIs
<1>9. KnowInv(d, Tail(B), P)
  BY <1>5, <1>6, <1>7, <1>8 DEF KnowInv, C, S2
<1> QED
  BY <1>3, <1>9

(* KnowInv when the peer answers.                                          *)
LEMMA KnowAnswer ==
    ASSUME NEW B \in Seq(Reply), NEW P, NEW c, KnowInv(c, B, P), NEW h \in 1 .. MaxTip,
           NEW M, M = Matches(P, h)
    PROVE  KnowInv(c, B \o Answer(h, M), P \cup Entries(M))
<1> DEFINE D == B \o Answer(h, M)
           S == c.found \cup c.pending
           n == Len(B)
           z == Cardinality(M)
<1>0. M \in SUBSET Tx /\ \A t \in M : TxHeight[t] = h /\ (Parent[t] = NULL \/ TxHash(Parent[t]) \in P)
  BY MatchesIs
<1>1. /\ n \in Nat /\ z \in Nat /\ Len(D) = n + z + 1 /\ D \in Seq(Reply)
      /\ \A i \in 1 .. n : D[i] = B[i]
      /\ D[n + 1] = Merkle(h, M)
      /\ \A i \in 1 .. z : D[n + 1 + i] = TxMsg(SetToSeq(M)[i])
  BY <1>0, AnswerAt
<1>2. D[n + 1].matched = M /\ D[n + 1].height = h /\ n + 1 \in 1 .. Len(D)
  BY <1>1 DEF Merkle
<1>3. \A i \in 1 .. z : D[n + 1 + i].matched = {}
  <2> TAKE i \in 1 .. z
  <2>1. D[n + 1 + i] = TxMsg(SetToSeq(M)[i])
    BY <1>1
  <2> QED
    BY <2>1 DEF TxMsg
<1>4. /\ \A x \in c.filter : x.tx \in c.found
      /\ \A t \in c.pending : TxHeight[t] = c.block /\ (Parent[t] # NULL => Parent[t] \in c.found)
      /\ \A i \in 1 .. n : \A t \in B[i].matched :
            TxHeight[t] = B[i].height /\ (Parent[t] # NULL => Know(S, B, i, Parent[t]))
      /\ \A x \in P : Know(S, B, n + 1, x.tx)
  BY DEF KnowInv
<1> HIDE DEF D, S, z
<1>5. \A t : \A k \in Nat, m \in Nat : k <= m /\ Know(S, B, k, t) => Know(S, D, m, t)
  <2>1. Len(D) >= Len(B) /\ \A i \in 1 .. Len(B) : D[i] = B[i]
    BY <1>1
  <2> QED
    BY <1>1, <2>1, KnowConcat
<1> HIDE DEF n
<1>6. ASSUME NEW i \in 1 .. Len(D), NEW t \in D[i].matched
      PROVE  TxHeight[t] = D[i].height /\ (Parent[t] # NULL => Know(S, D, i, Parent[t]))
  <2>0. i \in Nat /\ i <= i /\ n + 1 \in Nat /\ n + 1 <= n + 1
    BY <1>1
  <2>1. CASE i \in 1 .. n
    <3>1. D[i] = B[i]
      BY <1>1, <2>1
    <3>2. TxHeight[t] = D[i].height /\ (Parent[t] # NULL => Know(S, B, i, Parent[t]))
      BY <1>4, <1>6, <2>1, <3>1
    <3> QED
      BY <1>5, <2>0, <3>2
  <2>2. CASE i = n + 1
    <3>0. \A p : TxHash(p).tx = p
      BY DEF TxHash
    <3>1. TxHeight[t] = h /\ (Parent[t] # NULL => Know(S, B, n + 1, Parent[t]))
      BY <1>0, <1>2, <1>4, <1>6, <2>2, <3>0
    <3>2. Parent[t] # NULL => Know(S, D, n + 1, Parent[t])
      BY <1>5, <2>0, <3>1
    <3> QED
      BY <1>2, <2>2, <3>1, <3>2
  <2>3. CASE i \notin 1 .. n + 1
    <3>1. i - n - 1 \in 1 .. z /\ n + 1 + (i - n - 1) = i
      BY <1>1, <2>3
    <3> QED
      BY <1>3, <1>6, <3>1
  <2> QED
    BY <1>1, <2>1, <2>2, <2>3
<1>7. ASSUME NEW x \in P \cup Entries(M) PROVE Know(S, D, Len(D) + 1, x.tx)
  <2>1. CASE x \in P
    <3>1. n + 1 \in Nat /\ Len(D) + 1 \in Nat /\ n + 1 <= Len(D) + 1
      BY <1>1
    <3> QED
      BY <1>4, <1>5, <2>1, <3>1
  <2>2. CASE x \in Entries(M)
    <3>1. n + 1 < Len(D) + 1
      BY <1>1
    <3>2. x.tx \in M
      BY <2>2 DEF Entries, TxHash
    <3> QED
      BY <1>2, <3>1, <3>2 DEF Know
  <2> QED
    BY <1>7, <2>1, <2>2
<1> QED
  BY <1>4, <1>6, <1>7 DEF KnowInv, D, S

(* What is sent to a peer, with what was found.                            *)
LEMMA ToldConcat ==
    ASSUME NEW A \in Seq(Ask), NEW X \in Seq(Ask), NEW F, NEW G, F \subseteq G,
           Told(A, F), Told(X, G)
    PROVE  Told(A \o X, G)
<1> DEFINE D == A \o X
<1>1. /\ Len(A) \in Nat /\ Len(X) \in Nat /\ Len(D) = Len(A) + Len(X)
      /\ \A i \in 1 .. Len(A) : D[i] = A[i]
      /\ \A i \in 1 .. Len(X) : D[Len(A) + i] = X[i]
  BY ConcatAt
<1> HIDE DEF D
<1>2. ASSUME NEW i \in 1 .. Len(D)
      PROVE  /\ D[i].type = "load" => \A x \in D[i].arg : x.tx \in G
             /\ D[i].type = "add" => D[i].arg.tx \in G
  <2>1. CASE i \in 1 .. Len(A)
    BY <1>1, <2>1 DEF Told
  <2>2. CASE i \notin 1 .. Len(A)
    <3>1. i - Len(A) \in 1 .. Len(X) /\ Len(A) + (i - Len(A)) = i
      BY <1>1, <2>2
    <3>2. D[i] = X[i - Len(A)]
      BY <1>1, <3>1
    <3> QED
      BY <3>1, <3>2 DEF Told
  <2> QED
    BY <2>1, <2>2
<1> QED
  BY <1>2 DEF Told, D

(* A window tells of what its filter holds.                                *)
LEMMA ToldStream ==
    ASSUME NEW F \in SUBSET Element, NEW s \in 1 .. MaxTip, NEW e \in s .. MaxTip,
           NEW S, \A x \in F : x.tx \in S
    PROVE  Told(Stream(F, s, e), S)
<1>1. /\ Len(Stream(F, s, e)) = e - s + 2 /\ Stream(F, s, e)[1] = Load(F)
      /\ \A i \in 2 .. e - s + 2 : Stream(F, s, e)[i].type = "get"
  BY StreamSeq
<1>2. Load(F).type = "load" /\ Load(F).arg = F
  BY DEF Load
<1> QED
  BY <1>1, <1>2, FilteredScanAssumption DEF Told

(* What is left to read tells no more.                                     *)
LEMMA ToldTail ==
    ASSUME NEW A \in Seq(Ask), A # <<>>, NEW F, Told(A, F)
    PROVE  Told(Tail(A), F)
<1>1. \A i \in 1 .. Len(Tail(A)) : Tail(A)[i] = A[i + 1] /\ i + 1 \in 1 .. Len(A)
  BY TailAt
<1> QED
  BY <1>1 DEF Told

-----------------------------------------------------------------------------
(* The steps, seen from the first peer: its queue A becomes A2 when the    *)
(* client c, now d, handles a message.                                     *)
WindowAhead(c, d) ==
    /\ d.pending = {} /\ d.block >= c.lastEnd
    /\ d.last = None /\ d.tails = 0 /\ c.lastEnd + 1 \in 1 .. MaxTip
    /\ d.lastEnd \in c.lastEnd + 1 .. MaxTip /\ d.lastEnd <= d.tip

TailAgain(c, d, t) ==
    /\ d.last = [tx |-> t, height |-> c.block] /\ c.block + 1 \in 1 .. MaxTip
    /\ d.lastEnd \in c.block + 1 .. MaxTip /\ d.lastEnd <= d.tip

SameEnd(c, d) == d.lastEnd = c.lastEnd /\ d.last = c.last

MerkleStep(c, d, A, A2, h, M) ==
    /\ h \in 1 .. MaxTip /\ M \in SUBSET Tx /\ MerkleDone(c, h, M, d)
    /\ \/ SameEnd(c, d) /\ A2 = A
       \/ WindowAhead(c, d) /\ A2 = A \o Stream(c.filter, c.lastEnd + 1, d.lastEnd)

TxStep(c, d, A, A2, t) ==
    /\ t \in c.pending /\ TxDone(c, t, d)
    /\ IF TailNeeded(c, t)
       THEN TailAgain(c, d, t)
            /\ A2 = (A \o <<Add(Entry(t))>>) \o Stream(d.filter, c.block + 1, d.lastEnd)
       ELSE SameEnd(c, d) /\ A2 = A \o <<Add(Entry(t))>>

(* The merkleblock handler is a MerkleStep, and sends the other peers      *)
(* nothing.                                                                *)
LEMMA MerkleSteps ==
    ASSUME NEW c \in Client, NEW h \in 1 .. MaxTip, NEW M \in SUBSET Tx,
           NEW A \in Seq(Ask), NEW r, r = RecvMerkleblock(c, h, M)
    PROVE  /\ MerkleStep(c, r.client, A, A \o r.out[1], h, M)
           /\ \A p \in Peer \ {1} : r.out[p] = <<>>
<1> DEFINE d == r.client
           s == c.lastEnd + 1
<1>1. MerkleDone(c, h, M, d) /\ (Kept(c, Nothing, r) \/ NextWindow(c, r))
  BY MerkleDoes
<1>2. d \in Client
  BY <1>1 DEF MerkleDone
<1>3. /\ MaxTip \in Nat /\ d.tip \in 0 .. MaxTip /\ c.filter \in SUBSET Element
      /\ c.lastEnd \in -1 .. MaxTip /\ 1 \in Peer
  BY <1>2, ClientFields
<1>4. Nothing \in Outs /\ \A p \in Peer : Nothing[p] = <<>>
  BY DEF Nothing, Outs
<1>5. CASE NextWindow(c, r)
  <2>1. s \in 1 .. MaxTip /\ d.lastEnd \in s .. MaxTip /\ d.lastEnd <= d.tip
    BY <1>3, <1>5 DEF NextWindow
  <2>2. /\ r.out = Asking(Nothing, c.filter, s, d.lastEnd) /\ d.last = None /\ d.tails = 0
        /\ d.pending = {} /\ d.block >= c.lastEnd
    BY <1>5 DEF NextWindow
  <2>3. WindowAhead(c, d)
    BY <2>1, <2>2 DEF WindowAhead
  <2> HIDE DEF s
  <2>4. r.out[1] = Nothing[1] \o Stream(c.filter, s, d.lastEnd)
        /\ \A p \in Peer \ {1} : r.out[p] = Nothing[p]
    <3> DEFINE e == d.lastEnd
               F == c.filter
               o == Nothing
    <3>1. o \in Outs /\ F \in SUBSET Element /\ s \in 1 .. MaxTip /\ e \in s .. MaxTip
      BY <1>3, <1>4, <2>1
    <3>2. r.out = Asking(o, F, s, e)
      BY <2>2
    <3> HIDE DEF e, F, o
    <3>3. /\ Asking(o, F, s, e)[1] = o[1] \o Stream(F, s, e)
          /\ \A p \in Peer \ {1} : Asking(o, F, s, e)[p] = o[p]
      BY <3>1, AskingOuts
    <3> QED
      BY <3>2, <3>3 DEF e, F, o
  <2>5. Stream(c.filter, s, d.lastEnd) \in Seq(Ask)
    BY <1>3, <2>1, StreamSeq
  <2>6. <<>> \o Stream(c.filter, s, d.lastEnd) = Stream(c.filter, s, d.lastEnd)
    BY <2>5, ConcatEmptySeq
  <2>7. A \o r.out[1] = A \o Stream(c.filter, s, d.lastEnd)
    BY <1>3, <1>4, <2>4, <2>6
  <2> QED
    BY <1>1, <1>4, <2>3, <2>4, <2>7 DEF MerkleStep, s
<1>6. CASE Kept(c, Nothing, r)
  <2>1. r.out = Nothing /\ SameEnd(c, d)
    BY <1>6 DEF Kept, SameEnd
  <2>2. A \o <<>> = A
    BY ConcatEmptySeq
  <2> QED
    BY <1>1, <1>3, <1>4, <2>1, <2>2 DEF MerkleStep
<1> QED
  BY <1>1, <1>5, <1>6

(* The tx handler is a TxStep, and sends the other peers the outpoint.     *)
LEMMA TxSteps ==
    ASSUME NEW c \in Client, NEW t \in c.pending, c.block >= 1,
           NEW A \in Seq(Ask), NEW r, r = RecvTx(c, t)
    PROVE  /\ TxStep(c, r.client, A, A \o r.out[1], t)
           /\ \A p \in Peer \ {1} : r.out[p] = <<Add(Entry(t))>>
<1> DEFINE d == r.client
           s == c.block + 1
           L == <<Add(Entry(t))>>
<1>1. /\ TxDone(c, t, d)
      /\ IF TailNeeded(c, t) THEN TailAsked(c, t, r) ELSE Kept(c, Adds(t), r)
  BY TxDoes
<1>2. d \in Client /\ d.tip = c.tip
  BY <1>1 DEF TxDone
<1>3. /\ MaxTip \in Nat /\ c.tip \in 0 .. MaxTip /\ d.filter \in SUBSET Element
      /\ c.block \in -1 .. MaxTip /\ 1 \in Peer /\ t \in Tx
  BY <1>2, ClientFields
<1>4. Adds(t) \in Outs /\ (\A p \in Peer : Adds(t)[p] = L) /\ L \in Seq(Ask)
  BY <1>3, AddsIs, OneAdd
<1> HIDE DEF L
<1>5. CASE TailNeeded(c, t)
  <2>0. TailAsked(c, t, r)
    BY <1>1, <1>5
  <2>1. s \in 1 .. MaxTip /\ d.lastEnd \in s .. MaxTip /\ d.lastEnd <= d.tip
    BY <1>2, <1>3, <2>0 DEF TailAsked
  <2>2. /\ r.out = Asking(Adds(t), d.filter, s, d.lastEnd)
        /\ d.last = [tx |-> t, height |-> c.block]
    BY <2>0 DEF TailAsked
  <2>3. TailAgain(c, d, t)
    BY <2>1, <2>2 DEF TailAgain
  <2> HIDE DEF s
  <2>4. r.out[1] = Adds(t)[1] \o Stream(d.filter, s, d.lastEnd)
        /\ \A p \in Peer \ {1} : r.out[p] = Adds(t)[p]
    <3> DEFINE e == d.lastEnd
               F == d.filter
               o == Adds(t)
    <3>1. o \in Outs /\ F \in SUBSET Element /\ s \in 1 .. MaxTip /\ e \in s .. MaxTip
      BY <1>3, <1>4, <2>1
    <3>2. r.out = Asking(o, F, s, e)
      BY <2>2
    <3> HIDE DEF e, F, o
    <3>3. /\ Asking(o, F, s, e)[1] = o[1] \o Stream(F, s, e)
          /\ \A p \in Peer \ {1} : Asking(o, F, s, e)[p] = o[p]
      BY <3>1, AskingOuts
    <3> QED
      BY <3>2, <3>3 DEF e, F, o
  <2>5. Stream(d.filter, s, d.lastEnd) \in Seq(Ask)
    BY <1>3, <2>1, StreamSeq
  <2>6. A \o (L \o Stream(d.filter, s, d.lastEnd)) = (A \o L) \o Stream(d.filter, s, d.lastEnd)
    BY <1>4, <2>5, ConcatAssociative, SMTT(30)
  <2>7. A \o r.out[1] = (A \o L) \o Stream(d.filter, s, d.lastEnd)
    BY <1>3, <1>4, <2>4, <2>6
  <2>8. \A p \in Peer \ {1} : r.out[p] = L
    BY <1>4, <2>4
  <2> QED
    BY <1>1, <1>5, <2>3, <2>7, <2>8 DEF TxStep, s, L
<1>6. CASE ~TailNeeded(c, t)
  <2>1. r.out = Adds(t) /\ SameEnd(c, d)
    BY <1>1, <1>6 DEF Kept, SameEnd
  <2> QED
    BY <1>1, <1>3, <1>4, <1>6, <2>1 DEF TxStep, L
<1> QED
  BY <1>5, <1>6

(* A message of the first peer is handled.                                 *)
LEMMA RecvOne ==
    ASSUME TypeInv, Runs(toClient[1], cl.pending), Recv(1)
    PROVE  LET B == toClient[1]
               m == B[1]
           IN  /\ B \in Seq(Reply) /\ B # <<>> /\ toClient'[1] = Tail(B) /\ filter' = filter
               /\ \A p \in Peer \ {1} : /\ toClient'[p] = toClient[p]
                                        /\ \/ toPeer'[p] = toPeer[p]
                                           \/ /\ m.tx \in Tx
                                              /\ toPeer'[p] = toPeer[p] \o <<Add(Entry(m.tx))>>
               /\ \/ /\ m.type = "merkle"
                     /\ MerkleStep(cl, cl', toPeer[1], toPeer'[1], m.height, m.matched)
                  \/ /\ m.type = "tx"
                     /\ TxStep(cl, cl', toPeer[1], toPeer'[1], m.tx)
<1> DEFINE B == toClient[1]
           m == B[1]
           A == toPeer[1]
           r == IF m.type = "merkle" THEN RecvMerkleblock(cl, m.height, m.matched)
                ELSE RecvTx(cl, m.tx)
<1>0. 1 \in Peer
  BY FilteredScanAssumption DEF Peer
<1>1. /\ cl \in Client /\ toPeer \in [Peer -> Seq(Ask)] /\ toClient \in [Peer -> Seq(Reply)]
      /\ cl.pending # {} => cl.block >= 1
  BY DEF TypeInv, Outs
<1>2. A \in Seq(Ask) /\ B \in Seq(Reply) /\ B # <<>>
  BY <1>0, <1>1 DEF Recv
<1>3. Head(B) = m /\ m \in Reply
  BY <1>2
<1>4. Becomes(r) /\ toClient' = [toClient EXCEPT ![1] = Tail(@)] /\ filter' = filter
  BY <1>3 DEF Recv
<1>5. toClient'[1] = Tail(B) /\ \A p \in Peer \ {1} : toClient'[p] = toClient[p]
  BY <1>0, <1>1, <1>4
<1>6. cl' = r.client /\ \A p \in Peer : toPeer'[p] = toPeer[p] \o r.out[p]
  BY <1>4 DEF Becomes
<1>7. /\ m.type \in {"merkle", "tx"}
      /\ m.type = "merkle" => m.height \in 1 .. MaxTip /\ m.matched \in SUBSET Tx
      /\ m.type = "tx" => m.tx \in Tx
  BY <1>3, ReplyKinds
<1> HIDE DEF A
<1>8. CASE m.type = "merkle"
  <2>1. r = RecvMerkleblock(cl, m.height, m.matched)
    BY <1>8
  <2>2. MerkleStep(cl, r.client, A, A \o r.out[1], m.height, m.matched)
        /\ \A p \in Peer \ {1} : r.out[p] = <<>>
    <3> DEFINE h == m.height
               M == m.matched
    <3>1. cl \in Client /\ h \in 1 .. MaxTip /\ M \in SUBSET Tx /\ A \in Seq(Ask)
      BY <1>1, <1>2, <1>7, <1>8
    <3>2. r = RecvMerkleblock(cl, h, M)
      BY <2>1
    <3> HIDE DEF r, h, M
    <3>3. MerkleStep(cl, r.client, A, A \o r.out[1], h, M)
          /\ \A p \in Peer \ {1} : r.out[p] = <<>>
      BY <3>1, <3>2, MerkleSteps
    <3> QED
      BY <3>3 DEF h, M
  <2> HIDE DEF r
  <2>3. MerkleStep(cl, cl', A, toPeer'[1], m.height, m.matched)
    BY <1>0, <1>6, <2>2 DEF A
  <2>4. \A p \in Peer \ {1} : toPeer'[p] = toPeer[p]
    <3> TAKE p \in Peer \ {1}
    <3>1. toPeer[p] \in Seq(Ask)
      BY <1>1
    <3>2. toPeer[p] \o <<>> = toPeer[p]
      BY <3>1, ConcatEmptySeq
    <3> QED
      BY <1>6, <2>2, <3>2
  <2> QED
    BY <1>2, <1>4, <1>5, <1>8, <2>3, <2>4 DEF A
<1>9. CASE m.type = "tx"
  <2> DEFINE t == m.tx
  <2>1. r = RecvTx(cl, t)
    BY <1>9
  <2>2. t \in cl.pending /\ t \in Tx /\ cl.block >= 1
    BY <1>1, <1>2, <1>7, <1>9, RunsTx
  <2>3. TxStep(cl, r.client, A, A \o r.out[1], t)
        /\ \A p \in Peer \ {1} : r.out[p] = <<Add(Entry(t))>>
    <3> HIDE DEF r, t
    <3> QED
      BY <1>1, <1>2, <2>1, <2>2, TxSteps
  <2> HIDE DEF r
  <2>4. TxStep(cl, cl', A, toPeer'[1], t)
    BY <1>0, <1>6, <2>3 DEF A
  <2>5. \A p \in Peer \ {1} : toPeer'[p] = toPeer[p] \o <<Add(Entry(t))>>
    BY <1>6, <2>3
  <2> QED
    BY <1>2, <1>4, <1>5, <1>9, <2>2, <2>4, <2>5 DEF A
<1> QED
  BY <1>7, <1>8, <1>9

(* Peers that neither are scanned nor announce are only sent outpoints.    *)
OnlyAdds(A) == \A i \in 1 .. Len(A) : A[i].type = "add"

(* Reading leaves a queue of outpoints one.                                *)
LEMMA OnlyAddsTail ==
    ASSUME NEW A \in Seq(Ask), A # <<>>, OnlyAdds(A)
    PROVE  OnlyAdds(Tail(A))
<1>1. \A i \in 1 .. Len(Tail(A)) : Tail(A)[i] = A[i + 1] /\ i + 1 \in 1 .. Len(A)
  BY TailAt
<1> QED
  BY <1>1 DEF OnlyAdds

(* One outpoint more leaves a queue of outpoints one.                      *)
LEMMA OnlyAddsAppend ==
    ASSUME NEW A \in Seq(Ask), OnlyAdds(A), NEW t \in Tx
    PROVE  OnlyAdds(A \o <<Add(Entry(t))>>)
<1> DEFINE L == <<Add(Entry(t))>>
           D == A \o L
<1>1. L \in Seq(Ask) /\ Len(L) = 1 /\ L[1].type = "add"
  BY OneAdd
<1> HIDE DEF L
<1>2. /\ Len(A) \in Nat /\ Len(D) = Len(A) + Len(L)
      /\ \A i \in 1 .. Len(A) : D[i] = A[i]
      /\ \A i \in 1 .. Len(L) : D[Len(A) + i] = L[i]
  <2>1. L \in Seq(Ask)
    BY <1>1
  <2> QED
    BY <2>1, ConcatAt
<1> HIDE DEF D
<1>3. ASSUME NEW i \in 1 .. Len(D) PROVE D[i].type = "add"
  <2>1. CASE i \in 1 .. Len(A)
    BY <1>2, <2>1 DEF OnlyAdds
  <2>2. CASE i \notin 1 .. Len(A)
    <3>1. 1 \in 1 .. Len(L) /\ Len(A) + 1 = i
      BY <1>1, <1>2, <2>2
    <3> QED
      BY <1>1, <1>2, <3>1
  <2> QED
    BY <2>1, <2>2
<1> QED
  BY <1>3 DEF OnlyAdds, D, L

Others == \A p \in Peer \ {1} : toClient[p] = <<>> /\ OnlyAdds(toPeer[p])

(* The other peers are told of outpoints and answer nothing, whatever      *)
(* happens.                                                                *)
LEMMA OthersKept ==
    ASSUME Announcer = 1, TypeInv, Runs(toClient[1], cl.pending), Others, [Next]_vars
    PROVE  Others'
<1>0. 1 \in Peer
  BY FilteredScanAssumption DEF Peer
<1>1. toPeer \in [Peer -> Seq(Ask)] /\ toClient \in [Peer -> Seq(Reply)]
  BY DEF TypeInv, Outs
<1>2. CASE UNCHANGED vars \/ Done
  BY <1>2 DEF Others, Done, vars
<1>3. CASE NewBlock
  <2>1. toClient' = toClient /\ \A p \in Peer \ {1} : toPeer'[p] = toPeer[p]
    BY <1>1, <1>3 DEF NewBlock
  <2> QED
    BY <2>1 DEF Others
<1>4. ASSUME NEW p \in Peer, Recv(p) PROVE Others'
  <2>1. p = 1
    BY <1>4 DEF Others, Recv
  <2>2. \A q \in Peer \ {1} : /\ toClient'[q] = toClient[q]
                             /\ \/ toPeer'[q] = toPeer[q]
                                \/ /\ toClient[1][1].tx \in Tx
                                   /\ toPeer'[q] = toPeer[q] \o <<Add(Entry(toClient[1][1].tx))>>
    BY <1>4, <2>1, RecvOne
  <2>3. ASSUME NEW q \in Peer \ {1} PROVE toClient'[q] = <<>> /\ OnlyAdds(toPeer'[q])
    <3>1. toPeer[q] \in Seq(Ask) /\ OnlyAdds(toPeer[q]) /\ toClient[q] = <<>>
      BY <1>1 DEF Others
    <3> QED
      BY <2>2, <3>1, OnlyAddsAppend
  <2> QED
    BY <2>3 DEF Others
<1>5. ASSUME NEW p \in Peer, Serve(p) PROVE Others'
  <2>1. /\ toPeer[p] # <<>> /\ toPeer' = [toPeer EXCEPT ![p] = Tail(@)]
        /\ \/ toClient' = toClient
           \/ /\ toPeer[p][1].type = "get"
              /\ toClient' = [toClient EXCEPT ![p] =
                    @ \o Answer(toPeer[p][1].arg, Matches(filter[p], toPeer[p][1].arg))]
    BY <1>5, ServeDoes
  <2>2. ASSUME NEW q \in Peer \ {1} PROVE toClient'[q] = <<>> /\ OnlyAdds(toPeer'[q])
    <3>1. toPeer[q] \in Seq(Ask) /\ OnlyAdds(toPeer[q]) /\ toClient[q] = <<>>
      BY <1>1 DEF Others
    <3>2. CASE q = p
      <4>1. toPeer'[q] = Tail(toPeer[q]) /\ toPeer[q] # <<>>
        BY <1>1, <2>1, <3>2
      <4>2. toPeer[q][1].type = "add"
        <5>1. 1 \in 1 .. Len(toPeer[q])
          BY <3>1, <4>1
        <5> QED
          BY <3>1, <5>1 DEF OnlyAdds
      <4>3. toClient' = toClient
        BY <2>1, <3>2, <4>2
      <4> QED
        BY <3>1, <4>1, <4>3, OnlyAddsTail
    <3>3. CASE q # p
      BY <1>1, <2>1, <3>1, <3>3
    <3> QED
      BY <3>2, <3>3
  <2> QED
    BY <2>2 DEF Others
<1> QED
  BY <1>2, <1>3, <1>4, <1>5 DEF Next, Step

(* The client, the queues between it and the first peer and that peer's    *)
(* filter, before and after a step.                                        *)
Asked(c, A, B, P, c2, A2, B2, P2) ==
    /\ c2 = c /\ B2 = B /\ P2 = P
    /\ A2 = A \/ (StartTip < MaxTip /\ \E h \in 1 .. MaxTip : A2 = A \o <<Get(h)>>)

Heard(c, A, B, P, c2, A2, B2, P2) ==
    /\ B # <<>> /\ B2 = Tail(B) /\ P2 = P
    /\ \/ B[1].type = "merkle" /\ MerkleStep(c, c2, A, A2, B[1].height, B[1].matched)
       \/ B[1].type = "tx" /\ TxStep(c, c2, A, A2, B[1].tx)

Served(c, A, B, P, c2, A2, B2, P2) ==
    /\ A # <<>> /\ A2 = Tail(A) /\ c2 = c
    /\ \/ A[1].type = "load" /\ P2 = A[1].arg /\ B2 = B
       \/ A[1].type = "add" /\ P2 = P \cup {A[1].arg} /\ B2 = B
       \/ /\ A[1].type = "get" /\ A[1].arg \in 1 .. MaxTip
          /\ P2 = P \cup Entries(Matches(P, A[1].arg))
          /\ B2 = B \o Answer(A[1].arg, Matches(P, A[1].arg))

(* Every step is one of three, seen from the first peer.                   *)
LEMMA OneStep ==
    ASSUME Announcer = 1, TypeInv, Runs(toClient[1], cl.pending), Others, [Next]_vars
    PROVE  \/ Asked(cl, toPeer[1], toClient[1], filter[1], cl', toPeer'[1], toClient'[1], filter'[1])
           \/ Heard(cl, toPeer[1], toClient[1], filter[1], cl', toPeer'[1], toClient'[1], filter'[1])
           \/ Served(cl, toPeer[1], toClient[1], filter[1], cl', toPeer'[1], toClient'[1], filter'[1])
<1>0. 1 \in Peer
  BY FilteredScanAssumption DEF Peer
<1>1. /\ toPeer \in [Peer -> Seq(Ask)] /\ toClient \in [Peer -> Seq(Reply)]
      /\ filter \in [Peer -> SUBSET Element] /\ netTip \in StartTip .. MaxTip
  BY DEF TypeInv, Outs
<1>2. CASE UNCHANGED vars \/ Done
  BY <1>2 DEF Asked, Done, vars
<1>3. CASE NewBlock
  <2> DEFINE h == netTip + 1
  <2>1. h \in 1 .. MaxTip /\ StartTip < MaxTip
    BY <1>1, <1>3, FilteredScanAssumption DEF NewBlock
  <2>2. toPeer' = [toPeer EXCEPT ![1] = Append(@, Get(h))] /\ UNCHANGED <<cl, toClient, filter>>
    BY <1>3 DEF NewBlock
  <2> HIDE DEF h
  <2>3. toPeer[1] \in Seq(Ask) /\ Get(h) \in Ask
    BY <1>0, <1>1, <2>1 DEF Ask
  <2>4. toPeer'[1] = toPeer[1] \o <<Get(h)>>
    BY <1>0, <1>1, <2>2, <2>3, AppendIsConcat
  <2> QED
    BY <2>1, <2>2, <2>4 DEF Asked
<1>4. ASSUME NEW p \in Peer, Recv(p)
      PROVE  Heard(cl, toPeer[1], toClient[1], filter[1], cl', toPeer'[1], toClient'[1], filter'[1])
  <2>1. p = 1
    BY <1>4 DEF Others, Recv
  <2>2. /\ toClient[1] # <<>> /\ toClient'[1] = Tail(toClient[1]) /\ filter' = filter
        /\ \/ /\ toClient[1][1].type = "merkle"
              /\ MerkleStep(cl, cl', toPeer[1], toPeer'[1], toClient[1][1].height,
                            toClient[1][1].matched)
           \/ /\ toClient[1][1].type = "tx"
              /\ TxStep(cl, cl', toPeer[1], toPeer'[1], toClient[1][1].tx)
    BY <1>4, <2>1, RecvOne
  <2> QED
    BY <2>2 DEF Heard
<1>5. ASSUME NEW p \in Peer, p # 1, Serve(p)
      PROVE  Asked(cl, toPeer[1], toClient[1], filter[1], cl', toPeer'[1], toClient'[1], filter'[1])
  <2>1. /\ toPeer' = [toPeer EXCEPT ![p] = Tail(@)] /\ cl' = cl
        /\ \/ /\ toClient' = toClient /\ filter' = [filter EXCEPT ![p] = toPeer[p][1].arg]
           \/ /\ toClient' = toClient
              /\ filter' = [filter EXCEPT ![p] = @ \cup {toPeer[p][1].arg}]
           \/ /\ filter' = [filter EXCEPT ![p] = @ \cup Entries(Matches(filter[p], toPeer[p][1].arg))]
              /\ toClient' = [toClient EXCEPT ![p] =
                    @ \o Answer(toPeer[p][1].arg, Matches(filter[p], toPeer[p][1].arg))]
    BY <1>5, ServeDoes
  <2>2. toPeer'[1] = toPeer[1] /\ toClient'[1] = toClient[1] /\ filter'[1] = filter[1]
    BY <1>0, <1>1, <1>5, <2>1
  <2> QED
    BY <2>1, <2>2 DEF Asked
<1>6. ASSUME Serve(1)
      PROVE  Served(cl, toPeer[1], toClient[1], filter[1], cl', toPeer'[1], toClient'[1], filter'[1])
  <2> DEFINE m == toPeer[1][1]
             M == Matches(filter[1], m.arg)
  <2>1. /\ toPeer[1] # <<>> /\ m \in Ask
        /\ toPeer' = [toPeer EXCEPT ![1] = Tail(@)] /\ UNCHANGED <<cl, netTip>>
        /\ \/ /\ m.type = "load" /\ m.arg \in SUBSET Element /\ toClient' = toClient
              /\ filter' = [filter EXCEPT ![1] = m.arg]
           \/ /\ m.type = "add" /\ m.arg \in Element /\ toClient' = toClient
              /\ filter' = [filter EXCEPT ![1] = @ \cup {m.arg}]
           \/ /\ m.type = "get" /\ m.arg \in 1 .. MaxTip
              /\ filter' = [filter EXCEPT ![1] = @ \cup Entries(M)]
              /\ toClient' = [toClient EXCEPT ![1] = @ \o Answer(m.arg, M)]
    BY <1>0, <1>6, ServeDoes
  <2> HIDE DEF m, M
  <2>2. toPeer[1] # <<>> /\ toPeer'[1] = Tail(toPeer[1]) /\ cl' = cl
    BY <1>0, <1>1, <2>1
  <2>3. \/ m.type = "load" /\ filter'[1] = m.arg /\ toClient'[1] = toClient[1]
        \/ m.type = "add" /\ filter'[1] = filter[1] \cup {m.arg} /\ toClient'[1] = toClient[1]
        \/ /\ m.type = "get" /\ m.arg \in 1 .. MaxTip /\ filter'[1] = filter[1] \cup Entries(M)
           /\ toClient'[1] = toClient[1] \o Answer(m.arg, M)
    BY <1>0, <1>1, <2>1
  <2> QED
    BY <2>2, <2>3 DEF Served, m, M
<1> QED
  BY <1>2, <1>3, <1>4, <1>5, <1>6 DEF Next, Step

-----------------------------------------------------------------------------
(* What a merkleblock tells of comes with it, what is found is found after *)
(* its parent, and the filters are made of what is found.                  *)
Parents(c) == \A t \in c.found : Parent[t] # NULL => Parent[t] \in c.found

Found(c, A, B, P) ==
    Runs(B, c.pending) /\ KnowInv(c, B, P) /\ Told(A, c.found) /\ Parents(c)

(* Found when a new block is asked for.                                    *)
LEMMA FoundAsked ==
    ASSUME NEW c, NEW A \in Seq(Ask), NEW B, NEW P, Found(c, A, B, P),
           NEW c2, NEW A2, NEW B2, NEW P2, Asked(c, A, B, P, c2, A2, B2, P2)
    PROVE  Found(c2, A2, B2, P2)
<1>1. CASE A2 = A
  BY <1>1 DEF Asked
<1>2. ASSUME NEW h \in 1 .. MaxTip, A2 = A \o <<Get(h)>> PROVE Found(c2, A2, B2, P2)
  <2> DEFINE L == <<Get(h)>>
  <2>1. Get(h) \in Ask /\ Get(h).type = "get"
    BY DEF Ask, Get
  <2>2. L \in Seq(Ask) /\ Len(L) = 1 /\ L[1].type = "get"
    BY <2>1
  <2>3. Told(L, c.found)
    BY <2>2 DEF Told
  <2> HIDE DEF L
  <2>4. Told(A \o L, c.found)
    <3>1. L \in Seq(Ask) /\ Told(A, c.found)
      BY <2>2 DEF Found
    <3> QED
      BY <2>3, <3>1, ToldConcat
  <2> QED
    BY <1>2, <2>4 DEF Asked, Found, L
<1> QED
  BY <1>1, <1>2 DEF Asked

(* Found when the client reads a message.                                  *)
LEMMA FoundHeard ==
    ASSUME NEW c \in Client, NEW A \in Seq(Ask), NEW B \in Seq(Reply), NEW P,
           Found(c, A, B, P),
           NEW c2, NEW A2, NEW B2, NEW P2, Heard(c, A, B, P, c2, A2, B2, P2)
    PROVE  Found(c2, A2, B2, P2)
<1>0. Runs(B, c.pending) /\ KnowInv(c, B, P) /\ Told(A, c.found) /\ Parents(c)
  BY DEF Found
<1>1. B # <<>> /\ B2 = Tail(B) /\ P2 = P
  BY DEF Heard
<1>2. CASE B[1].type = "merkle" /\ MerkleStep(c, c2, A, A2, B[1].height, B[1].matched)
  <2>1. c.pending = {} /\ Runs(B2, B[1].matched)
    BY <1>0, <1>1, <1>2, RunsMerkle
  <2>2. /\ c2.pending = B[1].matched /\ c2.block = B[1].height /\ c2.found = c.found
        /\ c2.filter = c.filter
    BY <1>2 DEF MerkleStep, MerkleDone
  <2>3. KnowInv(c2, B2, P2)
    BY <1>0, <1>1, <2>1, <2>2, KnowMerkle
  <2>4. Told(A2, c.found)
    <3>1. CASE A2 = A
      BY <1>0, <3>1
    <3>2. CASE WindowAhead(c, c2) /\ A2 = A \o Stream(c.filter, c.lastEnd + 1, c2.lastEnd)
      <4> DEFINE s == c.lastEnd + 1
                 e == c2.lastEnd
      <4>1. s \in 1 .. MaxTip /\ e \in s .. MaxTip
        BY <3>2 DEF WindowAhead
      <4>2. c.filter \in SUBSET Element /\ \A x \in c.filter : x.tx \in c.found
        BY <1>0, ClientFields DEF KnowInv
      <4>3. A2 = A \o Stream(c.filter, s, e)
        BY <3>2
      <4> HIDE DEF s, e
      <4>4. Told(Stream(c.filter, s, e), c.found) /\ Stream(c.filter, s, e) \in Seq(Ask)
        BY <4>1, <4>2, ToldStream, StreamSeq
      <4> QED
        BY <1>0, <4>3, <4>4, ToldConcat
    <3> QED
      BY <1>2, <3>1, <3>2 DEF MerkleStep
  <2> QED
    BY <1>0, <2>1, <2>2, <2>3, <2>4 DEF Found, Parents
<1>3. CASE B[1].type = "tx" /\ TxStep(c, c2, A, A2, B[1].tx)
  <2> DEFINE t == B[1].tx
             L == <<Add(Entry(t))>>
  <2>0. TxStep(c, c2, A, A2, t) /\ t \in Tx
    BY <1>3, ClientFields DEF TxStep
  <2>1. t \in c.pending /\ TxDone(c, t, c2)
    BY <2>0 DEF TxStep
  <2>2. c2.pending = c.pending \ {t} /\ c2.found = c.found \cup {t} /\ c2 \in Client
    BY <2>1 DEF TxDone
  <2>3. Runs(B2, c2.pending)
    BY <1>0, <1>1, <1>3, <2>2, RunsTx
  <2>4. KnowInv(c2, B2, P2) /\ (Parent[t] # NULL => Parent[t] \in c.found)
    <3> HIDE DEF t
    <3> QED
      BY <1>0, <1>1, <1>3, <2>1, KnowTx
  <2>5. Parents(c2)
    BY <1>0, <2>2, <2>4 DEF Parents
  <2>6. L \in Seq(Ask) /\ Told(L, c2.found)
    <3>1. L \in Seq(Ask) /\ Len(L) = 1 /\ L[1].type = "add" /\ L[1].arg = Entry(t)
      BY <2>0, OneAdd
    <3>2. Entry(t).tx = t
      BY EntryIs
    <3> HIDE DEF L
    <3> QED
      BY <2>2, <3>1, <3>2 DEF Told
  <2>7. Told(A \o L, c2.found) /\ A \o L \in Seq(Ask)
    <3> HIDE DEF L
    <3>1. c.found \subseteq c2.found
      BY <2>2
    <3>2. Told(A \o L, c2.found)
      BY <1>0, <2>6, <3>1, ToldConcat
    <3> QED
      BY <2>6, <3>2, ConcatProperties
  <2>8. Told(A2, c2.found)
    <3>1. CASE A2 = A \o L
      BY <2>7, <3>1
    <3>2. CASE TailAgain(c, c2, t) /\ A2 = (A \o L) \o Stream(c2.filter, c.block + 1, c2.lastEnd)
      <4> DEFINE s == c.block + 1
                 e == c2.lastEnd
                 A1 == A \o L
      <4>1. s \in 1 .. MaxTip /\ e \in s .. MaxTip
        BY <3>2 DEF TailAgain
      <4>2. c2.filter \in SUBSET Element /\ \A x \in c2.filter : x.tx \in c2.found
        BY <2>2, <2>4, ClientFields DEF KnowInv
      <4>3. A2 = A1 \o Stream(c2.filter, s, e)
        BY <3>2
      <4> HIDE DEF s, e
      <4>4. Told(Stream(c2.filter, s, e), c2.found) /\ Stream(c2.filter, s, e) \in Seq(Ask)
        BY <4>1, <4>2, ToldStream, StreamSeq
      <4>5. A1 \in Seq(Ask) /\ Told(A1, c2.found)
        BY <2>7
      <4> HIDE DEF A1
      <4> QED
        BY <4>3, <4>4, <4>5, ToldConcat
    <3> QED
      BY <2>0, <3>1, <3>2 DEF TxStep
  <2> QED
    BY <2>3, <2>4, <2>5, <2>8 DEF Found
<1> QED
  BY <1>2, <1>3 DEF Heard

(* Found when the peer reads one.                                          *)
LEMMA FoundServed ==
    ASSUME NEW c, NEW A \in Seq(Ask), NEW B \in Seq(Reply), NEW P, Found(c, A, B, P),
           NEW c2, NEW A2, NEW B2, NEW P2, Served(c, A, B, P, c2, A2, B2, P2)
    PROVE  Found(c2, A2, B2, P2)
<1>0. Runs(B, c.pending) /\ KnowInv(c, B, P) /\ Told(A, c.found) /\ Parents(c)
  BY DEF Found
<1>1. A # <<>> /\ A2 = Tail(A) /\ c2 = c
  BY DEF Served
<1>2. Told(A2, c.found)
  BY <1>0, <1>1, ToldTail
<1>3. 1 \in 1 .. Len(A)
  BY <1>1
<1>4. ASSUME B2 = B, \/ A[1].type = "load" /\ P2 = A[1].arg
                     \/ A[1].type = "add" /\ P2 = P \cup {A[1].arg}
      PROVE  Found(c2, A2, B2, P2)
  <2>1. \A x \in P2 : x \in P \/ x.tx \in c.found
    BY <1>0, <1>3, <1>4 DEF Told
  <2>2. \A x \in P2 : Know(c.found \cup c.pending, B, Len(B) + 1, x.tx)
    BY <1>0, <2>1 DEF KnowInv, Know
  <2>3. KnowInv(c, B, P2)
    BY <1>0, <2>2 DEF KnowInv
  <2> QED
    BY <1>0, <1>1, <1>2, <1>4, <2>3 DEF Found
<1>5. CASE /\ A[1].arg \in 1 .. MaxTip /\ P2 = P \cup Entries(Matches(P, A[1].arg))
           /\ B2 = B \o Answer(A[1].arg, Matches(P, A[1].arg))
  <2> DEFINE h == A[1].arg
             M == Matches(P, h)
  <2>1. h \in 1 .. MaxTip /\ P2 = P \cup Entries(M) /\ B2 = B \o Answer(h, M)
    BY <1>5
  <2>2. M = Matches(P, h) /\ M \in SUBSET Tx
    BY MatchesIs
  <2> HIDE DEF h, M
  <2>3. KnowInv(c, B2, P2)
    BY <1>0, <2>1, <2>2, KnowAnswer
  <2>4. Runs(B2, c.pending)
    BY <1>0, <2>1, <2>2, RunsAnswer
  <2> QED
    BY <1>0, <1>1, <1>2, <2>3, <2>4 DEF Found
<1>6. \/ A[1].type = "load" /\ P2 = A[1].arg /\ B2 = B
      \/ A[1].type = "add" /\ P2 = P \cup {A[1].arg} /\ B2 = B
      \/ /\ A[1].arg \in 1 .. MaxTip /\ P2 = P \cup Entries(Matches(P, A[1].arg))
         /\ B2 = B \o Answer(A[1].arg, Matches(P, A[1].arg))
  BY DEF Served
<1> QED
  BY <1>4, <1>5, <1>6

FoundInv == Others /\ Found(cl, toPeer[1], toClient[1], filter[1])

(* FoundInv holds at the start.                                            *)
LEMMA InitFound ==
    ASSUME Init PROVE FoundInv
<1>1. PICK e \in 1 .. StartTip :
         /\ cl = Made(StartTip, e, 0, None, -1, {}, {}, {})
         /\ toPeer = Asking(Nothing, {}, 1, e)
  BY InitDoes
<1>2. toClient = Nothing /\ filter = [p \in Peer |-> {}]
  BY InitDoes
<1>3. StartTip \in 1 .. MaxTip /\ MaxTip \in Nat /\ 1 \in Peer
  BY FilteredScanAssumption DEF Peer
<1>4. cl.pending = {} /\ cl.found = {} /\ cl.filter = {}
  BY <1>1, MadeFields
<1>5. /\ toPeer[1] = Nothing[1] \o Stream({}, 1, e)
      /\ \A p \in Peer \ {1} : toPeer[p] = Nothing[p]
  <2>1. Nothing \in Outs /\ {} \in SUBSET Tx /\ {} \in SUBSET Element /\ 1 \in 1 .. MaxTip /\ e \in 1 .. MaxTip
    BY <1>3 DEF Nothing, Outs
  <2> QED
    BY <1>1, <2>1, AskingOuts
<1>6. {} \in SUBSET Tx /\ {} \in SUBSET Element /\ 1 \in 1 .. MaxTip /\ e \in 1 .. MaxTip
  BY <1>3
<1>7. toPeer[1] = Stream({}, 1, e)
  <2>1. Stream({}, 1, e) \in Seq(Ask)
    BY <1>6, StreamSeq
  <2>2. <<>> \o Stream({}, 1, e) = Stream({}, 1, e)
    BY <2>1, ConcatEmptySeq
  <2> QED
    BY <1>3, <1>5, <2>2 DEF Nothing
<1>8. Told(toPeer[1], cl.found)
  <2>1. Told(Stream({}, 1, e), {})
    BY <1>6, ToldStream
  <2> QED
    BY <1>4, <1>7, <2>1
<1>9. toClient[1] = <<>> /\ filter[1] = {} /\ Len(<<>>) = 0
  BY <1>2, <1>3 DEF Nothing
<1>10. Runs(toClient[1], cl.pending) /\ KnowInv(cl, toClient[1], filter[1])
  <2>1. \A i : i \notin 1 .. Len(<<>>)
    BY <1>9
  <2> QED
    BY <1>4, <1>9, <2>1 DEF Runs, Run, KnowInv
<1>11. Parents(cl)
  BY <1>4 DEF Parents
<1>12. Others
  BY <1>2, <1>5 DEF Others, OnlyAdds, Nothing
<1> QED
  BY <1>8, <1>10, <1>11, <1>12 DEF FoundInv, Found

(* Every step keeps FoundInv.                                              *)
LEMMA NextFound ==
    ASSUME Announcer = 1, TypeInv, FoundInv, [Next]_vars PROVE FoundInv'
<1>0. Runs(toClient[1], cl.pending) /\ Others /\ Found(cl, toPeer[1], toClient[1], filter[1])
  BY DEF FoundInv, Found
<1>1. Others'
  BY <1>0, OthersKept
<1>2. cl \in Client /\ toPeer[1] \in Seq(Ask) /\ toClient[1] \in Seq(Reply)
  BY FilteredScanAssumption DEF TypeInv, Outs, Peer
<1>3. \/ Asked(cl, toPeer[1], toClient[1], filter[1], cl', toPeer'[1], toClient'[1], filter'[1])
      \/ Heard(cl, toPeer[1], toClient[1], filter[1], cl', toPeer'[1], toClient'[1], filter'[1])
      \/ Served(cl, toPeer[1], toClient[1], filter[1], cl', toPeer'[1], toClient'[1], filter'[1])
  BY <1>0, OneStep
<1>4. Found(cl', toPeer'[1], toClient'[1], filter'[1])
  BY <1>0, <1>2, <1>3, FoundAsked, FoundHeard, FoundServed
<1> QED
  BY <1>1, <1>4 DEF FoundInv

(* When the peer that is scanned also announces the new blocks, a          *)
(* transaction that spends from another reaches the wallet after it,       *)
(* whatever the windows, the repeated requests and the new blocks.         *)
THEOREM ScanInOrder ==
    ASSUME Announcer = 1
    PROVE  Spec => []OutputsFirst
<1>1. Init => TypeInv /\ FoundInv
  BY InitTypes, InitFound
<1>2. (TypeInv /\ FoundInv) /\ [Next]_vars => (TypeInv /\ FoundInv)'
  BY NextTypes, NextFound
<1>3. FoundInv => OutputsFirst
  BY DEF FoundInv, Found, Parents, OutputsFirst
<1> QED
  BY <1>1, <1>2, <1>3, PTL DEF Spec

-----------------------------------------------------------------------------
(* A payment matches by the hash of a key, whatever the peer's filter      *)
(* holds, so a block that is asked for brings its payments; those up to    *)
(* the end of the last window are found, awaited, sent or still asked for. *)

Payment == {q \in Tx : Parent[q] = NULL}

Asks(A, q) == \E i \in 1 .. Len(A) : A[i].type = "get" /\ A[i].arg = TxHeight[q]

Comes(c, A, B, q) == Know(c.found \cup c.pending, B, Len(B) + 1, q) \/ Asks(A, q)

AllCome(c, A, B) == \A q \in Payment : TxHeight[q] <= c.lastEnd => Comes(c, A, B, q)

(* A queue with more at its end asks for no less.                          *)
LEMMA AsksMore ==
    ASSUME NEW A \in Seq(Ask), NEW X \in Seq(Ask), NEW q, Asks(A, q)
    PROVE  Asks(A \o X, q)
<1> DEFINE D == A \o X
<1>1. /\ Len(D) = Len(A) + Len(X) /\ Len(A) \in Nat /\ Len(X) \in Nat
      /\ \A i \in 1 .. Len(A) : D[i] = A[i]
  BY ConcatAt
<1> HIDE DEF D
<1>2. PICK i \in 1 .. Len(A) : A[i].type = "get" /\ A[i].arg = TxHeight[q]
  BY DEF Asks
<1>3. i \in 1 .. Len(D) /\ D[i] = A[i]
  BY <1>1
<1>4. Asks(D, q)
  BY <1>2, <1>3 DEF Asks
<1> QED
  BY <1>4 DEF D

(* A request asks for the blocks of its window.                            *)
LEMMA AsksStream ==
    ASSUME NEW A \in Seq(Ask), NEW F \in SUBSET Element,
           NEW s \in 1 .. MaxTip, NEW e \in s .. MaxTip, NEW q, TxHeight[q] \in s .. e
    PROVE  Stream(F, s, e) \in Seq(Ask) /\ Asks(A \o Stream(F, s, e), q)
<1> DEFINE X == Stream(F, s, e)
           D == A \o X
           n == Len(A)
           g == TxHeight[q]
           j == g - s + 2
<1>0. MaxTip \in Nat
  BY FilteredScanAssumption
<1>1. X \in Seq(Ask) /\ Len(X) = e - s + 2 /\ \A h \in s .. e : X[h - s + 2] = Get(h)
  BY StreamSeq
<1> HIDE DEF X
<1>9. X \in Seq(Ask) /\ D = A \o X
  BY <1>1
<1> HIDE DEF D
<1>2. /\ n \in Nat /\ D \in Seq(Ask) /\ Len(D) = n + Len(X)
      /\ \A i \in 1 .. n : D[i] = A[i]
      /\ \A i \in 1 .. Len(X) : D[n + i] = X[i]
  BY <1>9, ConcatAt
<1> HIDE DEF n
<1>3. j \in 1 .. Len(X) /\ n + j \in 1 .. Len(D)
  <2> DEFINE x == Len(X)
             d == Len(D)
  <2>1. g \in s .. e /\ x = e - s + 2 /\ d = n + x /\ n \in Nat /\ s \in Nat /\ e \in Nat
    BY <1>0, <1>1, <1>2
  <2> HIDE DEF x, d, g
  <2>2. j \in 1 .. x /\ n + j \in 1 .. d
    BY <2>1
  <2> QED
    BY <2>2 DEF x, d
<1>4. D[n + j] = Get(TxHeight[q])
  BY <1>1, <1>2, <1>3
<1>5. D[n + j].type = "get" /\ D[n + j].arg = TxHeight[q]
  BY <1>4 DEF Get
<1>6. Asks(D, q)
  BY <1>3, <1>5 DEF Asks
<1> QED
  BY <1>1, <1>6 DEF D, X

(* A message is read: what was to come still is.                           *)
LEMMA ComesTail ==
    ASSUME NEW c, NEW c2, NEW A \in Seq(Ask), NEW X \in Seq(Ask),
           NEW B \in Seq(Reply), B # <<>>,
           c.found \cup c.pending \subseteq c2.found \cup c2.pending,
           B[1].matched \subseteq c2.found \cup c2.pending,
           NEW q, Comes(c, A, B, q)
    PROVE  Comes(c2, A \o X, Tail(B), q)
<1> DEFINE S == c.found \cup c.pending
           S2 == c2.found \cup c2.pending
<1>1. Len(B) \in Nat \ {0} /\ Len(Tail(B)) = Len(B) - 1
  BY TailAt
<1>2. CASE Know(S, B, Len(B) + 1, q)
  <2>1. Len(B) + 1 \in Nat /\ (Len(B) + 1) - 1 = Len(Tail(B)) + 1
    BY <1>1
  <2>2. S \subseteq S2 /\ B[1].matched \subseteq S2
    OBVIOUS
  <2> HIDE DEF S, S2
  <2>3. Know(S2, Tail(B), (Len(B) + 1) - 1, q)
    BY <1>2, <2>1, <2>2, KnowTail
  <2> QED
    BY <2>1, <2>3 DEF Comes, S2
<1>3. CASE Asks(A, q)
  BY <1>3, AsksMore DEF Comes
<1> QED
  BY <1>2, <1>3 DEF Comes

(* The end of the last window moves to e, and the blocks from s on are     *)
(* asked for; those below were up to its end before.                       *)
LEMMA ComesAsked ==
    ASSUME NEW c, NEW c2, NEW A \in Seq(Ask), NEW A1 \in Seq(Ask),
           NEW F \in SUBSET Element, NEW B \in Seq(Reply),
           NEW s \in 1 .. MaxTip, NEW e \in s .. MaxTip, c2.lastEnd = e,
           \A q \in Payment : TxHeight[q] < s => Comes(c2, A1, B, q)
    PROVE  AllCome(c2, A1 \o Stream(F, s, e), B)
<1> SUFFICES ASSUME NEW q \in Payment, TxHeight[q] <= e
             PROVE  Comes(c2, A1 \o Stream(F, s, e), B, q)
  BY DEF AllCome
<1>0. TxHeight[q] \in 1 .. MaxTip /\ MaxTip \in Nat
  BY FilteredScanAssumption DEF Payment
<1>1. Stream(F, s, e) \in Seq(Ask)
  BY StreamSeq
<1>2. CASE TxHeight[q] < s
  BY <1>1, <1>2, AsksMore DEF Comes
<1>3. CASE ~(TxHeight[q] < s)
  <2>1. TxHeight[q] \in s .. e
    BY <1>0, <1>3
  <2> QED
    BY <2>1, AsksStream DEF Comes
<1> QED
  BY <1>2, <1>3

(* AllCome when a merkleblock is read.                                     *)
LEMMA AllComeMerkle ==
    ASSUME NEW c \in Client, NEW A \in Seq(Ask), NEW B \in Seq(Reply),
           Runs(B, c.pending), AllCome(c, A, B), B # <<>>, B[1].type = "merkle",
           NEW c2, NEW A2, MerkleStep(c, c2, A, A2, B[1].height, B[1].matched)
    PROVE  AllCome(c2, A2, Tail(B))
<1> DEFINE C == Tail(B)
<1>1. c.pending = {} /\ C \in Seq(Reply)
  BY RunsMerkle, TailAt
<1>2. c2.pending = B[1].matched /\ c2.found = c.found
  BY DEF MerkleStep, MerkleDone
<1>3. c.lastEnd \in -1 .. MaxTip /\ c.filter \in SUBSET Element /\ MaxTip \in Nat
  BY ClientFields
<1>4. \A q, X : X \in Seq(Ask) /\ Comes(c, A, B, q) => Comes(c2, A \o X, C, q)
  BY <1>1, <1>2, ComesTail
<1>5. <<>> \in Seq(Ask) /\ A \o <<>> = A
  BY ConcatEmptySeq
<1>6. \A q : Comes(c, A, B, q) => Comes(c2, A, C, q)
  BY <1>4, <1>5
<1> HIDE DEF C
<1>7. CASE SameEnd(c, c2) /\ A2 = A
  BY <1>6, <1>7 DEF AllCome, SameEnd, C
<1>8. CASE WindowAhead(c, c2) /\ A2 = A \o Stream(c.filter, c.lastEnd + 1, c2.lastEnd)
  <2> DEFINE s == c.lastEnd + 1
             e == c2.lastEnd
  <2>1. s \in 1 .. MaxTip /\ e \in s .. MaxTip
    BY <1>8 DEF WindowAhead
  <2>2. \A q \in Payment : TxHeight[q] < s => Comes(c2, A, C, q)
    <3> SUFFICES ASSUME NEW q \in Payment, TxHeight[q] < s PROVE Comes(c2, A, C, q)
      OBVIOUS
    <3>1. TxHeight[q] \in 1 .. MaxTip
      BY FilteredScanAssumption DEF Payment
    <3>2. TxHeight[q] <= c.lastEnd
      BY <1>3, <3>1
    <3> QED
      BY <1>6, <3>2 DEF AllCome
  <2>3. A2 = A \o Stream(c.filter, s, e) /\ c2.lastEnd = e
    BY <1>8
  <2> HIDE DEF s, e
  <2>4. AllCome(c2, A \o Stream(c.filter, s, e), C)
    BY <1>1, <1>3, <2>1, <2>2, <2>3, ComesAsked DEF C
  <2> QED
    BY <2>3, <2>4 DEF C
<1> QED
  BY <1>7, <1>8 DEF MerkleStep

(* AllCome when a transaction is read.                                     *)
LEMMA AllComeTx ==
    ASSUME NEW c \in Client, NEW A \in Seq(Ask), NEW B \in Seq(Reply),
           AllCome(c, A, B), B # <<>>, B[1].type = "tx",
           NEW c2, NEW A2, NEW t, TxStep(c, c2, A, A2, t)
    PROVE  AllCome(c2, A2, Tail(B))
<1> DEFINE C == Tail(B)
           L == <<Add(Entry(t))>>
           A1 == A \o L
<1>1. t \in c.pending /\ TxDone(c, t, c2)
  BY DEF TxStep
<1>2. c2 \in Client /\ c2.pending = c.pending \ {t} /\ c2.found = c.found \cup {t}
  BY <1>1 DEF TxDone
<1>3. /\ c.lastEnd \in -1 .. MaxTip /\ c.block \in -1 .. MaxTip /\ MaxTip \in Nat
      /\ t \in Tx /\ c2.filter \in SUBSET Element
  BY <1>1, <1>2, ClientFields
<1>4. B[1].matched = {} /\ C \in Seq(Reply)
  <2>1. B[1] \in Reply
    BY TailAt
  <2> QED
    BY <2>1, ReplyKinds, TailAt
<1>5. L \in Seq(Ask) /\ A1 \in Seq(Ask)
  <2>1. L \in Seq(Ask)
    BY <1>3, OneAdd
  <2> QED
    BY <2>1, ConcatProperties
<1> HIDE DEF L
<1>6. ASSUME NEW q, Comes(c, A, B, q) PROVE Comes(c2, A1, C, q)
  <2>1. /\ c.found \cup c.pending \subseteq c2.found \cup c2.pending
        /\ B[1].matched \subseteq c2.found \cup c2.pending
    BY <1>1, <1>2, <1>4
  <2> QED
    BY <1>5, <1>6, <2>1, ComesTail
<1> HIDE DEF C, A1
<1>7. CASE ~TailNeeded(c, t)
  <2>1. c2.lastEnd = c.lastEnd /\ A2 = A1
    BY <1>7 DEF TxStep, A1, L, SameEnd
  <2> QED
    BY <1>6, <2>1 DEF AllCome, C
<1>8. CASE TailNeeded(c, t)
  <2> DEFINE s == c.block + 1
             e == c2.lastEnd
             F == c2.filter
  <2>1. TailAgain(c, c2, t) /\ A2 = A1 \o Stream(F, s, e)
    BY <1>8 DEF TxStep, A1, L
  <2>2. s \in 1 .. MaxTip /\ e \in s .. MaxTip
    BY <2>1 DEF TailAgain
  <2>3. \A q \in Payment : TxHeight[q] < s => Comes(c2, A1, C, q)
    <3> SUFFICES ASSUME NEW q \in Payment, TxHeight[q] < s PROVE Comes(c2, A1, C, q)
      OBVIOUS
    <3>1. TxHeight[q] \in 1 .. MaxTip
      BY FilteredScanAssumption DEF Payment
    <3>2. TxHeight[q] <= c.lastEnd
      BY <1>3, <1>8, <3>1 DEF TailNeeded
    <3> QED
      BY <1>6, <3>2 DEF AllCome
  <2>4. F \in SUBSET Element /\ c2.lastEnd = e
    BY <1>3
  <2> HIDE DEF s, e, F
  <2>5. AllCome(c2, A1 \o Stream(F, s, e), C)
    BY <1>4, <1>5, <2>2, <2>3, <2>4, ComesAsked
  <2> QED
    BY <2>1, <2>5 DEF C
<1> QED
  BY <1>7, <1>8

(* AllCome when the peer reads a message: the payments of a block it is    *)
(* asked for are among what it matches.                                    *)
LEMMA AllComeServed ==
    ASSUME NEW c, NEW A \in Seq(Ask), NEW B \in Seq(Reply), NEW P, AllCome(c, A, B),
           NEW c2, NEW A2, NEW B2, NEW P2, Served(c, A, B, P, c2, A2, B2, P2)
    PROVE  AllCome(c2, A2, B2)
<1> DEFINE S == c.found \cup c.pending
           h == A[1].arg
           M == Matches(P, h)
           n == Len(B)
<1>1. A # <<>> /\ A2 = Tail(A) /\ c2 = c
  BY DEF Served
<1>2. /\ Len(A) \in Nat \ {0} /\ Len(A2) = Len(A) - 1
      /\ \A k \in 1 .. Len(A2) : A2[k] = A[k + 1]
  BY <1>1, TailAt
<1>3. /\ A[1].type = "get" => h \in 1 .. MaxTip /\ B2 = B \o Answer(h, M)
      /\ A[1].type # "get" => B2 = B
  BY DEF Served
<1>4. M \in SUBSET Tx /\ \A q \in Payment : TxHeight[q] = h => q \in M
  BY MatchesIs DEF Payment
<1>5. ASSUME NEW q \in Payment, TxHeight[q] <= c.lastEnd PROVE Know(S, B, n + 1, q) \/ Asks(A, q)
  BY <1>5 DEF AllCome, Comes
<1> HIDE DEF S, h, M, n
\* what is asked for, other than by the message that is read
<1>6. ASSUME NEW q, Asks(A, q), ~(A[1].type = "get" /\ h = TxHeight[q]) PROVE Asks(A2, q)
  <2>1. PICK i \in 1 .. Len(A) : A[i].type = "get" /\ A[i].arg = TxHeight[q]
    BY <1>6 DEF Asks
  <2>2. i # 1
    BY <1>6, <2>1 DEF h
  <2>3. i - 1 \in 1 .. Len(A2) /\ (i - 1) + 1 = i
    BY <1>2, <2>2
  <2>4. A2[i - 1] = A[i]
    BY <1>2, <2>3
  <2> QED
    BY <2>1, <2>3, <2>4 DEF Asks
<1>7. CASE A[1].type # "get"
  BY <1>1, <1>3, <1>5, <1>6, <1>7 DEF AllCome, Comes, S, n
<1>8. CASE A[1].type = "get"
  <2> DEFINE z == Cardinality(M)
  <2>1. h \in 1 .. MaxTip /\ B2 = B \o Answer(h, M)
    BY <1>3, <1>8
  <2>2. /\ n \in Nat /\ z \in Nat /\ Len(B2) = n + z + 1 /\ B2 \in Seq(Reply)
        /\ \A i \in 1 .. n : B2[i] = B[i]
        /\ B2[n + 1] = Merkle(h, M)
    BY <1>4, <2>1, AnswerAt DEF n
  <2>3. B2[n + 1].matched = M /\ n + 1 \in 1 .. Len(B2) /\ n + 1 < Len(B2) + 1
    BY <2>2 DEF Merkle
  <2>4. ASSUME NEW q, Know(S, B, n + 1, q) PROVE Know(S, B2, Len(B2) + 1, q)
    <3>1. Len(B2) >= Len(B) /\ \A i \in 1 .. Len(B) : B2[i] = B[i]
      BY <2>2 DEF n
    <3>2. n + 1 \in Nat /\ Len(B2) + 1 \in Nat /\ n + 1 <= Len(B2) + 1
      BY <2>2
    <3> QED
      BY <2>2, <2>4, <3>1, <3>2, KnowConcat
  <2> HIDE DEF z
  <2>5. ASSUME NEW q \in Payment, TxHeight[q] <= c.lastEnd
        PROVE  Know(S, B2, Len(B2) + 1, q) \/ Asks(A2, q)
    <3>1. CASE Know(S, B, n + 1, q)
      BY <2>4, <3>1
    <3>2. CASE TxHeight[q] = h
      <4>1. q \in B2[n + 1].matched
        BY <1>4, <2>3, <3>2
      <4> QED
        BY <2>3, <4>1 DEF Know
    <3> QED
      BY <1>5, <1>6, <2>5, <3>1, <3>2
  <2> QED
    BY <1>1, <2>5 DEF AllCome, Comes, S
<1> QED
  BY <1>7, <1>8

ComeInv == AllCome(cl, toPeer[1], toClient[1])

(* ComeInv holds at the start: the first window is asked for.              *)
LEMMA InitCome ==
    ASSUME Init PROVE ComeInv
<1>1. PICK e \in 1 .. StartTip :
         /\ cl = Made(StartTip, e, 0, None, -1, {}, {}, {})
         /\ toPeer = Asking(Nothing, {}, 1, e)
  BY InitDoes
<1>2. toClient = Nothing
  BY InitDoes
<1>3. StartTip \in 1 .. MaxTip /\ MaxTip \in Nat /\ 1 \in Peer
  BY FilteredScanAssumption DEF Peer
<1>4. cl.lastEnd = e /\ toClient[1] = <<>>
  BY <1>1, <1>2, <1>3, MadeFields DEF Nothing
<1>5. {} \in SUBSET Element /\ 1 \in 1 .. MaxTip /\ e \in 1 .. MaxTip /\ Nothing \in Outs
  BY <1>3 DEF Nothing, Outs
<1>6. toPeer[1] = <<>> \o Stream({}, 1, e)
  <2>1. toPeer[1] = Nothing[1] \o Stream({}, 1, e)
    BY <1>1, <1>5, AskingOuts
  <2> QED
    BY <1>3, <2>1 DEF Nothing
<1>7. \A q \in Payment : ~(TxHeight[q] < 1)
  <2> SUFFICES ASSUME NEW q \in Payment PROVE ~(TxHeight[q] < 1)
    OBVIOUS
  <2>1. TxHeight[q] \in 1 .. MaxTip
    BY FilteredScanAssumption DEF Payment
  <2> QED
    BY <1>3, <2>1
<1> DEFINE A == <<>>
           F == {}
<1>8. A \in Seq(Ask) /\ F \in SUBSET Element /\ A \in Seq(Reply)
  BY <1>5
<1> HIDE DEF A, F
<1>9. AllCome(cl, A \o Stream(F, 1, e), A)
  BY <1>4, <1>5, <1>7, <1>8, ComesAsked
<1> QED
  BY <1>4, <1>6, <1>9 DEF ComeInv, A, F

(* Every step keeps ComeInv.                                               *)
LEMMA NextCome ==
    ASSUME Announcer = 1, TypeInv, FoundInv, ComeInv, [Next]_vars
    PROVE  ComeInv'
<1> DEFINE A == toPeer[1]
           B == toClient[1]
           P == filter[1]
<1>0. Runs(B, cl.pending) /\ Others /\ AllCome(cl, A, B)
  BY DEF FoundInv, Found, ComeInv
<1>1. cl \in Client /\ A \in Seq(Ask) /\ B \in Seq(Reply)
  BY FilteredScanAssumption DEF TypeInv, Outs, Peer
<1>2. \/ Asked(cl, A, B, P, cl', toPeer'[1], toClient'[1], filter'[1])
      \/ Heard(cl, A, B, P, cl', toPeer'[1], toClient'[1], filter'[1])
      \/ Served(cl, A, B, P, cl', toPeer'[1], toClient'[1], filter'[1])
  BY <1>0, OneStep
<1> HIDE DEF A, B, P
<1>3. CASE Asked(cl, A, B, P, cl', toPeer'[1], toClient'[1], filter'[1])
  <2>1. cl' = cl /\ toClient'[1] = B
    BY <1>3 DEF Asked
  <2>2. CASE toPeer'[1] = A
    BY <1>0, <2>1, <2>2 DEF ComeInv
  <2>3. ASSUME NEW h \in 1 .. MaxTip, toPeer'[1] = A \o <<Get(h)>> PROVE ComeInv'
    <3> DEFINE L == <<Get(h)>>
    <3>1. L \in Seq(Ask)
      BY DEF Ask
    <3> HIDE DEF L
    <3>2. AllCome(cl, A \o L, B)
      BY <1>0, <1>1, <3>1, AsksMore DEF AllCome, Comes
    <3> QED
      BY <2>1, <2>3, <3>2 DEF ComeInv, L
  <2> QED
    BY <1>3, <2>2, <2>3 DEF Asked
<1>4. CASE Served(cl, A, B, P, cl', toPeer'[1], toClient'[1], filter'[1])
  <2>1. AllCome(cl', toPeer'[1], toClient'[1])
    BY <1>0, <1>1, <1>4, AllComeServed
  <2> QED
    BY <2>1 DEF ComeInv
<1>5. CASE Heard(cl, A, B, P, cl', toPeer'[1], toClient'[1], filter'[1])
  <2>1. B # <<>> /\ toClient'[1] = Tail(B)
    BY <1>5 DEF Heard
  <2>2. CASE B[1].type = "merkle" /\ MerkleStep(cl, cl', A, toPeer'[1], B[1].height, B[1].matched)
    <3>1. AllCome(cl', toPeer'[1], Tail(B))
      BY <1>0, <1>1, <2>1, <2>2, AllComeMerkle
    <3> QED
      BY <2>1, <3>1 DEF ComeInv
  <2>3. CASE B[1].type = "tx" /\ TxStep(cl, cl', A, toPeer'[1], B[1].tx)
    <3>1. AllCome(cl', toPeer'[1], Tail(B))
      BY <1>0, <1>1, <2>1, <2>3, AllComeTx
    <3> QED
      BY <2>1, <3>1 DEF ComeInv
  <2> QED
    BY <1>5, <2>2, <2>3 DEF Heard
<1> QED
  BY <1>2, <1>3, <1>4, <1>5

(* With nothing on its way, what was to come is found.                     *)
LEMMA AllFound ==
    ASSUME FoundInv, ComeInv PROVE PaymentsFound
<1> SUFFICES ASSUME Quiet, NEW t \in Payment, TxHeight[t] <= cl.lastEnd PROVE t \in cl.found
  BY DEF PaymentsFound, Payment
<1>1. 1 \in Peer
  BY FilteredScanAssumption DEF Peer
<1>2. toPeer[1] = <<>> /\ toClient[1] = <<>> /\ Len(<<>>) = 0 /\ <<>> \in Seq(Reply)
  BY <1>1 DEF Quiet
<1>3. \A i : i \notin 1 .. Len(<<>>)
  BY <1>2
<1>4. cl.pending = {}
  BY <1>2, <1>3 DEF FoundInv, Found, Runs, Run
<1>5. ~Asks(<<>>, t)
  BY <1>3 DEF Asks
<1>6. Know(cl.found \cup cl.pending, <<>>, Len(<<>>) + 1, t)
  BY <1>2, <1>5 DEF ComeInv, AllCome, Comes
<1> QED
  BY <1>3, <1>4, <1>6 DEF Know

(* When the peer that is scanned also announces the new blocks, every      *)
(* payment to the wallet up to the end of the last window is found once    *)
(* nothing is on its way, whatever the windows, the limit of repeated      *)
(* requests and the blocks that come in between; a merkleblock never gives *)
(* up a transaction that was still to come.                                *)
THEOREM ScanFindsPayments ==
    ASSUME Announcer = 1
    PROVE  Spec => []PaymentsFound
<1> DEFINE Inv == TypeInv /\ FoundInv /\ ComeInv
<1>1. Init => Inv
  BY InitTypes, InitFound, InitCome
<1>2. Inv /\ [Next]_vars => Inv'
  BY NextTypes, NextFound, NextCome
<1>3. Inv => PaymentsFound
  BY AllFound
<1> HIDE DEF Inv
<1> QED
  BY <1>1, <1>2, <1>3, PTL DEF Spec
=============================================================================
