----------------------------- MODULE SmpvProofs -----------------------------
(***************************************************************************)
(* Proofs about simplified mempool verification: the watcher index, the    *)
(* running counters and the confirmation counts, for any addresses,        *)
(* transactions and tree of blocks.                                        *)
(***************************************************************************)
EXTENDS Smpv, HeaderTreeProofs, FiniteSetTheorems, SequenceTheorems

-----------------------------------------------------------------------------
(* The fields of a client have their types.                                *)
ClientType(c) ==
    /\ c = [watchers |-> c.watchers, index |-> c.index, pool |-> c.pool,
            confirmed |-> c.confirmed, unconfirmed |-> c.unconfirmed]
    /\ c.watchers \in Seq(Watcher) /\ c.pool \in Seq(Entry)
    /\ c.confirmed \in Nat /\ c.unconfirmed \in Nat

(* The index x has, for each watcher of ws, its one place.                 *)
Indexed(ws, x) ==
    /\ \A i, j \in 1 .. Len(ws) : ws[i].addr = ws[j].addr => i = j
    /\ DOMAIN x = {ws[i].addr : i \in 1 .. Len(ws)}
    /\ \A i \in 1 .. Len(ws) : x[ws[i].addr] = i

(* Scanning the array finds the place, or 0.                               *)
LEMMA ScanFinds ==
    ASSUME NEW ws \in Seq(Watcher), NEW x, Indexed(ws, x), NEW a
    PROVE  /\ \A i \in 1 .. Len(ws) : ws[i].addr = a => Scan(ws, a) = i
           /\ Scan(ws, a) # 0 => Scan(ws, a) \in 1 .. Len(ws) /\ ws[Scan(ws, a)].addr = a
           /\ Scan(ws, a) # 0 <=> a \in DOMAIN x
<1> DEFINE F == {i \in DOMAIN ws : ws[i].addr = a}
<1>1. DOMAIN ws = 1 .. Len(ws) /\ Len(ws) \in Nat
  BY LenProperties
<1>2. Scan(ws, a) = IF F = {} THEN 0 ELSE Min(F)
  BY DEF Scan
<1>3. F \in SUBSET Nat
  BY <1>1
<1>4. F # {} => Min(F) \in F
  BY <1>3, MinIn
<1>5. \A i \in F : i \in 1 .. Len(ws) /\ ws[i].addr = a
  BY <1>1
<1>6. \A i \in 1 .. Len(ws) : ws[i].addr = a => i \in F
  BY <1>1
<1>7. \A i, j \in F : i = j
  BY <1>5 DEF Indexed
<1> HIDE DEF F
<1>8. F # {} <=> a \in DOMAIN x
  BY <1>5, <1>6 DEF Indexed
<1>9. F # {} => Min(F) # 0
  BY <1>1, <1>4, <1>5
<1> QED
  BY <1>2, <1>4, <1>5, <1>6, <1>7, <1>8, <1>9

(* And so does the index.                                                  *)
LEMMA GetFinds ==
    ASSUME NEW c, ClientType(c), Indexed(c.watchers, c.index), NEW a
    PROVE  /\ GetWatcher(c, a) = Scan(c.watchers, a)
           /\ Watching(c, a) <=> Scan(c.watchers, a) # 0
<1> DEFINE ws == c.watchers
           x == c.index
<1>1. ws \in Seq(Watcher) /\ Indexed(ws, x) /\ Len(ws) \in Nat
  BY LenProperties DEF ClientType
<1>2. /\ \A i \in 1 .. Len(ws) : ws[i].addr = a => Scan(ws, a) = i
      /\ Scan(ws, a) # 0 <=> a \in DOMAIN x
  BY <1>1, ScanFinds
<1>3. CASE a \in DOMAIN x
  <2>1. PICK i \in 1 .. Len(ws) : a = ws[i].addr
    BY <1>1, <1>3 DEF Indexed
  <2>2. x[a] = i /\ i <= Len(ws)
    BY <1>1, <2>1 DEF Indexed
  <2> QED
    BY <1>2, <1>3, <2>1, <2>2 DEF GetWatcher, Watching
<1>4. CASE a \notin DOMAIN x
  BY <1>2, <1>4 DEF GetWatcher, Watching
<1> QED
  BY <1>3, <1>4

(* LookupFinds, of a client.                                               *)
LEMMA LookupOf ==
    ASSUME NEW c, ClientType(c), Indexed(c.watchers, c.index), NEW a
    PROVE  /\ Cardinality({i \in DOMAIN c.watchers : c.watchers[i].addr = a}) <= 1
           /\ GetWatcher(c, a) = Scan(c.watchers, a)
           /\ Watching(c, a) <=> Scan(c.watchers, a) # 0
<1> DEFINE F == {i \in DOMAIN c.watchers : c.watchers[i].addr = a}
<1>1. \A i, j \in F : i = j
  BY LenProperties DEF ClientType, Indexed
<1> HIDE DEF F
<1>2. Cardinality(F) <= 1
  <2>1. CASE F = {}
    <3>1. Cardinality(F) = 0
      BY <2>1, FS_EmptySet
    <3> QED
      BY <3>1
  <2>2. CASE F # {}
    <3>1. PICK i : F = {i}
      BY <1>1, <2>2
    <3>2. Cardinality(F) = 1
      BY <3>1, FS_Singleton
    <3> QED
      BY <3>2
  <2> QED
    BY <2>1, <2>2
<1> QED
  BY <1>2, GetFinds DEF F

(* The array without its i-th element.                                     *)
LEMMA RemoveAtProperties ==
    ASSUME NEW S, NEW s \in Seq(S), NEW i \in 1 .. Len(s)
    PROVE  /\ RemoveAt(s, i) \in Seq(S) /\ Len(RemoveAt(s, i)) = Len(s) - 1
           /\ \A j \in 1 .. Len(s) - 1 :
                 RemoveAt(s, i)[j] = IF j < i THEN s[j] ELSE s[j + 1]
<1> DEFINE p == SubSeq(s, 1, i - 1)
           q == SubSeq(s, i + 1, Len(s))
<1>1. Len(s) \in Nat /\ i \in Int /\ \A j \in 1 .. Len(s) : s[j] \in S
  BY LenProperties, ElementOfSeq
<1>2. /\ p \in Seq(S) /\ Len(p) = i - 1 /\ \A j \in 1 .. i - 1 : p[j] = s[j]
  BY <1>1, SubSeqProperties
<1>3. /\ q \in Seq(S) /\ Len(q) = Len(s) - i
      /\ \A j \in 1 .. Len(s) - i : q[j] = s[i + j]
  BY <1>1, SubSeqProperties
<1>4. RemoveAt(s, i) = p \o q
  BY DEF RemoveAt
<1> HIDE DEF p, q
<1>5. /\ p \o q \in Seq(S) /\ Len(p \o q) = Len(p) + Len(q)
      /\ \A j \in 1 .. Len(p) + Len(q) : (p \o q)[j] = IF j <= Len(p) THEN p[j] ELSE q[j - Len(p)]
  BY <1>2, <1>3, ConcatProperties
<1> DEFINE r == p \o q
<1> HIDE DEF r
<1>6. Len(r) = Len(s) - 1
  BY <1>1, <1>2, <1>3, <1>5 DEF r
<1>7. ASSUME NEW j \in 1 .. Len(s) - 1
      PROVE  r[j] = IF j < i THEN s[j] ELSE s[j + 1]
  <2>1. r[j] = IF j <= i - 1 THEN p[j] ELSE q[j - (i - 1)]
    BY <1>1, <1>2, <1>3, <1>5 DEF r
  <2>2. CASE j < i
    BY <1>1, <1>2, <2>1, <2>2
  <2>3. CASE ~(j < i)
    <3>1. j - (i - 1) \in 1 .. Len(s) - i /\ i + (j - (i - 1)) = j + 1
      BY <1>1, <2>3
    <3> QED
      BY <1>1, <1>3, <2>1, <2>3, <3>1
  <2> QED
    BY <2>2, <2>3
<1> QED
  BY <1>4, <1>5, <1>6, <1>7 DEF r


(* Every watcher of the array was there before, or is new and has counted  *)
(* nothing.                                                                *)
FromBefore(ws, old) ==
    \A k \in 1 .. Len(ws) :
        ws[k].count = 0 \/ \E j \in 1 .. Len(old) : ws[k] = old[j]

(* dogecoin_smpv_add_watcher.                                              *)
LEMMA AddedOK ==
    ASSUME NEW c, ClientType(c), Indexed(c.watchers, c.index), NEW a \in Addr,
           NEW d, d = AddedWatcher(c, a)
    PROVE  /\ ClientType(d) /\ Indexed(d.watchers, d.index)
           /\ d.pool = c.pool /\ d.confirmed = c.confirmed /\ d.unconfirmed = c.unconfirmed
           /\ FromBefore(d.watchers, c.watchers)
<1> DEFINE ws == c.watchers
           n == Len(ws) + 1
           w == [addr |-> a, count |-> 0]
           vs == Append(ws, w)
           y == [x \in DOMAIN c.index \cup {a} |-> IF x = a THEN n ELSE c.index[x]]
<1>1. ws \in Seq(Watcher) /\ Len(ws) \in Nat /\ w \in Watcher /\ w.addr = a /\ w.count = 0
  BY LenProperties DEF ClientType, Watcher
<1>2. CASE Watching(c, a)
  BY <1>1, <1>2 DEF AddedWatcher, FromBefore
<1>3. CASE ~Watching(c, a)
  <2>1. a \notin DOMAIN c.index
    BY <1>1, <1>3, GetFinds, ScanFinds
  <2>2. d = [c EXCEPT !.watchers = vs, !.index = y]
    BY <1>3 DEF AddedWatcher
  <2> HIDE DEF w
  <2>3. vs \in Seq(Watcher) /\ Len(vs) = n /\ vs[n] = w /\ \A i \in 1 .. Len(ws) : vs[i] = ws[i]
    BY <1>1, AppendProperties
  <2> HIDE DEF vs
  <2>4. y[a] = n /\ DOMAIN y = DOMAIN c.index \cup {a} /\ \A x \in DOMAIN c.index : y[x] = c.index[x]
    BY <2>1
  <2> HIDE DEF y
  <2>5. /\ d.watchers = vs /\ d.index = y /\ d.pool = c.pool
        /\ d.confirmed = c.confirmed /\ d.unconfirmed = c.unconfirmed
        /\ d = [watchers |-> d.watchers, index |-> d.index, pool |-> d.pool,
                confirmed |-> d.confirmed, unconfirmed |-> d.unconfirmed]
    BY <2>2 DEF ClientType
  <2>6. ClientType(d)
    BY <2>3, <2>5 DEF ClientType
  <2>7. \A i \in 1 .. Len(ws) : ws[i].addr # a
    BY <2>1 DEF Indexed
  <2>8. \A i, j \in 1 .. n : vs[i].addr = vs[j].addr => i = j
    BY <1>1, <2>3, <2>7 DEF Indexed
  <2>9. DOMAIN y = {vs[i].addr : i \in 1 .. n}
    BY <1>1, <2>3, <2>4 DEF Indexed
  <2>10. ASSUME NEW i \in 1 .. n PROVE y[vs[i].addr] = i
    <3>1. CASE i = n
      BY <1>1, <2>3, <2>4, <3>1
    <3>2. CASE i \in 1 .. Len(ws)
      <4>1. ws[i].addr \in DOMAIN c.index /\ c.index[ws[i].addr] = i
        BY <3>2 DEF Indexed
      <4> QED
        BY <2>3, <2>4, <3>2, <4>1
    <3> QED
      BY <1>1, <3>1, <3>2
  <2>11. Indexed(vs, y)
    BY <2>3, <2>8, <2>9, <2>10 DEF Indexed
  <2>12. FromBefore(vs, ws)
    BY <1>1, <2>3 DEF FromBefore
  <2> QED
    BY <2>5, <2>6, <2>11, <2>12
<1> QED
  BY <1>2, <1>3

(* smpv_rebuild_watcher_index, on an array without duplicates.             *)
LEMMA Rebuilt ==
    ASSUME NEW ws \in Seq(Watcher),
           \A i, j \in 1 .. Len(ws) : ws[i].addr = ws[j].addr => i = j
    PROVE  Indexed(ws, IndexOf(ws))
<1> DEFINE x == IndexOf(ws)
<1>1. DOMAIN ws = 1 .. Len(ws)
  BY LenProperties
<1>2. x = [a \in {ws[i].addr : i \in DOMAIN ws} |-> CHOOSE i \in DOMAIN ws : ws[i].addr = a]
  BY DEF IndexOf
<1>3. DOMAIN x = {ws[i].addr : i \in 1 .. Len(ws)}
  BY <1>1, <1>2
<1>4. ASSUME NEW i \in 1 .. Len(ws) PROVE x[ws[i].addr] = i
  <2> DEFINE a == ws[i].addr
  <2>1. a \in {ws[k].addr : k \in DOMAIN ws}
    BY <1>1
  <2>2. x[a] = CHOOSE k \in DOMAIN ws : ws[k].addr = a
    BY <1>2, <2>1
  <2>3. \E k \in DOMAIN ws : ws[k].addr = a
    BY <1>1
  <2>4. x[a] \in DOMAIN ws /\ ws[x[a]].addr = a
    BY <2>2, <2>3
  <2> QED
    BY <1>1, <2>4
<1> QED
  BY <1>3, <1>4 DEF Indexed

(* dogecoin_smpv_remove_watcher.                                           *)
LEMMA RemovedOK ==
    ASSUME NEW c, ClientType(c), Indexed(c.watchers, c.index), NEW a \in Addr,
           NEW d, d = RemovedWatcher(c, a)
    PROVE  /\ ClientType(d) /\ Indexed(d.watchers, d.index)
           /\ d.pool = c.pool /\ d.confirmed = c.confirmed /\ d.unconfirmed = c.unconfirmed
           /\ FromBefore(d.watchers, c.watchers)
<1> DEFINE ws == c.watchers
           g == GetWatcher(c, a)
           vs == RemoveAt(ws, g)
           y == IndexOf(vs)
<1>1. ws \in Seq(Watcher) /\ Len(ws) \in Nat
  BY LenProperties DEF ClientType
<1>2. CASE g = 0
  BY <1>1, <1>2 DEF RemovedWatcher, FromBefore
<1>3. CASE g # 0
  <2>1. g \in 1 .. Len(ws)
    BY <1>1, <1>3, GetFinds, ScanFinds
  <2>2. d = [c EXCEPT !.watchers = vs, !.index = y]
    BY <1>3 DEF RemovedWatcher
  <2> HIDE DEF g
  <2>3. /\ vs \in Seq(Watcher) /\ Len(vs) = Len(ws) - 1
        /\ \A j \in 1 .. Len(ws) - 1 : vs[j] = IF j < g THEN ws[j] ELSE ws[j + 1]
    BY <1>1, <2>1, RemoveAtProperties
  <2> HIDE DEF vs
  <2>4. \A i, j \in 1 .. Len(vs) : vs[i].addr = vs[j].addr => i = j
    <3>1. ASSUME NEW i \in 1 .. Len(vs), NEW j \in 1 .. Len(vs), vs[i].addr = vs[j].addr
          PROVE  i = j
      <4> DEFINE p == IF i < g THEN i ELSE i + 1
                 q == IF j < g THEN j ELSE j + 1
      <4>1. p \in 1 .. Len(ws) /\ q \in 1 .. Len(ws) /\ vs[i] = ws[p] /\ vs[j] = ws[q]
        BY <1>1, <2>1, <2>3
      <4>2. p = q
        BY <3>1, <4>1 DEF Indexed
      <4> QED
        BY <1>1, <2>1, <4>2
    <3> QED
      BY <3>1
  <2>5. Indexed(vs, y)
    BY <2>3, <2>4, Rebuilt
  <2> HIDE DEF y
  <2>6. /\ d.watchers = vs /\ d.index = y /\ d.pool = c.pool
        /\ d.confirmed = c.confirmed /\ d.unconfirmed = c.unconfirmed
        /\ d = [watchers |-> d.watchers, index |-> d.index, pool |-> d.pool,
                confirmed |-> d.confirmed, unconfirmed |-> d.unconfirmed]
    BY <2>2 DEF ClientType
  <2>7. ClientType(d)
    BY <2>3, <2>6 DEF ClientType
  <2>8. FromBefore(vs, ws)
    <3>1. ASSUME NEW k \in 1 .. Len(vs) PROVE \E j \in 1 .. Len(ws) : vs[k] = ws[j]
      <4>1. k \in 1 .. Len(ws) /\ k + 1 \in 1 .. Len(ws) /\ vs[k] = IF k < g THEN ws[k] ELSE ws[k + 1]
        BY <1>1, <2>3
      <4> QED
        BY <4>1
    <3> QED
      BY <3>1 DEF FromBefore
  <2> QED
    BY <2>5, <2>6, <2>7, <2>8
<1> QED
  BY <1>2, <1>3


-----------------------------------------------------------------------------
(* The confirmed and the unconfirmed entries of the mempool, and those     *)
(* that pay an address.                                                    *)
Yes(p) == {i \in 1 .. Len(p) : p[i].confirmed}
No(p) == {i \in 1 .. Len(p) : ~p[i].confirmed}
Payers(p, a) == {i \in 1 .. Len(p) : \E j \in DOMAIN Outs[p[i].tx] : Outs[p[i].tx][j] = a}

(* The counters are the sizes of these sets, a transaction has one entry,  *)
(* and a confirmed entry knows its block.                                  *)
Table(c) ==
    /\ c.confirmed = Cardinality(Yes(c.pool))
    /\ c.unconfirmed = Cardinality(No(c.pool))
    /\ \A i, j \in 1 .. Len(c.pool) : c.pool[i].tx = c.pool[j].tx => i = j
    /\ \A i \in 1 .. Len(c.pool) : c.pool[i].confirmed =>
          c.pool[i].block \in Block /\ c.pool[i].height = Height[c.pool[i].block]
    /\ \A k \in 1 .. Len(c.watchers) :
          c.watchers[k].count <= Cardinality(Payers(c.pool, c.watchers[k].addr))

ClientOK(c) == ClientType(c) /\ Indexed(c.watchers, c.index) /\ Table(c)

(* These sets are finite.                                                  *)
LEMMA PoolFinite ==
    ASSUME NEW p \in Seq(Entry)
    PROVE  /\ IsFiniteSet(Yes(p)) /\ Cardinality(Yes(p)) \in Nat
           /\ IsFiniteSet(No(p)) /\ Cardinality(No(p)) \in Nat
           /\ \A a : IsFiniteSet(Payers(p, a)) /\ Cardinality(Payers(p, a)) \in Nat
<1>1. Len(p) \in Nat /\ 1 \in Int /\ Len(p) \in Int
  BY LenProperties
<1>2. IsFiniteSet(1 .. Len(p))
  BY <1>1, FS_Interval
<1>3. ASSUME NEW T \in SUBSET (1 .. Len(p)) PROVE IsFiniteSet(T) /\ Cardinality(T) \in Nat
  BY <1>2, FS_Subset, FS_CardinalityType
<1>4. Yes(p) \in SUBSET (1 .. Len(p)) /\ No(p) \in SUBSET (1 .. Len(p))
      /\ \A a : Payers(p, a) \in SUBSET (1 .. Len(p))
  BY DEF Yes, No, Payers
<1> QED
  BY <1>3, <1>4

(* A client whose watchers alone have changed.                             *)
LEMMA WatchersOnly ==
    ASSUME NEW c, ClientOK(c), NEW d, ClientType(d), Indexed(d.watchers, d.index),
           d.pool = c.pool, d.confirmed = c.confirmed, d.unconfirmed = c.unconfirmed,
           FromBefore(d.watchers, c.watchers)
    PROVE  ClientOK(d)
<1>1. c.pool \in Seq(Entry)
  BY DEF ClientOK, ClientType
<1>2. \A a : Cardinality(Payers(c.pool, a)) \in Nat
  BY <1>1, PoolFinite
<1>3. \A k \in 1 .. Len(d.watchers) :
         d.watchers[k].count <= Cardinality(Payers(d.pool, d.watchers[k].addr))
  <2> DEFINE N(a) == Cardinality(Payers(c.pool, a))
  <2>1. \A j \in 1 .. Len(c.watchers) : c.watchers[j].count <= N(c.watchers[j].addr)
    BY DEF ClientOK, Table
  <2>2. \A a : N(a) \in Nat
    BY <1>2
  <2> HIDE DEF N
  <2>3. ASSUME NEW k \in 1 .. Len(d.watchers)
        PROVE  d.watchers[k].count <= N(d.watchers[k].addr)
    <3>1. CASE d.watchers[k].count = 0
      BY <2>2, <3>1
    <3>2. CASE \E j \in 1 .. Len(c.watchers) : d.watchers[k] = c.watchers[j]
      BY <2>1, <3>2
    <3> QED
      BY <3>1, <3>2 DEF FromBefore
  <2> QED
    BY <2>3 DEF N
<1>4. Table(d)
  BY <1>3 DEF ClientOK, Table
<1> QED
  BY <1>4 DEF ClientOK

(* dogecoin_smpv_get_tx.                                                   *)
LEMMA GetTxFinds ==
    ASSUME NEW c, ClientType(c), NEW t
    PROVE  \/ GetTx(c, t) = 0 /\ \A i \in 1 .. Len(c.pool) : c.pool[i].tx # t
           \/ GetTx(c, t) \in 1 .. Len(c.pool) /\ c.pool[GetTx(c, t)].tx = t
<1> DEFINE F == {i \in DOMAIN c.pool : c.pool[i].tx = t}
<1>1. DOMAIN c.pool = 1 .. Len(c.pool) /\ Len(c.pool) \in Nat
  BY LenProperties DEF ClientType
<1>2. GetTx(c, t) = IF F = {} THEN 0 ELSE Min(F)
  BY DEF GetTx
<1>3. F \in SUBSET Nat
  BY <1>1
<1>4. F # {} => Min(F) \in F
  BY <1>3, MinIn
<1> QED
  BY <1>1, <1>2, <1>4

(* One entry of the mempool is replaced.                                   *)
Replaced(q, p, i, e) == q = [p EXCEPT ![i] = e]

(* What that changes.                                                      *)
LEMMA SetEntry ==
    ASSUME NEW p \in Seq(Entry), NEW i \in 1 .. Len(p), NEW e \in Entry, e.tx = p[i].tx,
           NEW q, Replaced(q, p, i, e)
    PROVE  /\ q \in Seq(Entry) /\ Len(q) = Len(p) /\ q[i] = e
           /\ \A j \in 1 .. Len(p) : j # i => q[j] = p[j]
           /\ \A j \in 1 .. Len(p) : q[j].tx = p[j].tx
           /\ \A a : Payers(q, a) = Payers(p, a)
           /\ e.confirmed => Yes(q) = Yes(p) \cup {i} /\ No(q) = No(p) \ {i}
           /\ ~e.confirmed => Yes(q) = Yes(p) \ {i} /\ No(q) = No(p) \cup {i}
<1>1. Len(p) \in Nat /\ DOMAIN p = 1 .. Len(p)
  BY LenProperties
<1>2. q \in Seq(Entry) /\ Len(q) = Len(p)
  BY <1>1, ExceptSeq DEF Replaced
<1>3. q[i] = e /\ \A j \in 1 .. Len(p) : j # i => q[j] = p[j]
  BY <1>1 DEF Replaced
<1>4. \A j \in 1 .. Len(p) : q[j].tx = p[j].tx
  BY <1>3
<1>5. \A a : Payers(q, a) = Payers(p, a)
  BY <1>2, <1>4 DEF Payers
<1>6. \A j \in 1 .. Len(p) : q[j].confirmed <=> IF j = i THEN e.confirmed ELSE p[j].confirmed
  BY <1>3
<1>7. e.confirmed => Yes(q) = Yes(p) \cup {i} /\ No(q) = No(p) \ {i}
  BY <1>2, <1>6 DEF Yes, No
<1>8. ~e.confirmed => Yes(q) = Yes(p) \ {i} /\ No(q) = No(p) \cup {i}
  BY <1>2, <1>6 DEF Yes, No
<1> QED
  BY <1>2, <1>3, <1>4, <1>5, <1>7, <1>8

(* The same in numbers.                                                    *)
LEMMA SetEntryCounts ==
    ASSUME NEW p \in Seq(Entry), NEW i \in 1 .. Len(p), NEW e \in Entry, e.tx = p[i].tx,
           NEW q, Replaced(q, p, i, e)
    PROVE  /\ (e.confirmed <=> p[i].confirmed) =>
                 /\ Cardinality(Yes(q)) = Cardinality(Yes(p))
                 /\ Cardinality(No(q)) = Cardinality(No(p))
           /\ (e.confirmed /\ ~p[i].confirmed) =>
                 /\ Cardinality(Yes(q)) = Cardinality(Yes(p)) + 1
                 /\ Cardinality(No(q)) = Cardinality(No(p)) - 1
           /\ (~e.confirmed /\ p[i].confirmed) =>
                 /\ Cardinality(Yes(q)) = Cardinality(Yes(p)) - 1
                 /\ Cardinality(No(q)) = Cardinality(No(p)) + 1
<1> DEFINE Y == Yes(p)
           N == No(p)
<1>1. /\ e.confirmed => Yes(q) = Y \cup {i} /\ No(q) = N \ {i}
      /\ ~e.confirmed => Yes(q) = Y \ {i} /\ No(q) = N \cup {i}
  BY SetEntry
<1>2. IsFiniteSet(Y) /\ IsFiniteSet(N)
  BY PoolFinite
<1>3. (i \in Y <=> p[i].confirmed) /\ (i \in N <=> ~p[i].confirmed)
  BY DEF Yes, No
<1> HIDE DEF Y, N
<1>4. /\ Cardinality(Y \cup {i}) = IF i \in Y THEN Cardinality(Y) ELSE Cardinality(Y) + 1
      /\ Cardinality(Y \ {i}) = IF i \in Y THEN Cardinality(Y) - 1 ELSE Cardinality(Y)
  BY <1>2, FS_AddElement, FS_RemoveElement
<1>5. /\ Cardinality(N \cup {i}) = IF i \in N THEN Cardinality(N) ELSE Cardinality(N) + 1
      /\ Cardinality(N \ {i}) = IF i \in N THEN Cardinality(N) - 1 ELSE Cardinality(N)
  BY <1>2, FS_AddElement, FS_RemoveElement
<1> DEFINE yq == Yes(q)
           nq == No(q)
<1>6. /\ (e.confirmed /\ p[i].confirmed) =>
            Cardinality(yq) = Cardinality(Y) /\ Cardinality(nq) = Cardinality(N)
  BY <1>1, <1>3, <1>4, <1>5
<1>7. (~e.confirmed /\ ~p[i].confirmed) =>
            Cardinality(yq) = Cardinality(Y) /\ Cardinality(nq) = Cardinality(N)
  BY <1>1, <1>3, <1>4, <1>5
<1>8. (e.confirmed /\ ~p[i].confirmed) =>
            Cardinality(yq) = Cardinality(Y) + 1 /\ Cardinality(nq) = Cardinality(N) - 1
  BY <1>1, <1>3, <1>4, <1>5
<1>9. (~e.confirmed /\ p[i].confirmed) =>
            Cardinality(yq) = Cardinality(Y) - 1 /\ Cardinality(nq) = Cardinality(N) + 1
  BY <1>1, <1>3, <1>4, <1>5
<1> QED
  BY <1>6, <1>7, <1>8, <1>9 DEF Y, N


(* A client one of whose entries is replaced and whose counters follow.    *)
LEMMA EntryReplaced ==
    ASSUME NEW c, ClientOK(c), NEW i \in 1 .. Len(c.pool), NEW e \in Entry,
           e.tx = c.pool[i].tx,
           e.confirmed => e.block \in Block /\ e.height = Height[e.block],
           NEW d, d.confirmed \in Nat, d.unconfirmed \in Nat,
           d = [watchers |-> d.watchers, index |-> d.index, pool |-> d.pool,
                confirmed |-> d.confirmed, unconfirmed |-> d.unconfirmed],
           d.watchers = c.watchers, d.index = c.index, Replaced(d.pool, c.pool, i, e),
           d.confirmed = Cardinality(Yes(d.pool)), d.unconfirmed = Cardinality(No(d.pool))
    PROVE  /\ ClientOK(d) /\ Len(d.pool) = Len(c.pool) /\ d.pool[i] = e
           /\ \A j \in 1 .. Len(c.pool) : j # i => d.pool[j] = c.pool[j]
<1> DEFINE p == c.pool
           q == d.pool
<1>1. p \in Seq(Entry) /\ ClientType(c)
  BY DEF ClientOK, ClientType
<1>2. /\ q \in Seq(Entry) /\ Len(q) = Len(p) /\ q[i] = e
      /\ \A j \in 1 .. Len(p) : j # i => q[j] = p[j]
      /\ \A j \in 1 .. Len(p) : q[j].tx = p[j].tx
      /\ \A a : Payers(q, a) = Payers(p, a)
  BY <1>1, SetEntry
<1>3. ClientType(d)
  BY <1>1, <1>2 DEF ClientType
<1>4. \A j, k \in 1 .. Len(q) : q[j].tx = q[k].tx => j = k
  BY <1>2 DEF ClientOK, Table
<1>5. \A j \in 1 .. Len(q) : q[j].confirmed => q[j].block \in Block /\ q[j].height = Height[q[j].block]
  BY <1>2 DEF ClientOK, Table
<1>6. \A k \in 1 .. Len(d.watchers) :
         d.watchers[k].count <= Cardinality(Payers(q, d.watchers[k].addr))
  BY <1>2 DEF ClientOK, Table
<1>7. Table(d)
  BY <1>4, <1>5, <1>6 DEF Table
<1> QED
  BY <1>2, <1>3, <1>7 DEF ClientOK

(* No confirmed entry counts more than a tip at height h would give it, or *)
(* than the one its block gave it.                                         *)
Bounded(c, h) ==
    \A i \in 1 .. Len(c.pool) : c.pool[i].confirmed =>
        c.pool[i].confs <= 1 \/ c.pool[i].confs <= h - c.pool[i].height + 1

(* dogecoin_smpv_update_tx_status with confirmed true.                     *)
LEMMA ConfirmedOK ==
    ASSUME NEW c, ClientOK(c), NEW t \in Tx, NEW b \in Block, NEW d, d = Confirmed(c, t, b)
    PROVE  ClientOK(d) /\ \A h \in Nat : Bounded(c, h) => Bounded(d, h)
<1> DEFINE i == GetTx(c, t)
           e == [tx |-> t, confirmed |-> TRUE, block |-> b, height |-> Height[b], confs |-> 1]
           k == Counted(c, i)
<1>1. ClientType(c) /\ c.pool \in Seq(Entry) /\ Len(c.pool) \in Nat
  BY LenProperties DEF ClientOK, ClientType
<1>2. CASE i = 0
  BY <1>2 DEF Confirmed
<1>3. CASE i # 0
  <2>1. i \in 1 .. Len(c.pool) /\ c.pool[i].tx = t /\ c.pool[i] \in Entry
    BY <1>1, <1>3, GetTxFinds, ElementOfSeq
  <2>2. e \in Entry /\ e.tx = t /\ e.confirmed /\ e.block = b /\ e.height = Height[b] /\ e.confs = 1
    BY HeaderAssumption DEF Entry, Header
  <2>3. /\ k.watchers = c.watchers /\ k.index = c.index /\ k.pool = c.pool
        /\ k.confirmed = IF c.pool[i].confirmed THEN c.confirmed ELSE c.confirmed + 1
        /\ k.unconfirmed = IF c.pool[i].confirmed THEN c.unconfirmed ELSE Less(c.unconfirmed)
        /\ k = [watchers |-> k.watchers, index |-> k.index, pool |-> k.pool,
                confirmed |-> k.confirmed, unconfirmed |-> k.unconfirmed]
    <3>1. CASE c.pool[i].confirmed
      BY <1>1, <3>1 DEF Counted, ClientType
    <3>2. CASE ~c.pool[i].confirmed
      <4>1. k = [c EXCEPT !.confirmed = c.confirmed + 1, !.unconfirmed = Less(c.unconfirmed)]
        BY <3>2 DEF Counted
      <4> DEFINE u == Less(c.unconfirmed)
      <4> HIDE DEF k, u
      <4>2. k = [c EXCEPT !.confirmed = c.confirmed + 1, !.unconfirmed = u]
        BY <4>1 DEF u
      <4>3. /\ k.watchers = c.watchers /\ k.index = c.index /\ k.pool = c.pool
            /\ k.confirmed = c.confirmed + 1 /\ k.unconfirmed = u
            /\ k = [watchers |-> k.watchers, index |-> k.index, pool |-> k.pool,
                    confirmed |-> k.confirmed, unconfirmed |-> k.unconfirmed]
        BY <1>1, <4>2 DEF ClientType
      <4> QED
        BY <3>2, <4>3 DEF u
    <3> QED
      BY <3>1, <3>2
  <2> DEFINE q == [c.pool EXCEPT ![i] = e]
  <2>4. d = [k EXCEPT !.pool = [k.pool EXCEPT ![i] = e]]
    BY <1>3 DEF Confirmed
  <2> HIDE DEF k
  <2>5. d = [k EXCEPT !.pool = q]
    BY <2>3, <2>4
  <2> HIDE DEF e, i, q
  <2>6. /\ d.watchers = c.watchers /\ d.index = c.index /\ d.pool = q
        /\ d.confirmed = k.confirmed /\ d.unconfirmed = k.unconfirmed
        /\ d = [watchers |-> d.watchers, index |-> d.index, pool |-> d.pool,
                confirmed |-> d.confirmed, unconfirmed |-> d.unconfirmed]
    BY <2>3, <2>5
  <2>7. Replaced(d.pool, c.pool, i, e)
    BY <2>6 DEF Replaced, q
  <2>8. /\ c.confirmed = Cardinality(Yes(c.pool)) /\ c.unconfirmed = Cardinality(No(c.pool))
        /\ c.confirmed \in Nat /\ c.unconfirmed \in Nat
    BY DEF ClientOK, Table, ClientType
  <2>9. ~c.pool[i].confirmed => c.unconfirmed > 0
    <3>1. ~c.pool[i].confirmed => i \in No(c.pool)
      BY <2>1 DEF No
    <3>2. IsFiniteSet(No(c.pool))
      BY <1>1, PoolFinite
    <3>3. ~c.pool[i].confirmed => Cardinality(No(c.pool)) # 0
      BY <3>1, <3>2, FS_EmptySet
    <3> QED
      BY <2>8, <3>3
  <2>10. /\ c.pool[i].confirmed => /\ Cardinality(Yes(d.pool)) = Cardinality(Yes(c.pool))
                                   /\ Cardinality(No(d.pool)) = Cardinality(No(c.pool))
         /\ ~c.pool[i].confirmed => /\ Cardinality(Yes(d.pool)) = Cardinality(Yes(c.pool)) + 1
                                    /\ Cardinality(No(d.pool)) = Cardinality(No(c.pool)) - 1
    BY <1>1, <2>1, <2>2, <2>7, SetEntryCounts
  <2>11. /\ d.confirmed = Cardinality(Yes(d.pool)) /\ d.unconfirmed = Cardinality(No(d.pool))
         /\ d.confirmed \in Nat /\ d.unconfirmed \in Nat
    BY <2>3, <2>6, <2>8, <2>9, <2>10 DEF Less
  <2>12. /\ ClientOK(d) /\ Len(d.pool) = Len(c.pool) /\ d.pool[i] = e
         /\ \A j \in 1 .. Len(c.pool) : j # i => d.pool[j] = c.pool[j]
    BY <2>1, <2>2, <2>6, <2>7, <2>11, EntryReplaced
  <2>13. \A h \in Nat : Bounded(c, h) => Bounded(d, h)
    BY <2>2, <2>12 DEF Bounded
  <2> QED
    BY <2>12, <2>13
<1> QED
  BY <1>2, <1>3


(* dogecoin_smpv_update_tx_status with confirmed false.                    *)
LEMMA UnconfirmedOK ==
    ASSUME NEW c, ClientOK(c), NEW t \in Tx, NEW d, d = Unconfirmed(c, t)
    PROVE  ClientOK(d) /\ \A h \in Nat : Bounded(c, h) => Bounded(d, h)
<1> DEFINE i == GetTx(c, t)
           e == [tx |-> t, confirmed |-> FALSE, block |-> NULL, height |-> 0, confs |-> 0]
           q == [c.pool EXCEPT ![i] = e]
           y == IF c.pool[i].confirmed THEN Less(c.confirmed) ELSE c.confirmed
           n == IF c.pool[i].confirmed THEN c.unconfirmed + 1 ELSE c.unconfirmed
<1>1. ClientType(c) /\ c.pool \in Seq(Entry) /\ Len(c.pool) \in Nat
  BY LenProperties DEF ClientOK, ClientType
<1>2. CASE i = 0
  BY <1>2 DEF Unconfirmed
<1>3. CASE i # 0
  <2>1. i \in 1 .. Len(c.pool) /\ c.pool[i].tx = t
    BY <1>1, <1>3, GetTxFinds
  <2>2. e \in Entry /\ e.tx = t /\ ~e.confirmed
    BY DEF Entry
  <2>3. d = [c EXCEPT !.pool = q, !.confirmed = y, !.unconfirmed = n]
    BY <1>3 DEF Unconfirmed
  <2> HIDE DEF e, i, q, y, n
  <2>4. /\ d.watchers = c.watchers /\ d.index = c.index /\ d.pool = q
        /\ d.confirmed = y /\ d.unconfirmed = n
        /\ d = [watchers |-> d.watchers, index |-> d.index, pool |-> d.pool,
                confirmed |-> d.confirmed, unconfirmed |-> d.unconfirmed]
    BY <1>1, <2>3 DEF ClientType
  <2>5. Replaced(d.pool, c.pool, i, e)
    BY <2>4 DEF Replaced, q
  <2>6. /\ c.confirmed = Cardinality(Yes(c.pool)) /\ c.unconfirmed = Cardinality(No(c.pool))
        /\ c.confirmed \in Nat /\ c.unconfirmed \in Nat
    BY DEF ClientOK, Table, ClientType
  <2>7. c.pool[i].confirmed => c.confirmed > 0
    <3>1. c.pool[i].confirmed => i \in Yes(c.pool)
      BY <2>1 DEF Yes
    <3>2. IsFiniteSet(Yes(c.pool))
      BY <1>1, PoolFinite
    <3>3. c.pool[i].confirmed => Cardinality(Yes(c.pool)) # 0
      BY <3>1, <3>2, FS_EmptySet
    <3> QED
      BY <2>6, <3>3
  <2>8. /\ ~c.pool[i].confirmed => /\ Cardinality(Yes(d.pool)) = Cardinality(Yes(c.pool))
                                   /\ Cardinality(No(d.pool)) = Cardinality(No(c.pool))
        /\ c.pool[i].confirmed => /\ Cardinality(Yes(d.pool)) = Cardinality(Yes(c.pool)) - 1
                                  /\ Cardinality(No(d.pool)) = Cardinality(No(c.pool)) + 1
    BY <1>1, <2>1, <2>2, <2>5, SetEntryCounts
  <2>9. /\ d.confirmed = Cardinality(Yes(d.pool)) /\ d.unconfirmed = Cardinality(No(d.pool))
        /\ d.confirmed \in Nat /\ d.unconfirmed \in Nat
    BY <2>4, <2>6, <2>7, <2>8 DEF Less, y, n
  <2>10. /\ ClientOK(d) /\ Len(d.pool) = Len(c.pool) /\ d.pool[i] = e
         /\ \A j \in 1 .. Len(c.pool) : j # i => d.pool[j] = c.pool[j]
    BY <2>1, <2>2, <2>4, <2>5, <2>9, EntryReplaced
  <2>11. \A h \in Nat : Bounded(c, h) => Bounded(d, h)
    BY <2>2, <2>10 DEF Bounded
  <2> QED
    BY <2>10, <2>11
<1> QED
  BY <1>2, <1>3

(* q is p with one more entry, e, that is not confirmed.                   *)
LongerBy(q, p, e) ==
    /\ q \in Seq(Entry) /\ Len(q) = Len(p) + 1 /\ q[Len(p) + 1] = e
    /\ \A j \in 1 .. Len(p) : q[j] = p[j]
    /\ Cardinality(Yes(q)) = Cardinality(Yes(p))
    /\ Cardinality(No(q)) = Cardinality(No(p)) + 1
    /\ \A a : Cardinality(Payers(p, a)) <= Cardinality(Payers(q, a))
    /\ \A a : (\E j \in DOMAIN Outs[e.tx] : Outs[e.tx][j] = a) =>
                 Cardinality(Payers(q, a)) = Cardinality(Payers(p, a)) + 1

(* Appending an entry makes the mempool longer by it.                      *)
LEMMA AppendEntry ==
    ASSUME NEW p \in Seq(Entry), NEW e \in Entry, ~e.confirmed, NEW q, q = Append(p, e)
    PROVE  LongerBy(q, p, e)
<1> DEFINE m == Len(p) + 1
<1>1. Len(p) \in Nat
  BY LenProperties
<1>2. /\ q \in Seq(Entry) /\ Len(q) = m /\ q[m] = e /\ \A j \in 1 .. Len(p) : q[j] = p[j]
  BY AppendProperties
<1>3. m \notin Yes(p) /\ m \notin No(p) /\ \A a : m \notin Payers(p, a)
  BY <1>1 DEF Yes, No, Payers
<1>4. 1 .. m = (1 .. Len(p)) \cup {m} /\ m \notin 1 .. Len(p)
  BY <1>1
<1> HIDE DEF m
<1>5. Yes(q) = Yes(p)
  BY <1>2, <1>4 DEF Yes
<1>6. No(q) = No(p) \cup {m}
  BY <1>2, <1>4 DEF No
<1>7. \A a : Payers(p, a) \subseteq Payers(q, a)
  BY <1>2, <1>4 DEF Payers
<1>8. \A a : (\E j \in DOMAIN Outs[e.tx] : Outs[e.tx][j] = a) => Payers(q, a) = Payers(p, a) \cup {m}
  BY <1>2, <1>4 DEF Payers
<1>9. /\ IsFiniteSet(No(p)) /\ \A a : IsFiniteSet(Payers(p, a)) /\ IsFiniteSet(Payers(q, a))
  BY <1>2, PoolFinite
<1>10. Cardinality(No(q)) = Cardinality(No(p)) + 1
  BY <1>3, <1>6, <1>9, FS_AddElement
<1>11. ASSUME NEW a PROVE Cardinality(Payers(p, a)) <= Cardinality(Payers(q, a))
  BY <1>7, <1>9, FS_Subset
<1>12. ASSUME NEW a, \E j \in DOMAIN Outs[e.tx] : Outs[e.tx][j] = a
       PROVE  Cardinality(Payers(q, a)) = Cardinality(Payers(p, a)) + 1
  <2>1. Payers(q, a) = Payers(p, a) \cup {m}
    BY <1>8, <1>12
  <2> QED
    BY <1>3, <1>9, <2>1, FS_AddElement
<1> QED
  BY <1>2, <1>5, <1>10, <1>11, <1>12 DEF m, LongerBy


(* smpv_tx_find_relevant_watcher_address and the watcher it leads to.      *)
LEMMA RelevantFinds ==
    ASSUME NEW c, ClientType(c), Indexed(c.watchers, c.index), NEW t \in Tx,
           RelevantOutput(c, t) # 0,
           NEW a, a = Outs[t][RelevantOutput(c, t)]
    PROVE  /\ RelevantOutput(c, t) \in DOMAIN Outs[t]
           /\ GetWatcher(c, a) \in 1 .. Len(c.watchers)
           /\ c.watchers[GetWatcher(c, a)].addr = a
<1> DEFINE F == {i \in DOMAIN Outs[t] : Watching(c, Outs[t][i])}
           r == RelevantOutput(c, t)
<1>1. Outs[t] \in Seq(Addr)
  BY SmpvAssumption
<1>2. DOMAIN Outs[t] = 1 .. Len(Outs[t]) /\ Len(Outs[t]) \in Nat
  BY <1>1, LenProperties
<1>3. r = IF F = {} THEN 0 ELSE Min(F)
  BY DEF RelevantOutput
<1>4. F \in SUBSET Nat
  BY <1>2
<1>5. r \in F
  BY <1>3, <1>4, MinIn
<1>6. r \in DOMAIN Outs[t] /\ Watching(c, a)
  BY <1>5
<1>7. c.watchers \in Seq(Watcher)
  BY DEF ClientType
<1>8. GetWatcher(c, a) = Scan(c.watchers, a) /\ Scan(c.watchers, a) # 0
  BY <1>6, GetFinds
<1> QED
  BY <1>6, <1>7, <1>8, ScanFinds

(* dogecoin_smpv_process_tx.                                               *)
LEMMA ProcessOK ==
    ASSUME NEW c, ClientOK(c), NEW t \in Tx, NEW d, d = ProcessTx(c, t)
    PROVE  ClientOK(d) /\ \A h \in Nat : Bounded(c, h) => Bounded(d, h)
<1> DEFINE r == RelevantOutput(c, t)
           a == Outs[t][r]
           w == GetWatcher(c, a)
           ws == c.watchers
           x == c.index
           p == c.pool
           e == [tx |-> t, confirmed |-> FALSE, block |-> NULL, height |-> 0, confs |-> 0]
           q == Append(p, e)
           v == [ws[w] EXCEPT !.count = ws[w].count + 1]
           vs == [ws EXCEPT ![w] = v]
<1>1. /\ ClientType(c) /\ Indexed(ws, x) /\ p \in Seq(Entry) /\ Len(p) \in Nat
      /\ ws \in Seq(Watcher) /\ Len(ws) \in Nat
      /\ c.confirmed \in Nat /\ c.unconfirmed \in Nat
  BY LenProperties DEF ClientOK, ClientType
<1>2. CASE GetTx(c, t) # 0 \/ r = 0
  BY <1>2 DEF ProcessTx
<1>3. CASE GetTx(c, t) = 0 /\ r # 0
  <2>1. \A i \in 1 .. Len(p) : p[i].tx # t
    BY <1>1, <1>3, GetTxFinds
  <2>2. r \in DOMAIN Outs[t] /\ w \in 1 .. Len(ws) /\ ws[w].addr = a
    BY <1>1, <1>3, RelevantFinds
  <2>3. w # 0
    BY <1>1, <2>2
  <2>4. d = [c EXCEPT !.pool = q, !.unconfirmed = c.unconfirmed + 1, !.watchers = vs]
    <3>1. d = [c EXCEPT !.pool = q, !.unconfirmed = c.unconfirmed + 1,
                        !.watchers = OneMore(ws, w)]
      BY <1>3 DEF ProcessTx
    <3>2. OneMore(ws, w) = vs
      BY <2>3 DEF OneMore
    <3> QED
      BY <3>1, <3>2
  <2>5. \E j \in DOMAIN Outs[t] : Outs[t][j] = a
    BY <2>2
  <2> HIDE DEF w, a, r
  <2>6. v \in Watcher /\ v.addr = a /\ v.count = ws[w].count + 1 /\ ws[w].count \in Nat
    <3>1. ws[w] \in Watcher
      BY <1>1, <2>2, ElementOfSeq
    <3> QED
      BY <2>2, <3>1 DEF Watcher
  <2> HIDE DEF v
  <2>7. /\ vs \in Seq(Watcher) /\ Len(vs) = Len(ws) /\ vs[w] = v
        /\ \A k \in 1 .. Len(ws) : k # w => vs[k] = ws[k]
    <3>1. vs \in Seq(Watcher) /\ Len(vs) = Len(ws)
      BY <1>1, <2>2, <2>6, ExceptSeq
    <3>2. DOMAIN ws = 1 .. Len(ws)
      BY <1>1, LenProperties
    <3> QED
      BY <2>2, <3>1, <3>2
  <2> HIDE DEF vs
  <2>8. e \in Entry /\ e.tx = t /\ ~e.confirmed
    BY DEF Entry
  <2> HIDE DEF e
  <2>9. /\ q \in Seq(Entry) /\ Len(q) = Len(p) + 1 /\ q[Len(p) + 1] = e
        /\ \A j \in 1 .. Len(p) : q[j] = p[j]
        /\ Cardinality(Yes(q)) = Cardinality(Yes(p))
        /\ Cardinality(No(q)) = Cardinality(No(p)) + 1
        /\ \A b : Cardinality(Payers(p, b)) <= Cardinality(Payers(q, b))
        /\ Cardinality(Payers(q, a)) = Cardinality(Payers(p, a)) + 1
    <3>1. p \in Seq(Entry) /\ e \in Entry /\ ~e.confirmed /\ q = Append(p, e)
      BY <1>1, <2>8
    <3>2. \E j \in DOMAIN Outs[e.tx] : Outs[e.tx][j] = a
      BY <2>5, <2>8
    <3> HIDE DEF p, q
    <3>3. LongerBy(q, p, e)
      BY <3>1, AppendEntry
    <3> QED
      BY <3>2, <3>3 DEF LongerBy
  <2> HIDE DEF q
  <2>10. /\ d.watchers = vs /\ d.index = x /\ d.pool = q
         /\ d.confirmed = c.confirmed /\ d.unconfirmed = c.unconfirmed + 1
         /\ d = [watchers |-> d.watchers, index |-> d.index, pool |-> d.pool,
                 confirmed |-> d.confirmed, unconfirmed |-> d.unconfirmed]
    BY <1>1, <2>4 DEF ClientType
  <2>11. ClientType(d)
    BY <1>1, <2>7, <2>9, <2>10 DEF ClientType
  <2>12. \A k \in 1 .. Len(ws) : vs[k].addr = ws[k].addr
    BY <2>2, <2>6, <2>7
  <2>13. Indexed(vs, x)
    BY <1>1, <2>7, <2>12, SMTT(30) DEF Indexed
  <2>14. \A b : Cardinality(Payers(p, b)) \in Nat /\ Cardinality(Payers(q, b)) \in Nat
    BY <1>1, <2>9, PoolFinite
  <2>15. \A k \in 1 .. Len(ws) : ws[k].count <= Cardinality(Payers(p, ws[k].addr))
    BY DEF ClientOK, Table
  <2>16. ASSUME NEW k \in 1 .. Len(vs) PROVE vs[k].count <= Cardinality(Payers(q, vs[k].addr))
    <3>1. CASE k = w
      BY <2>2, <2>6, <2>7, <2>9, <2>14, <2>15, <3>1, SMTT(30)
    <3>2. CASE k # w
      <4>1. vs[k] = ws[k] /\ k \in 1 .. Len(ws)
        BY <2>7, <3>2
      <4>2. ws[k] \in Watcher
        BY <1>1, <4>1, ElementOfSeq
      <4>3. ws[k].count \in Nat
        BY <4>2 DEF Watcher
      <4> QED
        BY <2>9, <2>14, <2>15, <4>1, <4>3, SMTT(30)
    <3> QED
      BY <3>1, <3>2
  <2>17. \A i, j \in 1 .. Len(q) : q[i].tx = q[j].tx => i = j
    <3>1. \A i, j \in 1 .. Len(p) : p[i].tx = p[j].tx => i = j
      BY DEF ClientOK, Table
    <3>2. \A i \in 1 .. Len(q) :
             (i \in 1 .. Len(p) /\ q[i] = p[i]) \/ (i = Len(p) + 1 /\ q[i] = e)
      BY <1>1, <2>9
    <3> QED
      BY <2>1, <2>8, <3>1, <3>2
  <2>18. \A i \in 1 .. Len(q) : q[i].confirmed => i \in 1 .. Len(p) /\ q[i] = p[i]
    BY <1>1, <2>8, <2>9
  <2>19. \A i \in 1 .. Len(q) : q[i].confirmed =>
            q[i].block \in Block /\ q[i].height = Height[q[i].block]
    BY <2>18 DEF ClientOK, Table
  <2>20. c.confirmed = Cardinality(Yes(p)) /\ c.unconfirmed = Cardinality(No(p))
    BY DEF ClientOK, Table
  <2>21. Table(d)
    BY <2>9, <2>10, <2>16, <2>17, <2>19, <2>20 DEF Table
  <2>22. \A h \in Nat : Bounded(c, h) => Bounded(d, h)
    BY <2>10, <2>18 DEF Bounded
  <2> QED
    BY <2>10, <2>11, <2>13, <2>21, <2>22 DEF ClientOK
<1> QED
  BY <1>2, <1>3

(* A function on an initial segment of the naturals is a sequence.         *)
LEMMA FunIsSeq ==
    ASSUME NEW S, NEW n \in Nat, NEW f \in [1 .. n -> S]
    PROVE  f \in Seq(S) /\ Len(f) = n
<1>1. f \in Seq(S)
  BY SeqDef
<1> QED
  BY <1>1, LenProperties

(* dogecoin_smpv_tip_update: every confirmed entry gets its count at h.    *)
LEMMA TipUpdatedOK ==
    ASSUME NEW c, ClientOK(c), NEW h \in Nat, NEW d, d = TipUpdated(c, h)
    PROVE  /\ ClientOK(d)
           /\ \A i \in 1 .. Len(d.pool) : d.pool[i].confirmed =>
                 d.pool[i].confs = IF h >= d.pool[i].height THEN h - d.pool[i].height + 1 ELSE 0
<1> DEFINE p == c.pool
           q == [i \in DOMAIN p |-> IF p[i].confirmed /\ p[i].height # 0
                                    THEN [p[i] EXCEPT !.confs = Confs(p[i], h)] ELSE p[i]]
<1>1. /\ ClientType(c) /\ Indexed(c.watchers, c.index) /\ p \in Seq(Entry) /\ Len(p) \in Nat
      /\ DOMAIN p = 1 .. Len(p)
  BY LenProperties DEF ClientOK, ClientType
<1>2. d = [c EXCEPT !.pool = q]
  BY DEF TipUpdated
<1>3. ASSUME NEW i \in 1 .. Len(p)
      PROVE  /\ q[i] \in Entry /\ q[i].tx = p[i].tx /\ (q[i].confirmed <=> p[i].confirmed)
             /\ q[i].block = p[i].block /\ q[i].height = p[i].height
             /\ p[i].confirmed =>
                  q[i].confs = IF h >= p[i].height THEN h - p[i].height + 1 ELSE 0
  <2> DEFINE e == p[i]
             n == Confs(e, h)
             f == [e EXCEPT !.confs = n]
  <2>1. e \in Entry
    BY <1>1, ElementOfSeq
  <2>2. n \in Nat /\ n = IF h >= e.height THEN h - e.height + 1 ELSE 0
    BY <2>1 DEF Confs, Entry
  <2>3. e.confirmed => e.height # 0
    <3>1. e.confirmed => e.block \in Block /\ e.height = Height[e.block]
      BY DEF ClientOK, Table
    <3>2. \A b \in Block : Height[b] = Height[Prev[b]] + 1 /\ Height[Prev[b]] \in Nat
      BY HeaderAssumption
    <3> QED
      BY <3>1, <3>2
  <2>4. q[i] = IF e.confirmed /\ e.height # 0 THEN f ELSE e
    BY <1>1
  <2> HIDE DEF n, e, q
  <2>5. /\ f \in Entry /\ f.tx = e.tx /\ (f.confirmed <=> e.confirmed)
        /\ f.block = e.block /\ f.height = e.height /\ f.confs = n
    BY <2>1, <2>2 DEF Entry
  <2> HIDE DEF f
  <2>6. CASE e.confirmed
    <3>1. q[i] = f
      BY <2>3, <2>4, <2>6
    <3> QED
      BY <2>2, <2>5, <3>1 DEF e
  <2>7. CASE ~e.confirmed
    <3>1. q[i] = e
      BY <2>4, <2>7
    <3> QED
      BY <2>1, <2>7, <3>1 DEF e
  <2> QED
    BY <2>6, <2>7
<1>4. q \in Seq(Entry) /\ Len(q) = Len(p)
  <2>1. q \in [1 .. Len(p) -> Entry]
    BY <1>1, <1>3
  <2> HIDE DEF q
  <2> QED
    BY <1>1, <2>1, FunIsSeq
<1> HIDE DEF q
<1>5. /\ d.watchers = c.watchers /\ d.index = c.index /\ d.pool = q
      /\ d.confirmed = c.confirmed /\ d.unconfirmed = c.unconfirmed
      /\ d = [watchers |-> d.watchers, index |-> d.index, pool |-> d.pool,
              confirmed |-> d.confirmed, unconfirmed |-> d.unconfirmed]
  BY <1>1, <1>2 DEF ClientType
<1>6. ClientType(d)
  BY <1>1, <1>4, <1>5 DEF ClientType
<1>7. Yes(q) = Yes(p) /\ No(q) = No(p)
  BY <1>3, <1>4 DEF Yes, No
<1>8. \A a : Payers(q, a) = Payers(p, a)
  BY <1>3, <1>4 DEF Payers
<1>9. \A i, j \in 1 .. Len(q) : q[i].tx = q[j].tx => i = j
  BY <1>3, <1>4 DEF ClientOK, Table
<1>10. \A i \in 1 .. Len(q) : q[i].confirmed =>
          q[i].block \in Block /\ q[i].height = Height[q[i].block]
  BY <1>3, <1>4 DEF ClientOK, Table
<1>11. \A k \in 1 .. Len(c.watchers) :
         c.watchers[k].count <= Cardinality(Payers(q, c.watchers[k].addr))
  BY <1>8 DEF ClientOK, Table
<1>12. c.confirmed = Cardinality(Yes(q)) /\ c.unconfirmed = Cardinality(No(q))
  BY <1>7 DEF ClientOK, Table
<1>13. Table(d)
  BY <1>5, <1>9, <1>10, <1>11, <1>12 DEF Table
<1>14. \A i \in 1 .. Len(q) : q[i].confirmed =>
          q[i].confs = IF h >= q[i].height THEN h - q[i].height + 1 ELSE 0
  BY <1>3, <1>4
<1> QED
  BY <1>1, <1>5, <1>6, <1>13, <1>14 DEF ClientOK


-----------------------------------------------------------------------------
(* The clients met while the first n transactions of b are confirmed.      *)
IsConfirming(f, c, b, n) ==
    f = [k \in 0 .. n |-> IF k = 0 THEN c ELSE Confirmed(f[k-1], BlockTxs[b][k], b)]

(* What the block leaves is the last of them.                              *)
LEMMA BlockConfirmedIs ==
    \A c, b, n : BlockConfirmed(c, b, n) = (CHOOSE f : IsConfirming(f, c, b, n))[n]
  BY Zenon DEF BlockConfirmed, IsConfirming

(* They exist for every length.                                            *)
LEMMA ConfirmingExists ==
    ASSUME NEW c, NEW b, NEW m \in Nat
    PROVE  \E f : IsConfirming(f, c, b, m)
<1> DEFINE S == {n \in Nat : \E f : IsConfirming(f, c, b, n)}
<1>1. 0 \in S
  <2>1. IsConfirming([k \in 0 .. 0 |-> c], c, b, 0)
    BY DEF IsConfirming
  <2> QED
    BY <2>1
<1>2. ASSUME NEW n \in Nat, n \in S PROVE n + 1 \in S
  <2> PICK g : IsConfirming(g, c, b, n)
    BY <1>2
  <2> DEFINE h == [k \in 0 .. n + 1 |->
                     IF k = n + 1 THEN Confirmed(g[n], BlockTxs[b][n+1], b) ELSE g[k]]
  <2>1. \A k \in 0 .. n : g[k] = IF k = 0 THEN c ELSE Confirmed(g[k-1], BlockTxs[b][k], b)
    BY DEF IsConfirming
  <2>2. ASSUME NEW k \in 0 .. n + 1
        PROVE  h[k] = IF k = 0 THEN c ELSE Confirmed(h[k-1], BlockTxs[b][k], b)
    <3>1. CASE k = n + 1
      BY <3>1
    <3>2. CASE k = 0
      BY <2>1, <3>2
    <3>3. CASE k # 0 /\ k # n + 1
      <4>1. k \in 0 .. n /\ k - 1 \in 0 .. n + 1 /\ k - 1 # n + 1
        BY <3>3
      <4> QED
        BY <2>1, <3>3, <4>1
    <3> QED
      BY <3>1, <3>2, <3>3
  <2>3. h = [k \in 0 .. n + 1 |-> h[k]]
    OBVIOUS
  <2> HIDE DEF h
  <2>4. IsConfirming(h, c, b, n + 1)
    BY <2>2, <2>3, Zenon DEF IsConfirming
  <2> QED
    BY <2>4
<1> HIDE DEF S
<1>3. m \in S
  BY <1>1, <1>2, Induction
<1> QED
  BY <1>3 DEF S

(* A block that confirms keeps the client in order, whatever part of it    *)
(* could be read.                                                          *)
LEMMA BlockConfirmedOK ==
    ASSUME NEW c, ClientOK(c), NEW b \in Block, NEW n \in 0 .. Len(BlockTxs[b])
    PROVE  /\ ClientOK(BlockConfirmed(c, b, n))
           /\ \A h \in Nat : Bounded(c, h) => Bounded(BlockConfirmed(c, b, n), h)
<1> DEFINE f == CHOOSE g : IsConfirming(g, c, b, n)
           Fine(d) == ClientOK(d) /\ \A h \in Nat : Bounded(c, h) => Bounded(d, h)
           S == {k \in Nat : k <= n => Fine(f[k])}
<1>1. BlockTxs[b] \in Seq(Tx) /\ Len(BlockTxs[b]) \in Nat
  BY SmpvAssumption, LenProperties
<1>2. n \in Nat
  BY <1>1
<1>3. IsConfirming(f, c, b, n)
  BY <1>2, ConfirmingExists
<1>4. BlockConfirmed(c, b, n) = f[n]
  BY BlockConfirmedIs
<1> HIDE DEF f
<1>5. \A k \in 0 .. n : f[k] = IF k = 0 THEN c ELSE Confirmed(f[k-1], BlockTxs[b][k], b)
  BY <1>3 DEF IsConfirming
<1>6. 0 \in S
  BY <1>2, <1>5
<1>7. ASSUME NEW k \in Nat, k \in S PROVE k + 1 \in S
  <2>1. SUFFICES ASSUME k + 1 <= n PROVE Fine(f[k+1])
    OBVIOUS
  <2>2. Fine(f[k])
    BY <1>2, <1>7, <2>1
  <2>3. f[k+1] = Confirmed(f[k], BlockTxs[b][k+1], b)
    BY <1>2, <1>5, <2>1
  <2>4. BlockTxs[b][k+1] \in Tx
    BY <1>1, <2>1, ElementOfSeq
  <2>5. ClientOK(f[k+1]) /\ \A h \in Nat : Bounded(f[k], h) => Bounded(f[k+1], h)
    BY <2>2, <2>3, <2>4, ConfirmedOK
  <2> QED
    BY <2>2, <2>5
<1>8. n \in S
  <2> HIDE DEF S
  <2> QED
    BY <1>2, <1>6, <1>7, Induction
<1> QED
  BY <1>2, <1>4, <1>8


-----------------------------------------------------------------------------
(* The inductive invariant: the tables agree, no count passes what a tip   *)
(* at the peak would give, and nothing is tracked while it is off.         *)
Inv ==
    /\ Shape(db) /\ on \in BOOLEAN /\ peak \in Nat
    /\ ClientOK(sm) /\ Bounded(sm, peak)
    /\ on \/ sm = NewClient

(* dogecoin_smpv_client_new.                                               *)
LEMMA NewClientOK == ClientOK(NewClient) /\ \A h \in Nat : Bounded(NewClient, h)
<1> DEFINE n == NewClient
<1>1. /\ n.watchers = <<>> /\ n.index = <<>> /\ n.pool = <<>>
      /\ n.confirmed = 0 /\ n.unconfirmed = 0
      /\ n = [watchers |-> n.watchers, index |-> n.index, pool |-> n.pool,
              confirmed |-> n.confirmed, unconfirmed |-> n.unconfirmed]
  BY DEF NewClient
<1>2. Len(<<>>) = 0 /\ 1 .. 0 = {} /\ DOMAIN <<>> = {} /\ \A S : <<>> \in Seq(S)
  BY EmptySeq
<1> HIDE DEF n
<1>3. ClientType(n)
  BY <1>1, <1>2 DEF ClientType
<1>4. Indexed(n.watchers, n.index)
  BY <1>1, <1>2 DEF Indexed
<1>5. Yes(n.pool) = {} /\ No(n.pool) = {}
  BY <1>1, <1>2 DEF Yes, No
<1>6. Cardinality({}) = 0
  BY FS_EmptySet
<1>7. Table(n)
  BY <1>1, <1>2, <1>5, <1>6 DEF Table
<1>8. \A h \in Nat : Bounded(n, h)
  BY <1>1, <1>2 DEF Bounded
<1> QED
  BY <1>3, <1>4, <1>7, <1>8 DEF ClientOK, n

(* A count that a lower tip gives, a higher one gives too.                 *)
LEMMA BoundedAbove ==
    ASSUME NEW c, ClientOK(c), NEW h \in Nat, NEW k \in Nat, h <= k, Bounded(c, h)
    PROVE  Bounded(c, k)
<1>1. \A i \in 1 .. Len(c.pool) : c.pool[i] \in Entry
  BY ElementOfSeq DEF ClientOK, ClientType
<1>2. \A i \in 1 .. Len(c.pool) : c.pool[i].confs \in Nat /\ c.pool[i].height \in Nat
  BY <1>1 DEF Entry
<1> QED
  BY <1>2 DEF Bounded

(* What a new client, a watcher or a payment does.                         *)
LEMMA ClientSteps ==
    ASSUME Inv,
           \/ Enable \/ Disable
           \/ \E a \in Addr : AddWatcher(a) \/ RemoveWatcher(a)
           \/ \E t \in Tx : RecvTx(t) \/ Unconfirm(t)
    PROVE  Inv'
<1>1. /\ Shape(db) /\ on \in BOOLEAN /\ peak \in Nat /\ ClientOK(sm) /\ Bounded(sm, peak)
      /\ ClientType(sm) /\ Indexed(sm.watchers, sm.index)
  BY DEF Inv, ClientOK
<1>2. db' = db /\ peak' = peak
  BY DEF Enable, Disable, AddWatcher, RemoveWatcher, RecvTx, Unconfirm
<1>3. SUFFICES /\ on' \in BOOLEAN /\ (on' \/ sm' = NewClient)
               /\ ClientOK(sm') /\ Bounded(sm', peak)
  BY <1>1, <1>2 DEF Inv
<1>4. CASE Enable \/ Disable
  BY <1>1, <1>4, NewClientOK DEF Enable, Disable
<1>5. ASSUME NEW a \in Addr, AddWatcher(a) \/ RemoveWatcher(a)
      PROVE  /\ on' \in BOOLEAN /\ (on' \/ sm' = NewClient)
             /\ ClientOK(sm') /\ Bounded(sm', peak)
  <2>1. on /\ on' = on
    BY <1>5 DEF AddWatcher, RemoveWatcher
  <2>2. /\ ClientType(sm') /\ Indexed(sm'.watchers, sm'.index)
        /\ sm'.pool = sm.pool /\ sm'.confirmed = sm.confirmed
        /\ sm'.unconfirmed = sm.unconfirmed /\ FromBefore(sm'.watchers, sm.watchers)
    <3>1. CASE AddWatcher(a)
      <4>1. sm' = AddedWatcher(sm, a)
        BY <3>1 DEF AddWatcher
      <4> QED
        BY <1>1, <4>1, AddedOK
    <3>2. CASE RemoveWatcher(a)
      <4>1. sm' = RemovedWatcher(sm, a)
        BY <3>2 DEF RemoveWatcher
      <4> QED
        BY <1>1, <4>1, RemovedOK
    <3> QED
      BY <1>5, <3>1, <3>2
  <2>3. ClientOK(sm')
    BY <1>1, <2>2, WatchersOnly
  <2>4. Bounded(sm', peak)
    BY <1>1, <2>2 DEF Bounded
  <2> QED
    BY <1>1, <2>1, <2>3, <2>4
<1>6. ASSUME NEW t \in Tx, RecvTx(t) \/ Unconfirm(t)
      PROVE  /\ on' \in BOOLEAN /\ (on' \/ sm' = NewClient)
             /\ ClientOK(sm') /\ Bounded(sm', peak)
  <2>1. on /\ on' = on
    BY <1>6 DEF RecvTx, Unconfirm
  <2>2. CASE RecvTx(t)
    <3>1. sm' = ProcessTx(sm, t)
      BY <2>2 DEF RecvTx
    <3>2. ClientOK(sm') /\ Bounded(sm', peak)
      BY <1>1, <3>1, ProcessOK
    <3> QED
      BY <1>1, <2>1, <3>2
  <2>3. CASE Unconfirm(t)
    <3>1. sm' = Unconfirmed(sm, t)
      BY <2>3 DEF Unconfirm
    <3>2. ClientOK(sm') /\ Bounded(sm', peak)
      BY <1>1, <3>1, UnconfirmedOK
    <3> QED
      BY <1>1, <2>1, <3>2
  <2> QED
    BY <1>6, <2>2, <2>3
<1> QED
  BY <1>4, <1>5, <1>6


(* Max of two.                                                             *)
LEMMA MaxPair ==
    ASSUME NEW a \in Nat, NEW b \in Nat
    PROVE  Max({a, b}) \in Nat /\ Max({a, b}) >= a /\ Max({a, b}) >= b
<1> DEFINE T == {a, b}
<1>1. a + b \in Nat /\ T \in SUBSET (0 .. a + b) /\ T # {} /\ a \in T /\ b \in T
  OBVIOUS
<1>2. Max(T) \in T /\ \A y \in T : Max(T) >= y
  <2> HIDE DEF T
  <2> QED
    BY <1>1, MaxIn
<1> QED
  BY <1>1, <1>2

(* A well-formed block: every count is the one its height gives.           *)
LEMMA BlockStep ==
    ASSUME Inv, NEW b \in Block, RecvBlock(b)
    PROVE  /\ Inv'
           /\ db'.tip = IF Height[b] > Height[db.tip] THEN b ELSE db.tip
           /\ \A i \in 1 .. Len(sm'.pool) : sm'.pool[i].confirmed =>
                 sm'.pool[i].confs =
                    IF Height[b] >= sm'.pool[i].height
                    THEN Height[b] - sm'.pool[i].height + 1 ELSE 0
<1> DEFINE n == Len(BlockTxs[b])
           c == BlockConfirmed(sm, b, n)
           Exact == \A i \in 1 .. Len(sm'.pool) : sm'.pool[i].confirmed =>
                       sm'.pool[i].confs =
                          IF Height[b] >= sm'.pool[i].height
                          THEN Height[b] - sm'.pool[i].height + 1 ELSE 0
<1>1. /\ Shape(db) /\ db \in Index /\ on \in BOOLEAN /\ peak \in Nat
      /\ ClientOK(sm) /\ Bounded(sm, peak) /\ (on \/ sm = NewClient)
  BY DEF Inv, Shape
<1>2. Height[b] \in Nat /\ "p2p" \in Mode
  BY HeaderAssumption DEF Header, Mode
<1>3. /\ db' = Connect(db, b, "p2p") /\ on' = on
      /\ sm' = IF on THEN TipUpdated(c, Height[b]) ELSE sm
      /\ peak' = IF Height[b] > Height[db.tip] THEN Height[b] ELSE Max({peak, Height[b]})
  BY DEF RecvBlock
<1> HIDE DEF c
<1>4. Shape(db')
  BY <1>1, <1>2, <1>3, ConnectLive
<1>5. db'.tip = IF Height[b] > Height[db.tip] THEN b ELSE db.tip
  BY <1>1, <1>2, <1>3, ConnectType
<1>6. peak' \in Nat /\ peak' >= Height[b]
  BY <1>1, <1>2, <1>3, MaxPair
<1>7. ClientOK(sm') /\ Exact
  <2>1. CASE on
    <3>1. n \in 0 .. Len(BlockTxs[b])
      BY SmpvAssumption, LenProperties
    <3>2. ClientOK(c)
      BY <1>1, <3>1, BlockConfirmedOK DEF c
    <3>3. sm' = TipUpdated(c, Height[b])
      BY <1>3, <2>1
    <3> QED
      BY <1>2, <3>2, <3>3, TipUpdatedOK
  <2>2. CASE ~on
    <3>1. sm' = NewClient
      BY <1>1, <1>3, <2>2
    <3>2. sm'.pool = <<>> /\ Len(<<>>) = 0 /\ 1 .. 0 = {}
      BY <3>1, EmptySeq DEF NewClient
    <3> QED
      BY <3>1, <3>2, NewClientOK
  <2> QED
    BY <2>1, <2>2
<1>8. Bounded(sm', Height[b])
  <2>1. \A i \in 1 .. Len(sm'.pool) : sm'.pool[i] \in Entry
    BY <1>7, ElementOfSeq DEF ClientOK, ClientType
  <2>2. \A i \in 1 .. Len(sm'.pool) : sm'.pool[i].confs \in Nat /\ sm'.pool[i].height \in Nat
    BY <2>1 DEF Entry
  <2> QED
    BY <1>2, <1>7, <2>2 DEF Bounded
<1>9. Bounded(sm', peak')
  BY <1>2, <1>6, <1>7, <1>8, BoundedAbove
<1>10. on' \/ sm' = NewClient
  BY <1>1, <1>3
<1> QED
  BY <1>1, <1>3, <1>4, <1>5, <1>6, <1>7, <1>9, <1>10 DEF Inv

(* A malformed block: a header is popped, and the tip does not rise to a   *)
(* new header.                                                             *)
LEMMA BadBlockStep ==
    ASSUME Inv, NEW b \in Block, NEW n \in {0} \cup 0 .. Len(BlockTxs[b]) - 1,
           RecvBadBlock(b, n)
    PROVE  /\ Inv'
           /\ db'.tip \in db.tree \/ Height[db'.tip] <= Height[db.tip]
<1> DEFINE c == Connect(db, b, "p2p")
<1>1. /\ Shape(db) /\ db \in Index /\ on \in BOOLEAN /\ peak \in Nat
      /\ ClientOK(sm) /\ Bounded(sm, peak) /\ (on \/ sm = NewClient)
  BY DEF Inv, Shape
<1>2. /\ "p2p" \in Mode /\ b # Genesis /\ db.tip \in Header
      /\ \A x \in Header : Height[x] \in Nat
      /\ \A x \in Block : Prev[x] \in Header /\ Prev[x] # NULL
                          /\ Height[x] = Height[Prev[x]] + 1
  BY <1>1, HeaderAssumption DEF Mode, Index
<1>3. /\ db' = DisconnectTip(c) /\ on' = on /\ peak' = peak
      /\ sm' = IF on THEN BlockConfirmed(sm, b, n) ELSE sm
      /\ Prev[b] = db.tip \/ Prev[b] \in db.tree
  BY DEF RecvBadBlock, Connects, KnownPrev
<1>4. /\ Shape(c) /\ (Height[b] > Height[db.tip] => c.ptr[b] = Prev[b])
      /\ c.tip = IF Height[b] > Height[db.tip] THEN b ELSE db.tip
  BY <1>1, <1>2, ConnectLive, ConnectType
<1> HIDE DEF c
<1>5. Shape(db') /\ db'.tip = IF PtrOf(c, c.tip) = NULL THEN c.tip ELSE Prev[c.tip]
  BY <1>3, <1>4, PopLive
<1>6. db'.tip \in db.tree \/ Height[db'.tip] <= Height[db.tip]
  <2>1. CASE Height[b] > Height[db.tip]
    <3>1. PtrOf(c, c.tip) = Prev[b] /\ c.tip = b
      BY <1>2, <1>4, <2>1 DEF PtrOf
    <3>2. db'.tip = Prev[b]
      BY <1>2, <1>5, <3>1
    <3> QED
      BY <1>2, <1>3, <3>2
  <2>2. CASE ~(Height[b] > Height[db.tip])
    <3>1. c.tip = db.tip
      BY <1>4, <2>2
    <3>2. CASE db.tip = Genesis
      BY <1>2, <1>5, <3>1, <3>2 DEF PtrOf
    <3>3. CASE db.tip \in Block
      BY <1>2, <1>5, <3>1, <3>3
    <3> QED
      BY <1>2, <3>2, <3>3 DEF Header
  <2> QED
    BY <2>1, <2>2
<1>7. ClientOK(sm') /\ Bounded(sm', peak)
  <2>1. CASE on
    <3>1. n \in 0 .. Len(BlockTxs[b])
      <4>1. Len(BlockTxs[b]) \in Nat
        BY SmpvAssumption, LenProperties
      <4> QED
        BY <4>1
    <3> QED
      BY <1>1, <1>3, <2>1, <3>1, BlockConfirmedOK
  <2>2. CASE ~on
    BY <1>1, <1>3, <2>2
  <2> QED
    BY <2>1, <2>2
<1> QED
  BY <1>1, <1>3, <1>5, <1>6, <1>7 DEF Inv

(* The invariant holds in every state of every behaviour.                  *)
LEMMA InvInductive == Spec => []Inv
<1>1. Init => Inv
  <2> SUFFICES ASSUME Init PROVE Inv
    OBVIOUS
  <2>1. db = NewIndex /\ on = FALSE /\ sm = NewClient /\ peak = 0
    BY DEF Init
  <2>2. NewIndex \in Index
    BY HeaderAssumption DEF NewIndex, Index, Header
  <2>3. Shape(NewIndex)
    BY <2>2 DEF Shape, NewIndex
  <2>4. ClientOK(NewClient) /\ Bounded(NewClient, 0)
    BY NewClientOK
  <2> QED
    BY <2>1, <2>3, <2>4 DEF Inv
<1>2. Inv /\ [Next]_vars => Inv'
  <2> SUFFICES ASSUME Inv, [Next]_vars PROVE Inv'
    OBVIOUS
  <2>1. CASE UNCHANGED vars
    BY <2>1 DEF vars, Inv
  <2>2. CASE \/ Enable \/ Disable
             \/ \E a \in Addr : AddWatcher(a) \/ RemoveWatcher(a)
             \/ \E t \in Tx : RecvTx(t) \/ Unconfirm(t)
    BY <2>2, ClientSteps
  <2>3. ASSUME NEW b \in Block, RecvBlock(b) PROVE Inv'
    BY <2>3, BlockStep
  <2>4. ASSUME NEW b \in Block, NEW n \in {0} \cup 0 .. Len(BlockTxs[b]) - 1,
               RecvBadBlock(b, n)
        PROVE  Inv'
    BY <2>4, BadBlockStep
  <2> QED
    BY <2>1, <2>2, <2>3, <2>4 DEF Next
<1> QED
  BY <1>1, <1>2, PTL DEF Spec


-----------------------------------------------------------------------------
(* dogecoin_smpv_client: every field has its type whatever comes in; in    *)
(* particular neither the counters nor a count of confirmations wraps.     *)
THEOREM SmpvTypeCorrect == Spec => []TypeOK
<1>1. Inv => TypeOK
  <2> SUFFICES ASSUME Inv PROVE TypeOK
    OBVIOUS
  <2>1. /\ db \in Index /\ on \in BOOLEAN /\ peak \in Nat
        /\ ClientType(sm) /\ Indexed(sm.watchers, sm.index)
    BY DEF Inv, Shape, ClientOK
  <2>2. \A i \in 1 .. Len(sm.watchers) : sm.watchers[i].addr \in Addr
    <3>1. \A i \in 1 .. Len(sm.watchers) : sm.watchers[i] \in Watcher
      BY <2>1, ElementOfSeq DEF ClientType
    <3> QED
      BY <3>1 DEF Watcher
  <2>3. \A a \in DOMAIN sm.index : \E i \in 1 .. Len(sm.watchers) :
           sm.watchers[i].addr = a /\ sm.index[a] = i
    BY <2>1 DEF Indexed
  <2>4. Len(sm.watchers) \in Nat
    BY <2>1, LenProperties DEF ClientType
  <2>5. \A a \in DOMAIN sm.index : a \in Addr /\ sm.index[a] \in Nat \ {0}
    BY <2>2, <2>3, <2>4
  <2> QED
    BY <2>1, <2>5 DEF TypeOK, ClientType
<1> QED
  BY <1>1, InvInductive, PTL

(* dogecoin_smpv_get_watcher: the index and the array never disagree,      *)
(* however watchers are added and removed.                                 *)
THEOREM WatcherFound == Spec => []LookupFinds
<1>1. Inv => LookupFinds
  BY LookupOf DEF Inv, ClientOK, LookupFinds
<1> QED
  BY <1>1, InvInductive, PTL

(* dogecoin_smpv_process_tx and dogecoin_smpv_update_tx_status: the        *)
(* running counters are the sizes of what they count.                      *)
THEOREM CountersExact == Spec => []CountsAgree
<1>1. Inv => CountsAgree
  <2> SUFFICES ASSUME Inv PROVE CountsAgree
    OBVIOUS
  <2> DEFINE p == sm.pool
             Is(v) == {i \in DOMAIN p : p[i].confirmed = v}
  <2>1. ClientType(sm) /\ Table(sm)
    BY DEF Inv, ClientOK
  <2>2. DOMAIN p = 1 .. Len(p) /\ DOMAIN sm.watchers = 1 .. Len(sm.watchers)
    BY <2>1, LenProperties DEF ClientType
  <2>3. \A i \in 1 .. Len(p) : p[i].confirmed \in BOOLEAN
    <3>1. \A i \in 1 .. Len(p) : p[i] \in Entry
      BY <2>1, ElementOfSeq DEF ClientType
    <3> QED
      BY <3>1 DEF Entry
  <2>4. Is(TRUE) = Yes(p)
    BY <2>2, <2>3 DEF Yes
  <2>5. Is(FALSE) = No(p)
    BY <2>2, <2>3 DEF No
  <2>6. \A a : {i \in DOMAIN p : \E j \in DOMAIN Outs[p[i].tx] : Outs[p[i].tx][j] = a}
               = Payers(p, a)
    BY <2>2 DEF Payers
  <2>7. sm.confirmed = Cardinality(Is(TRUE)) /\ sm.unconfirmed = Cardinality(Is(FALSE))
    BY <2>1, <2>4, <2>5 DEF Table
  <2>8. \A i, j \in DOMAIN p : p[i].tx = p[j].tx => i = j
    BY <2>1, <2>2 DEF Table
  <2>9. \A k \in DOMAIN sm.watchers :
           sm.watchers[k].count <=
              Cardinality({i \in DOMAIN p :
                             \E j \in DOMAIN Outs[p[i].tx] :
                                Outs[p[i].tx][j] = sm.watchers[k].addr})
    BY <2>1, <2>2, <2>6 DEF Table
  <2> QED
    BY <2>7, <2>8, <2>9 DEF CountsAgree
<1> QED
  BY <1>1, InvInductive, PTL

(* A confirmed entry whose block is on the active chain is no higher than  *)
(* the tip.                                                                *)
LEMMA OnChainBelow ==
    ASSUME NEW ix, Shape(ix), NEW c, ClientOK(c), NEW i \in OnChain(ix, c)
    PROVE  /\ i \in 1 .. Len(c.pool) /\ c.pool[i].confirmed /\ c.pool[i].confs \in Nat
           /\ c.pool[i].height = Height[c.pool[i].block] /\ c.pool[i].height \in Nat
           /\ Height[ix.tip] \in Nat /\ c.pool[i].height <= Height[ix.tip]
<1>1. i \in 1 .. Len(c.pool) /\ c.pool[i].confirmed /\ c.pool[i].block \in ChainOf(ix, ix.tip)
  BY LenProperties DEF OnChain, ClientOK, ClientType
<1>2. c.pool[i] \in Entry
  BY <1>1, ElementOfSeq DEF ClientOK, ClientType
<1>3. c.pool[i].height \in Nat /\ c.pool[i].confs \in Nat
  BY <1>2 DEF Entry
<1>4. c.pool[i].height = Height[c.pool[i].block]
  BY <1>1 DEF ClientOK, Table
<1>5. ix.tip \in Header
  BY DEF Shape, Index
<1>6. Height[c.pool[i].block] <= Height[ix.tip] /\ Height[ix.tip] \in Nat
  BY <1>1, <1>5, Chain, HeaderAssumption
<1> QED
  BY <1>1, <1>3, <1>4, <1>6

(* dogecoin_smpv_tip_update, across forks, reorganisations and malformed   *)
(* blocks: a payment on the active chain is not shown deeper than it is.   *)
THEOREM ConfirmationsBounded == Spec => []NeverOverstated
<1>1. Inv => NeverOverstated
  <2> SUFFICES ASSUME Inv, NEW i \in OnChain(db, sm)
               PROVE  sm.pool[i].confs <=
                         Max({Height[db.tip], peak}) - Height[sm.pool[i].block] + 1
    BY DEF NeverOverstated
  <2> DEFINE e == sm.pool[i]
             m == Max({Height[db.tip], peak})
  <2>1. Shape(db) /\ ClientOK(sm) /\ Bounded(sm, peak) /\ peak \in Nat
    BY DEF Inv
  <2>2. /\ i \in 1 .. Len(sm.pool) /\ e.confirmed /\ e.confs \in Nat
        /\ e.height = Height[e.block] /\ e.height \in Nat
        /\ Height[db.tip] \in Nat /\ e.height <= Height[db.tip]
    BY <2>1, OnChainBelow
  <2>3. m \in Nat /\ m >= Height[db.tip] /\ m >= peak
    BY <2>1, <2>2, MaxPair
  <2>4. e.confs <= 1 \/ e.confs <= peak - e.height + 1
    BY <2>1, <2>2 DEF Bounded
  <2> HIDE DEF m, e
  <2>5. e.confs <= m - e.height + 1
    BY <2>1, <2>2, <2>3, <2>4
  <2> QED
    BY <2>2, <2>5 DEF m, e
<1> QED
  BY <1>1, InvInductive, PTL

(* The block branch of dogecoin_net_spv_post_cmd: when the tip rises to a  *)
(* new header, each payment on its chain has its exact count.              *)
THEOREM NewTipCountsExact == Spec => TipCountsAll
<1> DEFINE Rose == Height[db'.tip] > Height[db.tip] /\ db'.tip \notin db.tree
           All == \A i \in OnChain(db', sm') :
                     sm'.pool[i].confs = Height[db'.tip] - Height[sm'.pool[i].block] + 1
<1>1. Inv /\ [Next]_vars => [Rose => All]_vars
  <2> SUFFICES ASSUME Inv, Next, Rose PROVE All
    OBVIOUS
  <2>1. db \in Index /\ Height[db.tip] \in Nat
    BY HeaderAssumption DEF Inv, Shape, Index
  <2>2. db' # db
    BY <2>1
  <2>3. ASSUME NEW b \in Block, NEW n \in {0} \cup 0 .. Len(BlockTxs[b]) - 1,
               RecvBadBlock(b, n)
        PROVE  FALSE
    <3>1. Inv' /\ (db'.tip \in db.tree \/ Height[db'.tip] <= Height[db.tip])
      BY <2>3, BadBlockStep
    <3>2. Height[db'.tip] \in Nat
      BY <3>1, HeaderAssumption DEF Inv, Shape, Index
    <3> QED
      BY <2>1, <3>1, <3>2
  <2>4. PICK b \in Block : RecvBlock(b)
    BY <2>2, <2>3
    DEF Next, Enable, Disable, AddWatcher, RemoveWatcher, RecvTx, Unconfirm
  <2>5. /\ Inv' /\ db'.tip = IF Height[b] > Height[db.tip] THEN b ELSE db.tip
        /\ \A i \in 1 .. Len(sm'.pool) : sm'.pool[i].confirmed =>
              sm'.pool[i].confs = IF Height[b] >= sm'.pool[i].height
                                  THEN Height[b] - sm'.pool[i].height + 1 ELSE 0
    BY <2>4, BlockStep
  <2>6. db'.tip = b
    BY <2>1, <2>5
  <2>7. Shape(db') /\ ClientOK(sm')
    BY <2>5 DEF Inv
  <2>8. ASSUME NEW i \in OnChain(db', sm')
        PROVE  sm'.pool[i].confs = Height[db'.tip] - Height[sm'.pool[i].block] + 1
    <3>1. /\ i \in 1 .. Len(sm'.pool) /\ sm'.pool[i].confirmed
          /\ sm'.pool[i].height = Height[sm'.pool[i].block]
          /\ sm'.pool[i].height \in Nat /\ Height[db'.tip] \in Nat
          /\ sm'.pool[i].height <= Height[db'.tip]
      BY <2>7, OnChainBelow
    <3> QED
      BY <2>5, <2>6, <3>1
  <2> QED
    BY <2>8
<1>2. Spec => [][Rose => All]_vars
  BY <1>1, InvInductive, PTL DEF Spec
<1> QED
  BY <1>2 DEF TipCountsAll
=============================================================================
