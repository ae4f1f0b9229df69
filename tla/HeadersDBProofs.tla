--------------------------- MODULE HeadersDBProofs ---------------------------
(***************************************************************************)
(* Proofs about the headers database: its type invariant, the order of the *)
(* records on the file, the liveness of the active chain's memory and what *)
(* dogecoin_headers_db_load makes of a file that holds one chain, for any  *)
(* tree of headers, any trimming depth and any number of restarts.         *)
(***************************************************************************)
EXTENDS HeadersDB, HeaderTreeProofs, SequenceTheorems

(* What the file consists of, the headers on it, and all the headers the   *)
(* index can have got to know.                                             *)
Rec == [blk : Block, work : Nat] \cup {Torn}
Blks(f) == {f[q].blk : q \in 1 .. Len(f)}
Known(f) == Blks(f) \cup Checkpoint \cup {Junk}

(* The index refers to nothing outside K.                                  *)
Within(ix, K) ==
    /\ ix.tree \subseteq K
    /\ ix.tip \in K \cup {Genesis}
    /\ \A c \in Block : ix.ptr[c] \in K \cup {Genesis, NULL}

-----------------------------------------------------------------------------
(* A fresh index: the shape of a tree, nothing known, its chain is genesis.*)
LEMMA NewIndexSound ==
    ASSUME NEW K
    PROVE  Shape(NewIndex) /\ Within(NewIndex, K) /\ ChainLive(NewIndex)
<1>1. NewIndex \in Index
  BY HeaderAssumption DEF NewIndex, Index, Header
<1>2. Shape(NewIndex)
  BY <1>1 DEF Shape, NewIndex
<1>3. Within(NewIndex, K)
  BY DEF Within, NewIndex
<1>4. NewIndex.tip = Genesis /\ Genesis \in Header /\ NewIndex.tree = {}
  BY DEF NewIndex, Header
<1>5. ChainOf(NewIndex, Genesis) \subseteq {Genesis}
  <2>1. \A c \in {Genesis} : PtrOf(NewIndex, c) = NULL
    BY DEF PtrOf
  <2> DEFINE S == {Genesis}
  <2>2. Genesis \in S /\ \A c \in S : PtrOf(NewIndex, c) = NULL \/ PtrOf(NewIndex, c) \in S
    BY <2>1
  <2> HIDE DEF S
  <2>3. ChainOf(NewIndex, Genesis) \subseteq S
    BY <1>4, <2>2, ChainWithin
  <2> QED
    BY <2>3 DEF S
<1> QED
  BY <1>2, <1>3, <1>4, <1>5 DEF ChainLive

(* Connecting a header adds that header to what the index knows.           *)
LEMMA ConnectWithin ==
    ASSUME NEW ix, Shape(ix), NEW b \in Block, NEW mode \in Mode, Connects(ix, b, mode),
           NEW K, Within(ix, K), NEW L, K \subseteq L, b \in L
    PROVE  /\ Within(Connect(ix, b, mode), L)
           /\ Prev[b] \in K \cup {Genesis}
<1> DEFINE l == Connect(ix, b, mode)
<1>1. ix \in Index
  BY DEF Shape
<1>2. l.tree \subseteq ix.tree \cup {b} /\ l.tip = IF Height[b] > Height[ix.tip] THEN b ELSE ix.tip
  BY <1>1, ConnectType
<1>3. /\ l.ptr[b] \in {NULL, Prev[b]}
      /\ \A c \in Block \ {b} : l.ptr[c] \in {NULL, ix.ptr[c]}
  BY ConnectLive
<1>4. Prev[b] \in K \cup {Genesis}
  BY DEF Connects, KnownPrev, Within
<1> HIDE DEF l
<1>5. \A c \in Block : l.ptr[c] \in L \cup {Genesis, NULL}
  BY <1>3, <1>4 DEF Within
<1>6. Within(l, L)
  BY <1>2, <1>5 DEF Within
<1> QED
  BY <1>4, <1>6 DEF l

(* Popping the tip adds nothing.                                           *)
LEMMA PopWithin ==
    ASSUME NEW ix, Shape(ix), NEW K, Within(ix, K)
    PROVE  Within(DisconnectTip(ix), K)
<1> DEFINE d == DisconnectTip(ix)
<1>1. /\ d.ptr = ix.ptr /\ d.tree \subseteq ix.tree
      /\ d.tip = IF PtrOf(ix, ix.tip) = NULL THEN ix.tip ELSE Prev[ix.tip]
  BY PopLive
<1>2. ix.tip \in Header /\ NULL \notin Header
  BY HeaderAssumption DEF Shape, Index
<1>3. PtrOf(ix, ix.tip) # NULL => Prev[ix.tip] \in K \cup {Genesis}
  BY <1>2 DEF PtrOf, Shape, Within, Header
<1> HIDE DEF d
<1>4. Within(d, K)
  BY <1>1, <1>3 DEF Within
<1> QED
  BY <1>4 DEF d

(* A scan that starts at a checkpoint has that checkpoint as its chain.    *)
LEMMA CheckpointSound ==
    ASSUME NEW ix, Shape(ix), NEW b \in Block, NEW w \in Nat
    PROVE  /\ Shape(SetCheckpointStart(ix, b, w))
           /\ ChainLive(SetCheckpointStart(ix, b, w))
           /\ \A K : Within(ix, K) /\ b \in K => Within(SetCheckpointStart(ix, b, w), K)
<1> DEFINE l == SetCheckpointStart(ix, b, w)
<1>1. ix \in Index /\ ix.ptr \in [Block -> Header \cup {NULL}] /\ ix.work \in [Block -> Nat]
      /\ b \in Header /\ b # Genesis
  BY HeaderAssumption DEF Shape, Index, Header
<1>2. /\ l.tree = ix.tree \cup {b} /\ l.tip = b /\ l.bottom = b
      /\ l.ptr = [ix.ptr EXCEPT ![b] = NULL] /\ l.work = [ix.work EXCEPT ![b] = w]
      /\ l = [tree |-> l.tree, ptr |-> l.ptr, work |-> l.work, tip |-> l.tip,
              bottom |-> l.bottom]
  <2>1. l = [ix EXCEPT !.tree = ix.tree \cup {b}, !.ptr = [ix.ptr EXCEPT ![b] = NULL],
                      !.work = [ix.work EXCEPT ![b] = w], !.tip = b, !.bottom = b]
    BY DEF SetCheckpointStart
  <2> DEFINE P == [ix.ptr EXCEPT ![b] = NULL]
             W == [ix.work EXCEPT ![b] = w]
  <2> HIDE DEF P, W, l
  <2>2. l = [ix EXCEPT !.tree = ix.tree \cup {b}, !.ptr = P, !.work = W, !.tip = b, !.bottom = b]
    BY <2>1 DEF P, W
  <2>3. /\ l.tree = ix.tree \cup {b} /\ l.tip = b /\ l.bottom = b /\ l.ptr = P /\ l.work = W
        /\ l = [tree |-> l.tree, ptr |-> l.ptr, work |-> l.work, tip |-> l.tip,
                bottom |-> l.bottom]
    BY <1>1, <2>2 DEF Index
  <2> QED
    BY <2>3 DEF P, W
<1> HIDE DEF l
<1>3. l.ptr[b] = NULL /\ \A c \in Block \ {b} : l.ptr[c] = ix.ptr[c]
  BY <1>1, <1>2
<1>4. l.ptr \in [Block -> Header \cup {NULL}] /\ l.work \in [Block -> Nat]
  BY <1>1, <1>2
<1>5. l.tree \in SUBSET Block /\ l.tip \in Header /\ l.bottom \in Header
  BY <1>1, <1>2 DEF Index
<1>6. l \in Index
  BY <1>2, <1>4, <1>5 DEF Index
<1>7. Shape(l)
  BY <1>3, <1>6 DEF Shape
<1>8. ChainLive(l)
  <2> DEFINE S == {b}
  <2>1. b \in S /\ \A c \in S : PtrOf(l, c) = NULL \/ PtrOf(l, c) \in S
    BY <1>1, <1>3 DEF PtrOf
  <2> HIDE DEF S
  <2>2. ChainOf(l, b) \subseteq S
    BY <1>1, <2>1, ChainWithin
  <2> QED
    BY <1>2, <2>2 DEF ChainLive, S
<1>9. \A K : Within(ix, K) /\ b \in K => Within(l, K)
  BY <1>2, <1>3 DEF Within
<1> QED
  BY <1>7, <1>8, <1>9 DEF l

(* The tip's work is overwritten and nothing else.                         *)
LEMMA TipWorkSound ==
    ASSUME NEW ix, Shape(ix), NEW w \in Nat
    PROVE  /\ Shape(TipWork(ix, w))
           /\ TipWork(ix, w).tree = ix.tree /\ TipWork(ix, w).tip = ix.tip
           /\ TipWork(ix, w).ptr = ix.ptr
           /\ ChainLive(ix) => ChainLive(TipWork(ix, w))
           /\ \A K : Within(ix, K) => Within(TipWork(ix, w), K)
<1> DEFINE l == TipWork(ix, w)
<1>1. CASE ix.tip = Genesis
  BY <1>1 DEF TipWork
<1>2. CASE ix.tip # Genesis
  <2>1. ix \in Index /\ ix.work \in [Block -> Nat] /\ ix.tip \in Block /\ ix.tip \in Header
    BY <1>2 DEF Shape, Index, Header
  <2>2. /\ l.tree = ix.tree /\ l.tip = ix.tip /\ l.ptr = ix.ptr /\ l.bottom = ix.bottom
        /\ l.work = [ix.work EXCEPT ![ix.tip] = w]
        /\ l = [tree |-> l.tree, ptr |-> l.ptr, work |-> l.work, tip |-> l.tip,
                bottom |-> l.bottom]
    BY <1>2, <2>1 DEF TipWork, Index
  <2> HIDE DEF l
  <2>3. l.work \in [Block -> Nat]
    BY <2>1, <2>2
  <2>4. l \in Index
    BY <2>1, <2>2, <2>3 DEF Index
  <2>5. Shape(l)
    BY <2>2, <2>4 DEF Shape
  <2>6. ChainOf(l, ix.tip) \subseteq ChainOf(ix, ix.tip)
    <3> DEFINE S == ChainOf(ix, ix.tip)
    <3>1. ix.tip \in S /\ \A c \in S : PtrOf(ix, c) = NULL \/ PtrOf(ix, c) \in S
      BY <2>1, Chain
    <3>2. \A c \in S : PtrOf(l, c) = NULL \/ PtrOf(l, c) \in S
      BY <2>2, <3>1 DEF PtrOf
    <3> HIDE DEF S
    <3>3. ChainOf(l, ix.tip) \subseteq S
      BY <2>1, <3>1, <3>2, ChainWithin
    <3> QED
      BY <3>3 DEF S
  <2>7. ChainLive(ix) => ChainLive(l)
    BY <2>2, <2>6 DEF ChainLive
  <2>8. \A K : Within(ix, K) => Within(l, K)
    BY <2>2 DEF Within
  <2> QED
    BY <2>2, <2>5, <2>7, <2>8 DEF l
<1> QED
  BY <1>1, <1>2

(* The first record of a load, placed on a fresh index.                    *)
LEMMA FirstSound ==
    ASSUME NEW b \in Block
    PROVE  /\ Shape(FirstBlock(NewIndex, b)) /\ ChainLive(FirstBlock(NewIndex, b))
           /\ FirstBlock(NewIndex, b).tree = {b} /\ FirstBlock(NewIndex, b).tip = b
           /\ \A K : b \in K => Within(FirstBlock(NewIndex, b), K)
<1> DEFINE l == FirstBlock(NewIndex, b)
<1>1. Shape(NewIndex) /\ b \in Header /\ b # Genesis
  BY NewIndexSound, HeaderAssumption DEF Header
<1>2. /\ l.tree = {b} /\ l.tip = b /\ l.bottom = Genesis /\ l.ptr = [c \in Block |-> NULL]
      /\ l.work = [c \in Block |-> 0]
      /\ l = [tree |-> l.tree, ptr |-> l.ptr, work |-> l.work, tip |-> l.tip,
              bottom |-> l.bottom]
  <2> DEFINE n == NewIndex
  <2>1. /\ n.tree = {} /\ n.tip = Genesis /\ n.bottom = Genesis
        /\ n.ptr = [c \in Block |-> NULL] /\ n.work = [c \in Block |-> 0]
    BY DEF NewIndex
  <2>2. n \in Index
    BY <1>1 DEF Shape
  <2> HIDE DEF n
  <2>3. l = [n EXCEPT !.tree = n.tree \cup {b}, !.tip = b]
    BY DEF FirstBlock, n
  <2> HIDE DEF l
  <2>4. /\ l.tree = n.tree \cup {b} /\ l.tip = b /\ l.bottom = n.bottom
        /\ l.ptr = n.ptr /\ l.work = n.work
        /\ l = [tree |-> l.tree, ptr |-> l.ptr, work |-> l.work, tip |-> l.tip,
                bottom |-> l.bottom]
    BY <2>2, <2>3 DEF Index
  <2> QED
    BY <2>1, <2>4
<1> HIDE DEF l
<1>3. l \in Index
  BY <1>1, <1>2 DEF Index, Header
<1>4. Shape(l)
  BY <1>2, <1>3 DEF Shape
<1>5. ChainLive(l)
  <2> DEFINE S == {b}
  <2>1. b \in S /\ \A c \in S : PtrOf(l, c) = NULL \/ PtrOf(l, c) \in S
    BY <1>1, <1>2 DEF PtrOf
  <2> HIDE DEF S
  <2>2. ChainOf(l, b) \subseteq S
    BY <1>1, <2>1, ChainWithin
  <2> QED
    BY <1>2, <2>2 DEF ChainLive, S
<1>6. \A K : b \in K => Within(l, K)
  BY <1>2 DEF Within
<1> QED
  BY <1>2, <1>4, <1>5, <1>6 DEF l


-----------------------------------------------------------------------------
(* FileInOrder, of any file.                                               *)
InOrder(f) ==
    \A p \in 1 .. Len(f) : f[p] # Torn =>
        Prev[f[p].blk] \in {Genesis} \cup Checkpoint \cup {f[q].blk : q \in 1 .. p - 1}

(* One more record, whose predecessor is on the file.                      *)
LEMMA AppendInOrder ==
    ASSUME NEW f \in Seq(Rec), InOrder(f), NEW r \in Rec,
           r # Torn => Prev[r.blk] \in {Genesis} \cup Checkpoint \cup Blks(f)
    PROVE  /\ Append(f, r) \in Seq(Rec) /\ Len(Append(f, r)) = Len(f) + 1
           /\ InOrder(Append(f, r))
           /\ Blks(f) \subseteq Blks(Append(f, r)) /\ r.blk \in Blks(Append(f, r))
<1> DEFINE g == Append(f, r)
<1>1. /\ g \in Seq(Rec) /\ Len(g) = Len(f) + 1 /\ Len(f) \in Nat
      /\ \A p \in 1 .. Len(f) : g[p] = f[p]
      /\ g[Len(f) + 1] = r
  BY AppendProperties
<1> HIDE DEF g
<1>2. Blks(f) \subseteq Blks(g) /\ r.blk \in Blks(g)
  BY <1>1 DEF Blks
<1>3. ASSUME NEW p \in 1 .. Len(g), g[p] # Torn
      PROVE  Prev[g[p].blk] \in {Genesis} \cup Checkpoint \cup {g[q].blk : q \in 1 .. p - 1}
  <2>1. CASE p \in 1 .. Len(f)
    <3>1. Prev[f[p].blk] \in {Genesis} \cup Checkpoint \cup {f[q].blk : q \in 1 .. p - 1}
      BY <1>1, <1>3, <2>1 DEF InOrder
    <3>2. \A q \in 1 .. p - 1 : g[q] = f[q]
      BY <1>1, <2>1
    <3> QED
      BY <1>1, <2>1, <3>1, <3>2
  <2>2. CASE p = Len(f) + 1
    BY <1>1, <1>3, <2>2 DEF Blks
  <2> QED
    BY <1>1, <2>1, <2>2
<1>4. InOrder(g)
  BY <1>3 DEF InOrder
<1> QED
  BY <1>1, <1>2, <1>4 DEF g

(* What a crash leaves of it.                                              *)
LEMMA PrefixInOrder ==
    ASSUME NEW f \in Seq(Rec), InOrder(f), NEW k \in 0 .. Len(f)
    PROVE  SubSeq(f, 1, k) \in Seq(Rec) /\ InOrder(SubSeq(f, 1, k))
<1> DEFINE g == SubSeq(f, 1, k)
<1>1. /\ g \in Seq(Rec) /\ Len(g) = k /\ Len(f) \in Nat /\ k \in Int
      /\ \A p \in 1 .. k : g[p] = f[p]
  BY LenProperties
<1> HIDE DEF g
<1>2. ASSUME NEW p \in 1 .. Len(g), g[p] # Torn
      PROVE  Prev[g[p].blk] \in {Genesis} \cup Checkpoint \cup {g[q].blk : q \in 1 .. p - 1}
  <2>1. Prev[f[p].blk] \in {Genesis} \cup Checkpoint \cup {f[q].blk : q \in 1 .. p - 1}
    BY <1>1, <1>2 DEF InOrder
  <2>2. \A q \in 1 .. p - 1 : g[q] = f[q]
    BY <1>1
  <2> QED
    BY <1>1, <2>1, <2>2
<1>3. InOrder(g)
  BY <1>2 DEF InOrder
<1> QED
  BY <1>1, <1>3 DEF g

(* The record the loader reads next.                                       *)
LEMMA ReadNext ==
    ASSUME file \in Seq(Rec), pos \in 0 .. Len(file), Unread # {}
    PROVE  /\ Min(Unread) \in 1 .. Len(file) /\ Min(Unread) > pos
           /\ file[Min(Unread)] # Torn
           /\ ReadAt(Min(Unread)).blk \in Block /\ ReadAt(Min(Unread)).blk \in Known(file)
           /\ ReadAt(Min(Unread)).work \in Nat
           /\ \A p \in 1 .. Len(file) : p > pos /\ p < Min(Unread) => file[p] = Torn
<1> DEFINE m == Min(Unread)
<1>1. Len(file) \in Nat /\ pos \in Nat /\ Unread \in SUBSET Nat
  BY LenProperties DEF Unread
<1>2. m \in Unread /\ \A y \in Unread : m <= y
  BY <1>1, MinIn
<1> HIDE DEF m
<1>3. m \in 1 .. Len(file) /\ m > pos /\ file[m] # Torn
  BY <1>2 DEF Unread
<1>4. \A p \in 1 .. Len(file) : p > pos /\ p < m => file[p] = Torn
  BY <1>1, <1>2, <1>3 DEF Unread
<1>5. file[m] \in [blk : Block, work : Nat]
  BY <1>3 DEF Rec
<1>6. /\ ReadAt(m).blk \in Block /\ ReadAt(m).blk \in Known(file)
      /\ ReadAt(m).work \in Nat
  <2>1. CASE Aligned(m)
    <3>1. ReadAt(m) = file[m]
      BY <2>1 DEF ReadAt
    <3>2. file[m].blk \in Blks(file)
      BY <1>3 DEF Blks
    <3> QED
      BY <1>5, <3>1, <3>2 DEF Known
  <2>2. CASE ~Aligned(m)
    <3>1. ReadAt(m) = Record(Junk, JunkWork)
      BY <2>2 DEF ReadAt
    <3> QED
      BY <3>1, HeadersDBAssumption DEF Record, Known
  <2> QED
    BY <2>1, <2>2
<1> QED
  BY <1>3, <1>4, <1>6 DEF m


-----------------------------------------------------------------------------
(* While a file of one chain is loaded, memory holds exactly the headers   *)
(* of the records read so far and the tip is the highest of them.          *)
LoadedSoFar ==
    (pc = "loading" /\ pos > 0 /\ OneChainOnFile) =>
        /\ index.tree = {file[q].blk : q \in 1 .. pos}
        /\ index.tip \in index.tree
        /\ \A c \in index.tree : Height[c] <= Height[index.tip]

(* The inductive invariant.                                                *)
Inv ==
    /\ TypeOK
    /\ Shape(index)
    /\ Within(index, Known(file))
    /\ FileInOrder
    /\ pc # "loading" => pos = 0
    /\ pc = "down" \/ (pc = "loading" /\ pos = 0) => index = NewIndex
    /\ pc = "down" => restarts < MaxRestarts
    /\ LoadedSoFar

(* The invariant of a database that is not being loaded.                   *)
Idle ==
    /\ Shape(index) /\ Within(index, Known(file))
    /\ file \in Seq(Rec) /\ InOrder(file) /\ durable \in 0 .. Len(file)
    /\ pc \in {"down", "open"} /\ pos = 0 /\ restarts \in 0 .. MaxRestarts
    /\ pc = "down" => index = NewIndex /\ restarts < MaxRestarts

(* It is all there is to show of a step that leaves the loader idle.       *)
LEMMA InvIdle ==
    ASSUME Idle'
    PROVE  Inv'
<1>1. index' \in Index /\ Len(file') \in Nat
  BY LenProperties DEF Shape, Idle
<1>2. TypeOK'
  BY <1>1 DEF TypeOK, Rec, Torn, Idle
<1>3. FileInOrder'
  BY DEF FileInOrder, InOrder, Idle
<1>4. LoadedSoFar'
  BY DEF LoadedSoFar, Idle
<1> QED
  BY <1>2, <1>3, <1>4 DEF Inv, Idle

(* What the invariant says of a state outside a load.                      *)
LEMMA InvFacts ==
    ASSUME Inv
    PROVE  /\ Shape(index) /\ Within(index, Known(file)) /\ file \in Seq(Rec) /\ InOrder(file)
           /\ Len(file) \in Nat /\ durable \in 0 .. Len(file) /\ pos \in 0 .. Len(file)
           /\ restarts \in 0 .. MaxRestarts /\ MaxRestarts \in Nat
           /\ pc # "loading" => pos = 0
<1>1. file \in Seq(Rec) /\ durable \in 0 .. Len(file) /\ pos \in 0 .. Len(file)
      /\ restarts \in 0 .. MaxRestarts
  BY DEF Inv, TypeOK, Rec, Torn
<1>2. InOrder(file)
  BY DEF Inv, FileInOrder, InOrder
<1>3. MaxRestarts \in Nat /\ Len(file) \in Nat
  BY <1>1, HeadersDBAssumption, LenProperties
<1> QED
  BY <1>1, <1>2, <1>3 DEF Inv

(* A header is stored: what connect_hdr writes extends what is on the file.*)
LEMMA Stored ==
    ASSUME Inv, NEW b \in Block, b # Junk, NEW mode \in {"p2p", "flush"},
           Connects(index, b, mode),
           file' = Append(file, Record(b, NewWork(index, b, mode)))
    PROVE  /\ file' \in Seq(Rec) /\ Len(file') = Len(file) + 1 /\ InOrder(file')
           /\ Shape(Connect(index, b, mode))
           /\ Within(Connect(index, b, mode), Known(file'))
<1> DEFINE r == Record(b, NewWork(index, b, mode))
<1>1. /\ Shape(index) /\ Within(index, Known(file)) /\ file \in Seq(Rec) /\ InOrder(file)
      /\ mode \in Mode
  BY InvFacts DEF Mode
<1>2. NewWork(index, b, mode) \in Nat
  BY <1>1, NewWorkNat DEF Shape
<1>3. r \in Rec /\ r.blk = b
  BY <1>2 DEF Record, Rec
<1> HIDE DEF r
<1>4. Prev[b] \in {Genesis} \cup Checkpoint \cup Blks(file)
  <2> DEFINE K == Known(file)
  <2>1. Within(index, K) /\ K \subseteq K \cup {b} /\ b \in K \cup {b}
    BY <1>1
  <2> HIDE DEF K
  <2>2. Prev[b] \in K \cup {Genesis}
    BY <1>1, <2>1, ConnectWithin
  <2>3. Prev[b] # Junk
    BY HeadersDBAssumption
  <2> QED
    BY <2>2, <2>3 DEF K, Known
<1>5. file' = Append(file, r)
  BY DEF r
<1>6. /\ file' \in Seq(Rec) /\ Len(file') = Len(file) + 1 /\ InOrder(file')
      /\ Blks(file) \subseteq Blks(file') /\ b \in Blks(file')
  BY <1>1, <1>3, <1>4, <1>5, AppendInOrder
<1>7. Known(file) \subseteq Known(file') /\ b \in Known(file')
  BY <1>6 DEF Known
<1>8. Within(Connect(index, b, mode), Known(file'))
  <2> DEFINE K == Known(file)
             L == Known(file')
  <2>1. Within(index, K) /\ K \subseteq L /\ b \in L
    BY <1>1, <1>7
  <2> HIDE DEF K, L
  <2>2. Within(Connect(index, b, mode), L)
    BY <1>1, <2>1, ConnectWithin
  <2> QED
    BY <2>2 DEF L
<1>9. Shape(Connect(index, b, mode))
  BY <1>1, ConnectLive
<1> QED
  BY <1>6, <1>8, <1>9

(* The initial state.                                                      *)
LEMMA InvInit == Init => Inv
<1> SUFFICES ASSUME Init PROVE Inv
  OBVIOUS
<1>1. Shape(NewIndex) /\ Within(NewIndex, Known(file))
  BY NewIndexSound
<1>2. index = NewIndex /\ file = <<>> /\ durable = 0 /\ pc = "open" /\ pos = 0 /\ restarts = 0
  BY DEF Init
<1>3. TypeOK
  BY <1>1, <1>2, HeadersDBAssumption DEF TypeOK, Shape
<1>4. FileInOrder
  BY <1>2 DEF FileInOrder
<1> QED
  BY <1>1, <1>2, <1>3, <1>4 DEF Inv, LoadedSoFar

(* The steps of an open database.                                          *)
LEMMA InvOpen ==
    ASSUME Inv,
           \/ \E b \in Block, mode \in {"p2p", "flush"} :
                 ConnectHdr(b, mode) \/ CrashInWrite(b, mode)
           \/ \E b \in Checkpoint : StartAtCheckpoint(b)
           \/ \E b \in Block : ConnectThenUndo(b)
           \/ Commit \/ Stop \/ Crash
    PROVE  Inv'
<1>1. /\ Shape(index) /\ Within(index, Known(file)) /\ file \in Seq(Rec) /\ InOrder(file)
      /\ Len(file) \in Nat /\ durable \in 0 .. Len(file) /\ restarts \in 0 .. MaxRestarts
      /\ MaxRestarts \in Nat /\ (pc # "loading" => pos = 0)
  BY InvFacts
<1>2. \A K : Shape(NewIndex) /\ Within(NewIndex, K)
  BY NewIndexSound
<1>3. ASSUME NEW b \in Block, NEW mode \in {"p2p", "flush"}, ConnectHdr(b, mode) PROVE Inv'
  <2>1. /\ b # Junk /\ Connects(index, b, mode) /\ pc = "open"
        /\ file' = Append(file, Record(b, NewWork(index, b, mode)))
        /\ index' = Connect(index, b, mode)
        /\ durable' = IF mode = "flush" THEN durable ELSE Len(file')
        /\ pc' = pc /\ pos' = pos /\ restarts' = restarts
    BY <1>3 DEF ConnectHdr
  <2>2. /\ file' \in Seq(Rec) /\ Len(file') = Len(file) + 1 /\ InOrder(file')
        /\ Shape(index') /\ Within(index', Known(file'))
    BY <2>1, Stored
  <2>3. durable' \in 0 .. Len(file')
    BY <1>1, <2>1, <2>2
  <2>4. Idle'
    BY <1>1, <2>1, <2>2, <2>3 DEF Idle
  <2> QED
    BY <2>4, InvIdle
<1>4. ASSUME NEW b \in Block, NEW mode \in {"p2p", "flush"}, CrashInWrite(b, mode) PROVE Inv'
  <2>1. Torn \in Rec /\ Torn = Torn
    BY DEF Rec
  <2>2. file' = Append(file, Torn) /\ durable' = Len(file') /\ pc' = "down" /\ index' = NewIndex
        /\ pos' = pos /\ restarts' = restarts /\ pc = "open" /\ restarts < MaxRestarts
    BY <1>4 DEF CrashInWrite
  <2>3. file' \in Seq(Rec) /\ Len(file') = Len(file) + 1 /\ InOrder(file')
    BY <1>1, <2>1, <2>2, AppendInOrder
  <2>4. durable' \in 0 .. Len(file')
    BY <1>1, <2>2, <2>3
  <2>5. Idle'
    BY <1>1, <1>2, <2>2, <2>3, <2>4 DEF Idle
  <2> QED
    BY <2>5, InvIdle
<1>5. ASSUME NEW b \in Checkpoint, StartAtCheckpoint(b) PROVE Inv'
  <2>1. /\ index' = SetCheckpointStart(index, b, CheckpointWork) /\ file' = file
        /\ durable' = durable /\ pc' = pc /\ pos' = pos /\ restarts' = restarts /\ pc = "open"
    BY <1>5 DEF StartAtCheckpoint
  <2>2. b \in Block /\ CheckpointWork \in Nat /\ b \in Known(file)
    BY HeadersDBAssumption DEF Known
  <2>3. Shape(index') /\ Within(index', Known(file'))
    BY <1>1, <2>1, <2>2, CheckpointSound
  <2>4. Idle'
    BY <1>1, <2>1, <2>3 DEF Idle
  <2> QED
    BY <2>4, InvIdle
<1>6. ASSUME NEW b \in Block, ConnectThenUndo(b) PROVE Inv'
  <2>1. /\ b # Junk /\ Connects(index, b, "p2p") /\ pc = "open"
        /\ file' = Append(file, Record(b, NewWork(index, b, "p2p")))
        /\ index' = DisconnectTip(Connect(index, b, "p2p"))
        /\ durable' = Len(file')
        /\ pc' = pc /\ pos' = pos /\ restarts' = restarts
    BY <1>6 DEF ConnectThenUndo
  <2>2. /\ file' \in Seq(Rec) /\ Len(file') = Len(file) + 1 /\ InOrder(file')
        /\ Shape(Connect(index, b, "p2p"))
        /\ Within(Connect(index, b, "p2p"), Known(file'))
    BY <2>1, Stored
  <2>3. Shape(index') /\ Within(index', Known(file'))
    BY <2>1, <2>2, PopLive, PopWithin
  <2>4. durable' \in 0 .. Len(file')
    BY <1>1, <2>1, <2>2
  <2>5. Idle'
    BY <1>1, <2>1, <2>2, <2>3, <2>4 DEF Idle
  <2> QED
    BY <2>5, InvIdle
<1>7. CASE Commit
  <2>1. /\ index' = index /\ file' = file /\ durable' = Len(file) /\ pc = "open" /\ pc' = pc
        /\ pos' = pos /\ restarts' = restarts
    BY <1>7 DEF Commit
  <2>2. durable' \in 0 .. Len(file')
    BY <1>1, <2>1
  <2>3. Idle'
    BY <1>1, <2>1, <2>2 DEF Idle
  <2> QED
    BY <2>3, InvIdle
<1>8. CASE Stop
  <2>1. /\ index' = NewIndex /\ file' = file /\ durable' = Len(file) /\ pc = "open"
        /\ pc' = "down" /\ pos' = pos /\ restarts' = restarts /\ restarts < MaxRestarts
    BY <1>8 DEF Stop
  <2>2. durable' \in 0 .. Len(file')
    BY <1>1, <2>1
  <2>3. Idle'
    BY <1>1, <1>2, <2>1, <2>2 DEF Idle
  <2> QED
    BY <2>3, InvIdle
<1>9. CASE Crash
  <2>1. PICK k \in durable .. Len(file) :
           \/ file' = SubSeq(file, 1, k)
           \/ k < Len(file) /\ file' = Append(SubSeq(file, 1, k), Torn)
    BY <1>9 DEF Crash
  <2>2. /\ durable' = Len(file') /\ pc = "open" /\ pc' = "down" /\ index' = NewIndex
        /\ pos' = pos /\ restarts' = restarts /\ restarts < MaxRestarts
    BY <1>9 DEF Crash
  <2>3. k \in 0 .. Len(file)
    BY <1>1, <2>1
  <2> DEFINE g == SubSeq(file, 1, k)
  <2>4. g \in Seq(Rec) /\ InOrder(g)
    BY <1>1, <2>3, PrefixInOrder
  <2>5. file' = g \/ file' = Append(g, Torn)
    BY <2>1
  <2> HIDE DEF g
  <2>6. Torn \in Rec /\ Torn = Torn
    BY DEF Rec
  <2>7. file' \in Seq(Rec) /\ InOrder(file')
    BY <2>4, <2>5, <2>6, AppendInOrder
  <2>8. durable' \in 0 .. Len(file')
    BY <2>2, <2>7, LenProperties
  <2>9. Idle'
    BY <1>1, <1>2, <2>2, <2>7, <2>8 DEF Idle
  <2> QED
    BY <2>9, InvIdle
<1> QED
  BY <1>3, <1>4, <1>5, <1>6, <1>7, <1>8, <1>9


(* A record of one chain is connected to the headers read before it, and   *)
(* nothing is lost: the header is there already, extends the tip, or fills *)
(* in below it.                                                            *)
LEMMA OneChainGrows ==
    ASSUME NEW ix, Shape(ix), NEW b \in Block, b \in AuxPow \cup ValidPow,
           ix.tip \in ix.tree, \A c \in ix.tree : Height[c] <= Height[ix.tip],
           \A c \in ix.tree : Height[c] = Height[ix.tip] => c = ix.tip,
           \A c \in ix.tree : Height[c] = Height[b] => c = b,
           b \in ix.tree \/ Prev[b] \in ix.tree,
           NEW jx, jx = IF Connects(ix, b, "load") THEN Connect(ix, b, "load") ELSE ix
    PROVE  /\ jx.tree = ix.tree \cup {b} /\ jx.tip \in jx.tree
           /\ \A c \in jx.tree : Height[c] <= Height[jx.tip]
<1>1. /\ ix.tree \subseteq Block /\ Height[b] = Height[Prev[b]] + 1 /\ Prev[b] \in Header
      /\ "load" \in Mode /\ \A c \in Header : Height[c] \in Nat
  BY HeaderAssumption DEF Shape, Index, Mode
<1>2. CASE b \in ix.tree
  <2>1. jx = ix
    BY <1>2 DEF Connects
  <2> QED
    BY <1>2, <2>1
<1>3. CASE b \notin ix.tree
  <2>1. Prev[b] \in ix.tree
    BY <1>3
  <2>2. ~Reorganises(ix, b, "load")
    <3> SUFFICES ASSUME Prev[b] # ix.tip, Height[b] > Height[ix.tip] PROVE FALSE
      BY DEF Reorganises, IsFork
    <3>1. Height[Prev[b]] <= Height[ix.tip] /\ Height[Prev[b]] # Height[ix.tip]
      BY <2>1
    <3>2. Height[Prev[b]] \in Nat /\ Height[ix.tip] \in Nat
      BY <1>1 DEF Header
    <3> QED
      BY <1>1, <3>1, <3>2
  <2>3. Connects(ix, b, "load")
    BY <1>3, <2>1, <2>2 DEF Connects, KnownPrev, PowAccepted
  <2>4. jx = Linked(ix, b, "load")
    BY <2>3 DEF Connect
  <2>5. jx.tree = ix.tree \cup {b} /\ jx.tip = IF Height[b] > Height[ix.tip] THEN b ELSE ix.tip
    BY <1>1, <2>2, <2>4, LinkedFields
  <2>6. \A c \in jx.tree : Height[c] \in Nat /\ Height[c] <= Height[jx.tip]
    BY <1>1, <2>5 DEF Header
  <2> QED
    BY <2>5, <2>6
<1> QED
  BY <1>2, <1>3

(* The part of the invariant that says what a load has read so far.        *)
LEMMA LoadedFirst ==
    ASSUME Inv, LoadFirst, OneChainOnFile
    PROVE  /\ pos' = 1 /\ index'.tree = {file[1].blk} /\ index'.tip = file[1].blk
<1> DEFINE r == ReadAt(Min(Unread))
<1>1. /\ file \in Seq(Rec) /\ pos \in 0 .. Len(file) /\ pos = 0 /\ Unread # {} /\ pc = "loading"
      /\ index' = TipWork(FirstBlock(index, r.blk), r.work) /\ pos' = Min(Unread)
  BY InvFacts DEF LoadFirst
<1>2. /\ Min(Unread) \in 1 .. Len(file)
      /\ r.blk \in Block /\ r.work \in Nat
      /\ \A p \in 1 .. Len(file) : p > pos /\ p < Min(Unread) => file[p] = Torn
  BY <1>1, ReadNext
<1>3. \A p \in 1 .. Len(file) : file[p] # Torn
  BY DEF OneChainOnFile
<1>4. Min(Unread) = 1
  BY <1>1, <1>2, <1>3
<1>5. r = file[1]
  BY <1>1, <1>2, <1>3, <1>4 DEF ReadAt, Aligned
<1>6. index = NewIndex
  BY <1>1 DEF Inv
<1> DEFINE f == FirstBlock(NewIndex, r.blk)
<1> HIDE DEF r
<1>7. Shape(f) /\ f.tree = {r.blk} /\ f.tip = r.blk
  BY <1>2, FirstSound
<1>8. index' = TipWork(f, r.work)
  BY <1>1, <1>6
<1> HIDE DEF f
<1>9. index'.tree = f.tree /\ index'.tip = f.tip
  BY <1>2, <1>7, <1>8, TipWorkSound
<1> QED
  BY <1>1, <1>4, <1>5, <1>7, <1>9

(* The same for the records after it.                                      *)
LEMMA LoadedNext ==
    ASSUME Inv, LoadNext, OneChainOnFile
    PROVE  /\ pos' = pos + 1 /\ index'.tree = {file[q].blk : q \in 1 .. pos + 1}
           /\ index'.tip \in index'.tree
           /\ \A c \in index'.tree : Height[c] <= Height[index'.tip]
<1> DEFINE r == ReadAt(Min(Unread))
           x == IF Connects(index, r.blk, "load") THEN Connect(index, r.blk, "load") ELSE index
<1>1. /\ file \in Seq(Rec) /\ pos \in 0 .. Len(file) /\ pos > 0 /\ Unread # {} /\ pc = "loading"
      /\ index' = TipWork(x, r.work) /\ pos' = Min(Unread) /\ Shape(index) /\ Len(file) \in Nat
  BY InvFacts DEF LoadNext
<1>2. /\ Min(Unread) \in 1 .. Len(file) /\ Min(Unread) > pos
      /\ r.blk \in Block /\ r.work \in Nat
      /\ \A p \in 1 .. Len(file) : p > pos /\ p < Min(Unread) => file[p] = Torn
  BY <1>1, ReadNext
<1>3. \A p \in 1 .. Len(file) : file[p] # Torn
  BY DEF OneChainOnFile
<1>4. Min(Unread) = pos + 1
  BY <1>1, <1>2, <1>3
<1>5. r = file[pos + 1]
  BY <1>1, <1>2, <1>3, <1>4 DEF ReadAt, Aligned
<1>6. /\ index.tree = {file[q].blk : q \in 1 .. pos} /\ index.tip \in index.tree
      /\ \A c \in index.tree : Height[c] <= Height[index.tip]
  BY <1>1 DEF Inv, LoadedSoFar
<1> HIDE DEF r
<1> DEFINE b == r.blk
<1>7. b \in AuxPow \cup ValidPow
  BY <1>1, <1>2, <1>4, <1>5 DEF OneChainOnFile
<1>8. \A q \in 1 .. pos : Height[file[q].blk] = Height[b] => file[q].blk = b
  BY <1>1, <1>2, <1>4, <1>5 DEF OneChainOnFile
<1>9. \A c, d \in index.tree : Height[c] = Height[d] => c = d
  <2>1. ASSUME NEW p \in 1 .. pos, NEW q \in 1 .. pos, Height[file[p].blk] = Height[file[q].blk]
        PROVE  file[p].blk = file[q].blk
    BY <1>1, <2>1 DEF OneChainOnFile
  <2> QED
    BY <1>6, <2>1
<1>10. b \in index.tree \/ Prev[b] \in index.tree
  <2>1. pos + 1 \in 2 .. Len(file) /\ pos + 1 - 1 = pos
    BY <1>1, <1>2, <1>4
  <2> DEFINE n == pos + 1
  <2> HIDE DEF n
  <2>2. \E q \in 1 .. n - 1 : file[q].blk \in {file[n].blk, Prev[file[n].blk]}
    BY <2>1 DEF OneChainOnFile, n
  <2>3. PICK q \in 1 .. pos : file[q].blk \in {file[n].blk, Prev[file[n].blk]}
    <3>1. 1 .. n - 1 = 1 .. pos
      BY <1>1 DEF n
    <3> QED
      BY <2>2, <3>1
  <2>4. b = file[n].blk
    BY <1>5 DEF n
  <2> QED
    BY <1>6, <2>3, <2>4
<1>11. \A c \in index.tree : Height[c] = Height[b] => c = b
  BY <1>6, <1>8
<1> HIDE DEF b
<1>12. b \in Block /\ x = IF Connects(index, b, "load") THEN Connect(index, b, "load") ELSE index
  BY <1>2 DEF b
<1> HIDE DEF x
<1>13. \A c \in index.tree : Height[c] = Height[index.tip] => c = index.tip
  BY <1>6, <1>9
<1>14. /\ index.tip \in index.tree /\ \A c \in index.tree : Height[c] <= Height[index.tip]
  BY <1>6
<1>15. /\ x.tree = index.tree \cup {b} /\ x.tip \in x.tree
       /\ \A c \in x.tree : Height[c] <= Height[x.tip]
  BY <1>1, <1>7, <1>10, <1>11, <1>12, <1>13, <1>14, OneChainGrows
<1>16. Shape(x)
  BY <1>1, <1>12, ConnectLive DEF Mode
<1>17. index'.tree = x.tree /\ index'.tip = x.tip
  BY <1>1, <1>2, <1>16, TipWorkSound
<1>18. index.tree \cup {b} = {file[q].blk : q \in 1 .. pos + 1}
  BY <1>1, <1>5, <1>6 DEF b
<1> QED
  BY <1>1, <1>4, <1>15, <1>17, <1>18

(* The steps of a load.                                                    *)
LEMMA InvLoad ==
    ASSUME Inv, Open \/ LoadFirst \/ LoadNext \/ Loaded
    PROVE  Inv'
<1>1. /\ Shape(index) /\ Within(index, Known(file)) /\ file \in Seq(Rec) /\ InOrder(file)
      /\ Len(file) \in Nat /\ durable \in 0 .. Len(file) /\ restarts \in 0 .. MaxRestarts
      /\ MaxRestarts \in Nat /\ pos \in 0 .. Len(file) /\ (pc # "loading" => pos = 0)
  BY InvFacts
<1>2. CASE Loaded
  <2>1. /\ index' = index /\ file' = file /\ durable' = durable /\ pc' = "open" /\ pos' = 0
        /\ restarts' = restarts
    BY <1>2 DEF Loaded
  <2>2. Idle'
    BY <1>1, <2>1 DEF Idle
  <2> QED
    BY <2>2, InvIdle
<1>3. CASE Open \/ LoadFirst \/ LoadNext
  <2>1. file' = file /\ durable' = durable /\ pc' = "loading"
    BY <1>3 DEF Open, LoadFirst, LoadNext
  <2>2. OneChainOnFile' <=> OneChainOnFile
    BY <2>1 DEF OneChainOnFile
  <2>3. InOrder(file')
    BY <1>1, <2>1
  <2>4. FileInOrder'
    BY <2>3 DEF FileInOrder, InOrder
  <2>5. ASSUME Shape(index'), Within(index', Known(file)), pos' \in 0 .. Len(file),
               restarts' \in 0 .. MaxRestarts, pos' = 0 => index' = NewIndex, LoadedSoFar'
        PROVE  Inv'
    <3>1. TypeOK'
      BY <1>1, <2>1, <2>5 DEF TypeOK, Rec, Torn, Shape
    <3>2. Within(index', Known(file'))
      BY <2>1, <2>5
    <3> QED
      BY <2>1, <2>4, <2>5, <3>1, <3>2 DEF Inv
  <2>6. CASE Open
    <3>1. index' = index /\ pos' = 0 /\ restarts' = restarts + 1 /\ pc = "down" /\ pc' = "loading"
      BY <2>6 DEF Open
    <3>2. restarts < MaxRestarts /\ index = NewIndex
      BY <3>1 DEF Inv
    <3>3. restarts' \in 0 .. MaxRestarts /\ pos' \in 0 .. Len(file)
      BY <1>1, <3>1, <3>2
    <3>4. Shape(index') /\ Within(index', Known(file)) /\ index' = NewIndex
      BY <1>1, <3>1, <3>2
    <3>5. LoadedSoFar'
      BY <3>1 DEF LoadedSoFar
    <3> QED
      BY <2>5, <3>3, <3>4, <3>5
  <2>7. CASE LoadFirst
    <3> DEFINE r == ReadAt(Min(Unread))
               f == FirstBlock(NewIndex, r.blk)
    <3>1. /\ index = NewIndex /\ index' = TipWork(f, r.work) /\ pos' = Min(Unread)
          /\ restarts' = restarts /\ Unread # {}
      BY <2>7 DEF LoadFirst, Inv
    <3>2. /\ Min(Unread) \in 1 .. Len(file) /\ r.blk \in Block /\ r.blk \in Known(file)
          /\ r.work \in Nat
      BY <1>1, <3>1, ReadNext
    <3> HIDE DEF r
    <3>3. Shape(f) /\ Within(f, Known(file))
      BY <3>2, FirstSound
    <3> HIDE DEF f
    <3>4. Shape(index') /\ Within(index', Known(file))
      BY <3>1, <3>2, <3>3, TipWorkSound
    <3>5. LoadedSoFar'
      <4>1. CASE OneChainOnFile
        <5>1. pos' = 1 /\ index'.tree = {file[1].blk} /\ index'.tip = file[1].blk
          BY <2>7, <4>1, LoadedFirst
        <5>2. Height[index'.tip] \in Nat
          BY <3>4, HeaderAssumption DEF Shape, Index
        <5>3. {file[1].blk} = {file[q].blk : q \in 1 .. 1}
          OBVIOUS
        <5> QED
          BY <2>1, <5>1, <5>2, <5>3 DEF LoadedSoFar
      <4>2. CASE ~OneChainOnFile
        BY <2>2, <4>2 DEF LoadedSoFar
      <4> QED
        BY <4>1, <4>2
    <3>6. pos' # 0 /\ pos' \in 0 .. Len(file)
      BY <1>1, <3>1, <3>2
    <3> QED
      BY <1>1, <2>5, <3>1, <3>4, <3>5, <3>6
  <2>8. CASE LoadNext
    <3> DEFINE r == ReadAt(Min(Unread))
               x == IF Connects(index, r.blk, "load") THEN Connect(index, r.blk, "load")
                    ELSE index
    <3>1. /\ index' = TipWork(x, r.work) /\ pos' = Min(Unread)
          /\ restarts' = restarts /\ Unread # {}
      BY <2>8 DEF LoadNext
    <3>2. /\ Min(Unread) \in 1 .. Len(file) /\ r.blk \in Block /\ r.blk \in Known(file)
          /\ r.work \in Nat
      BY <1>1, <3>1, ReadNext
    <3> HIDE DEF r
    <3>3. Shape(x) /\ Within(x, Known(file))
      <4> DEFINE K == Known(file)
                 b == r.blk
      <4>1. Within(index, K) /\ K \subseteq K /\ b \in K /\ b \in Block /\ "load" \in Mode
        BY <1>1, <3>2 DEF Mode
      <4> HIDE DEF K, b
      <4>2. Shape(Connect(index, b, "load"))
        BY <1>1, <4>1, ConnectLive
      <4>3. Connects(index, b, "load") => Within(Connect(index, b, "load"), K)
        BY <1>1, <4>1, ConnectWithin
      <4> QED
        BY <1>1, <4>1, <4>2, <4>3 DEF K, b
    <3> HIDE DEF x
    <3>4. Shape(index') /\ Within(index', Known(file))
      BY <3>1, <3>2, <3>3, TipWorkSound
    <3>5. LoadedSoFar'
      <4>1. CASE OneChainOnFile
        BY <2>1, <2>8, <4>1, LoadedNext DEF LoadedSoFar
      <4>2. CASE ~OneChainOnFile
        BY <2>2, <4>2 DEF LoadedSoFar
      <4> QED
        BY <4>1, <4>2
    <3>6. pos' # 0 /\ pos' \in 0 .. Len(file)
      BY <1>1, <3>1, <3>2
    <3> QED
      BY <1>1, <2>5, <3>1, <3>4, <3>5, <3>6
  <2> QED
    BY <1>3, <2>6, <2>7, <2>8
<1> QED
  BY <1>2, <1>3


-----------------------------------------------------------------------------
(* The invariant is inductive.                                             *)
LEMMA InvInductive == Spec => []Inv
<1>1. Init => Inv
  BY InvInit
<1>2. Inv /\ [Next]_vars => Inv'
  <2> SUFFICES ASSUME Inv, [Next]_vars PROVE Inv'
    OBVIOUS
  <2>1. CASE Next
    BY <2>1, InvOpen, InvLoad DEF Next
  <2>2. CASE UNCHANGED vars
    <3>1. /\ index' = index /\ file' = file /\ durable' = durable /\ pc' = pc /\ pos' = pos
          /\ restarts' = restarts
      BY <2>2 DEF vars
    <3>2. TypeOK'
      BY <3>1 DEF Inv, TypeOK
    <3>3. Shape(index') /\ Within(index', Known(file'))
      BY <3>1 DEF Inv
    <3>4. FileInOrder'
      BY <3>1 DEF Inv, FileInOrder
    <3>5. LoadedSoFar'
      BY <3>1 DEF Inv, LoadedSoFar, OneChainOnFile
    <3> QED
      BY <3>1, <3>2, <3>3, <3>4, <3>5 DEF Inv
  <2> QED
    BY <2>1, <2>2
<1> QED
  BY <1>1, <1>2, PTL DEF Spec

(* dogecoin_headers_db: index, file and loader stay well-formed whatever   *)
(* connects, is undone, crashes and is loaded; in particular the tip and   *)
(* the bottom are headers and never a pointer that trimming has cleared.   *)
THEOREM DatabaseTypeCorrect == Spec => []TypeOK
<1>1. Inv => TypeOK
  BY DEF Inv
<1> QED
  BY <1>1, InvInductive, PTL

(* dogecoin_headers_db_write in connect_hdr: no record ever precedes that  *)
(* of its predecessor, so that the file can be replayed front to back.     *)
THEOREM RecordsInOrder == Spec => []FileInOrder
<1>1. Inv => FileInOrder
  BY DEF Inv
<1> QED
  BY <1>1, InvInductive, PTL

(* dogecoin_headers_db_load: a file of one chain comes back whole, with    *)
(* its highest header as the tip.                                          *)
THEOREM OneChainLoads == Spec => []WholeFileLoads
<1>1. Inv => WholeFileLoads
  <2> SUFFICES ASSUME Inv, pc = "loading", Unread = {}, OneChainOnFile
               PROVE  /\ {file[p].blk : p \in 1 .. Len(file)} \subseteq index.tree
                      /\ \A p \in 1 .. Len(file) : Height[file[p].blk] <= Height[index.tip]
    BY DEF WholeFileLoads
  <2>1. file \in Seq(Rec) /\ Len(file) \in Nat /\ pos \in 0 .. Len(file)
    BY InvFacts
  <2>2. Len(file) > 0
    BY <2>1, EmptySeq DEF OneChainOnFile
  <2>3. pos = Len(file)
    <3> SUFFICES ASSUME pos # Len(file) PROVE FALSE
      OBVIOUS
    <3>1. Len(file) \in 1 .. Len(file) /\ Len(file) > pos
      BY <2>1, <2>2
    <3>2. file[Len(file)] # Torn
      BY <3>1 DEF OneChainOnFile
    <3> QED
      BY <3>1, <3>2 DEF Unread
  <2>4. /\ index.tree = {file[q].blk : q \in 1 .. Len(file)}
        /\ \A c \in index.tree : Height[c] <= Height[index.tip]
    BY <2>2, <2>3 DEF Inv, LoadedSoFar
  <2> QED
    BY <2>4
<1> QED
  BY <1>1, InvInductive, PTL

(* dogecoin_headersdb_disconnect_tip and the two places connect_hdr frees  *)
(* headers: none frees a header of the chain that is active afterwards.    *)
THEOREM ChainMemoryLive == Spec => ActiveChainStaysLive
<1>1. Inv /\ [Next]_vars => [PointersLive(index) => ChainLive(index')]_vars
  <2> SUFFICES ASSUME Inv, Next, PointersLive(index) PROVE ChainLive(index')
    OBVIOUS
  <2>1. /\ Shape(index) /\ file \in Seq(Rec) /\ pos \in 0 .. Len(file) /\ "p2p" \in Mode
        /\ "flush" \in Mode /\ "load" \in Mode
    BY InvFacts DEF Mode
  <2>2. ChainLive(index)
    <3> DEFINE S == index.tree \cup {Genesis}
    <3>1. /\ index.tip \in Header /\ index.tip \in S
          /\ \A c \in S : PtrOf(index, c) = NULL \/ PtrOf(index, c) \in S
      BY <2>1 DEF PointersLive, PtrOf, Shape, Index
    <3> HIDE DEF S
    <3>2. ChainOf(index, index.tip) \subseteq S
      BY <3>1, ChainWithin
    <3> QED
      BY <3>2 DEF S, ChainLive
  <2>3. ChainLive(NewIndex)
    BY NewIndexSound
  <2>4. ASSUME NEW b \in Block, NEW mode \in {"p2p", "flush"}, ConnectHdr(b, mode)
        PROVE  ChainLive(index')
    <3>1. Connects(index, b, mode) /\ index' = Connect(index, b, mode) /\ mode \in Mode
      BY <2>1, <2>4 DEF ConnectHdr
    <3> QED
      BY <2>1, <3>1, ConnectLive
  <2>5. ASSUME NEW b \in Block, ConnectThenUndo(b) PROVE ChainLive(index')
    <3>1. Connects(index, b, "p2p") /\ index' = DisconnectTip(Connect(index, b, "p2p"))
      BY <2>5 DEF ConnectThenUndo
    <3>2. Shape(Connect(index, b, "p2p")) /\ ChainLive(Connect(index, b, "p2p"))
      BY <2>1, <3>1, ConnectLive
    <3> QED
      BY <3>1, <3>2, PopLive
  <2>6. ASSUME NEW b \in Checkpoint, StartAtCheckpoint(b) PROVE ChainLive(index')
    BY <2>1, <2>6, CheckpointSound, HeadersDBAssumption DEF StartAtCheckpoint
  <2>7. CASE LoadFirst
    <3> DEFINE r == ReadAt(Min(Unread))
               f == FirstBlock(NewIndex, r.blk)
    <3>1. index' = TipWork(f, r.work) /\ Unread # {}
      BY <2>7 DEF LoadFirst, Inv
    <3>2. r.blk \in Block /\ r.work \in Nat
      BY <2>1, <3>1, ReadNext
    <3> HIDE DEF r
    <3>3. Shape(f) /\ ChainLive(f)
      BY <3>2, FirstSound
    <3> HIDE DEF f
    <3> QED
      BY <3>1, <3>2, <3>3, TipWorkSound
  <2>8. CASE LoadNext
    <3> DEFINE r == ReadAt(Min(Unread))
               x == IF Connects(index, r.blk, "load") THEN Connect(index, r.blk, "load")
                    ELSE index
    <3>1. index' = TipWork(x, r.work) /\ Unread # {}
      BY <2>8 DEF LoadNext
    <3>2. r.blk \in Block /\ r.work \in Nat
      BY <2>1, <3>1, ReadNext
    <3> HIDE DEF r
    <3>3. Shape(x) /\ ChainLive(x)
      BY <2>1, <2>2, <3>2, ConnectLive
    <3> HIDE DEF x
    <3> QED
      BY <3>1, <3>2, <3>3, TipWorkSound
  <2>9. ASSUME \/ Commit \/ Stop \/ Crash \/ Open \/ Loaded
               \/ \E b \in Block, mode \in {"p2p", "flush"} : CrashInWrite(b, mode)
        PROVE  index' = index \/ index' = NewIndex
    BY <2>9 DEF Commit, Stop, Crash, Open, Loaded, CrashInWrite
  <2> QED
    BY <2>2, <2>3, <2>4, <2>5, <2>6, <2>7, <2>8, <2>9 DEF Next
<1> QED
  BY <1>1, InvInductive, PTL DEF Spec, ActiveChainStaysLive
=============================================================================
