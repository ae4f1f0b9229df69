------------------------------ MODULE HeadersDB ------------------------------
(***************************************************************************)
(* The headers database of src/src/headersdb_file.c: the in-memory index   *)
(* (HeaderTree), the append-only headers file, and what a restart makes of *)
(* that file.                                                              *)
(*                                                                         *)
(* The file is a sequence of fixed-length records and of torn writes.      *)
(* dogecoin_headers_db_load reads it in strides of one record length, so a *)
(* torn write shifts everything after it: those records read as junk.      *)
(***************************************************************************)
EXTENDS HeaderTree, Sequences

CONSTANTS
    Junk,            \* the header a misaligned record deserialises to
    JunkWork,        \* the chainwork it deserialises to
    Checkpoint,      \* checkpoints a scan may start from
    CheckpointWork,  \* chainparams->minimumchainwork
    MaxFile,         \* bound on the records of the file
    MaxRestarts      \* bound on the restarts

ASSUME HeadersDBAssumption ==
    /\ Junk \in Block /\ JunkWork \in Nat
    /\ \A b \in Block : Prev[b] # Junk
    /\ Checkpoint \subseteq Block \ {Junk}
    /\ CheckpointWork \in Nat
    /\ MaxFile \in Nat
    /\ MaxRestarts \in Nat

VARIABLES
    index,     \* the database in memory
    file,      \* records [blk, work] and Torn
    durable,   \* length of the prefix of the file that fdatasync has covered
    pc,        \* "down", "loading", "open"
    pos,       \* records read by dogecoin_headers_db_load
    restarts   \* restarts so far

vars == <<index, file, durable, pc, pos, restarts>>

Torn == [blk |-> NULL, work |-> 0]
Record(b, w) == [blk |-> b, work |-> w]

(* The record read at position p: what was written there, unless a torn    *)
(* write precedes it.                                                      *)
Aligned(p)  == \A q \in 1 .. p : file[q] # Torn
ReadAt(p)   == IF Aligned(p) THEN file[p] ELSE Record(Junk, JunkWork)

Init ==
    /\ index = NewIndex /\ file = <<>> /\ durable = 0
    /\ pc = "open" /\ pos = 0 /\ restarts = 0

-----------------------------------------------------------------------------
(* dogecoin_headers_db_connect_hdr on a header off the wire, or, from      *)
(* par_hdr_flush, with batch_write and skip_pow set.  The record is        *)
(* synced at once unless batch_write is set.                               *)
ConnectHdr(b, mode) ==
    /\ pc = "open"
    /\ b # Junk
    /\ Connects(index, b, mode)
    /\ Len(file) < MaxFile
    /\ index' = Connect(index, b, mode)
    /\ file' = Append(file, Record(b, NewWork(index, b, mode)))
    /\ durable' = IF mode = "flush" THEN durable ELSE Len(file')
    /\ UNCHANGED <<pc, pos, restarts>>

(* dogecoin_file_commit at the end of par_hdr_flush.                       *)
Commit ==
    /\ pc = "open"
    /\ durable < Len(file)
    /\ durable' = Len(file)
    /\ UNCHANGED <<index, file, pc, pos, restarts>>

(* A block whose header connects and whose transactions then do not parse: *)
(* the block and merkleblock handlers undo it by popping the tip, which is *)
(* another header if the block is on a side branch.  The record stays.     *)
ConnectThenUndo(b) ==
    /\ pc = "open"
    /\ b # Junk
    /\ Connects(index, b, "p2p")
    /\ Len(file) < MaxFile
    /\ index' = DisconnectTip(Connect(index, b, "p2p"))
    /\ file' = Append(file, Record(b, NewWork(index, b, "p2p")))
    /\ durable' = Len(file')
    /\ UNCHANGED <<pc, pos, restarts>>

(* dogecoin_net_spv_fill_block_locator starting the scan at a checkpoint.  *)
StartAtCheckpoint(b) ==
    /\ pc = "open"
    /\ Height[index.tip] = 0 /\ ~HasCheckpointStart(index)
    /\ index' = SetCheckpointStart(index, b, CheckpointWork)
    /\ UNCHANGED <<file, durable, pc, pos, restarts>>

-----------------------------------------------------------------------------
(* dogecoin_headers_db_free: the file is closed, the memory released.      *)
Stop ==
    /\ pc = "open" /\ restarts < MaxRestarts
    /\ pc' = "down" /\ durable' = Len(file)
    /\ index' = NewIndex
    /\ UNCHANGED <<file, pos, restarts>>

(* The process dies.  Records beyond the synced prefix are lost from some  *)
(* point on, and the first of them may be torn.                            *)
Crash ==
    /\ pc = "open" /\ restarts < MaxRestarts
    /\ \E k \in durable .. Len(file) :
         \/ file' = SubSeq(file, 1, k)
         \/ k < Len(file) /\ file' = Append(SubSeq(file, 1, k), Torn)
    /\ durable' = Len(file')
    /\ pc' = "down" /\ index' = NewIndex
    /\ UNCHANGED <<pos, restarts>>

(* It dies inside dogecoin_headers_db_write.                               *)
CrashInWrite(b, mode) ==
    /\ pc = "open" /\ restarts < MaxRestarts
    /\ b # Junk
    /\ Connects(index, b, mode)
    /\ Len(file) < MaxFile
    /\ file' = Append(file, Torn)
    /\ durable' = Len(file')
    /\ pc' = "down" /\ index' = NewIndex
    /\ UNCHANGED <<pos, restarts>>

-----------------------------------------------------------------------------
(* dogecoin_headers_db_load, one record per step.  A torn write at the end *)
(* is shorter than a record and is not read.                               *)
Open ==
    /\ pc = "down"
    /\ pc' = "loading" /\ pos' = 0 /\ restarts' = restarts + 1
    /\ UNCHANGED <<index, file, durable>>

Unread   == {p \in 1 .. Len(file) : file[p] # Torn /\ p > pos}

\* db->chaintip->chainwork = chainwork
TipWork(ix, w) ==
    IF ix.tip = Genesis THEN ix ELSE [ix EXCEPT !.work[ix.tip] = w]

\* mutant: the first record must connect to genesis like any other
FirstConnected(ix, b) ==
    IF Connects(ix, b, "load") THEN Connect(ix, b, "load") ELSE ix

(* The first record becomes the tip as it stands, with no predecessor.     *)
FirstBlock(ix, b) == [ix EXCEPT !.tree = @ \cup {b}, !.tip = b]

LoadFirst ==
    /\ pc = "loading" /\ Unread # {} /\ pos = 0
    /\ LET r == ReadAt(Min(Unread))
       IN  index' = TipWork(FirstBlock(index, r.blk), r.work)
    /\ pos' = Min(Unread)
    /\ UNCHANGED <<file, durable, pc, restarts>>

(* Every later record is connected if it can be; its work becomes the work *)
(* of the tip whether it was or not.                                       *)
LoadNext ==
    /\ pc = "loading" /\ Unread # {} /\ pos > 0
    /\ LET r  == ReadAt(Min(Unread))
           ix == IF Connects(index, r.blk, "load") THEN Connect(index, r.blk, "load")
                 ELSE index
       IN  index' = TipWork(ix, r.work)
    /\ pos' = Min(Unread)
    /\ UNCHANGED <<file, durable, pc, restarts>>

Loaded ==
    /\ pc = "loading" /\ Unread = {}
    /\ pc' = "open" /\ pos' = 0
    /\ UNCHANGED <<index, file, durable, restarts>>

Next ==
    \/ \E b \in Block, mode \in {"p2p", "flush"} :
          ConnectHdr(b, mode) \/ CrashInWrite(b, mode)
    \/ \E b \in Checkpoint : StartAtCheckpoint(b)
    \/ \E b \in Block : ConnectThenUndo(b)
    \/ Commit \/ Stop \/ Crash
    \/ Open \/ LoadFirst \/ LoadNext \/ Loaded

Spec == Init /\ [][Next]_vars

-----------------------------------------------------------------------------
(* Index, file and loader are well-formed; tip and bottom are headers, not *)
(* pointers that trimming has cleared.                                     *)
TypeOK ==
    /\ index \in Index
    /\ file \in Seq([blk : Block, work : Nat] \cup {Torn})
    /\ durable \in 0 .. Len(file)
    /\ pc \in {"down", "loading", "open"}
    /\ pos \in 0 .. Len(file)
    /\ restarts \in 0 .. MaxRestarts

(* Appending in connection order makes the file replayable: whatever       *)
(* reorganisations, popped tips, crashes and restarts lie between two      *)
(* writes, a record's predecessor is genesis, a checkpoint or the header   *)
(* of an earlier record.                                                   *)
FileInOrder ==
    \A p \in 1 .. Len(file) : file[p] # Torn =>
        Prev[file[p].blk] \in {Genesis} \cup Checkpoint \cup {file[q].blk : q \in 1 .. p - 1}

(* connect_hdr frees headers in two places, when a branch loses and when   *)
(* the chain outgrows memory, disconnect_tip in a third, and load builds   *)
(* the index from nothing: a step from an index with no pointer into freed *)
(* memory leaves the active chain whole, so that the next reorganisation,  *)
(* the trimming and the block locator walk over live headers.  (A side     *)
(* branch may be left with a pointer into freed memory; see the README.)   *)
ActiveChainStaysLive == [][PointersLive(index) => ChainLive(index')]_vars

(* The file holds whole records of one unbroken chain: no two headers of   *)
(* the same height, each record after the first repeats or extends an      *)
(* earlier one, and none was flushed that the proof-of-work check of the   *)
(* load, which par_hdr_flush skips, refuses.                               *)
OneChainOnFile ==
    /\ file # <<>>
    /\ \A p \in 1 .. Len(file) : file[p] # Torn /\ file[p].blk \in AuxPow \cup ValidPow
    /\ \A p, q \in 1 .. Len(file) :
          Height[file[p].blk] = Height[file[q].blk] => file[p].blk = file[q].blk
    /\ \A p \in 2 .. Len(file) :
          \E q \in 1 .. p - 1 : file[q].blk \in {file[p].blk, Prev[file[p].blk]}

(* dogecoin_headers_db_load after a clean shutdown or a crash between two  *)
(* writes, when the file holds one chain: every header on the file is in   *)
(* memory again and the tip is as high as any of them, whatever undone and *)
(* repeated blocks, checkpoint starts and lost records made of the file.   *)
WholeFileLoads ==
    (pc = "loading" /\ Unread = {} /\ OneChainOnFile) =>
        /\ {file[p].blk : p \in 1 .. Len(file)} \subseteq index.tree
        /\ \A p \in 1 .. Len(file) : Height[file[p].blk] <= Height[index.tip]

(* dogecoin_headers_db_load: what was stored and committed is loaded, also *)
(* after a crash that tore an earlier write.                               *)
CommittedLoads ==
    pc = "loading" /\ Unread = {} =>
        \A p \in 1 .. durable : file[p] # Torn => file[p].blk \in index.tree
=============================================================================
