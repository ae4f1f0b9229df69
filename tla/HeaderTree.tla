----------------------------- MODULE HeaderTree -----------------------------
(***************************************************************************)
(* The in-memory header index of src/src/headersdb_file.c: the binary tree *)
(* of dogecoin_blockindex objects, their prev pointers and cumulative      *)
(* work, the chain tip and the chain bottom.  An index is a record and     *)
(* every operation of the C file is an operator from index to index, so    *)
(* that the database (HeadersDB) and its heaviest client (ParHdr) share    *)
(* one translation of dogecoin_headers_db_connect_hdr.                     *)
(*                                                                         *)
(* Headers are identified with their hashes: the predecessor, the height,  *)
(* the claimed work and the timestamp of a header are functions of its     *)
(* hash.  The genesis object is a member of the database struct and never  *)
(* an element of the tree.                                                 *)
(***************************************************************************)
EXTENDS Integers, FiniteSets, FiniteSetsExt

CONSTANTS
    Block,        \* every header other than genesis that can be met
    Genesis,      \* db->genesis
    NULL,         \* the C null pointer
    Prev,         \* Prev[b]: header.prev_block
    Height,       \* Height[b]: distance from genesis
    Work,         \* Work[b]: the work its target claims
    Time,         \* Time[b]: header.timestamp
    AuxPow,       \* the merge-mined headers (version bit 0x100)
    ValidPow,     \* the headers whose proof of work checks
    MaxHdrInMem   \* db->max_hdr_in_mem (1440)

Header == Block \cup {Genesis}

ASSUME HeaderAssumption ==
    /\ Genesis \notin Block
    /\ NULL \notin Header
    /\ Prev \in [Block -> Header]
    /\ Height \in [Header -> Nat]
    /\ Height[Genesis] = 0
    /\ \A b \in Block : Height[b] = Height[Prev[b]] + 1
    /\ Work \in [Block -> Nat]
    /\ Time \in [Header -> Nat]
    /\ AuxPow \subseteq Block
    /\ ValidPow \subseteq Block
    /\ MaxHdrInMem \in Nat

-----------------------------------------------------------------------------
(* An index.  ptr and work are total: a freed object keeps its last        *)
(* contents, which is what a read through a stale pointer finds when the   *)
(* memory has not been reused.  An object is live iff it is in the tree.   *)
Index == [tree   : SUBSET Block,
          ptr    : [Block -> Header \cup {NULL}],
          work   : [Block -> Nat],
          tip    : Header,
          bottom : Header]

\* dogecoin_headers_db_new
NewIndex == [tree   |-> {},
             ptr    |-> [b \in Block |-> NULL],
             work   |-> [b \in Block |-> 0],
             tip    |-> Genesis,
             bottom |-> Genesis]

PtrOf(ix, b)  == IF b = Genesis THEN NULL ELSE ix.ptr[b]
WorkOf(ix, b) == IF b = Genesis THEN 0 ELSE ix.work[b]

(* The k-th object behind b along the prev pointers, NULL past the end.    *)
Back(ix, b) ==
    LET back[k \in 0 .. Height[b] + 1] ==
            IF k = 0 THEN b
            ELSE IF back[k-1] = NULL THEN NULL ELSE PtrOf(ix, back[k-1])
    IN  back

(* The objects met on the walk from b to the end of its chain.             *)
ChainOf(ix, b) == {Back(ix, b)[k] : k \in 0 .. Height[b] + 1} \ {NULL}

-----------------------------------------------------------------------------
(* Where a header comes from decides what is checked of it and which work  *)
(* it adds: "p2p" is a full record off the wire, "flush" the 80-byte       *)
(* records par_hdr_flush writes with skip_pow set, "load" the 80-byte      *)
(* records of the headers file.  Without the AuxPoW blob a merge-mined     *)
(* header is neither checked nor credited with work.                       *)
Mode == {"p2p", "flush", "load"}

PowAccepted(b, mode) ==
    \/ mode = "flush"
    \/ mode = "load" /\ b \in AuxPow
    \/ b \in ValidPow

OwnWork(b, mode) ==
    IF mode = "flush" \/ (mode = "load" /\ b \in AuxPow) THEN 0 ELSE Work[b]

NewWork(ix, b, mode) == WorkOf(ix, Prev[b]) + OwnWork(b, mode)

\* fork_from_block: the predecessor is known but is not the tip
IsFork(ix, b) == Prev[b] # ix.tip /\ Prev[b] \in ix.tree

(* The branch of b replaces the active one and the old branch is           *)
(* disconnected: higher, and more work or the same work and a later time.  *)
Reorganises(ix, b, mode) ==
    /\ IsFork(ix, b)
    /\ Height[b] > Height[ix.tip]
    /\ \/ NewWork(ix, b, mode) > WorkOf(ix, ix.tip)
       \/ /\ NewWork(ix, b, mode) = WorkOf(ix, ix.tip)
          /\ Time[b] > Time[ix.tip]

(* Stepping the higher of the two walks back until their hashes agree      *)
(* finds the highest object the two chains share.                          *)
SharedChain(ix, b) == ChainOf(ix, ix.tip) \cap ChainOf(ix, Prev[b])
CommonAncestor(ix, b) ==
    CHOOSE c \in SharedChain(ix, b) :
        \A d \in SharedChain(ix, b) : Height[d] <= Height[c]

\* mutant: the predecessor is judged by height instead of by hash
KnownHeight(ix, b) == Height[b] <= Height[ix.tip] + 1

\* connect_at # NULL
KnownPrev(ix, b) == Prev[b] = ix.tip \/ Prev[b] \in ix.tree

(* Whether connect_hdr sets *connected.                                    *)
Connects(ix, b, mode) ==
    /\ b \notin ix.tree
    /\ KnownPrev(ix, b)
    /\ PowAccepted(b, mode)
    /\ Reorganises(ix, b, mode) => SharedChain(ix, b) # {}

\* mutant: the common ancestor goes too
DisconnectedThrough(ix, b) ==
    {c \in ChainOf(ix, ix.tip) :
        c \in Block /\ Height[c] >= Height[CommonAncestor(ix, b)]}

(* The objects dogecoin_headersdb_disconnect_tip frees in a reorganisation.*)
Disconnected(ix, b) ==
    {c \in ChainOf(ix, ix.tip) :
        c \in Block /\ Height[c] > Height[CommonAncestor(ix, b)]}

(* The new object linked in, the old branch disconnected if it lost, and   *)
(* the tip moved to the new object whenever that is higher -- also when    *)
(* its branch has less work than the one it leaves.                        *)
Linked(ix, b, mode) ==
    [tree   |-> (ix.tree \ (IF Reorganises(ix, b, mode)
                            THEN Disconnected(ix, b) ELSE {})) \cup {b},
     ptr    |-> [ix.ptr  EXCEPT ![b] = Prev[b]],
     work   |-> [ix.work EXCEPT ![b] = NewWork(ix, b, mode)],
     tip    |-> IF Height[b] > Height[ix.tip] THEN b ELSE ix.tip,
     bottom |-> ix.bottom]

(* The object MaxHdrInMem + 1 steps behind the tip, NULL if there is none. *)
ScanTip(ix) ==
    IF MaxHdrInMem + 1 <= Height[ix.tip] THEN Back(ix, ix.tip)[MaxHdrInMem + 1]
    ELSE NULL
Oldest(ix) == IF ScanTip(ix) \in Block THEN ix.ptr[ScanTip(ix)] ELSE NULL

\* mutant: chainbottom is read through the pointer just cleared
TrimmedToNull(ix) ==
    IF MaxHdrInMem > 0 /\ Oldest(ix) \in Block
    THEN [ix EXCEPT !.tree = @ \ {Oldest(ix)}, !.ptr[ScanTip(ix)] = NULL,
                    !.bottom = NULL]
    ELSE ix

(* "de-allocate no longer required headers": the scan's last object        *)
(* becomes the bottom and its predecessor is freed.                        *)
Trimmed(ix) ==
    IF MaxHdrInMem > 0 /\ Oldest(ix) \in Block
    THEN [ix EXCEPT !.tree = @ \ {Oldest(ix)}, !.ptr[ScanTip(ix)] = NULL,
                    !.bottom = ScanTip(ix)]
    ELSE ix

\* dogecoin_headers_db_connect_hdr, when Connects
Connect(ix, b, mode) ==
    IF mode = "load" THEN Linked(ix, b, mode)
    ELSE Trimmed(Linked(ix, b, mode))

\* dogecoin_headersdb_disconnect_tip
DisconnectTip(ix) ==
    IF PtrOf(ix, ix.tip) = NULL THEN ix
    ELSE [ix EXCEPT !.tree = @ \ {ix.tip}, !.tip = PtrOf(ix, ix.tip)]

\* dogecoin_headersdb_has_checkpoint_start, dogecoin_headersdb_set_checkpoint_start
HasCheckpointStart(ix) == Height[ix.bottom] # 0
SetCheckpointStart(ix, b, w) ==
    [ix EXCEPT !.tree = @ \cup {b}, !.ptr[b] = NULL, !.work[b] = w,
               !.tip = b, !.bottom = b]

-----------------------------------------------------------------------------
(* No pointer of the database, and none of a live object, is to an object  *)
(* that has been freed.                                                    *)
PointersLive(ix) ==
    /\ ix.tip \in ix.tree \cup {Genesis}
    /\ \A b \in ix.tree : ix.ptr[b] \in ix.tree \cup {Genesis, NULL}

(* The walk from the tip along the prev pointers, which the next           *)
(* reorganisation, the trimming and the block locator take, meets no freed *)
(* object.                                                                 *)
ChainLive(ix) == ChainOf(ix, ix.tip) \subseteq ix.tree \cup {Genesis}
=============================================================================
