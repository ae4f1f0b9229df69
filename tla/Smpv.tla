-------------------------------- MODULE Smpv --------------------------------
(***************************************************************************)
(* Simplified mempool verification, src/src/smpv.c, driven by the SPV      *)
(* client of src/src/spv.c: the transactions that pay a watched address    *)
(* are tracked from the moment a peer announces them, and the blocks that  *)
(* come in confirm them and count their confirmations.  The headers of     *)
(* these blocks go through the index of HeaderTree, forks and reorganised  *)
(* chains included.                                                        *)
(*                                                                         *)
(* The mempool array only grows and its txid index is never stale: an      *)
(* entry is found by its transaction.  The watcher array is shifted on a   *)
(* removal, so its index is state of its own.                              *)
(***************************************************************************)
EXTENDS HeaderTree, Sequences, SequencesExt

CONSTANTS
    Tx,         \* transactions that peers announce
    Addr,       \* addresses that can be watched
    Outs,       \* Outs[t]: the addresses of its outputs, in order
    BlockTxs    \* BlockTxs[b]: the transactions of a block, in order

ASSUME SmpvAssumption ==
    /\ Outs \in [Tx -> Seq(Addr)]
    /\ BlockTxs \in [Block -> Seq(Tx)]
    /\ IsFiniteSet(Tx) /\ IsFiniteSet(Addr)

VARIABLES
    db,       \* the header index
    on,       \* client->smpv_enabled
    sm,       \* the dogecoin_smpv_client
    peak      \* auxiliary: the highest block counted at since the tip last rose

vars == <<db, on, sm, peak>>

Watcher == [addr : Addr, count : Nat]         \* address, tx_count
Entry == [tx        : Tx,
          confirmed : BOOLEAN,
          block     : Block \cup {NULL},      \* block_hash
          height    : Nat,                    \* block_height
          confs     : Nat]                    \* confirmations

\* dogecoin_smpv_client_new
NewClient == [watchers |-> <<>>, index |-> <<>>, pool |-> <<>>,
              confirmed |-> 0, unconfirmed |-> 0]

-----------------------------------------------------------------------------
\* smpv_rebuild_watcher_index
IndexOf(ws) ==
    [a \in {ws[i].addr : i \in DOMAIN ws} |->
        CHOOSE i \in DOMAIN ws : ws[i].addr = a]

Scan(ws, a) ==
    LET found == {i \in DOMAIN ws : ws[i].addr = a}
    IN  IF found = {} THEN 0 ELSE Min(found)

(* dogecoin_smpv_get_watcher: the array is scanned only when the index has *)
(* not one entry for each watcher.  0 is the null pointer.                 *)
GetWatcher(c, a) ==
    IF /\ a \in DOMAIN c.index
       /\ c.index[a] <= Len(c.watchers)
       /\ c.watchers[c.index[a]].addr = a
    THEN c.index[a]
    ELSE IF DOMAIN c.index # {} /\ Cardinality(DOMAIN c.index) = Len(c.watchers) THEN 0
    ELSE Scan(c.watchers, a)

Watching(c, a) ==
    IF DOMAIN c.index # {} THEN a \in DOMAIN c.index ELSE Scan(c.watchers, a) # 0

\* dogecoin_smpv_add_watcher, smpv_watcher_index_add
AddedWatcher(c, a) ==
    IF Watching(c, a) THEN c
    ELSE LET n == Len(c.watchers) + 1
         IN  [c EXCEPT !.watchers = Append(@, [addr |-> a, count |-> 0]),
                       !.index = [x \in DOMAIN @ \cup {a} |-> IF x = a THEN n ELSE @[x]]]

\* mutant: only the removed address leaves the index, the shifted ones stay
RemovedWatcherShift(c, a) ==
    LET ws == RemoveAt(c.watchers, GetWatcher(c, a))
    IN  IF GetWatcher(c, a) = 0 THEN c
        ELSE [c EXCEPT !.watchers = ws,
                       !.index = [x \in DOMAIN @ \ {a} |-> @[x]]]

(* dogecoin_smpv_remove_watcher: the later watchers move down.             *)
RemovedWatcher(c, a) ==
    LET ws == RemoveAt(c.watchers, GetWatcher(c, a))
    IN  IF GetWatcher(c, a) = 0 THEN c
        ELSE [c EXCEPT !.watchers = ws, !.index = IndexOf(ws)]

-----------------------------------------------------------------------------
\* dogecoin_smpv_get_tx
GetTx(c, t) ==
    LET found == {i \in DOMAIN c.pool : c.pool[i].tx = t}
    IN  IF found = {} THEN 0 ELSE Min(found)

(* smpv_tx_find_relevant_watcher_address: the first output that is watched,*)
(* 0 when there is none.                                                   *)
RelevantOutput(c, t) ==
    LET found == {i \in DOMAIN Outs[t] : Watching(c, Outs[t][i])}
    IN  IF found = {} THEN 0 ELSE Min(found)

\* w->tx_count++, when there is a watcher
OneMore(ws, w) == IF w = 0 THEN ws ELSE [ws EXCEPT ![w].count = @ + 1]

(* dogecoin_smpv_process_tx: a tracked transaction is not tracked again,   *)
(* one that pays no watched address is dropped.                            *)
ProcessTx(c, t) ==
    LET w == GetWatcher(c, Outs[t][RelevantOutput(c, t)])
    IN  IF GetTx(c, t) # 0 \/ RelevantOutput(c, t) = 0 THEN c
        ELSE [c EXCEPT !.pool = Append(@, [tx |-> t, confirmed |-> FALSE, block |-> NULL,
                                           height |-> 0, confs |-> 0]),
                       !.unconfirmed = @ + 1,
                       !.watchers = OneMore(@, w)]

Less(n) == IF n > 0 THEN n - 1 ELSE 0

\* mutant: a transaction is counted each time a block confirms it
CountedEachTime(c, i) ==
    [c EXCEPT !.confirmed = @ + 1, !.unconfirmed = Less(@)]

\* the transition counters, when entry i is confirmed
Counted(c, i) ==
    IF c.pool[i].confirmed THEN c
    ELSE [c EXCEPT !.confirmed = @ + 1, !.unconfirmed = Less(@)]

\* mutant: the height of an entry that was confirmed before is kept
ConfirmedFirst(c, t, b) ==
    LET i == GetTx(c, t)
    IN  IF i = 0 THEN c
        ELSE [Counted(c, i) EXCEPT !.pool[i].confirmed = TRUE, !.pool[i].block = b,
                  !.pool[i].height = IF @ = 0 THEN Height[b] ELSE @,
                  !.pool[i].confs = 1]

(* dogecoin_smpv_update_tx_status with confirmed true: only transactions   *)
(* that were seen in the mempool are followed.                             *)
Confirmed(c, t, b) ==
    LET i == GetTx(c, t)
    IN  IF i = 0 THEN c
        ELSE [Counted(c, i) EXCEPT
                  !.pool[i] = [tx |-> t, confirmed |-> TRUE, block |-> b,
                               height |-> Height[b], confs |-> 1]]

\* ... and with confirmed false
Unconfirmed(c, t) ==
    LET i == GetTx(c, t)
    IN  IF i = 0 THEN c
        ELSE [c EXCEPT
                  !.pool[i] = [tx |-> t, confirmed |-> FALSE, block |-> NULL,
                               height |-> 0, confs |-> 0],
                  !.confirmed = IF c.pool[i].confirmed THEN Less(@) ELSE @,
                  !.unconfirmed = IF c.pool[i].confirmed THEN @ + 1 ELSE @]

\* mutant: a block below the entry's own is not told apart
ConfsUnguarded(e, h) == (h - e.height) + 1

\* mutant: the block itself does not count
ConfsAbove(e, h) == IF h >= e.height THEN h - e.height ELSE 0

\* the confirmations of an entry when the tip is at height h
Confs(e, h) == IF h >= e.height THEN (h - e.height) + 1 ELSE 0

\* dogecoin_smpv_tip_update
TipUpdated(c, h) ==
    [c EXCEPT !.pool = [i \in DOMAIN @ |->
        IF @[i].confirmed /\ @[i].height # 0
        THEN [@[i] EXCEPT !.confs = Confs(c.pool[i], h)]
        ELSE @[i]]]

-----------------------------------------------------------------------------
Init ==
    /\ db = NewIndex
    /\ on = FALSE
    /\ sm = NewClient
    /\ peak = 0

(* dogecoin_spv_enable_smpv, with enable true and false: what was tracked  *)
(* is freed.                                                               *)
Enable == ~on /\ on' = TRUE /\ sm' = NewClient /\ UNCHANGED <<db, peak>>
Disable == on /\ on' = FALSE /\ sm' = NewClient /\ UNCHANGED <<db, peak>>

AddWatcher(a) == on /\ sm' = AddedWatcher(sm, a) /\ UNCHANGED <<db, on, peak>>
RemoveWatcher(a) == on /\ sm' = RemovedWatcher(sm, a) /\ UNCHANGED <<db, on, peak>>

(* The tx branch of dogecoin_net_spv_post_cmd.                             *)
RecvTx(t) == on /\ sm' = ProcessTx(sm, t) /\ UNCHANGED <<db, on, peak>>

\* an application takes a confirmation back
Unconfirm(t) == on /\ sm' = Unconfirmed(sm, t) /\ UNCHANGED <<db, on, peak>>

(* The first n transactions of block b confirmed, in their order.          *)
BlockConfirmed(c, b, n) ==
    LET after[k \in 0 .. n] ==
            IF k = 0 THEN c ELSE Confirmed(after[k-1], BlockTxs[b][k], b)
    IN  after[n]

(* The block branch: the header is connected, the transactions confirmed   *)
(* and the counts brought to the height of this block, which need not be   *)
(* the tip.                                                                *)
RecvBlock(b) ==
    /\ Connects(db, b, "p2p")
    /\ db' = Connect(db, b, "p2p")
    /\ sm' = IF on THEN TipUpdated(BlockConfirmed(sm, b, Len(BlockTxs[b])), Height[b])
             ELSE sm
    /\ peak' = IF Height[b] > Height[db.tip] THEN Height[b] ELSE Max({peak, Height[b]})
    /\ UNCHANGED on

(* A block whose transaction n + 1, or whose count of them, cannot be read:*)
(* the tip is disconnected, another header if the block is on a side       *)
(* branch, and what was confirmed is not taken back.                       *)
RecvBadBlock(b, n) ==
    /\ Connects(db, b, "p2p")
    /\ db' = DisconnectTip(Connect(db, b, "p2p"))
    /\ sm' = IF on THEN BlockConfirmed(sm, b, n) ELSE sm
    /\ UNCHANGED <<on, peak>>

Next ==
    \/ Enable \/ Disable
    \/ \E a \in Addr : AddWatcher(a) \/ RemoveWatcher(a)
    \/ \E t \in Tx : RecvTx(t) \/ Unconfirm(t)
    \/ \E b \in Block :
          \/ RecvBlock(b)
          \/ \E n \in {0} \cup 0 .. Len(BlockTxs[b]) - 1 : RecvBadBlock(b, n)

Spec == Init /\ [][Next]_vars

-----------------------------------------------------------------------------
(* The state of the client has its type; no count of confirmations wraps   *)
(* when a block below the entry's own comes in.                            *)
TypeOK ==
    /\ db \in Index /\ on \in BOOLEAN
    /\ sm.watchers \in Seq(Watcher)
    /\ DOMAIN sm.index \subseteq Addr
    /\ \A a \in DOMAIN sm.index : sm.index[a] \in Nat \ {0}
    /\ sm.pool \in Seq(Entry)
    /\ sm.confirmed \in Nat /\ sm.unconfirmed \in Nat
    /\ peak \in Nat

(* However watchers come and go, the index finds for each address the one  *)
(* place it has in the array, and nothing for an address not watched       *)
(* (smpv.c:317, the array shifted under the index).                        *)
LookupFinds ==
    \A a \in Addr :
        /\ Cardinality({i \in DOMAIN sm.watchers : sm.watchers[i].addr = a}) <= 1
        /\ GetWatcher(sm, a) = Scan(sm.watchers, a)
        /\ Watching(sm, a) <=> Scan(sm.watchers, a) # 0

(* The running counters agree with the table: a transaction is tracked     *)
(* once whoever announces it, it is counted once whatever blocks confirm   *)
(* it, and a watcher counts no more payments than pay it.                  *)
CountsAgree ==
    LET Is(v) == {i \in DOMAIN sm.pool : sm.pool[i].confirmed = v}
    IN  /\ sm.confirmed = Cardinality(Is(TRUE))
        /\ sm.unconfirmed = Cardinality(Is(FALSE))
        /\ \A i, j \in DOMAIN sm.pool : sm.pool[i].tx = sm.pool[j].tx => i = j
        /\ \A k \in DOMAIN sm.watchers :
              sm.watchers[k].count <=
                 Cardinality({i \in DOMAIN sm.pool :
                                 \E j \in DOMAIN Outs[sm.pool[i].tx] :
                                    Outs[sm.pool[i].tx][j] = sm.watchers[k].addr})

\* the entries confirmed by a block of the chain that ends in the tip
OnChain(ix, c) ==
    {i \in DOMAIN c.pool : c.pool[i].confirmed /\ c.pool[i].block \in ChainOf(ix, ix.tip)}

(* A payment whose block is on the active chain is never shown with more   *)
(* confirmations than that chain gives it, across forks, reorganisations   *)
(* and blocks that are given up half-way.  What the chain gives is counted *)
(* from the highest block seen since the tip last rose: a malformed side   *)
(* block pops the tip, and the counts come down with the next block.       *)
NeverOverstated ==
    \A i \in OnChain(db, sm) :
        sm.pool[i].confs <= Max({Height[db.tip], peak}) - Height[sm.pool[i].block] + 1

(* When a new header is the highest, every payment on its chain gets its   *)
(* exact count, the ones on a branch that has just become active included. *)
TipCountsAll ==
    [][(Height[db'.tip] > Height[db.tip] /\ db'.tip \notin db.tree) =>
          \A i \in OnChain(db', sm') :
              sm'.pool[i].confs = Height[db'.tip] - Height[sm'.pool[i].block] + 1]_vars
=============================================================================
