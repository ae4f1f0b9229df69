# TLA+ models of libdogecoin

These modules model the stateful core of libdogecoin: the SPV client, from its
connections over the download of headers and blocks to the databases and
wallets it feeds. TLC checks each part on small instances, with crashes,
timeouts and peers that misbehave; the safety properties are proved for every
number of peers, segments, headers, blocks, transactions and watchers, some
under a hypothesis that the theorem states.

Paths below are relative to the repository (`src/spv.c`, `include/...`).

## 1. The system

libdogecoin is a C library for Dogecoin: keys, addresses, transactions, a
wallet, and an SPV client that follows the chain through headers. The library
is sequential except for the SPV client, which runs a libevent loop over many
peers. Nothing in it is handled by two threads at once; what interleaves are
the events of different peers, timers, and crashes with the file system.

| Component | State it keeps | Operations | Interacts with |
|---|---|---|---|
| Node group (`net.c`) | per node: state bits, events, handshake flag, receive buffer; the list of nodes | dial next nodes, read, parse a message, timer, disconnect, mark as misbehaving | calls back into the SPV client or the broadcaster: state changed, handshake done, message, timer |
| Broadcast (`net.c`) | hints per node, four counters, start time | inform, answer a getdata, notice an inv, time out | node group |
| Serial sync (`spv.c`) | mode, time of the last header request; per node: announced height, last inv, time of the last block request | request headers or blocks, handle headers, block and inv messages, periodic state check | headers database, wallet (transaction callback), node group |
| Parallel header download (`spv.c`, `par_hdr_*`) | segments, flush index, bytes staged, reference rate | assign, receive, flush, reclaim, preempt, race, give up | headers database (flush), node group (requests), serial sync (fallback) |
| Filtered scan (`spv.c`) | window, tail requests, matched transactions, bloom filter | request a window, handle merkleblock and tx, add to the filter, ask again | peers that hold a copy of the filter, wallet |
| Headers database (`headersdb_file.c`) | tree of block index objects, tip, bottom; the headers file | connect a header, disconnect the tip, start at a checkpoint, write, load | used by both syncs, by REST and by the wallet |
| Mempool verification (`smpv.c`) | watched addresses and their index, tracked transactions, counters | watch, unwatch, see, confirm, count confirmations | SPV client, headers database |
| Wallet (`wallet.c`) | keys, addresses, transactions, unspent outputs, spends; an append-only file | create, derive, watch, check a transaction, load | SPV client |
| Compact filter headers (`cfheadersdb_file.c`, `compact_filter.c`) | chain of filter headers and its file | connect, rewind, load | SPV client |
| Compact blocks (`compact_block.c`) | a partly filled block | fill from the mempool, request and add what is missing | nothing yet |
| Pending PQC and ZK commitments (`spv.c`) | two capped tables | add, find, evict | SPV client |
| Working transactions (`transaction.c`, `map.c`) | a process-wide table | start, add input or output, finalise, sign, clear | API callers |
| PSBT (`psbt.c`) | a partially signed transaction | update, sign, combine, finalise, extract | API callers |
| Contexts (`context.c`) | per-context registries and a lock | create, enter, release | API callers |
| Validation, keys, encodings, amounts, REST, tools | none between calls | pure functions, platform calls, text | everything |

What is hard here: replies that answer an outdated request; two peers attached
to one segment; a peer that is connected and silent; a flag that no timer
watches; a callback that changes the node its caller is still working on; a
batch that is refused after part of it was written; memory that is freed by
distance while another branch points to it; a filter that grows while blocks
matched with the old one are on their way; a record torn by a crash.
`PROJECT.json` lists these under `hazards`, each at its line, with the
properties that would notice.

What makes each component correct:

* node group: a node owns its events exactly while it is dialled or connected;
  a peer connects once, and nothing of a connection outlives it;
* broadcast: it ends when its time is up, and its report counts peers;
* serial sync: headers are asked of one peer at a time, it is watched as long as
  it owes them, and the sync ends if some peer answers and none holds it up with
  an answer that is too short;
* parallel download: what is flushed is the checkpointed chain, in order,
  although proof of work is skipped; one peer works on one segment; nothing
  staged is lost when a segment changes hands; memory stays near its budget;
  the download ends;
* filtered scan: no payment is missed; spends, which only match once the output
  they spend is in the filter, are found (they are not, see the findings) and
  reach the wallet after it; the scan ends;
* headers database: what was written can be replayed after a restart; freeing
  does not reach into the chain behind the tip;
* mempool verification: lookups survive removals, counters agree with the table,
  and confirmations are never overstated on the active chain;
* wallet: the file always gives back what is in memory, and an output that is
  spent stays spent.

## 2. The modules

```
PeerLife              what a node group promises, abstractly
NodeGroup             the nodes and their connections, as operators
  |-- Broadcast       + broadcast_tx; implements PeerLife   MCBroadcast
  |     BroadcastProofs        types, events, counts, PeerLife
  |-- SpvSync         + serial sync; implements PeerLife    MCSpvSync
  |     SpvSyncProofs          types, one downloader, watched, PeerLife
HeaderTree            the in-memory header index, as operators
  |     HeaderTreeProofs       chains, walks, what connecting does to them
  |-- HeadersDB       + headers file, crash, restart        MCHeadersDB
  |     HeadersDBProofs        types, order on file, load, live chain
  |-- Smpv            + mempool verification                MCSmpv
  |     SmpvProofs             types, lookups, counters, confirmations
  |-- ParHdr          + peers, segments, ordered flush      MCParHdr, MCParHdrLive
  |     ParHdrProofs           types, order, anchoring, one peer, nothing lost, memory
Wallet                wallet and its file, crash, restart   MCWallet
  |     WalletProofs           types, recovery, spends
FilteredScan          filtered history and its peers        MCFilteredScan
  |     FilteredScanProofs     types, order of spends, payments found
```

**NodeGroup** (`net.c`). The group has no loop of its own: it reacts to libevent
and calls its client back. Its functions are operators on a table of nodes,
used by the actions of its two clients. A node has its state bits, whether it
owns events (`event_bev` and `timer_event`), the handshake flag and whether
unread bytes are left. `StateChanged` is
`dogecoin_node_connection_state_changed` and `ConnectNextNodes`
`dogecoin_node_group_connect_next_nodes`; since a dial may fail at once, both
yield the set of tables they can leave behind.

**PeerLife** is the abstract specification: each peer is new, dialling,
connected, up or gone; it connects at most once and never comes back. Broadcast
and SpvSync implement it through the mapping `phase <- [n |-> Phase(nodes[n])]`,
the property `LifeSpec` of each. It is what makes it harmless that
`dogecoin_node_disconnect` clears neither the receive buffer nor the handshake
flag nor the hints of a node.

**Broadcast** (`broadcast_tx` and its callbacks).

| Action | Code |
|---|---|
| `Connected`, `ConnectionLost` | `event_cb` |
| `TimerTick` | `node_periodical_timer`, `broadcast_timer_cb` |
| `Garbled`, `Idle`, `RecvVersionNoNetwork` | `read_cb`, `dogecoin_node_parse_message` |
| `RecvVerack` | verack, `broadcast_handshake_done` |
| `RecvInv`, `RecvGetdata`, `RecvGetdataOther` | `broadcast_post_cmd` |
| `TimePasses`, `Done` | the timeout; `event_base_dispatch` returns |

**SpvSync** (`spv.c`). Peers serve one chain, known by its heights. What a peer
still has to send is `owes`, in order; a request appends to it. Time is counted
in state checks. A handler is computed on a record `Client` of everything it may
change, because one event can run several of them (stall check, callback,
refill, new request).

| Action | Code |
|---|---|
| `Connected`, `ConnectionLost` | `event_cb`, `dogecoin_node_connection_state_changed_cb` |
| `Handshake` | verack, `dogecoin_net_spv_node_handshake_done` |
| `TimerTick` | `node_periodical_timer`, `dogecoin_net_spv_periodic_statecheck`, `dogecoin_net_spv_request_headers` |
| `RecvHeaders`, `RecvFaultyHeaders` (through `HeadersRead`) | the headers branch of `dogecoin_net_spv_post_cmd` |
| `RecvInv`, `RecvBlock`, `RecvStrayBlock`, `RecvBadBlock` | its inv and block branches |
| `AnswerGetBlocks`, `Mine` | the network |

`HeadersRead` is the handler for any headers message: it turns the stall timer
off, connects headers up to the first that does not connect or the first near
the announced height, and asks for more only after a full message. The peer
decides what is in the message. An honest one sends what it has above the
locator (`Answer`), a faulty one anything of the shape `HeadersMessage`
(`FaultyAnswers`): nothing, too few headers, some that connect and then one that
does not. Three things are left out. Headers come only as answers to a
getheaders, although the handler takes them from any peer at any time; the
client never sends sendheaders, so only a misbehaving peer does that, and
`OneDownloader` would not survive it. A faulty peer has no headers of another
chain. And a faulty peer misanswers at most `MaxBad` times in all.

**HeaderTree** (`headersdb_file.c`). A header is identified with its hash, so
predecessor, height, claimed work and time are functions of it. An index is a
record: `tree` (the objects in the binary tree), `ptr` (prev pointers), `work`
(chainwork), `tip`, `bottom`. `ptr` and `work` keep the contents of freed
objects, which is what a read through a stale pointer finds. `Connects` and
`Connect` are `dogecoin_headers_db_connect_hdr`: duplicate, known predecessor,
proof of work, work, reorganisation with its walk to the common ancestor, tip,
trimming. The origin of a header (`"p2p"`, `"flush"`, `"load"`) decides what is
checked and which work it adds: a record of 80 bytes carries no AuxPoW data.

**HeadersDB**. The file is a sequence of records and torn writes; a torn write
shifts all that follows by less than a record. `ConnectHdr` appends and, unless
batch_write is set, syncs; `Commit` is the sync at the end of a flush;
`ConnectThenUndo` is the block handler whose transactions do not parse;
`StartAtCheckpoint` the locator's checkpoint start; `Stop`, `Crash` and
`CrashInWrite` end a session; `Open`, `LoadFirst`, `LoadNext`, `Loaded` replay
the file one record per step.

**ParHdr** (`spv.c`, `par_hdr_init` to `par_hdr_free`). `segs` holds owner,
shadow, tip, staged headers, the retained last record and its verdict,
complete, flushed and the failure count of each segment; `conn`, `hsync` and
`wire` are the peers; `index` and `written` the database. Actions:

| Action | Code |
|---|---|
| `HandshakeDone` | `dogecoin_net_spv_node_handshake_done`, `par_hdr_assign` |
| `Disconnect` | `event_cb` on end of file or error |
| `RecvUnsolicited`, `RecvDropped`, `RecvMore`, `RecvMismatch`, `RecvComplete` | the ways out of `par_hdr_recv` |
| `FlushHeader`, `FlushSegment`, `FlushFail`, `FlushDone` | `par_hdr_flush` and the rest of `par_hdr_recv`, one header per step |
| `Reclaim` (through `Tick`) | `par_hdr_reclaim`: release, hand out, preempt, race |

An event is handled to its end before the next one (`pc`). Peers in `Honest`
answer each request from the checkpointed chain, possibly late; the others
answer anything. `Prompt` ones also stay connected and answer before they time
out. Clocks are left out: which owners have timed out, which segments have a
measurable rate and which of those are slow are choices of `Tick`, limited by
the conditions the code puts on them (`MayStall`, `Ratable`, `SeesCrowd`).

`par_hdr_check`, the code's own check of its invariants, is not part of the
state machine; its conditions are properties here.

**FilteredScan** (`spv.c`, `dogecoin_net_spv_request_filtered_history` and the
merkleblock and tx branches). The client's messages to a peer and the peer's
answers are two queues; the peer holds its own copy of the filter and matches
each block with what it has read so far. `Recv` handles one message, `Serve` is
the peer, `NewBlock` a block announced during the scan. `RecvTx` adds the found
transaction's outpoints to the filter and asks for the rest of the window again
(`TailNeeded`, `RequestTail`), at most `TailLimit` times.

A payment always matches, through the hash of a key that spvnode puts into the
filter. A transaction that only spends matches when the outpoint it spends is in
the filter byte for byte, so an outpoint in a filter (`Element`) has a byte
order. `TxHash` is the order of the wire, in which `dogecoin_tx_hash` leaves the
digest and in which a peer itself adds the outpoints of what it matches
(`BLOOM_UPDATE_ALL`); `FilterAdd` adds the reverse, as `spv.c:2102` does.

**Smpv** (`smpv.c`, and the tx and block branches of `spv.c`). The watcher array
and its index are separate state because the array is shifted on a removal.
`RecvTx` tracks, `RecvBlock` connects the header through HeaderTree, confirms
the block's transactions and counts; `RecvBadBlock` is a block, on the active
chain or a side branch, whose transactions or their count do not parse from some
point on; `Unconfirm` the API call; `Enable` and `Disable` free everything.
`peak` is not in the code: it records the highest block seen since the tip last
rose, and only the statement of `NeverOverstated` reads it.

**Wallet** (`wallet.c` as `spvnode` uses it). `mem` is the wallet in memory,
`file` a header and records. `StartNew`, `SetMasterKey`, `NextAddr`,
`WatchAddress`, `StartAgain` are `dogecoin_wallet_init`, one write per step;
`CheckTransaction` is `dogecoin_wallet_check_transaction`; `Stop`,
`CrashInWrite`, `CrashInCreate` end a session between or inside writes. `Load`
runs the loaders of the three record kinds over the file. A write cut short
leaves a stub (less than a magic, which the loader takes for the end of the
file) or a torn record (which makes the load fail). `MyOutputs` stands for both
tests of an output, `dogecoin_wallet_txout_is_mine` and the comparison of
addresses in `dogecoin_wallet_scrape_utxos`; outputs are pay-to-pubkey-hash, for
which the two agree (for pay-to-pubkey they do not).

## 3. The runs

| Run | Checks | Shows |
|---|---|---|
| `ParHdr_safety` | `TypeOK`, `CheckpointsAnchored`, `FlushOrdered`, `TipsBracketed`, `OnePeerOneSegment`, `FlushAdvances`, `NothingDownloadedIsLost` | three peers that may send anything cannot get anything but the checkpointed chain flushed, and take over segments from each other without loss |
| `ParHdr_live` | `WithinBudget`, `FlushOrdered`, `OnePeerOneSegment`, `NothingDownloadedIsLost`, `Completes` | four segments, a budget of one header, stale replies, timeouts, preemption and races: memory stays bounded, and the download completes when a prompt peer comes first in the node list |
| `HeadersDB` | `TypeOK`, `FileInOrder`, `WholeFileLoads`, `ActiveChainStaysLive` | a chain, two branches, two checkpoint starts, crashes and two restarts |
| `HeadersDB_torn` | `CommittedLoads` (violated) | records behind a torn write are lost (finding) |
| `Broadcast` | `TypeOK`, `NoStrayEvents`, `DialsAreFresh`, `RequestsCountPeers`, `LoopEnds`, `LifeSpec` | two peers that do anything |
| `SpvSync` | `TypeOK`, `OneDownloader`, `Watched`, `HeadersEnd`, `LifeSpec` | a client that starts at genesis, a faulty peer, whose answer may be empty, short or broken off, and a prompt one |
| `SpvSync_restart` | `CatchesUp` (violated) | a client restarted at the height of the network stays in header sync (finding) |
| `Wallet` | `TypeOK`, `Recoverable`, `SpentStaysSpent`, `Opens` | three transactions that spend from each other, three crashes |
| `Wallet_keys` | `OwnAddresses` (violated) | a crash before the first address (finding) |
| `FilteredScan` | `TypeOK`, `OutputsFirst`, `PaymentsFound`, `ScanEnds` | payments in two windows, spends in the same and in the next, new blocks in between |
| `FilteredScan_spends` | `SpendsFound` (violated) | the spend of a payment in a later window is never sent (finding) |
| `Smpv` | `TypeOK`, `LookupFinds`, `CountsAgree`, `NeverOverstated`, `TipCountsAll` | two branches, watchers that come and go, malformed blocks |

### Bounds

* `ParHdr_safety`: five headers, three on the checkpointed chain, one leaving
  it at the first and one at the second height; segments of two and one
  headers. That is the least with a segment that can be partly written, a
  wrong header at a checkpoint and one before it. `MaxBatch` 2 lets one message
  finish a segment or overshoot it. `MaxFlushFails` 2 (3 in the code) has a
  retry and a give-up. `MaxGarbled` caps a counter that only grows.
  Three peers give an owner to each segment and one to spare, or an owner lost
  and one to replace it; two requests per peer (`MaxWire`) give an answer to an
  outdated request. Segments this short have no measurable rate, so none is
  raced or preempted here.
* `ParHdr_live`: segments of 1, 2, 2 and 1 headers and a budget of one header,
  so that segments above the flush head use it up in every order. `Crowd` 1 (3
  in the code) makes the median exist with two segments under way: with two
  peers there are an owner and a shadow on one segment, and preemption.
* `HeadersDB`: `MaxHdrInMem` 1 (1440 in the code) so that trimming happens on a
  chain of four; two side branches off different heights, one of them of cheaper
  headers, a checkpoint at the lower fork and one above both; five records and two restarts, so that
  what a restart loaded is built on, crashes and is loaded again. `HeadersDB_torn` needs only a chain.
* `Broadcast`: one connection wanted among two peers, so that a pass dials both
  at once and a second peer can replace the first; `MaxCount` 3 admits repeated
  veracks and invs.
* `SpvSync`: `Gap` 1, `Far` 2 and batches of 2 stand for 5, 1440, 2000 and 500.
  Their order (gap below far, both below the chain) is kept, and a chain of five
  that grows to six has a full batch, a short one, the switch to blocks, a full
  inv and a new block. `Limit` 2 lets a timer run for some checks before it is
  stale. `MaxBad` 1 bounds the faulty answers: headers that are
  too few or do not connect, blocks that do not parse. Heights are
  subtracted modulo `Word`, which stands for 2^32.
* `Wallet`: two addresses (21 in the code) so that a crash can fall between
  them; the three transactions have a payment, a spend with change and a spend
  of both, in any order; three crashes damage, reopen and damage again.
* `FilteredScan`: windows of three blocks (50000) over a chain of six that grows
  to eight; two repeated requests (8). One peer serves and announces. The first
  of two payments in the first window is spent from in that window, the second
  in the next. The last block of the first window has a match when it is first
  served and none when it is asked for again, which opens the next window; one
  that pays the wallet would match every time and hold the next window up until
  a block without a match comes in (`spv.c:2047`). The payment in the last block
  of the chain waits for the new blocks in this way.
* `Smpv`: six blocks on two branches of different length, one payment only in
  the shorter, two in both, one that pays two watched addresses.

`ActiveChainStaysLive` is a property of steps: an index may come to point into
freed memory (see the observations), so that the active chain runs through a
freed header later is not excluded; that a step frees what the active chain
needs while all pointers are good is.
`Watched` and `HeadersEnd` are about a client that starts below the height of
the network; the other case is the finding of `SpvSync_restart`. Both except a
faulty peer that has answered with too few headers. An empty message, or one
shorter than a batch that stops short of the announced height, turns the timer
off (`spv.c:1751`), asks for nothing (`spv.c:1802`) and leaves
`NODE_HEADERSYNC`, so that no other peer is asked as long as this one stays
connected. `Watched` therefore demands the timer for a faulty peer only while it
owes an answer, and `HeadersEnd` allows that such a peer holds the sync for
ever; without that alternative TLC finds the empty answer at once. A single
faulty peer can so stop a client that is behind as an honest one stops a client
that is not.
`TipCountsAll` is about headers that come with blocks: only the block branch
calls the recount (`spv.c:1666`); headers connected by other messages do not.

### Deadlock and fairness

Broadcast, FilteredScan and Smpv are checked for deadlock: the first two stutter
explicitly (`Done`) only where the event loop has ended or no message is on its
way. The others may really stop, or end at their bounds, and do not check it:
every segment flushed or every peer gone (ParHdr), records and restarts used up
(HeadersDB), every peer gone (SpvSync), a damaged file that no start accepts
(Wallet).

* ParHdr: the handler in progress is finished (the code has no waiting in it);
  a prompt peer's handshake and answers arrive (this is what prompt means, and
  the claim is only about sessions with such a peer); the periodic timer fires,
  and an owner silent longer than `PAR_HDR_SEG_TIMEOUT` is found by it.
* Broadcast: time passes, and a node that owns events has a persistent timer
  (`EV_PERSIST`) that fires. Nothing is assumed of the peers.
* SpvSync: state checks go on while a node owns its timer; prompt peers
  connect, shake hands and answer. `HeadersEnd` and `CatchesUp` are conditional
  on one of them staying usable, since the client may itself give up on it.
* Wallet: the user starts the program again, and a start runs to its end.
* FilteredScan: peers answer, the client reads what arrives, blocks are found.

### Observations without a run

What these models also show and no run claims:

* `Completes` fails when a silent peer comes before the prompt one in the node
  list: the released segment goes back to it at every timeout.
* Preemption can leave a segment with a shadow and no owner, which
  `par_hdr_check` reports as an error; a segment whose tip was advanced by
  headers off the chain cannot be continued by any peer; `buffered_bytes` can
  exceed what is staged by the records whose AuxPoW cannot be skipped.
* A headers file with a side branch need not load to its highest header, since
  the loader overwrites the tip's chainwork with that of each record. Nor need
  one with a gap: when the first block is undone, its record stays; a later
  start at a checkpoint above it adds records that a load, which begins with the
  undone block, does not connect. `WholeFileLoads` is about the other files.
* The active chain can run through freed headers. On a1, a2, a3 two malformed
  side blocks, c3 on a2 and b2 on a1, pop a3 and a2, since the undo frees the tip
  and not the side block; when a block on c3 then becomes the tip, the chain
  behind it goes through the freed a2. A reorganisation that frees a branch from
  which another one forks, and trimming below a fork, leave such pointers too.
* A malformed side block pops the tip but leaves the counts of confirmations:
  payments show one too many until the next block (`peak` in `NeverOverstated`).
* Two peers can be in block sync at once. After a malformed block its sender
  loses NODE_BLOCKSYNC and another peer is asked; a later block of the first
  makes it ask on (`spv.c:905`) without a look at the others. `OneDownloader` is
  therefore about headers.
* With two peers, one of which announces new blocks (`NumPeers` 2, `Announcer`
  2), `OutputsFirst` fails: the merkleblock of a new block replaces the set of
  transactions still expected from the other peer's block.
* With `FilterAdd` in the order of the wire `SpendsFound` holds in the instance
  of `FilteredScan_spends`; the byte order is all that is wrong there. It would
  not hold for every chain: the limit of repeated requests (8) can be used up
  inside one block, and the merkleblock of a new block, which lies above the end
  of the window, opens the next window (`WindowRead`) with a filter without what
  the blocks still to come hold.
* In SpvSync, a dial that times out with no other connection is dialled again by
  the client's callback while `NODE_ERRORED` is still set, and its new events
  are then released: the node stays connecting, without events, for ever.

Noticed in the code beside the models, and in no list: the parallel download is
enabled before the headers file is loaded (`cli/spvnode.c:739`) and builds its
segments for a chain called "test" where the parameters say "testnet3"
(`spv.c:2649`); near the tip the stall timer of the block sync is off while its
flag stays set (`spv.c:1132`), and a block that does not connect arms it for a
request that was never made (`spv.c:1125`); the end of a filtered window is
recorded before its blocks are collected (`spv.c:2395`), from the first record
of each height on the file (`spv.c:2443`); a transaction first seen after its
block stays unconfirmed (`smpv.c:773`); a wallet whose start is cut short keeps
fewer addresses or none (`wallet.c:623`, `wallet.c:643`), `bestblockheight` is
never assigned (`wallet.c:1642`), ids of outputs are taken to be contiguous
(`wallet.c:1844`), and a wallet file is rewritten through a temporary file of a
fixed name (`wallet.c:1942`).

## 4. The proofs

All are checked by TLAPS, for every value of the constants that satisfies the
assumption of the module (`HeaderAssumption`, `ParHdrAssumption`, and so on; TLC
evaluates them in the runs).

### The parallel download

`ParHdrProofs`. The assumptions are that headers form a forest over genesis with
heights, that the checkpointed chain is a path in it and that segments are not
empty.

| Theorem | Says |
|---|---|
| `TypeCorrect` | `Spec => []TypeOK` |
| `Anchored` | `Spec => []CheckpointsAnchored` |
| `FlushInOrder` | `Spec => []FlushOrdered` |
| `Bracketed` | `Spec => []TipsBracketed` |
| `FlushIsComplete` | `Spec => FlushAdvances` |
| `NothingLost` | `Spec => NothingDownloadedIsLost` |
| `OnePeer` | `Spec => []OnePeerOneSegment` |
| `StagedWithinBudget` | `Spec => []WithinBudget` |

The inductive invariant is `Sound`, the conjunction of

* `TypeInv`: the types, and a handler in progress knows its peer;
* `FlushOrdered`;
* `SegsSound`: what is known of one segment: staged headers end at its tip, a
  complete one ends on its checkpoint, heights are bracketed;
* `DbSound`: the written set contains the predecessor of each of its members,
  and the tip and everything in the tree is written;
* `FlushSound`: what the flush in progress has written of the segment.

Anchoring follows from closure: a set of headers that contains the predecessor
of each member and contains a checkpoint contains every header below that
checkpoint (`ClosedHoldsChain`). That is why it suffices that a segment landed
on its checkpoint hash and that every staged header connected, and why nothing
has to be known about the headers in between or the peers that sent them.

The induction is over kinds of steps, not over actions: `StepKinds` shows that
every step hands segments around, stages headers, completes a segment, sets a
segment back, writes a header or ends the flush of a segment, and each part of
the invariant is preserved by each kind. `OnePeer` needs its own invariant only
for the pairing of peers with segments: `Pairing` gives each peer one segment
and each segment one peer because ranks in a set are injective
(`RankInjective`, `PairingOne`).

`WithinBudget` speaks of what is staged, while the code looks at a counter when
it hands a segment out. Three facts connect them (`BudgetInv`): the counter is
never below what is staged (`Charges`; it can be above, by garbled records); a
segment holds at most its length and one message less one header, since it asks
on only below its stop (`Room`); and there are at most as many segments as
peers, those that peers are at work on included, without which the rest fits the
budget (`Within`). The last one holds each time a segment is handed out below
the budget, because every peer works on one segment (`WorkedFew`, which needs
`OnePeer`), and is kept by every other step, because a batch only comes in where
a peer is at work (`NoNewWork`). The flush head is exempt; when it moves on, the
old head is empty.

### The node group under a broadcast

`BroadcastProofs`, for every value of the constants that satisfies
`NodeGroupAssumption` and `BroadcastAssumption`: at least one peer and one
connection wanted, and as many peers informed as connected.

| Theorem | Says |
|---|---|
| `TypeCorrect` | `Spec => []TypeOK` |
| `EventsAreOwned` | `Spec => []NoStrayEvents` |
| `FreshDials` | `Spec => []DialsAreFresh` |
| `CountsPeers` | `Spec => []RequestsCountPeers` |
| `KeepsPeerLife` | `Spec => LifeSpec`, the refinement of PeerLife |

None of these is inductive alone. The invariant is about one node at a time:
`Sane` adds to the ownership of events that a node is at most one of dialled,
connected and disconnected, that a misbehaving one is disconnected, and that
one which was never connected has no handshake, bytes or hints. The group's
functions change whole tables, so the lemmas `DialsSome` and `ChangesNode`
(which `SpvSyncProofs` needs too, and states again) first say what they do to a single node, and one lemma per event shows that a
sane node makes a `NodeStep`: it is sane afterwards, moved as PeerLife allows,
and is still remembered if it had asked. `EveryStep` collects them; the
refinement and the invariants follow from it, and `CountsPeers` from adding one
peer to a finite set each time a getdata is counted.

### The serial sync

`SpvSyncProofs`, under `NodeGroupAssumption` and `SpvSyncAssumption`.

| Theorem | Says |
|---|---|
| `SyncTypeCorrect` | `Spec => []TypeOK` |
| `OnePeerDownloads` | `Spec => []OneDownloader` |
| `HeaderSyncWatched` | `Spec => []Watched`, if `StartsBehind` |
| `SyncKeepsPeerLife` | `Spec => LifeSpec` |

A handler computes a whole client record, so the invariant `Good` is a predicate
of such a record and the height of the network, kept by each function a handler
is made of. `Safe` has the types, nodes as sane as in a broadcast (`Fit`), one
peer at work (`OneAtWork`) and requests that start at the tip or below. `Sought`
says that until the switch the tip stays below the network and that peers
announce at least the height at which the client started, so that an honest
answer is never empty: it is a full batch, after which more is asked for, or
brings the switch. A faulty answer may be short of both (`KeptGood`); the timer
is then off, and the peer owes nothing any more. `Alarm` is `Watched`, which
says no more than that of such a peer; it is kept by every other handler because
nothing but a request, which arms the timer, puts a headers answer on its way.
The last two need `StartsBehind`: the client starts below the height of the
network, which is at least `Gap`, so that no subtraction wraps. What is left out
is the case of `SpvSync_restart`, where an honest peer's empty answer disarms
the timer.

### The header index and the headers database

`HeaderTreeProofs` holds what the others use: the walk along prev pointers, that
an index keeps its shape (`Shape`: a pointer is null or leads to the header's
predecessor), and what connecting, reorganising, trimming and undoing do to the
tree, the tip and the chain behind it. The walk is a recursive function, shown
to be what its equations say by induction on its length, with the statement to
be proved as a set of numbers.

`HeadersDBProofs`, under `HeaderAssumption` and `HeadersDBAssumption`:

| Theorem | Says |
|---|---|
| `DatabaseTypeCorrect` | `Spec => []TypeOK` |
| `RecordsInOrder` | `Spec => []FileInOrder` |
| `OneChainLoads` | `Spec => []WholeFileLoads` |
| `ChainMemoryLive` | `Spec => ActiveChainStaysLive` |

`FileInOrder` is inductive with the fact that every header the index knows is a
checkpoint or on the file (`Within`). For `WholeFileLoads` the invariant follows
the load (`LoadedSoFar`): on a file of one unbroken chain the tree is what has
been read so far, with its highest header as the tip, so that the next record
repeats one or extends the tip and no fork is ever decided.
`ActiveChainStaysLive` follows from what each way of freeing spares: the losing
branch down to the common ancestor, the headers below the memory window, the
popped tip.

### Mempool verification

`SmpvProofs`, under `HeaderAssumption` and `SmpvAssumption`:

| Theorem | Says |
|---|---|
| `SmpvTypeCorrect` | `Spec => []TypeOK` |
| `WatcherFound` | `Spec => []LookupFinds` |
| `CountersExact` | `Spec => []CountsAgree` |
| `ConfirmationsBounded` | `Spec => []NeverOverstated` |
| `NewTipCountsExact` | `Spec => TipCountsAll` |

The invariant says that the watchers are distinct and the index is the inverse
of the array; that the table has one entry per transaction, with its height that
of its block, the counters count it and a watcher's count is bounded by the
entries that pay it; and that no entry has more confirmations than from its
block to `peak` (`Bounded`). A block's transactions are confirmed one by one, by
a recursive function, so the client's part of the invariant is shown for one
transaction and then by induction for every prefix of the block.

### The wallet

`WalletProofs`, under `WalletAssumption`:

| Theorem | Says |
|---|---|
| `WalletTypeCorrect` | `Spec => []TypeOK` |
| `FileFollowsMemory` | `Spec => []Recoverable` |
| `SpendsAgree` | `Spec => []SpentStaysSpent` |

`Recoverable` says nothing while the program is down, so the invariant adds that
whatever the file loads to is a good wallet without a private key (`FileGood`),
which is what a start begins with. Appending a record to an undamaged file
changes what it loads to by that one record (`Load` is a recursive function,
handled as a run over the records), and every action changes the memory by what
the loader of the record it writes does. `SpentStaysSpent` is stated of any
wallet (`Ledger`): adding a transaction keeps it, so it holds of what was loaded
as of what was built up.

### The filtered scan

`FilteredScanProofs`, under `FilteredScanAssumption`: the wallet's transactions
are finitely many, each in a block of the chain, and one that spends from
another is in a higher block.

| Theorem | Says |
|---|---|
| `ScanTypes` | `Spec => []TypeOK` |
| `ScanInOrder` | `Spec => []OutputsFirst`, if the scanned peer announces the blocks |
| `ScanFindsPayments` | `Spec => []PaymentsFound`, likewise |

`Announcer = 1` excludes that the merkleblock of another peer discards what is
awaited. There is no theorem on `SpendsFound`, which the code does not satisfy.

Seen from the scanned peer every step is one of three (`OneStep`): a block is
asked for, the client reads a message, the peer reads one. The invariants are
about the client, the two queues and the peer's filter:

* `Runs`: a merkleblock in the queue is followed by exactly the transactions it
  tells of, and what the client awaits is what comes first. It is why nothing
  awaited is given up for the next merkleblock.
* `KnowInv`, `Told`: whatever is in a filter or matched is found, awaited or told
  of by an earlier merkleblock, and so is the parent of what is matched.
  `OutputsFirst` follows.
* `ComeInv`: a payment up to the end of the window is found, awaited, told of, or
  in a block that is yet to be served. A repeated request moves the end of the
  window back and asks for every block above it again, and the next window
  begins where the last one ended. With no message on its way only the first is
  left.

### Checked only by TLC

* Liveness: `Completes`, `LoopEnds`, `HeadersEnd`, `Opens`, `ScanEnds`, and the
  refuted `CatchesUp`. Fairness is out of the prover's reach.

## 5. Not modelled

The other components of the table: see `components` in `PROJECT.json` for each
reason. Most are functions of one call's input (encodings, signatures, hashes,
amounts), vendored or generated code and data tables. Inside the modelled ones:

* headers database: the file's magic, version and the interactive prompt,
  memory-only databases, allocation failure; the bytes of headers and AuxPoW
  data (whether they parse and prove work is a parameter);
* parallel download: clocks and rates as numbers; starting it on a database that
  is not empty; the hand-over to the serial sync;
* serial sync: peer discovery, the two fallbacks of
  `dogecoin_net_spv_request_headers` that only serve groups in which every peer
  announces height 0, unsolicited headers, and forks, which are in HeadersDB and
  Smpv;
* node group: address parsing, the compact block fields that are never read;
* wallet: amounts, balances, confirmation counts, and the functions that rewrite
  a wallet file;
* filtered scan: false positives of the filter, which only add transactions that
  the wallet then ignores; the error exits of the merkleblock branch
  (`spv.c:1846-2001`: a header or a partial Merkle tree that does not parse, a
  root that does not match, a block that neither connects nor is known), which
  clear `NODE_BLOCKSYNC`, call the state callback and, once the header was
  connected, pop the tip again unless the block is an old one, as SpvSync and
  HeadersDB have it for blocks; the
  outpoints of unspent outputs that `cli/spvnode.c:694-714` puts into the filter
  when the scan begins, reversed like the others; the loss of the scanned peer;
* disk errors, as opposed to crashes.

## 6. Plan

1. The pending commitment tables of `spv.c` and their eviction.
2. The hand-over from the parallel download to the serial sync.
3. Working transactions and contexts; PSBT roles.
