------------------------------- MODULE Wallet -------------------------------
(***************************************************************************)
(* The wallet of src/src/wallet.c as spvnode uses it: its start            *)
(* (dogecoin_wallet_init), the transactions the SPV client hands to it     *)
(* (dogecoin_wallet_check_transaction), the append-only wallet file, and   *)
(* crashes between two writes or in the middle of one.                     *)
(*                                                                         *)
(* A transaction is a name with the outpoints it spends and the addresses  *)
(* it pays.  The wallet answers "is this output spent?" in two ways: the   *)
(* spendable flag in the table utxos, and the index of spends.  Amounts    *)
(* are positive; confirmation counts, which no decision of the wallet      *)
(* reads, are left out.                                                    *)
(***************************************************************************)
EXTENDS Naturals, Sequences, SequencesExt

CONSTANTS
    Tx,          \* transactions of blocks
    Inputs,      \* Inputs[t]: the outpoints <<u, n>> that t spends
    Outputs,     \* Outputs[t]: the addresses t pays, by output
    WatchAddr,   \* addresses a user may ask to watch (-a)
    InitAddrs,   \* addresses made for a new wallet: 21
    MaxHeight,   \* bound: heights of the blocks
    MaxCrashes   \* bound: crashes and shutdowns

HdAddr(i) == <<"hd", i>>       \* child i of the wallet's key
NullAddr  == <<"null", 0>>     \* hash of a public key that is all zero
Addr == {HdAddr(i) : i \in 0 .. InitAddrs - 1} \cup {NullAddr} \cup WatchAddr

ASSUME WalletAssumption ==
    /\ Inputs \in [Tx -> SUBSET (Tx \X (Nat \ {0}))]
    /\ \A t \in Tx : IsFiniteSet(Inputs[t])
    /\ DOMAIN Outputs = Tx
    /\ IsFiniteSet(WatchAddr)
    /\ WatchAddr \cap ({NullAddr} \cup {HdAddr(i) : i \in 0 .. InitAddrs - 1}) = {}
    /\ InitAddrs \in Nat \ {0} /\ MaxHeight \in Nat /\ MaxCrashes \in Nat

Outpoint == UNION {{<<t, n>> : n \in DOMAIN Outputs[t]} : t \in Tx}

VARIABLES
    mem,      \* the wallet in memory
    file,     \* the wallet file: its header and its records
    pc,       \* where the program is in dogecoin_wallet_init
    watch,    \* the addresses asked for on the command line, none or one
    crashes

vars == <<mem, file, pc, watch, crashes>>

\* dogecoin_wallet_new, and utxos of a new process
NewWallet ==
    [key    |-> "none",      \* masterkey: "private" until it is reloaded
     addrs  |-> <<>>,        \* waddr_vector
     next   |-> 0,           \* next_childindex
     wtxes  |-> <<>>,        \* vec_wtxes, in the order they were added
     utxos  |-> <<>>,        \* by outpoint
     spends |-> {}]          \* spends_rbtree

-----------------------------------------------------------------------------
\* dogecoin_wallet_txout_is_mine
Mine(W, a) == \E i \in DOMAIN W.addrs : W.addrs[i] = a

MyOutputs(W, t) == {<<t, n>> : n \in {m \in DOMAIN Outputs[t] : Mine(W, Outputs[t][m])}}

Known(W) == {W.wtxes[i].tx : i \in DOMAIN W.wtxes}

\* dogecoin_wallet_get_debit_tx is positive
HasDebit(W, t) == \E op \in Inputs[t] : op[1] \in Known(W) /\ op \in MyOutputs(W, op[1])

\* dogecoin_wallet_is_from_me: any tracked output of the same transaction will do
IsFromMe(W, t) ==
    HasDebit(W, t) \/ \E op \in Inputs[t], u \in DOMAIN W.utxos : u[1] = op[1]

Relevant(W, t) == MyOutputs(W, t) # {} \/ IsFromMe(W, t)

\* mutant: the output number is not compared
MarkedByTx(W, t) ==
    [u \in DOMAIN W.utxos |->
        IF \E op \in Inputs[t] : op[1] = u[1]
        THEN [W.utxos[u] EXCEPT !.spendable = FALSE] ELSE W.utxos[u]]

Marked(W, t) ==
    [u \in DOMAIN W.utxos |->
        IF u \in Inputs[t] THEN [W.utxos[u] EXCEPT !.spendable = FALSE] ELSE W.utxos[u]]

(* dogecoin_wallet_scrape_utxos: the inputs are marked first, then each    *)
(* output to the wallet is tracked, or its height refreshed.               *)
ScrapeUtxos(W, t, h) ==
    LET old == Marked(W, t)
        new == MyOutputs(W, t)
    IN  [W EXCEPT !.utxos =
            [u \in DOMAIN old \cup new |->
                IF u \notin DOMAIN old THEN [height |-> h, spendable |-> TRUE]
                ELSE IF u \in new THEN [old[u] EXCEPT !.height = h]
                ELSE old[u]]]

Without(ws, t) ==
    LET found == {i \in DOMAIN ws : ws[i].tx = t}
    IN  IF found = {} THEN ws ELSE RemoveAt(ws, Min(found))

(* dogecoin_wallet_add_wtx_intern_move: an entry of the same transaction   *)
(* is replaced, and the inputs of a transaction of ours become spends.     *)
AddWtxInternMove(W, t, h) ==
    [W EXCEPT !.wtxes = Append(Without(@, t), [tx |-> t, height |-> h]),
              !.spends = IF IsFromMe(W, t) THEN @ \cup Inputs[t] ELSE @]

AddAddr(W, a) == [W EXCEPT !.addrs = Append(@, a), !.next = @ + 1]

-----------------------------------------------------------------------------
(* The file.  A write cut short leaves "stub", one to three bytes of a     *)
(* record's magic, or "torn", a longer part of a record.                   *)
KeyRec == <<"key">>
AddrRec(W, a) == <<"addr", a, W.next>>
TxRec(t, h) == <<"tx", t, h>>
Broken == {<<"stub">>, <<"torn">>}

\* dogecoin_load_wallet_masterpubkey: the file holds only the public key
LoadMasterpubkey(W) == [W EXCEPT !.key = "public"]

\* dogecoin_wallet_load_address
LoadAddress(W, rec) == [W EXCEPT !.addrs = Append(@, rec[2]), !.next = rec[3] + 1]

\* mutant: the outputs of a loaded transaction are not scraped
LoadTransactionOnly(W, rec) == AddWtxInternMove(W, rec[2], rec[3])

\* dogecoin_wallet_load_transaction
LoadTransaction(W, rec) == AddWtxInternMove(ScrapeUtxos(W, rec[2], rec[3]), rec[2], rec[3])

LoadRecord(W, rec) ==
    CASE rec[1] = "key"  -> LoadMasterpubkey(W)
      [] rec[1] = "addr" -> LoadAddress(W, rec)
      [] rec[1] = "tx"   -> LoadTransaction(W, rec)
      [] OTHER           -> W

\* mutant: bytes of a magic at the end of the file are an error too
LoadsWhole(f) == f.header = "whole" /\ \A i \in DOMAIN f.recs : f.recs[i] \notin Broken

(* Whether dogecoin_wallet_load accepts a file: too few bytes for a magic  *)
(* are taken for its end, in its middle they garble the next magic.        *)
Loads(f) ==
    /\ f.header = "whole"
    /\ \A i \in DOMAIN f.recs :
        f.recs[i] \in Broken => f.recs[i] = <<"stub">> /\ i = Len(f.recs)

(* What dogecoin_wallet_load reads from a file it accepts, record by       *)
(* record.  The singletons only make TLC evaluate each wallet once.        *)
Load(f) ==
    LET step(W, rec) == CHOOSE v \in {LoadRecord(w, rec) : w \in {W}} : TRUE
        read[k \in 0 .. Len(f.recs)] ==
            IF k = 0 THEN NewWallet ELSE step(read[k-1], f.recs[k])
    IN  read[Len(f.recs)]

-----------------------------------------------------------------------------
Init ==
    /\ mem = NewWallet
    /\ file = [header |-> "none", recs |-> <<>>]
    /\ pc = "down"
    /\ watch = {}
    /\ crashes = 0

\* wallet_write_record and dogecoin_file_commit
Write(rec) == file' = [file EXCEPT !.recs = Append(@, rec)]

\* dogecoin_wallet_init on a new file: dogecoin_wallet_create
StartNew ==
    /\ pc = "down" /\ file.header = "none"
    /\ watch' \in {{}} \cup {{a} : a \in WatchAddr}
    /\ file' = [file EXCEPT !.header = "whole"]
    /\ mem' = NewWallet
    /\ pc' = "keyless"
    /\ UNCHANGED crashes

\* dogecoin_wallet_set_master_key_copy
SetMasterKey ==
    /\ pc = "keyless"
    /\ mem' = [mem EXCEPT !.key = "private"]
    /\ Write(KeyRec)
    /\ pc' = "addressing"
    /\ UNCHANGED <<watch, crashes>>

(* dogecoin_wallet_init on an existing file: without a key and an address  *)
(* to watch the program exits.                                             *)
StartAgain ==
    /\ pc = "down" /\ Loads(file)
    /\ watch' \in {{}} \cup {{a} : a \in WatchAddr}
    /\ Load(file).key = "none" => watch' # {}
    /\ mem' = Load(file)
    /\ pc' = IF watch' = {} /\ Load(file).addrs # <<>> THEN "open" ELSE "addressing"
    /\ UNCHANGED <<file, crashes>>

(* The address dogecoin_wallet_next_bip44_addr derives.  A reloaded key    *)
(* has no private part; the derivation reports success all the same.       *)
Derived(W) == IF W.key = "private" THEN HdAddr(W.next) ELSE NullAddr

\* dogecoin_wallet_next_bip44_addr, 21 times
NextAddr ==
    /\ pc = "addressing" /\ watch = {}
    /\ mem' = AddAddr(mem, Derived(mem))
    /\ Write(AddrRec(mem, Derived(mem)))
    /\ pc' = IF Len(mem'.addrs) = InitAddrs THEN "open" ELSE pc
    /\ UNCHANGED <<watch, crashes>>

\* mutant: an address is added whether or not the wallet has it
NotAddedKeyless(W, a) == W.key = "none"

NotAdded(W, a) == W.key = "none" \/ Mine(W, a)

\* dogecoin_p2pkh_address_to_wallet
WatchAddress(a) ==
    /\ pc = "addressing" /\ watch = {a}
    /\ IF NotAdded(mem, a)
       THEN UNCHANGED <<mem, file>>
       ELSE mem' = AddAddr(mem, a) /\ Write(AddrRec(mem, a))
    /\ pc' = "open"
    /\ UNCHANGED <<watch, crashes>>

(* dogecoin_wallet_check_transaction for a transaction it acts on.  Others *)
(* only refresh the confirmation counts.                                   *)
CheckTransaction(t, h) ==
    /\ pc = "open"
    /\ Relevant(mem, t)
    /\ t \notin Known(mem)
    /\ mem' = AddWtxInternMove(ScrapeUtxos(mem, t, h), t, h)
    /\ Write(TxRec(t, h))
    /\ UNCHANGED <<pc, watch, crashes>>

\* the program ends: dogecoin_wallet_free, or a crash between two writes
Stop ==
    /\ pc # "down" /\ crashes < MaxCrashes
    /\ mem' = NewWallet
    /\ pc' = "down"
    /\ crashes' = crashes + 1
    /\ UNCHANGED <<file, watch>>

(* A crash in the middle of a write.                                       *)
Writing ==
    \/ pc = "keyless"
    \/ pc = "addressing" /\ mem.key # "none" /\ ~ \E a \in watch : Mine(mem, a)
    \/ pc = "open" /\ \E t \in Tx : Relevant(mem, t) /\ t \notin Known(mem)

CrashInWrite ==
    /\ Writing /\ crashes < MaxCrashes
    /\ \E b \in Broken : Write(b)
    /\ mem' = NewWallet
    /\ pc' = "down"
    /\ crashes' = crashes + 1
    /\ UNCHANGED watch

CrashInCreate ==
    /\ pc = "down" /\ file.header = "none" /\ crashes < MaxCrashes
    /\ file' = [file EXCEPT !.header = "torn"]
    /\ crashes' = crashes + 1
    /\ UNCHANGED <<mem, pc, watch>>

Start == StartNew \/ StartAgain
Setup == SetMasterKey \/ NextAddr \/ \E a \in WatchAddr : WatchAddress(a)

Next ==
    \/ Start
    \/ Setup
    \/ \E t \in Tx, h \in 1 .. MaxHeight : CheckTransaction(t, h)
    \/ Stop
    \/ CrashInWrite
    \/ CrashInCreate

Spec == Init /\ [][Next]_vars

(* A user starts the program again, and its start runs to the end.         *)
FairSpec == Spec /\ WF_vars(Start) /\ WF_vars(Setup)

-----------------------------------------------------------------------------
(* Every field of the wallet and of its file has its type.                 *)
TypeOK ==
    /\ mem.key \in {"none", "private", "public"}
    /\ mem.addrs \in Seq(Addr)
    /\ mem.next \in 0 .. InitAddrs + Cardinality(WatchAddr)
    /\ mem.wtxes \in Seq([tx : Tx, height : 1 .. MaxHeight])
    /\ DOMAIN mem.utxos \subseteq Outpoint
    /\ \A u \in DOMAIN mem.utxos :
        mem.utxos[u] \in [height : 1 .. MaxHeight, spendable : BOOLEAN]
    /\ mem.spends \subseteq Tx \X Nat
    /\ file.header \in {"none", "torn", "whole"}
    /\ pc \in {"down", "keyless", "addressing", "open"}
    /\ watch \subseteq WatchAddr
    /\ crashes \in 0 .. MaxCrashes

Damaged ==
    \/ file.header = "torn"
    \/ \E i \in DOMAIN file.recs :
        \/ file.recs[i] = <<"torn">>
        \/ file.recs[i] = <<"stub">> /\ i < Len(file.recs)

(* Whatever the wallet knows, a restart knows: at every moment of a run,   *)
(* dogecoin_wallet_load of the file as it is gives the addresses, the      *)
(* transactions, the tracked outputs and the spends that are in memory.    *)
Recoverable ==
    pc # "down" /\ ~Damaged =>
        Load(file) = [mem EXCEPT !.key = IF @ = "private" THEN "public" ELSE @]

(* An output the wallet tracks is marked spent, in utxos and in the index  *)
(* of spends, once a transaction that spends it is added after the one     *)
(* that made it, and only then is it unspendable                           *)
(* (dogecoin_wallet_scrape_utxos, dogecoin_wallet_add_wtx_intern_move).    *)
SpentStaysSpent ==
    \A u \in DOMAIN mem.utxos :
        LET spenders == {i \in DOMAIN mem.wtxes : u \in Inputs[mem.wtxes[i].tx]}
            late     == {i \in spenders : \E j \in 1 .. i - 1 : mem.wtxes[j].tx = u[1]}
        IN  /\ ~mem.utxos[u].spendable <=> late # {}
            /\ late # {} => u \in mem.spends

(* A wallet whose file holds its key and no damage can be opened again,    *)
(* whatever the crashes before (dogecoin_wallet_init).                     *)
Opens ==
    (/\ pc = "down" /\ crashes = MaxCrashes
     /\ \E i \in DOMAIN file.recs : file.recs[i] = KeyRec
     /\ ~Damaged) ~> pc = "open"

(* Addresses come from the wallet's key or from the user: "Prefer BIP44;   *)
(* if not available, fall back to legacy" (dogecoin_wallet_init).          *)
OwnAddresses == \A i \in DOMAIN mem.addrs : mem.addrs[i] # NullAddr
=============================================================================
