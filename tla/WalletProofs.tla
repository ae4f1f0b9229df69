---------------------------- MODULE WalletProofs ----------------------------
(***************************************************************************)
(* Proofs about the wallet: what a crash or a shutdown leaves on the file  *)
(* is what was in memory, and an output once spent stays spent.            *)
(***************************************************************************)
EXTENDS Wallet, FiniteSetTheorems, WellFoundedInduction, TLAPS

(* A non-empty set of naturals has a least member.                         *)
LEMMA Least ==
    ASSUME NEW T \in SUBSET Nat, T # {}
    PROVE  \E x \in T : \A y \in T : x <= y
<1> DEFINE R == OpToRel(<, Nat)
<1>1. ASSUME NEW x \in Nat, NEW y \in Nat, <<y, x>> \notin R PROVE x <= y
  BY <1>1 DEF OpToRel
<1>2. IsWellFoundedOn(R, Nat)
  BY NatLessThanWellFounded, Zenon
<1> HIDE DEF R
<1>3. \E x \in T : \A y \in T : <<y, x>> \notin R
  BY <1>2, WFMin, Zenon
<1>4. QED
  BY <1>1, <1>3, Zenon

(* Induction on the naturals, for a set.                                   *)
LEMMA Induction ==
    ASSUME NEW S, 0 \in S, \A n \in Nat : n \in S => n + 1 \in S
    PROVE  Nat \subseteq S
<1> SUFFICES ASSUME Nat \ S # {} PROVE FALSE
  OBVIOUS
<1>1. PICK x \in Nat \ S : \A y \in Nat \ S : x <= y
  BY Least
<1>2. x # 0 /\ x - 1 \in Nat /\ x - 1 \notin S
  OBVIOUS
<1>3. QED
  BY <1>1, <1>2

-----------------------------------------------------------------------------
(* What dogecoin_wallet_load has read after each record of a file.         *)
Step(W, rec) == CHOOSE v \in {LoadRecord(w, rec) : w \in {W}} : TRUE
IsRun(g, recs) ==
    g = [k \in 0 .. Len(recs) |-> IF k = 0 THEN NewWallet ELSE Step(g[k-1], recs[k])]

(* A step of the run is one call of a record's loader.                     *)
LEMMA StepLoads == \A W, rec : Step(W, rec) = LoadRecord(W, rec)
<1> SUFFICES ASSUME NEW W, NEW rec PROVE Step(W, rec) = LoadRecord(W, rec)
  OBVIOUS
<1>1. {LoadRecord(w, rec) : w \in {W}} = {LoadRecord(W, rec)}
  OBVIOUS
<1>2. \E v \in {LoadRecord(W, rec)} : TRUE
  OBVIOUS
<1>3. QED
  BY <1>1, <1>2 DEF Step

(* The load is the end of a run.                                           *)
LEMMA LoadIsRun == \A f : Load(f) = (CHOOSE g : IsRun(g, f.recs))[Len(f.recs)]
BY Zenon DEF Load, IsRun, Step

(* Every file has a run.                                                   *)
LEMMA RunExists ==
    ASSUME NEW R, NEW recs \in Seq(R)
    PROVE  \E g : IsRun(g, recs)
<1> DEFINE Part(g, n) == g = [k \in 0 .. n |-> IF k = 0 THEN NewWallet ELSE Step(g[k-1], recs[k])]
           S == {n \in Nat : \E g : Part(g, n)}
<1>1. 0 \in S
  <2>1. Part([k \in 0 .. 0 |-> NewWallet], 0)
    OBVIOUS
  <2>2. QED
    BY <2>1
<1>2. ASSUME NEW n \in Nat, n \in S PROVE n + 1 \in S
  <2> PICK g : Part(g, n)
    BY <1>2
  <2> DEFINE h == [k \in 0 .. n + 1 |-> IF k = n + 1 THEN Step(g[n], recs[n+1]) ELSE g[k]]
  <2>1. ASSUME NEW k \in 0 .. n + 1
        PROVE  h[k] = IF k = 0 THEN NewWallet ELSE Step(h[k-1], recs[k])
    <3>1. CASE k = n + 1
      BY <3>1
    <3>2. CASE k = 0
      BY <3>2
    <3>3. CASE k # 0 /\ k # n + 1
      <4>1. k \in 0 .. n /\ k - 1 \in 0 .. n /\ k - 1 \in 0 .. n + 1 /\ k - 1 # n + 1
        BY <3>3
      <4>2. g[k] = Step(g[k-1], recs[k])
        BY <3>3, <4>1
      <4>3. QED
        BY <3>3, <4>1, <4>2
    <3>4. QED
      BY <3>1, <3>2, <3>3
  <2>2. h = [k \in 0 .. n + 1 |-> h[k]]
    OBVIOUS
  <2> HIDE DEF h
  <2>3. Part(h, n + 1)
    BY <2>1, <2>2, Zenon
  <2>4. QED
    BY <2>3
<1> HIDE DEF S
<1>3. Len(recs) \in S
  BY <1>1, <1>2, Induction
<1>4. QED
  BY <1>3 DEF S, IsRun

(* Reading one more record goes on from where the run was.                 *)
LEMMA RunAppend ==
    ASSUME NEW R, NEW recs \in Seq(R), NEW rec \in R,
           NEW g, IsRun(g, recs), NEW h, IsRun(h, Append(recs, rec))
    PROVE  h[Len(recs) + 1] = Step(g[Len(recs)], rec)
<1> DEFINE n == Len(recs)
           long == Append(recs, rec)
           S == {k \in Nat : k \in 0 .. n => h[k] = g[k]}
<1>0. /\ n \in Nat /\ Len(long) = n + 1 /\ long[n+1] = rec
      /\ \A k \in 1 .. n : long[k] = recs[k]
  OBVIOUS
<1>1. \A k \in 0 .. n : g[k] = IF k = 0 THEN NewWallet ELSE Step(g[k-1], recs[k])
  BY DEF IsRun
<1>2. \A k \in 0 .. n + 1 : h[k] = IF k = 0 THEN NewWallet ELSE Step(h[k-1], long[k])
  BY <1>0 DEF IsRun
<1> HIDE DEF n, long
<1>3. 0 \in S
  BY <1>0, <1>1, <1>2
<1>4. ASSUME NEW k \in Nat, k \in S PROVE k + 1 \in S
  <2> SUFFICES ASSUME k + 1 \in 0 .. n PROVE h[k+1] = g[k+1]
    OBVIOUS
  <2>1. k \in 0 .. n /\ k + 1 \in 1 .. n /\ k + 1 \in 0 .. n + 1 /\ k + 1 # 0 /\ (k + 1) - 1 = k
    BY <1>0
  <2>2. h[k] = g[k]
    BY <1>4, <2>1
  <2>3. h[k+1] = Step(h[k], recs[k+1])
    BY <1>0, <1>2, <2>1
  <2>4. g[k+1] = Step(g[k], recs[k+1])
    BY <1>1, <2>1
  <2>5. QED
    BY <2>2, <2>3, <2>4
<1> HIDE DEF S
<1>5. n \in S
  BY <1>0, <1>3, <1>4, Induction
<1>6. h[n] = g[n]
  BY <1>0, <1>5 DEF S
<1>7. n + 1 \in 0 .. n + 1 /\ n + 1 # 0 /\ (n + 1) - 1 = n
  BY <1>0
<1>8. h[n+1] = Step(h[n], rec)
  BY <1>0, <1>2, <1>7
<1>9. QED
  BY <1>6, <1>8 DEF n

(* dogecoin_wallet_load reads a file that grew by a record as it read the  *)
(* file, and then that record.                                             *)
LEMMA LoadAppend ==
    ASSUME NEW R, NEW f, NEW e, NEW rec \in R,
           f.recs \in Seq(R), e.recs = Append(f.recs, rec)
    PROVE  Load(e) = LoadRecord(Load(f), rec)
<1> DEFINE g == CHOOSE x : IsRun(x, f.recs)
           h == CHOOSE x : IsRun(x, e.recs)
<1>1. IsRun(g, f.recs)
  BY RunExists
<1>2. e.recs \in Seq(R) /\ Len(e.recs) = Len(f.recs) + 1
  OBVIOUS
<1>3. IsRun(h, e.recs)
  BY <1>2, RunExists
<1>4. Load(f) = g[Len(f.recs)] /\ Load(e) = h[Len(e.recs)]
  BY LoadIsRun
<1> HIDE DEF g, h
<1>5. QED
  BY <1>1, <1>2, <1>3, <1>4, RunAppend, StepLoads

(* An empty file holds a new wallet.                                       *)
LEMMA LoadEmpty == ASSUME NEW f, f.recs = <<>> PROVE Load(f) = NewWallet
<1> DEFINE g == CHOOSE x : IsRun(x, f.recs)
<1>1. f.recs \in Seq({0}) /\ Len(f.recs) = 0
  OBVIOUS
<1>2. IsRun(g, f.recs)
  BY <1>1, RunExists
<1>3. Load(f) = g[0]
  BY <1>1, LoadIsRun
<1> HIDE DEF g
<1>4. QED
  BY <1>1, <1>2, <1>3 DEF IsRun

-----------------------------------------------------------------------------
(* The inductive invariant.  A wallet in memory and the wallet that a      *)
(* restart would read are both Good; between them they differ in the key   *)
(* only, of which the file keeps the public part.                          *)

Wtx == [tx : Tx, height : 1 .. MaxHeight]
Rec == {KeyRec} \cup {<<"addr", a, n>> : a \in Addr, n \in Nat}
       \cup {<<"tx", t, h>> : t \in Tx, h \in 1 .. MaxHeight} \cup Broken

(* The fields of a wallet have their types and the child index counts the  *)
(* addresses.                                                              *)
WalletType(W) ==
    /\ W = [key |-> W.key, addrs |-> W.addrs, next |-> W.next, wtxes |-> W.wtxes,
            utxos |-> W.utxos, spends |-> W.spends]
    /\ W.key \in {"none", "private", "public"}
    /\ W.addrs \in Seq(Addr)
    /\ W.next = Len(W.addrs)
    /\ W.wtxes \in Seq(Wtx)
    /\ W.utxos = [u \in DOMAIN W.utxos |-> W.utxos[u]]
    /\ DOMAIN W.utxos \subseteq Outpoint
    /\ \A u \in DOMAIN W.utxos :
          W.utxos[u] \in [height : 1 .. MaxHeight, spendable : BOOLEAN]
    /\ W.spends \subseteq Tx \X Nat

(* The first m addresses were made for a new wallet, the others are the    *)
(* user's, each there once.                                                *)
AddrsFrom(W, m) ==
    /\ m \in 0 .. InitAddrs /\ m <= Len(W.addrs)
    /\ \A i, j \in m + 1 .. Len(W.addrs) :
          W.addrs[i] \in WatchAddr /\ (W.addrs[i] = W.addrs[j] => i = j)
AddrsBounded(W) == \E m \in Nat : AddrsFrom(W, m)

(* Transaction i of the wallet spends output u after the one that made it. *)
Late(W, u, i) ==
    /\ i \in DOMAIN W.wtxes /\ u \in Inputs[W.wtxes[i].tx]
    /\ \E j \in 1 .. i - 1 : W.wtxes[j].tx = u[1]

(* An output is tracked only once its transaction is known, and is spent   *)
(* exactly when a transaction that spends it follows.                      *)
Ledger(W) ==
    \A u \in DOMAIN W.utxos :
        /\ u[1] \in Known(W)
        /\ ~W.utxos[u].spendable <=> \E i \in DOMAIN W.wtxes : Late(W, u, i)
        /\ (\E i \in DOMAIN W.wtxes : Late(W, u, i)) => u \in W.spends

Good(W) == WalletType(W) /\ AddrsBounded(W) /\ Ledger(W)

(* The wallet without the private part of its key.                         *)
Public(W) == [W EXCEPT !.key = IF @ = "private" THEN "public" ELSE @]

StateType ==
    /\ file = [header |-> file.header, recs |-> file.recs]
    /\ file.header \in {"none", "torn", "whole"}
    /\ file.recs \in Seq(Rec)
    /\ pc \in {"down", "keyless", "addressing", "open"}
    /\ watch \subseteq WatchAddr
    /\ crashes \in 0 .. MaxCrashes
    /\ file.header = "none" => file.recs = <<>>
    /\ pc # "down" => file.header = "whole"

(* Addresses are only made for a wallet that has not yet all of them.      *)
Addressing ==
    /\ pc = "keyless" => mem.addrs = <<>>
    /\ pc = "addressing" /\ watch = {} =>
          /\ Len(mem.addrs) < InitAddrs
          /\ AddrsFrom(mem, Len(mem.addrs))

FileGood == Loads(file) => Good(Load(file)) /\ Load(file).key # "private"

IInv == StateType /\ Good(mem) /\ Addressing /\ FileGood /\ Recoverable

-----------------------------------------------------------------------------
(* Facts about the operations of a wallet.                                 *)

(* A transaction that is not known leaves nothing to replace.              *)
LEMMA WithoutUnknown ==
    ASSUME NEW W, NEW t, t \notin Known(W)
    PROVE  Without(W.wtxes, t) = W.wtxes
BY DEF Without, Known

(* The wallet after a transaction has been scraped and added.              *)
Checked(W, t, h) == AddWtxInternMove(ScrapeUtxos(W, t, h), t, h)

NewUtxos(W, t, h) ==
    [u \in DOMAIN W.utxos \cup MyOutputs(W, t) |->
        IF u \notin DOMAIN W.utxos THEN [height |-> h, spendable |-> TRUE]
        ELSE IF u \in MyOutputs(W, t) THEN [Marked(W, t)[u] EXCEPT !.height = h]
        ELSE Marked(W, t)[u]]

(* Scraping changes the tracked outputs only.                              *)
LEMMA ScrapeFields ==
    ASSUME NEW W, WalletType(W), NEW t, NEW h
    PROVE  ScrapeUtxos(W, t, h) =
              [key |-> W.key, addrs |-> W.addrs, next |-> W.next, wtxes |-> W.wtxes,
               utxos |-> NewUtxos(W, t, h), spends |-> W.spends]
<1>1. DOMAIN Marked(W, t) = DOMAIN W.utxos
  BY DEF Marked
<1> DEFINE N == NewUtxos(W, t, h)
<1>2. ScrapeUtxos(W, t, h) = [W EXCEPT !.utxos = N]
  BY <1>1 DEF ScrapeUtxos, NewUtxos
<1> HIDE DEF N
<1> DEFINE k == W.key   a == W.addrs   n == W.next   w == W.wtxes   x == W.utxos   s == W.spends
<1>3. W = [key |-> k, addrs |-> a, next |-> n, wtxes |-> w, utxos |-> x, spends |-> s]
  BY DEF WalletType
<1> HIDE DEF k, a, n, w, x, s
<1>4. [W EXCEPT !.utxos = N] = [key |-> k, addrs |-> a, next |-> n, wtxes |-> w, utxos |-> N, spends |-> s]
  BY <1>3
<1>5. QED
  BY <1>2, <1>4 DEF N, k, a, n, w, x, s

(* The added transaction is the last one; whether it is ours is judged by  *)
(* the wallet with its outputs scraped.                                    *)
LEMMA CheckedFields ==
    ASSUME NEW W, WalletType(W), NEW t, NEW h
    PROVE  Checked(W, t, h) =
              [key |-> W.key, addrs |-> W.addrs, next |-> W.next,
               wtxes |-> Append(Without(W.wtxes, t), [tx |-> t, height |-> h]),
               utxos |-> NewUtxos(W, t, h),
               spends |-> IF IsFromMe(ScrapeUtxos(W, t, h), t)
                          THEN W.spends \cup Inputs[t] ELSE W.spends]
<1> DEFINE V == ScrapeUtxos(W, t, h)
           N == NewUtxos(W, t, h)
           mine == IsFromMe(V, t)
           A == Append(Without(W.wtxes, t), [tx |-> t, height |-> h])
           I == Inputs[t]
           k == W.key   a == W.addrs   n == W.next   w == W.wtxes   s == W.spends
<1>1. V = [key |-> k, addrs |-> a, next |-> n, wtxes |-> w, utxos |-> N, spends |-> s]
  BY ScrapeFields
<1>2. Checked(W, t, h) =
        [V EXCEPT !.wtxes = Append(Without(V.wtxes, t), [tx |-> t, height |-> h]),
                  !.spends = IF mine THEN V.spends \cup I ELSE V.spends]
  BY Zenon DEF Checked, AddWtxInternMove
<1>3. V.wtxes = w /\ V.spends = s
  BY <1>1
<1> HIDE DEF V, mine, I, k, a, n, s, N
<1>4. Checked(W, t, h) = [V EXCEPT !.wtxes = A, !.spends = IF mine THEN s \cup I ELSE s]
  BY <1>2, <1>3
<1> HIDE DEF A
<1>5. Checked(W, t, h) = [key |-> k, addrs |-> a, next |-> n, wtxes |-> A, utxos |-> N,
                          spends |-> IF mine THEN s \cup I ELSE s]
  BY <1>1, <1>4
<1>6. QED
  BY <1>5 DEF A, V, mine, I, k, a, n, s, N

(* What scraping makes of an output: one that was tracked stays spendable  *)
(* unless the transaction spends it, a new one is spendable.               *)
LEMMA NewUtxosFacts ==
    ASSUME NEW W, WalletType(W), NEW t \in Tx, NEW h \in 1 .. MaxHeight
    PROVE  LET N == NewUtxos(W, t, h) IN
           /\ DOMAIN N = DOMAIN W.utxos \cup MyOutputs(W, t)
           /\ \A u \in DOMAIN N :
                 /\ N[u] \in [height : 1 .. MaxHeight, spendable : BOOLEAN]
                 /\ u \in DOMAIN W.utxos =>
                       (N[u].spendable <=> W.utxos[u].spendable /\ u \notin Inputs[t])
                 /\ u \notin DOMAIN W.utxos => N[u].spendable
<1> DEFINE N == NewUtxos(W, t, h)
<1>1. DOMAIN N = DOMAIN W.utxos \cup MyOutputs(W, t)
  BY DEF NewUtxos
<1>2. ASSUME NEW u \in DOMAIN W.utxos
      PROVE  LET m == Marked(W, t)[u] IN
             /\ m \in [height : 1 .. MaxHeight, spendable : BOOLEAN]
             /\ m.spendable <=> W.utxos[u].spendable /\ u \notin Inputs[t]
  <2>1. W.utxos[u] \in [height : 1 .. MaxHeight, spendable : BOOLEAN]
    BY DEF WalletType
  <2>2. Marked(W, t)[u] = IF u \in Inputs[t] THEN [W.utxos[u] EXCEPT !.spendable = FALSE]
                          ELSE W.utxos[u]
    BY DEF Marked
  <2>3. QED
    BY <2>1, <2>2
<1>3. ASSUME NEW u \in DOMAIN N
      PROVE  /\ N[u] \in [height : 1 .. MaxHeight, spendable : BOOLEAN]
             /\ u \in DOMAIN W.utxos =>
                   (N[u].spendable <=> W.utxos[u].spendable /\ u \notin Inputs[t])
             /\ u \notin DOMAIN W.utxos => N[u].spendable
  <2> DEFINE m == Marked(W, t)[u]
  <2>1. N[u] = IF u \notin DOMAIN W.utxos THEN [height |-> h, spendable |-> TRUE]
               ELSE IF u \in MyOutputs(W, t) THEN [m EXCEPT !.height = h] ELSE m
    BY <1>1 DEF NewUtxos
  <2>2. u \in DOMAIN W.utxos =>
             /\ m \in [height : 1 .. MaxHeight, spendable : BOOLEAN]
             /\ m.spendable <=> W.utxos[u].spendable /\ u \notin Inputs[t]
    BY <1>2
  <2> HIDE DEF m
  <2>3. QED
    BY <2>1, <2>2
<1>4. QED
  BY <1>1, <1>3

(* A wallet's own outputs are outputs.                                     *)
LEMMA MyOutputsAre ==
    ASSUME NEW W, NEW t \in Tx
    PROVE  /\ MyOutputs(W, t) \subseteq Outpoint
           /\ \A u \in MyOutputs(W, t) : u[1] = t
BY DEF MyOutputs, Outpoint

(* Adding a transaction that is not known keeps the types.                 *)
LEMMA CheckedType ==
    ASSUME NEW W, WalletType(W), NEW t \in Tx, t \notin Known(W), NEW h \in 1 .. MaxHeight
    PROVE  /\ WalletType(Checked(W, t, h))
           /\ Checked(W, t, h).addrs = W.addrs
           /\ Checked(W, t, h).wtxes = Append(W.wtxes, [tx |-> t, height |-> h])
           /\ Checked(W, t, h).utxos = NewUtxos(W, t, h)
           /\ W.spends \subseteq Checked(W, t, h).spends
           /\ (\E u \in Inputs[t] : u \in DOMAIN W.utxos) => Inputs[t] \subseteq Checked(W, t, h).spends
           /\ Checked(W, t, h).key = W.key
<1> DEFINE V == Checked(W, t, h)
           S == IF IsFromMe(ScrapeUtxos(W, t, h), t) THEN W.spends \cup Inputs[t] ELSE W.spends
           A == Append(W.wtxes, [tx |-> t, height |-> h])
           N == NewUtxos(W, t, h)
<1>1. V = [key |-> W.key, addrs |-> W.addrs, next |-> W.next, wtxes |-> A,
           utxos |-> N, spends |-> S]
  BY CheckedFields, WithoutUnknown
<1>2. A \in Seq(Wtx)
  BY DEF WalletType, Wtx
<1>0. DOMAIN N = DOMAIN W.utxos \cup MyOutputs(W, t)
  BY DEF NewUtxos
<1>3. DOMAIN N \subseteq Outpoint
  BY <1>0, MyOutputsAre DEF WalletType
<1>4. \A u \in DOMAIN N : N[u] \in [height : 1 .. MaxHeight, spendable : BOOLEAN]
  BY NewUtxosFacts
<1>5. N = [u \in DOMAIN N |-> N[u]]
  BY DEF NewUtxos
<1>6. Inputs[t] \subseteq Tx \X Nat
  BY WalletAssumption
<1>7. S \subseteq Tx \X Nat /\ W.spends \subseteq S
  BY <1>6 DEF WalletType
<1>8. (\E u \in Inputs[t] : u \in DOMAIN W.utxos) => Inputs[t] \subseteq S
  <2> SUFFICES ASSUME NEW u \in Inputs[t], u \in DOMAIN W.utxos
               PROVE  IsFromMe(ScrapeUtxos(W, t, h), t)
    OBVIOUS
  <2>1. ScrapeUtxos(W, t, h).utxos = N
    BY ScrapeFields
  <2>2. u \in DOMAIN N
    BY <1>0
  <2>3. QED
    BY <2>1, <2>2 DEF IsFromMe
<1> HIDE DEF S, A, N
<1>9. WalletType(V)
  <2> HIDE DEF V
  <2>1. /\ V.key = W.key /\ V.addrs = W.addrs /\ V.next = W.next /\ V.wtxes = A
        /\ V.utxos = N /\ V.spends = S
    BY <1>1
  <2>2. V = [key |-> V.key, addrs |-> V.addrs, next |-> V.next, wtxes |-> V.wtxes,
             utxos |-> V.utxos, spends |-> V.spends]
    BY <1>1, <2>1
  <2>3. QED
    BY <2>1, <2>2, <1>2, <1>3, <1>4, <1>5, <1>7 DEF WalletType
<1>10. QED
  BY <1>1, <1>7, <1>8, <1>9 DEF A, N

(* A transaction appended to those of a wallet spends, after it was made,  *)
(* every output of a known transaction that it spends at all; it is no     *)
(* late spender of its own outputs.                                        *)
LEMMA LateAppend ==
    ASSUME NEW W, W.wtxes \in Seq(Wtx), NEW V, NEW t \in Tx, NEW h \in 1 .. MaxHeight,
           V.wtxes = Append(W.wtxes, [tx |-> t, height |-> h]), t \notin Known(W), NEW u
    PROVE  /\ u[1] \in Known(W) =>
                 ((\E i \in DOMAIN V.wtxes : Late(V, u, i)) <=>
                  (\E i \in DOMAIN W.wtxes : Late(W, u, i)) \/ u \in Inputs[t])
           /\ u[1] = t => ~ \E i \in DOMAIN V.wtxes : Late(V, u, i)
<1> DEFINE n == Len(W.wtxes)
<1>1. /\ n \in Nat /\ DOMAIN W.wtxes = 1 .. n /\ DOMAIN V.wtxes = 1 .. n + 1
      /\ \A i \in 1 .. n : V.wtxes[i] = W.wtxes[i]
      /\ V.wtxes[n+1].tx = t
  BY DEF Wtx
<1>2. \A i \in 1 .. n : W.wtxes[i].tx \in Known(W) /\ W.wtxes[i].tx # t
  BY <1>1 DEF Known
<1> HIDE DEF n
<1>3. ASSUME NEW i \in 1 .. n PROVE Late(V, u, i) <=> Late(W, u, i)
  BY <1>1 DEF Late
<1>4. Late(V, u, n + 1) <=> u \in Inputs[t] /\ \E j \in 1 .. n : W.wtxes[j].tx = u[1]
  <2>1. (n + 1) - 1 = n /\ n + 1 \in 1 .. n + 1
    BY <1>1
  <2>2. QED
    BY <1>1, <2>1 DEF Late
<1>5. u[1] \in Known(W) => \E j \in 1 .. n : W.wtxes[j].tx = u[1]
  BY <1>1 DEF Known
<1>6. \A i : i \in 1 .. n + 1 <=> i \in 1 .. n \/ i = n + 1
  BY <1>1
<1>7. u[1] \in Known(W) =>
          ((\E i \in DOMAIN V.wtxes : Late(V, u, i)) <=>
           (\E i \in DOMAIN W.wtxes : Late(W, u, i)) \/ u \in Inputs[t])
  BY <1>1, <1>3, <1>4, <1>5, <1>6
<1>8. ASSUME u[1] = t, NEW i \in DOMAIN V.wtxes, Late(V, u, i) PROVE FALSE
  <2>1. PICK j \in 1 .. i - 1 : V.wtxes[j].tx = t
    BY <1>8 DEF Late
  <2>2. j \in 1 .. n
    BY <1>1
  <2>3. QED
    BY <1>1, <1>2, <2>1, <2>2
<1>9. QED
  BY <1>7, <1>8

(* dogecoin_wallet_check_transaction keeps a wallet good: the index of     *)
(* spends, the flags and the order of the transactions stay in step.       *)
LEMMA CheckedGood ==
    ASSUME NEW W, Good(W), NEW t \in Tx, t \notin Known(W), NEW h \in 1 .. MaxHeight
    PROVE  Good(Checked(W, t, h)) /\ Checked(W, t, h).addrs = W.addrs
<1> DEFINE V == Checked(W, t, h)
           N == NewUtxos(W, t, h)
<1>1. WalletType(W)
  BY DEF Good
<1>2. /\ WalletType(V) /\ V.addrs = W.addrs
      /\ V.wtxes = Append(W.wtxes, [tx |-> t, height |-> h])
      /\ V.utxos = N /\ W.spends \subseteq V.spends
      /\ (\E u \in Inputs[t] : u \in DOMAIN W.utxos) => Inputs[t] \subseteq V.spends
  BY <1>1, CheckedType
<1>3. /\ DOMAIN N = DOMAIN W.utxos \cup MyOutputs(W, t)
      /\ \A u \in DOMAIN N :
            /\ u \in DOMAIN W.utxos =>
                  (N[u].spendable <=> W.utxos[u].spendable /\ u \notin Inputs[t])
            /\ u \notin DOMAIN W.utxos => N[u].spendable
  BY <1>1, NewUtxosFacts, Zenon
<1> HIDE DEF V, N
<1>4. AddrsBounded(V)
  BY <1>2 DEF Good, AddrsBounded, AddrsFrom
<1>5. W.wtxes \in Seq(Wtx)
  BY <1>1 DEF WalletType
<1>6. Known(V) = Known(W) \cup {t}
  <2>1. /\ Len(W.wtxes) \in Nat /\ DOMAIN W.wtxes = 1 .. Len(W.wtxes)
        /\ DOMAIN V.wtxes = 1 .. Len(W.wtxes) + 1
        /\ \A i \in 1 .. Len(W.wtxes) : V.wtxes[i] = W.wtxes[i]
        /\ V.wtxes[Len(W.wtxes) + 1].tx = t
    BY <1>2, <1>5 DEF Wtx
  <2>2. QED
    BY <2>1, SMTT(30) DEF Known
<1>7. ASSUME NEW u \in DOMAIN V.utxos
      PROVE  /\ u[1] \in Known(V)
             /\ ~V.utxos[u].spendable <=> \E i \in DOMAIN V.wtxes : Late(V, u, i)
             /\ (\E i \in DOMAIN V.wtxes : Late(V, u, i)) => u \in V.spends
  <2>1. CASE u \in DOMAIN W.utxos
    <3>1. /\ u[1] \in Known(W)
          /\ ~W.utxos[u].spendable <=> \E i \in DOMAIN W.wtxes : Late(W, u, i)
          /\ (\E i \in DOMAIN W.wtxes : Late(W, u, i)) => u \in W.spends
      BY <2>1 DEF Good, Ledger
    <3>2. (\E i \in DOMAIN V.wtxes : Late(V, u, i)) <=>
             (\E i \in DOMAIN W.wtxes : Late(W, u, i)) \/ u \in Inputs[t]
      BY <1>2, <1>5, <3>1, LateAppend
    <3>3. N[u].spendable <=> W.utxos[u].spendable /\ u \notin Inputs[t]
      BY <1>2, <1>3, <2>1
    <3>4. QED
      BY <1>2, <1>6, <2>1, <3>1, <3>2, <3>3
  <2>2. CASE u \notin DOMAIN W.utxos
    <3>1. u[1] = t
      BY <1>2, <1>3, <2>2, MyOutputsAre
    <3>2. N[u].spendable
      BY <1>2, <1>3, <2>2
    <3>3. ~ \E i \in DOMAIN V.wtxes : Late(V, u, i)
      BY <1>2, <1>5, <3>1, LateAppend
    <3>4. QED
      BY <1>2, <1>6, <3>1, <3>2, <3>3
  <2>3. QED
    BY <2>1, <2>2
<1>8. QED
  BY <1>2, <1>4, <1>7 DEF Good, Ledger, V

-----------------------------------------------------------------------------
(* Taking the private part off the key changes nothing else.               *)
LEMMA PublicFields ==
    ASSUME NEW W, WalletType(W)
    PROVE  LET P == Public(W) IN
           /\ P = [key |-> IF W.key = "private" THEN "public" ELSE W.key, addrs |-> W.addrs,
                   next |-> W.next, wtxes |-> W.wtxes, utxos |-> W.utxos, spends |-> W.spends]
           /\ P.key # "private"
           /\ WalletType(P)
<1> DEFINE P == Public(W)
           k == W.key   a == W.addrs   n == W.next   w == W.wtxes   x == W.utxos   s == W.spends
           q == IF k = "private" THEN "public" ELSE k
<1>1. W = [key |-> k, addrs |-> a, next |-> n, wtxes |-> w, utxos |-> x, spends |-> s]
  BY DEF WalletType
<1>2. k \in {"none", "private", "public"}
  BY DEF WalletType
<1>3. P = [W EXCEPT !.key = q]
  BY DEF Public
<1>4. P = [key |-> q, addrs |-> a, next |-> n, wtxes |-> w, utxos |-> x, spends |-> s]
  <2> HIDE DEF k, a, n, w, x, s, q, P
  <2>1. QED
    BY <1>1, <1>3
<1>5. q \in {"none", "public"}
  BY <1>2
<1>6. /\ P.key = q /\ P.addrs = a /\ P.next = n /\ P.wtxes = w /\ P.utxos = x /\ P.spends = s
  BY <1>4
<1>7. WalletType(P)
  <2>1. P = [key |-> P.key, addrs |-> P.addrs, next |-> P.next, wtxes |-> P.wtxes,
             utxos |-> P.utxos, spends |-> P.spends]
    BY <1>4, <1>6
  <2> HIDE DEF P, q
  <2>2. QED
    BY <1>5, <1>6, <2>1 DEF WalletType
<1>8. QED
  BY <1>4, <1>5, <1>6, <1>7

(* The file keeps a good wallet good.                                      *)
LEMMA PublicGood ==
    ASSUME NEW W, Good(W)
    PROVE  Good(Public(W)) /\ Public(W).key # "private"
<1> DEFINE P == Public(W)
<1>1. WalletType(W)
  BY DEF Good
<1>2. WalletType(P) /\ P.key # "private" /\ P.addrs = W.addrs /\ P.wtxes = W.wtxes
      /\ P.utxos = W.utxos /\ P.spends = W.spends
  BY <1>1, PublicFields
<1> HIDE DEF P
<1>3. AddrsBounded(P) /\ Ledger(P)
  BY <1>2 DEF Good, AddrsBounded, AddrsFrom, Ledger, Late, Known
<1>4. QED
  BY <1>2, <1>3 DEF Good, P

(* Whether a transaction is the wallet's does not depend on its key.       *)
LEMMA KeyBlind ==
    ASSUME NEW W, NEW V, V.addrs = W.addrs, V.wtxes = W.wtxes, V.utxos = W.utxos, NEW t, NEW h
    PROVE  /\ IsFromMe(V, t) <=> IsFromMe(W, t)
           /\ NewUtxos(V, t, h) = NewUtxos(W, t, h)
<1>1. \A x : MyOutputs(V, x) = MyOutputs(W, x)
  BY DEF MyOutputs, Mine
<1>2. Known(V) = Known(W)
  BY DEF Known
<1>3. IsFromMe(V, t) <=> IsFromMe(W, t)
  BY <1>1, <1>2 DEF IsFromMe, HasDebit
<1>4. Marked(V, t) = Marked(W, t)
  BY DEF Marked
<1>5. NewUtxos(V, t, h) = NewUtxos(W, t, h)
  BY <1>1, <1>4 DEF NewUtxos
<1>6. QED
  BY <1>3, <1>5

(* dogecoin_wallet_load_transaction does to the wallet on file what        *)
(* dogecoin_wallet_check_transaction did to the one in memory.             *)
LEMMA LoadChecked ==
    ASSUME NEW W, WalletType(W), NEW t \in Tx, t \notin Known(W), NEW h \in 1 .. MaxHeight
    PROVE  LoadRecord(Public(W), TxRec(t, h)) = Public(Checked(W, t, h))
<1> DEFINE P == Public(W)
           V == Checked(W, t, h)
           A == Append(W.wtxes, [tx |-> t, height |-> h])
           N == NewUtxos(W, t, h)
           mine == IsFromMe(ScrapeUtxos(W, t, h), t)
           I == Inputs[t]
           q == IF W.key = "private" THEN "public" ELSE W.key
<1>1. LoadRecord(P, TxRec(t, h)) = Checked(P, t, h)
  BY DEF LoadRecord, TxRec, LoadTransaction, Checked
<1>2. /\ WalletType(P) /\ P.key = q /\ P.addrs = W.addrs /\ P.next = W.next
      /\ P.wtxes = W.wtxes /\ P.utxos = W.utxos /\ P.spends = W.spends
  BY PublicFields
<1>3. NewUtxos(P, t, h) = N
  BY <1>2, KeyBlind
<1>4. IsFromMe(ScrapeUtxos(P, t, h), t) <=> mine
  <2>1. /\ ScrapeUtxos(P, t, h).addrs = ScrapeUtxos(W, t, h).addrs
        /\ ScrapeUtxos(P, t, h).wtxes = ScrapeUtxos(W, t, h).wtxes
        /\ ScrapeUtxos(P, t, h).utxos = ScrapeUtxos(W, t, h).utxos
    BY <1>2, <1>3, ScrapeFields
  <2>2. QED
    BY <2>1, KeyBlind
<1>5. t \notin Known(P)
  BY <1>2 DEF Known
<1>6. Without(P.wtxes, t) = W.wtxes /\ Without(W.wtxes, t) = W.wtxes
  BY <1>2, <1>5, WithoutUnknown
<1>7. Checked(P, t, h) = [key |-> q, addrs |-> W.addrs, next |-> W.next, wtxes |-> A,
                          utxos |-> N, spends |-> IF mine THEN W.spends \cup I ELSE W.spends]
  <2> HIDE DEF P, q, N, mine
  <2>1. Checked(P, t, h) =
          [key |-> P.key, addrs |-> P.addrs, next |-> P.next,
           wtxes |-> Append(Without(P.wtxes, t), [tx |-> t, height |-> h]),
           utxos |-> NewUtxos(P, t, h),
           spends |-> IF IsFromMe(ScrapeUtxos(P, t, h), t)
                      THEN P.spends \cup Inputs[t] ELSE P.spends]
    BY <1>2, CheckedFields, Zenon
  <2>2. QED
    BY <1>2, <1>3, <1>4, <1>6, <2>1
<1>8. V = [key |-> W.key, addrs |-> W.addrs, next |-> W.next, wtxes |-> A,
           utxos |-> N, spends |-> IF mine THEN W.spends \cup I ELSE W.spends]
  BY <1>6, CheckedFields
<1>9. Public(V) = [key |-> q, addrs |-> W.addrs, next |-> W.next, wtxes |-> A,
                   utxos |-> N, spends |-> IF mine THEN W.spends \cup I ELSE W.spends]
  <2>1. WalletType(V)
    BY CheckedType
  <2> DEFINE S == IF mine THEN W.spends \cup I ELSE W.spends
  <2>2. V = [key |-> W.key, addrs |-> W.addrs, next |-> W.next, wtxes |-> A,
             utxos |-> N, spends |-> S]
    BY <1>8
  <2> HIDE DEF V, A, N, S
  <2>3. Public(V) = [key |-> IF V.key = "private" THEN "public" ELSE V.key, addrs |-> V.addrs,
                     next |-> V.next, wtxes |-> V.wtxes, utxos |-> V.utxos, spends |-> V.spends]
    BY <2>1, PublicFields, Zenon
  <2>4. QED
    BY <2>2, <2>3 DEF S
<1>10. QED
  BY <1>1, <1>7, <1>9

(* An address appended, in memory and from the file.                       *)
LEMMA AddAddrFields ==
    ASSUME NEW W, WalletType(W), NEW a \in Addr
    PROVE  /\ AddAddr(W, a) = [key |-> W.key, addrs |-> Append(W.addrs, a), next |-> W.next + 1,
                               wtxes |-> W.wtxes, utxos |-> W.utxos, spends |-> W.spends]
           /\ WalletType(AddAddr(W, a))
           /\ LoadRecord(Public(W), AddrRec(W, a)) = Public(AddAddr(W, a))
<1> DEFINE V == AddAddr(W, a)
           P == Public(W)
           q == IF W.key = "private" THEN "public" ELSE W.key
           B == Append(W.addrs, a)
           k == W.key   d == W.addrs   n == W.next   w == W.wtxes   x == W.utxos   s == W.spends
<1>1. W = [key |-> k, addrs |-> d, next |-> n, wtxes |-> w, utxos |-> x, spends |-> s]
  BY DEF WalletType
<1>2. V = [W EXCEPT !.addrs = B, !.next = n + 1]
  BY Zenon DEF AddAddr
<1>3. V = [key |-> k, addrs |-> B, next |-> n + 1, wtxes |-> w, utxos |-> x, spends |-> s]
  <2> HIDE DEF k, d, n, w, x, s, B, V
  <2>1. QED
    BY <1>1, <1>2
<1>4. /\ V.key = k /\ V.addrs = B /\ V.next = n + 1 /\ V.wtxes = w /\ V.utxos = x /\ V.spends = s
  BY <1>3
<1>5. B \in Seq(Addr) /\ n + 1 = Len(B)
  BY DEF WalletType
<1>6. WalletType(V)
  <2>1. V = [key |-> V.key, addrs |-> V.addrs, next |-> V.next, wtxes |-> V.wtxes,
             utxos |-> V.utxos, spends |-> V.spends]
    BY <1>3, <1>4
  <2> HIDE DEF V, B
  <2>2. QED
    BY <1>4, <1>5, <2>1 DEF WalletType
<1>7. LoadRecord(P, AddrRec(W, a)) = [P EXCEPT !.addrs = Append(P.addrs, a), !.next = n + 1]
  BY DEF LoadRecord, AddrRec, LoadAddress
<1>8. P = [key |-> q, addrs |-> d, next |-> n, wtxes |-> w, utxos |-> x, spends |-> s]
  BY PublicFields
<1>9. LoadRecord(P, AddrRec(W, a)) =
         [key |-> q, addrs |-> B, next |-> n + 1, wtxes |-> w, utxos |-> x, spends |-> s]
  <2>1. P.addrs = W.addrs
    BY <1>8
  <2> HIDE DEF k, n, w, x, s, q, P
  <2>2. QED
    BY <1>7, <1>8, <2>1
<1>10. Public(V) = [key |-> q, addrs |-> B, next |-> n + 1, wtxes |-> w, utxos |-> x, spends |-> s]
  <2> HIDE DEF V, B, n, w, x, s
  <2>1. Public(V) = [key |-> IF V.key = "private" THEN "public" ELSE V.key, addrs |-> V.addrs,
                     next |-> V.next, wtxes |-> V.wtxes, utxos |-> V.utxos, spends |-> V.spends]
    BY <1>6, PublicFields, Zenon
  <2>2. QED
    BY <1>4, <2>1
<1>11. QED
  BY <1>3, <1>6, <1>9, <1>10

-----------------------------------------------------------------------------
(* The file.                                                               *)

DamagedFile(f) ==
    \/ f.header = "torn"
    \/ \E i \in DOMAIN f.recs :
        \/ f.recs[i] = <<"torn">>
        \/ f.recs[i] = <<"stub">> /\ i < Len(f.recs)

(* dogecoin_wallet_load accepts a file that has its header and no damage.  *)
LEMMA LoadsUndamaged ==
    ASSUME NEW f, f.recs \in Seq(Rec)
    PROVE  Loads(f) <=> f.header = "whole" /\ ~DamagedFile(f)
<1>1. \A i \in DOMAIN f.recs : i <= Len(f.recs) /\ i \in Nat /\ Len(f.recs) \in Nat
  OBVIOUS
<1> DEFINE tear == <<"torn">>
           stub == <<"stub">>
<1>2. tear # stub /\ Broken = {stub, tear}
  BY DEF Broken
<1>3. Loads(f) <=> f.header = "whole" /\ \A i \in DOMAIN f.recs :
                      f.recs[i] \in Broken => f.recs[i] = stub /\ i = Len(f.recs)
  BY DEF Loads
<1>4. DamagedFile(f) <=> f.header = "torn" \/ \E i \in DOMAIN f.recs :
                      f.recs[i] = tear \/ (f.recs[i] = stub /\ i < Len(f.recs))
  BY DEF DamagedFile
<1> HIDE DEF tear, stub
<1>5. QED
  BY <1>1, <1>2, <1>3, <1>4

(* What is written after a damage does not mend it.                        *)
LEMMA DamageStays ==
    ASSUME NEW f, f.recs \in Seq(Rec), NEW e, NEW rec \in Rec,
           e.header = f.header, e.recs = Append(f.recs, rec), DamagedFile(f)
    PROVE  DamagedFile(e)
<1>1. /\ Len(e.recs) = Len(f.recs) + 1 /\ Len(f.recs) \in Nat
      /\ DOMAIN f.recs \subseteq DOMAIN e.recs
      /\ \A i \in DOMAIN f.recs : e.recs[i] = f.recs[i] /\ i < Len(e.recs)
  OBVIOUS
<1>2. QED
  BY <1>1 DEF DamagedFile

(* A record written while the program runs, of what it did to memory.      *)
LEMMA WriteStep ==
    ASSUME StateType, Recoverable, pc # "down", NEW rec \in Rec, Write(rec),
           Good(mem'), LoadRecord(Public(mem), rec) = Public(mem')
    PROVE  /\ file' = [header |-> "whole", recs |-> Append(file.recs, rec)]
           /\ FileGood' /\ Recoverable'
<1>1. /\ file'.header = "whole" /\ file'.recs = Append(file.recs, rec)
      /\ file' = [header |-> "whole", recs |-> Append(file.recs, rec)]
      /\ file.header = "whole" /\ file.recs \in Seq(Rec)
  <2> DEFINE h == file.header  r == file.recs
  <2>1. file = [header |-> h, recs |-> r] /\ h = "whole" /\ r \in Seq(Rec)
    BY DEF StateType
  <2>2. file' = [file EXCEPT !.recs = Append(r, rec)]
    BY DEF Write
  <2> HIDE DEF h, r
  <2>3. file' = [header |-> h, recs |-> Append(r, rec)]
    BY <2>1, <2>2
  <2>4. file'.header = h /\ file'.recs = Append(r, rec)
    BY <2>3
  <2>5. QED
    BY <2>1, <2>3, <2>4 DEF h, r
<1>2. ~DamagedFile(file') => Load(file') = Public(mem')
  <2> SUFFICES ASSUME ~DamagedFile(file') PROVE Load(file') = Public(mem')
    OBVIOUS
  <2>1. ~DamagedFile(file)
    BY <1>1, DamageStays
  <2>2. Load(file) = Public(mem)
    BY <2>1 DEF Recoverable, Damaged, DamagedFile, Public
  <2>3. Load(file') = LoadRecord(Load(file), rec)
    BY <1>1, LoadAppend
  <2>4. QED
    BY <2>2, <2>3
<1>3. Recoverable'
  BY <1>2 DEF Recoverable, Damaged, DamagedFile, Public
<1>4. file'.recs \in Seq(Rec)
  BY <1>1
<1>5. FileGood'
  BY <1>2, <1>4, LoadsUndamaged, PublicGood DEF FileGood
<1>6. QED
  BY <1>1, <1>3, <1>5

(* A new wallet is good.                                                   *)
LEMMA NewGood == Good(NewWallet) /\ Public(NewWallet) = NewWallet /\ NewWallet.key # "private"
                 /\ NewWallet.addrs = <<>>
<1>1. WalletType(NewWallet)
  BY DEF WalletType, NewWallet, Wtx
<1>2. AddrsFrom(NewWallet, 0)
  BY WalletAssumption DEF AddrsFrom, NewWallet
<1>3. Ledger(NewWallet)
  BY DEF Ledger, NewWallet
<1>4. Public(NewWallet) = NewWallet
  BY DEF Public, NewWallet
<1>5. QED
  BY <1>1, <1>2, <1>3, <1>4 DEF Good, AddrsBounded, NewWallet

(* The fields that adding an address leaves alone keep the ledger.         *)
LEMMA AddAddrGood ==
    ASSUME NEW W, Good(W), NEW a \in Addr, AddrsBounded(AddAddr(W, a))
    PROVE  Good(AddAddr(W, a))
<1> DEFINE V == AddAddr(W, a)
<1>1. WalletType(V) /\ V.wtxes = W.wtxes /\ V.utxos = W.utxos /\ V.spends = W.spends
  BY AddAddrFields DEF Good
<1> HIDE DEF V
<1>2. Ledger(V)
  BY <1>1 DEF Good, Ledger, Late, Known
<1>3. QED
  BY <1>1, <1>2 DEF Good, V

-----------------------------------------------------------------------------
(* The steps of the program.                                               *)

(* The invariant holds before the program first runs.                      *)
LEMMA WalletInit == Init => IInv
<1> SUFFICES ASSUME Init PROVE IInv
  OBVIOUS
<1>1. StateType
  BY WalletAssumption DEF Init, StateType
<1>2. ~Loads(file)
  BY DEF Init, Loads
<1>3. QED
  BY <1>1, <1>2, NewGood DEF Init, IInv, Addressing, FileGood, Recoverable

(* dogecoin_wallet_create                                                  *)
LEMMA StartNewStep == IInv /\ StartNew => IInv'
<1> SUFFICES ASSUME IInv, StartNew PROVE IInv'
  OBVIOUS
<1>1. /\ file' = [header |-> "whole", recs |-> <<>>] /\ mem' = NewWallet
      /\ pc' = "keyless" /\ watch' \subseteq WatchAddr /\ crashes' = crashes
  BY DEF IInv, StateType, StartNew
<1>2. StateType'
  BY <1>1 DEF IInv, StateType
<1>3. Load(file') = NewWallet
  BY <1>1, LoadEmpty
<1>4. FileGood' /\ Recoverable'
  BY <1>1, <1>3, NewGood DEF FileGood, Recoverable, Public
<1>5. QED
  BY <1>1, <1>2, <1>4, NewGood DEF IInv, Addressing

(* dogecoin_wallet_init on an existing file                                *)
LEMMA StartAgainStep == IInv /\ StartAgain => IInv'
<1> SUFFICES ASSUME IInv, StartAgain PROVE IInv'
  OBVIOUS
<1>1. /\ Loads(file) /\ mem' = Load(file) /\ UNCHANGED <<file, crashes>>
      /\ watch' \subseteq WatchAddr
      /\ pc' = IF watch' = {} /\ Load(file).addrs # <<>> THEN "open" ELSE "addressing"
  BY DEF StartAgain
<1>2. Good(mem') /\ mem'.key # "private"
  BY <1>1 DEF IInv, FileGood
<1>3. StateType'
  <2>1. file.header = "whole"
    BY <1>1 DEF Loads
  <2>2. QED
    BY <1>1, <2>1 DEF IInv, StateType
<1>4. WalletType(mem')
  BY <1>2 DEF Good
<1>5. Addressing'
  <2> SUFFICES ASSUME pc' = "addressing", watch' = {}
               PROVE  Len(mem'.addrs) < InitAddrs /\ AddrsFrom(mem', Len(mem'.addrs))
    BY <1>1 DEF Addressing
  <2>1. mem'.addrs = <<>>
    BY <1>1
  <2>2. QED
    BY <2>1, WalletAssumption DEF AddrsFrom
<1>6. FileGood'
  BY <1>1 DEF IInv, FileGood
<1>7. mem' = Public(mem')
  <2> DEFINE W == mem'
  <2>1. W = [key |-> W.key, addrs |-> W.addrs, next |-> W.next, wtxes |-> W.wtxes,
             utxos |-> W.utxos, spends |-> W.spends]
    BY <1>4 DEF WalletType
  <2>2. Public(W) = [key |-> IF W.key = "private" THEN "public" ELSE W.key, addrs |-> W.addrs,
             next |-> W.next, wtxes |-> W.wtxes, utxos |-> W.utxos, spends |-> W.spends]
    BY <1>4, PublicFields, Zenon
  <2>3. QED
    BY <1>2, <2>1, <2>2
<1>8. Recoverable'
  BY <1>1, <1>7 DEF Recoverable, Public
<1>9. QED
  BY <1>2, <1>3, <1>5, <1>6, <1>8 DEF IInv

(* After a write the rest of the state has its types.                      *)
LEMMA WriteType ==
    ASSUME StateType, NEW rec \in Rec,
           file' = [header |-> "whole", recs |-> Append(file.recs, rec)],
           pc' \in {"down", "keyless", "addressing", "open"},
           watch' = watch, crashes' \in 0 .. MaxCrashes
    PROVE  StateType'
<1>1. /\ file'.header = "whole" /\ file'.recs = Append(file.recs, rec)
      /\ file' = [header |-> file'.header, recs |-> file'.recs]
  OBVIOUS
<1>2. file'.recs \in Seq(Rec)
  BY <1>1 DEF StateType
<1>3. QED
  BY <1>1, <1>2 DEF StateType

(* dogecoin_wallet_set_master_key_copy                                     *)
LEMMA SetMasterKeyStep == IInv /\ SetMasterKey => IInv'
<1> SUFFICES ASSUME IInv, SetMasterKey PROVE IInv'
  OBVIOUS
<1> DEFINE V == [mem EXCEPT !.key = "private"]
           k == mem.key   a == mem.addrs   n == mem.next   w == mem.wtxes   x == mem.utxos   s == mem.spends
<1>1. WalletType(mem) /\ Good(mem)
  BY DEF IInv, Good
<1>2. mem = [key |-> k, addrs |-> a, next |-> n, wtxes |-> w, utxos |-> x, spends |-> s]
  BY <1>1 DEF WalletType
<1>3. V = [key |-> "private", addrs |-> a, next |-> n, wtxes |-> w, utxos |-> x, spends |-> s]
  <2> HIDE DEF k, a, n, w, x, s
  <2>1. QED
    BY <1>2
<1>4. /\ mem' = V /\ Write(KeyRec) /\ pc = "keyless" /\ pc' = "addressing"
      /\ watch' = watch /\ crashes' = crashes
  BY DEF SetMasterKey
<1> HIDE DEF V
<1>5. V.key = "private" /\ V.addrs = a /\ V.next = n /\ V.wtxes = w /\ V.utxos = x /\ V.spends = s
  BY <1>3
<1>6. WalletType(V)
  <2>1. V = [key |-> V.key, addrs |-> V.addrs, next |-> V.next, wtxes |-> V.wtxes,
             utxos |-> V.utxos, spends |-> V.spends]
    BY <1>3, <1>5
  <2>2. QED
    BY <1>1, <1>5, <2>1 DEF WalletType
<1>7. Good(V)
  <2>1. AddrsBounded(V) /\ Ledger(V)
    BY <1>1, <1>5 DEF Good, AddrsBounded, AddrsFrom, Ledger, Late, Known
  <2>2. QED
    BY <1>6, <2>1 DEF Good
<1>8. LoadRecord(Public(mem), KeyRec) = Public(V)
  <2> DEFINE P == Public(mem)
             q == IF k = "private" THEN "public" ELSE k
  <2>1. LoadRecord(P, KeyRec) = [P EXCEPT !.key = "public"]
    BY DEF LoadRecord, KeyRec, LoadMasterpubkey
  <2>2. P = [key |-> q, addrs |-> a, next |-> n, wtxes |-> w, utxos |-> x, spends |-> s]
    BY <1>1, PublicFields
  <2>3. [P EXCEPT !.key = "public"] =
          [key |-> "public", addrs |-> a, next |-> n, wtxes |-> w, utxos |-> x, spends |-> s]
    <3> HIDE DEF P, q, a, n, w, x, s
    <3>1. QED
      BY <2>2
  <2>4. Public(V) = [key |-> IF V.key = "private" THEN "public" ELSE V.key, addrs |-> V.addrs,
             next |-> V.next, wtxes |-> V.wtxes, utxos |-> V.utxos, spends |-> V.spends]
    BY <1>6, PublicFields, Zenon
  <2>5. QED
    BY <1>5, <2>1, <2>3, <2>4
<1>9. KeyRec \in Rec
  BY DEF Rec
<1>10. /\ file' = [header |-> "whole", recs |-> Append(file.recs, KeyRec)]
       /\ FileGood' /\ Recoverable'
  BY <1>4, <1>7, <1>8, <1>9, WriteStep DEF IInv
<1>11. StateType'
  BY <1>4, <1>9, <1>10, WriteType DEF IInv, StateType
<1>12. Addressing'
  <2>1. a = <<>>
    BY <1>4 DEF IInv, Addressing
  <2>2. QED
    BY <1>4, <1>5, <2>1, WalletAssumption DEF Addressing, AddrsFrom
<1>13. QED
  BY <1>4, <1>7, <1>10, <1>11, <1>12 DEF IInv

(* dogecoin_wallet_next_bip44_addr                                         *)
LEMMA NextAddrStep == IInv /\ NextAddr => IInv'
<1> SUFFICES ASSUME IInv, NextAddr PROVE IInv'
  OBVIOUS
<1> DEFINE a == Derived(mem)
           V == AddAddr(mem, a)
<1>1. WalletType(mem) /\ Good(mem)
  BY DEF IInv, Good
<1>2. /\ mem' = V /\ Write(AddrRec(mem, a)) /\ pc = "addressing" /\ watch = {}
      /\ pc' = (IF Len(mem'.addrs) = InitAddrs THEN "open" ELSE pc)
      /\ watch' = watch /\ crashes' = crashes
  BY DEF NextAddr
<1>3. /\ Len(mem.addrs) < InitAddrs /\ mem.next = Len(mem.addrs) /\ mem.addrs \in Seq(Addr)
      /\ Len(mem.addrs) \in Nat
  BY <1>1, <1>2 DEF IInv, Addressing, WalletType
<1>4. a \in Addr
  <2>1. mem.next \in 0 .. InitAddrs - 1
    BY <1>3, WalletAssumption
  <2>2. QED
    BY <2>1 DEF Derived, Addr
<1> HIDE DEF a, V
<1>5. V.addrs = Append(mem.addrs, a) /\ LoadRecord(Public(mem), AddrRec(mem, a)) = Public(V)
  BY <1>1, <1>4, AddAddrFields DEF V
<1>6. Len(V.addrs) = Len(mem.addrs) + 1
  BY <1>3, <1>4, <1>5
<1>7. AddrsFrom(V, Len(V.addrs))
  BY <1>3, <1>6, WalletAssumption DEF AddrsFrom
<1>8. Good(V)
  <2>1. AddrsBounded(V)
    BY <1>3, <1>6, <1>7 DEF AddrsBounded
  <2>2. QED
    BY <1>1, <1>4, <2>1, AddAddrGood DEF V
<1>9. AddrRec(mem, a) \in Rec
  BY <1>3, <1>4 DEF Rec, AddrRec
<1>10. /\ file' = [header |-> "whole", recs |-> Append(file.recs, AddrRec(mem, a))]
       /\ FileGood' /\ Recoverable'
  BY <1>2, <1>5, <1>8, <1>9, WriteStep DEF IInv
<1>11. StateType'
  BY <1>2, <1>9, <1>10, WriteType DEF IInv, StateType
<1>12. Addressing'
  BY <1>2, <1>3, <1>6, <1>7, WalletAssumption DEF Addressing
<1>13. QED
  BY <1>2, <1>8, <1>10, <1>11, <1>12 DEF IInv

(* dogecoin_p2pkh_address_to_wallet: an address the wallet has is not      *)
(* added again.                                                            *)
LEMMA WatchAddressStep ==
    ASSUME NEW a \in WatchAddr
    PROVE  IInv /\ WatchAddress(a) => IInv'
<1> SUFFICES ASSUME IInv, WatchAddress(a) PROVE IInv'
  OBVIOUS
<1>1. WalletType(mem) /\ Good(mem)
  BY DEF IInv, Good
<1>2. pc = "addressing" /\ pc' = "open" /\ watch' = watch /\ crashes' = crashes
  BY DEF WatchAddress
<1>3. Addressing'
  BY <1>2 DEF Addressing
<1>4. CASE NotAdded(mem, a)
  <2>1. mem' = mem /\ file' = file
    BY <1>4 DEF WatchAddress
  <2>2. QED
    BY <1>2, <1>3, <2>1 DEF IInv, StateType, FileGood, Recoverable, Damaged
<1>5. CASE ~NotAdded(mem, a)
  <2> DEFINE V == AddAddr(mem, a)
  <2>1. mem' = V /\ Write(AddrRec(mem, a))
    BY <1>5 DEF WatchAddress
  <2>2. a \in Addr
    BY DEF Addr
  <2>3. mem.next = Len(mem.addrs) /\ mem.addrs \in Seq(Addr) /\ Len(mem.addrs) \in Nat
    BY <1>1 DEF WalletType
  <2> HIDE DEF V
  <2>4. V.addrs = Append(mem.addrs, a) /\ LoadRecord(Public(mem), AddrRec(mem, a)) = Public(V)
    BY <1>1, <2>2, AddAddrFields DEF V
  <2>5. /\ Len(V.addrs) = Len(mem.addrs) + 1 /\ V.addrs[Len(V.addrs)] = a
        /\ \A i \in 1 .. Len(mem.addrs) : V.addrs[i] = mem.addrs[i]
    BY <2>2, <2>3, <2>4
  <2>6. \A i \in 1 .. Len(mem.addrs) : mem.addrs[i] # a
    BY <1>5, <2>3 DEF NotAdded, Mine
  <2>7. AddrsBounded(V)
    <3>1. PICK m \in Nat : AddrsFrom(mem, m)
      BY <1>1 DEF Good, AddrsBounded
    <3>2. m \in 0 .. InitAddrs /\ m <= Len(V.addrs)
      BY <2>3, <2>5, <3>1 DEF AddrsFrom
    <3>3. ASSUME NEW i \in m + 1 .. Len(V.addrs), NEW j \in m + 1 .. Len(V.addrs)
          PROVE  V.addrs[i] \in WatchAddr /\ (V.addrs[i] = V.addrs[j] => i = j)
      <4>1. \A k \in m + 1 .. Len(V.addrs) :
               \/ k = Len(V.addrs)
               \/ k \in m + 1 .. Len(mem.addrs) /\ k \in 1 .. Len(mem.addrs)
        BY <2>3, <2>5
      <4>2. QED
        BY <2>5, <2>6, <3>1, <3>3, <4>1 DEF AddrsFrom
    <3>4. QED
      BY <3>2, <3>3 DEF AddrsBounded, AddrsFrom
  <2>8. Good(V)
    BY <1>1, <2>2, <2>7, AddAddrGood DEF V
  <2>9. AddrRec(mem, a) \in Rec
    BY <2>2, <2>3 DEF Rec, AddrRec
  <2>10. /\ file' = [header |-> "whole", recs |-> Append(file.recs, AddrRec(mem, a))]
         /\ FileGood' /\ Recoverable'
    BY <1>2, <2>1, <2>4, <2>8, <2>9, WriteStep DEF IInv
  <2>11. StateType'
    BY <1>2, <2>9, <2>10, WriteType DEF IInv, StateType
  <2>12. QED
    BY <1>3, <2>1, <2>8, <2>10, <2>11 DEF IInv
<1>6. QED
  BY <1>4, <1>5

(* dogecoin_wallet_check_transaction                                       *)
LEMMA CheckTransactionStep ==
    ASSUME NEW t \in Tx, NEW h \in 1 .. MaxHeight
    PROVE  IInv /\ CheckTransaction(t, h) => IInv'
<1> SUFFICES ASSUME IInv, CheckTransaction(t, h) PROVE IInv'
  OBVIOUS
<1>1. WalletType(mem) /\ Good(mem)
  BY DEF IInv, Good
<1>2. /\ mem' = Checked(mem, t, h) /\ Write(TxRec(t, h)) /\ t \notin Known(mem)
      /\ pc = "open" /\ pc' = pc /\ watch' = watch /\ crashes' = crashes
  BY DEF CheckTransaction, Checked
<1>3. Good(mem')
  BY <1>1, <1>2, CheckedGood
<1>4. LoadRecord(Public(mem), TxRec(t, h)) = Public(mem')
  BY <1>1, <1>2, LoadChecked
<1>5. TxRec(t, h) \in Rec
  BY DEF Rec, TxRec
<1>6. /\ file' = [header |-> "whole", recs |-> Append(file.recs, TxRec(t, h))]
      /\ FileGood' /\ Recoverable'
  BY <1>2, <1>3, <1>4, <1>5, WriteStep DEF IInv
<1>7. StateType'
  BY <1>2, <1>5, <1>6, WriteType DEF IInv, StateType
<1>8. Addressing'
  BY <1>2 DEF Addressing
<1>9. QED
  BY <1>3, <1>6, <1>7, <1>8 DEF IInv

(* The program ends, or dies between two writes.                           *)
LEMMA StopStep == IInv /\ Stop => IInv'
<1> SUFFICES ASSUME IInv, Stop PROVE IInv'
  OBVIOUS
<1>1. mem' = NewWallet /\ pc' = "down" /\ crashes' = crashes + 1 /\ crashes < MaxCrashes
      /\ file' = file /\ watch' = watch
  BY DEF Stop
<1>2. StateType'
  BY <1>1, WalletAssumption DEF IInv, StateType
<1>3. QED
  BY <1>1, <1>2, NewGood DEF IInv, Addressing, FileGood, Recoverable

(* It dies inside a write: what is left of the record at the end of the    *)
(* file is either read past or keeps the file from being opened.           *)
LEMMA CrashInWriteStep == IInv /\ CrashInWrite => IInv'
<1> SUFFICES ASSUME IInv, CrashInWrite PROVE IInv'
  OBVIOUS
<1>1. mem' = NewWallet /\ pc' = "down" /\ crashes' = crashes + 1 /\ crashes < MaxCrashes
      /\ watch' = watch /\ pc # "down"
  BY DEF CrashInWrite, Writing
<1>2. PICK b \in Broken : Write(b)
  BY DEF CrashInWrite
<1>3. b \in Rec
  BY DEF Rec
<1>4. /\ file'.header = "whole" /\ file'.recs = Append(file.recs, b)
      /\ file' = [header |-> "whole", recs |-> Append(file.recs, b)]
      /\ file.header = "whole" /\ file.recs \in Seq(Rec)
  <2> DEFINE h == file.header  r == file.recs
  <2>1. file = [header |-> h, recs |-> r] /\ h = "whole" /\ r \in Seq(Rec)
    BY <1>1 DEF IInv, StateType
  <2>2. file' = [file EXCEPT !.recs = Append(r, b)]
    BY <1>2 DEF Write
  <2> HIDE DEF h, r
  <2>3. file' = [header |-> h, recs |-> Append(r, b)]
    BY <2>1, <2>2
  <2>4. file'.header = h /\ file'.recs = Append(r, b)
    BY <2>3
  <2>5. QED
    BY <2>1, <2>3, <2>4 DEF h, r
<1>5. StateType'
  <2>1. crashes' \in 0 .. MaxCrashes
    BY <1>1, WalletAssumption DEF IInv, StateType
  <2>2. QED
    BY <1>1, <1>3, <1>4, <2>1, WriteType DEF IInv
<1>6. Load(file') = Load(file)
  <2>1. Load(file') = LoadRecord(Load(file), b)
    BY <1>3, <1>4, LoadAppend
  <2>2. b[1] = "stub" \/ b[1] = "torn"
    BY DEF Broken
  <2>3. LoadRecord(Load(file), b) = Load(file)
    BY <2>2 DEF LoadRecord
  <2>4. QED
    BY <2>1, <2>3
<1>7. FileGood'
  <2> SUFFICES ASSUME Loads(file') PROVE Loads(file)
    BY <1>6 DEF FileGood, IInv
  <2>1. file'.recs \in Seq(Rec)
    BY <1>5 DEF StateType
  <2>2. ~DamagedFile(file')
    BY <2>1, LoadsUndamaged
  <2>3. ~DamagedFile(file)
    BY <1>3, <1>4, <2>2, DamageStays
  <2>4. QED
    BY <1>4, <2>3, LoadsUndamaged
<1>8. QED
  BY <1>1, <1>5, <1>7, NewGood DEF IInv, Addressing, Recoverable

(* It dies while the file is created.                                      *)
LEMMA CrashInCreateStep == IInv /\ CrashInCreate => IInv'
<1> SUFFICES ASSUME IInv, CrashInCreate PROVE IInv'
  OBVIOUS
<1>1. /\ mem' = mem /\ pc' = "down" /\ pc = "down" /\ watch' = watch
      /\ crashes' = crashes + 1 /\ crashes < MaxCrashes
      /\ file' = [header |-> "torn", recs |-> file.recs]
  BY DEF CrashInCreate, IInv, StateType
<1>2. StateType'
  BY <1>1, WalletAssumption DEF IInv, StateType
<1>3. ~Loads(file')
  BY <1>1 DEF Loads
<1>4. QED
  BY <1>1, <1>2, <1>3 DEF IInv, Addressing, FileGood, Recoverable

(* The invariant is inductive.                                             *)
LEMMA WalletInvariant == Spec => []IInv
<1>1. IInv /\ [Next]_vars => IInv'
  <2> SUFFICES ASSUME IInv, [Next]_vars PROVE IInv'
    OBVIOUS
  <2>1. CASE UNCHANGED vars
    BY <2>1 DEF vars, IInv, StateType, Addressing, FileGood, Recoverable, Damaged
  <2>2. CASE Next
    BY <2>2, StartNewStep, StartAgainStep, SetMasterKeyStep, NextAddrStep, WatchAddressStep,
       CheckTransactionStep, StopStep, CrashInWriteStep, CrashInCreateStep
       DEF Next, Start, Setup
  <2>3. QED
    BY <2>1, <2>2
<1>2. QED
  BY <1>1, WalletInit, PTL DEF Spec

(* A wallet has no more addresses than were made for it and can be         *)
(* watched.                                                                *)
LEMMA AddrsCounted ==
    ASSUME NEW W, WalletType(W), AddrsBounded(W)
    PROVE  W.next \in 0 .. InitAddrs + Cardinality(WatchAddr)
<1> DEFINE n == Len(W.addrs)
<1>1. W.next = n /\ n \in Nat /\ IsFiniteSet(WatchAddr) /\ InitAddrs \in Nat
  BY WalletAssumption DEF WalletType
<1>2. PICK m \in Nat : AddrsFrom(W, m)
  BY DEF AddrsBounded
<1>3. m \in 0 .. InitAddrs /\ m <= n
  BY <1>2 DEF AddrsFrom
<1> DEFINE f == [i \in m + 1 .. n |-> W.addrs[i]]
<1>4. f \in Injection(m + 1 .. n, WatchAddr)
  <2>1. \A i, j \in m + 1 .. n : W.addrs[i] \in WatchAddr /\ (W.addrs[i] = W.addrs[j] => i = j)
    BY <1>2 DEF AddrsFrom
  <2>2. QED
    BY <2>1 DEF Injection, IsInjective
<1>5. Cardinality(m + 1 .. n) <= Cardinality(WatchAddr)
  BY <1>1, <1>4, FS_Injection
<1>6. Cardinality(m + 1 .. n) = n - m
  <2>1. m + 1 \in Int /\ n \in Int /\ (m + 1 > n <=> n - m = 0) /\ n - (m + 1) + 1 = n - m
    BY <1>1, <1>3
  <2>2. Cardinality(m + 1 .. n) = IF m + 1 > n THEN 0 ELSE n - (m + 1) + 1
    BY <2>1, FS_Interval
  <2>3. QED
    BY <2>1, <2>2
<1>7. Cardinality(WatchAddr) \in Nat
  BY <1>1, FS_CardinalityType
<1>8. QED
  BY <1>1, <1>3, <1>5, <1>6, <1>7

(* Every field of the wallet and of its file keeps its type; in particular *)
(* the child index stays within the addresses a wallet can have, however   *)
(* often it is opened with addresses to watch (wallet.c:1368, wallet.c:1422). *)
THEOREM WalletTypeCorrect == Spec => []TypeOK
<1>1. IInv => TypeOK
  <2> SUFFICES ASSUME IInv PROVE TypeOK
    OBVIOUS
  <2>1. WalletType(mem) /\ AddrsBounded(mem) /\ StateType
    BY DEF IInv, Good
  <2>2. mem.next \in 0 .. InitAddrs + Cardinality(WatchAddr)
    BY <2>1, AddrsCounted
  <2>3. QED
    BY <2>1, <2>2 DEF TypeOK, WalletType, StateType, Wtx
<1>2. QED
  BY <1>1, WalletInvariant, PTL

(* At every moment of a run the file, unless a crash has damaged it, holds *)
(* the wallet that is in memory, apart from the private part of its key:   *)
(* dogecoin_wallet_load would read back the same addresses, transactions,  *)
(* tracked outputs and spends.                                             *)
THEOREM FileFollowsMemory == Spec => []Recoverable
<1>1. IInv => Recoverable
  BY DEF IInv
<1>2. QED
  BY <1>1, WalletInvariant, PTL

(* A tracked output is unspendable exactly when a transaction that spends  *)
(* it was added after the one that made it, and it is then in the index of *)
(* spends, through any sequence of blocks, restarts and crashes            *)
(* (dogecoin_wallet_scrape_utxos, dogecoin_wallet_add_wtx_intern_move).    *)
THEOREM SpendsAgree == Spec => []SpentStaysSpent
<1>1. IInv => SpentStaysSpent
  <2> SUFFICES ASSUME IInv, NEW u \in DOMAIN mem.utxos
               PROVE  LET spenders == {i \in DOMAIN mem.wtxes : u \in Inputs[mem.wtxes[i].tx]}
                          late == {i \in spenders : \E j \in 1 .. i - 1 : mem.wtxes[j].tx = u[1]}
                      IN  /\ ~mem.utxos[u].spendable <=> late # {}
                          /\ late # {} => u \in mem.spends
    BY DEF SpentStaysSpent
  <2>1. /\ ~mem.utxos[u].spendable <=> \E i \in DOMAIN mem.wtxes : Late(mem, u, i)
        /\ (\E i \in DOMAIN mem.wtxes : Late(mem, u, i)) => u \in mem.spends
    BY DEF IInv, Good, Ledger
  <2>2. QED
    BY <2>1 DEF Late
<1>2. QED
  BY <1>1, WalletInvariant, PTL
=============================================================================
