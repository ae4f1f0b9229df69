-------------------------- MODULE HeaderTreeProofs --------------------------
(***************************************************************************)
(* What the operators on a header index do, for every set of headers: the  *)
(* walk along the prev pointers, connecting a header, undoing one.  The    *)
(* database (HeadersDBProofs), the parallel download (ParHdrProofs) and    *)
(* the mempool (SmpvProofs) rest on these facts.                           *)
(***************************************************************************)
EXTENDS HeaderTree, WellFoundedInduction, TLAPS

-----------------------------------------------------------------------------
(* Numbers.                                                                *)

NatLess == {p \in Nat \X Nat : p[1] < p[2]}

(* The order of the naturals, as a set, is well founded.                   *)
LEMMA NatLessWellFounded == IsWellFoundedOn(NatLess, Nat)
  BY NatLessThanWellFounded DEF OpToRel, NatLess

(* Min of a nonempty set of naturals is its least element.                 *)
LEMMA MinIn ==
    ASSUME NEW T \in SUBSET Nat, T # {}
    PROVE  Min(T) \in T /\ \A y \in T : Min(T) <= y
<1>1. PICK x \in T : \A y \in T : ~(<<y, x>> \in NatLess)
  BY WFMin, NatLessWellFounded
<1>2. ASSUME NEW y \in T, y < x PROVE <<y, x>> \in NatLess
  BY <1>2 DEF NatLess
<1>3. ASSUME NEW y \in T PROVE x <= y
  <2>1. ~(y < x)
    BY <1>1, <1>2
  <2>2. x \in Nat /\ y \in Nat
    OBVIOUS
  <2>3. QED
    BY <2>1, <2>2
<1>4. QED
  BY <1>3 DEF Min

(* Induction on the naturals, for a set.                                   *)
LEMMA Induction ==
    ASSUME NEW S, 0 \in S, \A n \in Nat : n \in S => n + 1 \in S
    PROVE  Nat \subseteq S
<1> SUFFICES ASSUME Nat \ S # {} PROVE FALSE
  OBVIOUS
<1>1. PICK x \in Nat \ S : \A y \in Nat \ S : x <= y
  BY MinIn
<1>2. x # 0 /\ x - 1 \in Nat /\ x - 1 \notin S
  OBVIOUS
<1> QED
  BY <1>1, <1>2

(* A non-empty set of naturals with an upper bound has a greatest one.     *)
LEMMA MaxIn ==
    ASSUME NEW b \in Nat, NEW T \in SUBSET (0 .. b), T # {}
    PROVE  Max(T) \in T /\ \A y \in T : Max(T) >= y
<1> DEFINE U == {b - y : y \in T}
<1>1. U \in SUBSET Nat /\ U # {}
  <2>1. PICK x : x \in T
    OBVIOUS
  <2>2. b - x \in U
    BY <2>1
  <2>3. \A y \in T : b - y \in Nat
    OBVIOUS
  <2> QED
    BY <2>2, <2>3
<1>2. Min(U) \in U /\ \A y \in U : Min(U) <= y
  BY <1>1, MinIn
<1>3. PICK x \in T : Min(U) = b - x
  BY <1>2
<1>4. \A y \in T : b - x <= b - y
  BY <1>2, <1>3
<1>5. \A y \in T : x >= y
  BY <1>4
<1> QED
  BY <1>5, Zenon DEF Max

-----------------------------------------------------------------------------
(* The walk along the prev pointers.                                       *)

Onward(ix, c) == IF c = NULL THEN NULL ELSE PtrOf(ix, c)

(* The first n + 1 objects of the walk from b.                             *)
IsWalk(f, ix, b, n) == f = [k \in 0 .. n |-> IF k = 0 THEN b ELSE Onward(ix, f[k-1])]

(* Back is that walk.                                                      *)
LEMMA BackIsWalk ==
    \A ix, b : Back(ix, b) = CHOOSE f : IsWalk(f, ix, b, Height[b] + 1)
  BY Zenon DEF Back, IsWalk, Onward

(* There is one of every length.                                           *)
LEMMA WalkExists ==
    ASSUME NEW ix, NEW b, NEW n \in Nat
    PROVE  \E f : IsWalk(f, ix, b, n)
<1> DEFINE S == {m \in Nat : \E f : IsWalk(f, ix, b, m)}
<1>1. 0 \in S
  <2>1. IsWalk([k \in 0 .. 0 |-> b], ix, b, 0)
    BY DEF IsWalk
  <2> QED
    BY <2>1
<1>2. ASSUME NEW m \in Nat, m \in S PROVE m + 1 \in S
  <2> PICK g : IsWalk(g, ix, b, m)
    BY <1>2
  <2>1. \A k \in 0 .. m : g[k] = IF k = 0 THEN b ELSE Onward(ix, g[k-1])
    BY DEF IsWalk
  <2> DEFINE h == [k \in 0 .. m + 1 |-> IF k = m + 1 THEN Onward(ix, g[m]) ELSE g[k]]
  <2>2. ASSUME NEW k \in 0 .. m + 1
        PROVE  h[k] = IF k = 0 THEN b ELSE Onward(ix, h[k-1])
    <3>1. CASE k = m + 1
      BY <3>1
    <3>2. CASE k = 0
      BY <2>1, <3>2
    <3>3. CASE k # 0 /\ k # m + 1
      <4>1. k \in 0 .. m /\ k - 1 \in 0 .. m + 1 /\ k - 1 # m + 1
        BY <3>3
      <4> QED
        BY <2>1, <3>3, <4>1
    <3> QED
      BY <3>1, <3>2, <3>3
  <2>3. h = [k \in 0 .. m + 1 |-> h[k]]
    OBVIOUS
  <2> HIDE DEF h
  <2>4. IsWalk(h, ix, b, m + 1)
    BY <2>2, <2>3, Zenon DEF IsWalk
  <2> QED
    BY <2>4
<1> HIDE DEF S
<1>3. n \in S
  BY <1>1, <1>2, Induction
<1> QED
  BY <1>3 DEF S

(* The walk, step by step.                                                 *)
LEMMA BackSteps ==
    ASSUME NEW ix, NEW b \in Header
    PROVE  /\ Height[b] \in Nat /\ Back(ix, b)[0] = b
           /\ \A k \in 0 .. Height[b] : Back(ix, b)[k + 1] = Onward(ix, Back(ix, b)[k])
<1>1. Height[b] \in Nat /\ Height[b] + 1 \in Nat
  BY HeaderAssumption
<1> DEFINE f == Back(ix, b)
<1>2. IsWalk(f, ix, b, Height[b] + 1)
  BY <1>1, WalkExists, BackIsWalk
<1> HIDE DEF f
<1>3. \A k \in 0 .. Height[b] + 1 : f[k] = IF k = 0 THEN b ELSE Onward(ix, f[k-1])
  BY <1>2 DEF IsWalk
<1>4. ASSUME NEW k \in 0 .. Height[b] PROVE f[k + 1] = Onward(ix, f[k])
  <2>1. k + 1 \in 0 .. Height[b] + 1 /\ k + 1 # 0 /\ (k + 1) - 1 = k
    BY <1>1
  <2> QED
    BY <1>3, <2>1
<1> QED
  BY <1>1, <1>3, <1>4 DEF f

(* Prev pointers are cleared or point to the predecessor.                  *)
Shape(ix) == ix \in Index /\ \A c \in Block : ix.ptr[c] \in {NULL, Prev[c]}

(* The walk goes down one height at a time, and ends.                      *)
LEMMA BackHeights ==
    ASSUME NEW ix, Shape(ix), NEW b \in Header, NEW k \in 0 .. Height[b] + 1
    PROVE  \/ Back(ix, b)[k] = NULL
           \/ Back(ix, b)[k] \in Header /\ Height[Back(ix, b)[k]] = Height[b] - k
<1> DEFINE f == Back(ix, b)
           Fine(x, n) == x = NULL \/ (x \in Header /\ Height[x] = Height[b] - n)
           S == {n \in Nat : n \in 0 .. Height[b] + 1 => Fine(f[n], n)}
<1>1. /\ Height[b] \in Nat /\ f[0] = b
      /\ \A n \in 0 .. Height[b] : f[n + 1] = Onward(ix, f[n])
  BY BackSteps
<1> HIDE DEF f
<1>2. 0 \in S
  BY <1>1
<1>3. ASSUME NEW n \in Nat, n \in S PROVE n + 1 \in S
  <2> SUFFICES ASSUME n + 1 \in 0 .. Height[b] + 1 PROVE Fine(f[n + 1], n + 1)
    OBVIOUS
  <2>1. n \in 0 .. Height[b] /\ n \in 0 .. Height[b] + 1
    BY <1>1
  <2>2. Fine(f[n], n) /\ f[n + 1] = Onward(ix, f[n])
    BY <1>1, <1>3, <2>1
  <2>3. CASE f[n] \in Block
    <3>1. f[n] # NULL /\ f[n] # Genesis
      BY <2>3, HeaderAssumption DEF Header
    <3>2. f[n + 1] = NULL \/ f[n + 1] = Prev[f[n]]
      BY <2>2, <2>3, <3>1 DEF Onward, PtrOf, Shape
    <3>3. Prev[f[n]] \in Header /\ Height[Prev[f[n]]] \in Nat
          /\ Height[f[n]] = Height[Prev[f[n]]] + 1
      BY <2>3, HeaderAssumption
    <3> QED
      BY <1>1, <2>2, <3>1, <3>2, <3>3
  <2>4. CASE f[n] \notin Block
    BY <2>2, <2>4 DEF Onward, PtrOf, Header
  <2> QED
    BY <2>3, <2>4
<1> HIDE DEF S
<1>4. k \in S
  BY <1>1, <1>2, <1>3, Induction
<1> QED
  BY <1>1, <1>4 DEF S, f

(* The chain behind a header, from it down.                                *)
LEMMA Chain ==
    ASSUME NEW ix, Shape(ix), NEW b \in Header
    PROVE  /\ b \in ChainOf(ix, b) /\ NULL \notin ChainOf(ix, b)
           /\ \A c \in ChainOf(ix, b) :
                 /\ c \in Header /\ Height[c] \in Nat /\ Height[c] <= Height[b]
                 /\ PtrOf(ix, c) = NULL \/ PtrOf(ix, c) \in ChainOf(ix, b)
           /\ \A c, d \in ChainOf(ix, b) : Height[c] = Height[d] => c = d
<1> DEFINE f == Back(ix, b)
           H == Height[b]
           C == ChainOf(ix, b)
<1>1. H \in Nat /\ f[0] = b /\ \A k \in 0 .. H : f[k + 1] = Onward(ix, f[k])
  BY BackSteps
<1>2. \A k \in 0 .. H + 1 : f[k] = NULL \/ (f[k] \in Header /\ Height[f[k]] = H - k)
  BY BackHeights
<1>3. \A c : c \in C <=> c # NULL /\ \E k \in 0 .. H + 1 : c = f[k]
  BY DEF ChainOf
<1> HIDE DEF f, C, H
<1>4. ASSUME NEW c \in C
      PROVE  /\ c \in Header /\ Height[c] \in Nat /\ Height[c] <= H
             /\ \E k \in 0 .. H : c = f[k] /\ Height[c] = H - k
  <2>1. PICK k \in 0 .. H + 1 : c = f[k] /\ c # NULL
    BY <1>3
  <2>2. c \in Header /\ Height[c] = H - k
    BY <1>2, <2>1
  <2>3. Height[c] \in Nat
    BY <2>2, HeaderAssumption
  <2>4. k \in 0 .. H
    BY <1>1, <2>2, <2>3
  <2> QED
    BY <1>1, <2>1, <2>2, <2>3, <2>4
<1>5. b \in C /\ NULL \notin C
  <2>1. b # NULL
    BY HeaderAssumption
  <2>2. 0 \in 0 .. H + 1
    BY <1>1
  <2> QED
    BY <1>1, <1>3, <2>1, <2>2
<1>6. ASSUME NEW c \in C PROVE PtrOf(ix, c) = NULL \/ PtrOf(ix, c) \in C
  <2>1. PICK k \in 0 .. H : c = f[k]
    BY <1>4
  <2>2. c # NULL
    BY <1>5
  <2>3. f[k + 1] = PtrOf(ix, c)
    BY <1>1, <2>1, <2>2 DEF Onward
  <2>4. k + 1 \in 0 .. H + 1
    BY <1>1
  <2> QED
    BY <1>3, <2>3, <2>4
<1>7. ASSUME NEW c \in C, NEW d \in C, Height[c] = Height[d] PROVE c = d
  <2>1. PICK k \in 0 .. H : c = f[k] /\ Height[c] = H - k
    BY <1>4
  <2>2. PICK l \in 0 .. H : d = f[l] /\ Height[d] = H - l
    BY <1>4
  <2>3. k = l
    BY <1>1, <1>7, <2>1, <2>2
  <2> QED
    BY <2>1, <2>2, <2>3
<1> QED
  BY <1>4, <1>5, <1>6, <1>7 DEF C, H

(* A set that the pointers do not leave holds the chain behind each of its *)
(* members.                                                                *)
LEMMA ChainWithin ==
    ASSUME NEW ix, NEW b \in Header, NEW S, b \in S,
           \A c \in S : PtrOf(ix, c) = NULL \/ PtrOf(ix, c) \in S
    PROVE  ChainOf(ix, b) \subseteq S
<1> DEFINE f == Back(ix, b)
           T == {n \in Nat : n \in 0 .. Height[b] + 1 => f[n] = NULL \/ f[n] \in S}
<1>1. /\ Height[b] \in Nat /\ f[0] = b
      /\ \A n \in 0 .. Height[b] : f[n + 1] = Onward(ix, f[n])
  BY BackSteps
<1> HIDE DEF f
<1>2. 0 \in T
  BY <1>1
<1>3. ASSUME NEW n \in Nat, n \in T PROVE n + 1 \in T
  <2> SUFFICES ASSUME n + 1 \in 0 .. Height[b] + 1 PROVE f[n + 1] = NULL \/ f[n + 1] \in S
    OBVIOUS
  <2>1. n \in 0 .. Height[b] /\ n \in 0 .. Height[b] + 1
    BY <1>1
  <2>2. (f[n] = NULL \/ f[n] \in S) /\ f[n + 1] = Onward(ix, f[n])
    BY <1>1, <1>3, <2>1
  <2> QED
    BY <2>2 DEF Onward
<1> HIDE DEF T
<1>4. Nat \subseteq T
  BY <1>2, <1>3, Induction
<1>5. \A k \in 0 .. Height[b] + 1 : f[k] = NULL \/ f[k] \in S
  BY <1>1, <1>4 DEF T
<1> QED
  BY <1>5 DEF ChainOf, f

-----------------------------------------------------------------------------
(* Connecting a header.                                                    *)

(* The work stored for a new header is a number: dogecoin_headers_db keeps *)
(* it for every header whose predecessor it knows.                         *)
LEMMA NewWorkNat ==
    ASSUME NEW ix \in Index, NEW b \in Block, NEW mode \in Mode
    PROVE  NewWork(ix, b, mode) \in Nat
<1>1. ix.work \in [Block -> Nat]
  BY DEF Index
<1>2. Prev[b] \in Header /\ Work[b] \in Nat
  BY HeaderAssumption
<1>3. WorkOf(ix, Prev[b]) \in Nat
  BY <1>1, <1>2 DEF WorkOf, Header
<1>4. OwnWork(b, mode) \in Nat
  BY <1>2 DEF OwnWork
<1>5. QED
  BY <1>3, <1>4 DEF NewWork

(* dogecoin_headers_db_connect_hdr keeps the index well formed, adds only  *)
(* the new header, and moves the tip only to it.                           *)
LEMMA ConnectType ==
    ASSUME NEW ix \in Index, NEW b \in Block, NEW mode \in Mode
    PROVE  /\ Connect(ix, b, mode) \in Index
           /\ Connect(ix, b, mode).tree \subseteq ix.tree \cup {b}
           /\ Connect(ix, b, mode).tip =
                IF Height[b] > Height[ix.tip] THEN b ELSE ix.tip
<1>1. NewWork(ix, b, mode) \in Nat
  BY NewWorkNat
<1> DEFINE l == Linked(ix, b, mode)
<1>2. /\ l \in Index
      /\ l.tree \subseteq ix.tree \cup {b}
      /\ l.tip = IF Height[b] > Height[ix.tip] THEN b ELSE ix.tip
  <2>1. l.ptr \in [Block -> Header \cup {NULL}]
    BY HeaderAssumption DEF Linked, Index, Header
  <2>2. l.work \in [Block -> Nat]
    BY <1>1 DEF Linked, Index
  <2>3. /\ l.tree \subseteq ix.tree \cup {b}
        /\ l.tip = IF Height[b] > Height[ix.tip] THEN b ELSE ix.tip
        /\ l.bottom = ix.bottom
        /\ l = [tree |-> l.tree, ptr |-> l.ptr, work |-> l.work,
                tip |-> l.tip, bottom |-> l.bottom]
    BY DEF Linked
  <2>4. QED
    BY <2>1, <2>2, <2>3 DEF Index, Header
<1>3. ASSUME NEW x \in Index
      PROVE  /\ Trimmed(x) \in Index
             /\ Trimmed(x).tree \subseteq x.tree
             /\ Trimmed(x).tip = x.tip
  <2>1. CASE MaxHdrInMem > 0 /\ Oldest(x) \in Block
    <3>1. ScanTip(x) \in Block
      BY <2>1, HeaderAssumption DEF Oldest, Header
    <3>2. QED
      BY <2>1, <3>1 DEF Trimmed, Index, Header
  <2>2. CASE ~(MaxHdrInMem > 0 /\ Oldest(x) \in Block)
    BY <2>2 DEF Trimmed
  <2>3. QED
    BY <2>1, <2>2
<1>4. QED
  BY <1>2, <1>3 DEF Connect


(* The record a new header leaves behind.                                  *)
LEMMA LinkedFields ==
    ASSUME NEW ix, Shape(ix), NEW b \in Block, NEW mode \in Mode
    PROVE  /\ Shape(Linked(ix, b, mode))
           /\ Linked(ix, b, mode).tree =
                (ix.tree \ (IF Reorganises(ix, b, mode) THEN Disconnected(ix, b) ELSE {})) \cup {b}
           /\ Linked(ix, b, mode).tip = IF Height[b] > Height[ix.tip] THEN b ELSE ix.tip
           /\ Linked(ix, b, mode).ptr[b] = Prev[b]
           /\ \A c \in Block \ {b} : Linked(ix, b, mode).ptr[c] = ix.ptr[c]
<1> DEFINE l == Linked(ix, b, mode)
<1>1. ix \in Index /\ ix.ptr \in [Block -> Header \cup {NULL}]
  BY DEF Shape, Index
<1>2. NewWork(ix, b, mode) \in Nat
  BY <1>1, NewWorkNat
<1>3. /\ l.tree = (ix.tree \ (IF Reorganises(ix, b, mode) THEN Disconnected(ix, b) ELSE {}))
                    \cup {b}
      /\ l.tip = IF Height[b] > Height[ix.tip] THEN b ELSE ix.tip
      /\ l.ptr = [ix.ptr EXCEPT ![b] = Prev[b]]
      /\ l.work = [ix.work EXCEPT ![b] = NewWork(ix, b, mode)]
      /\ l.bottom = ix.bottom
      /\ l = [tree |-> l.tree, ptr |-> l.ptr, work |-> l.work, tip |-> l.tip,
              bottom |-> l.bottom]
  BY DEF Linked
<1> HIDE DEF l
<1>4. l.ptr \in [Block -> Header \cup {NULL}] /\ l.work \in [Block -> Nat]
  BY <1>1, <1>2, <1>3, HeaderAssumption DEF Index
<1>5. l.tree \in SUBSET Block /\ l.tip \in Header /\ l.bottom \in Header
  BY <1>1, <1>3 DEF Index, Header
<1>6. l \in Index
  BY <1>3, <1>4, <1>5 DEF Index
<1>7. l.ptr[b] = Prev[b] /\ \A c \in Block \ {b} : l.ptr[c] = ix.ptr[c]
  BY <1>1, <1>3
<1>8. Shape(l)
  BY <1>6, <1>7 DEF Shape
<1> QED
  BY <1>3, <1>7, <1>8 DEF l

(* The common ancestor is the highest header the two chains share.         *)
LEMMA AncestorHighest ==
    ASSUME NEW ix, Shape(ix), NEW b \in Block, SharedChain(ix, b) # {}
    PROVE  /\ CommonAncestor(ix, b) \in SharedChain(ix, b)
           /\ \A d \in SharedChain(ix, b) :
                 /\ Height[d] \in Nat
                 /\ Height[d] <= Height[CommonAncestor(ix, b)]
<1> DEFINE C == SharedChain(ix, b)
           T == {Height[d] : d \in C}
<1>1. ix.tip \in Header /\ Height[ix.tip] \in Nat
  BY HeaderAssumption DEF Shape, Index
<1>2. \A d \in C : Height[d] \in Nat /\ Height[d] <= Height[ix.tip]
  BY <1>1, Chain DEF SharedChain
<1> HIDE DEF C
<1>3. T \in SUBSET (0 .. Height[ix.tip]) /\ T # {}
  BY <1>1, <1>2 DEF C
<1>4. Max(T) \in T /\ \A y \in T : Max(T) >= y
  BY <1>1, <1>3, MaxIn
<1>5. PICK c \in C : Max(T) = Height[c]
  BY <1>4
<1>6. \A d \in C : Height[d] <= Height[c]
  BY <1>2, <1>4, <1>5
<1>7. \E e \in C : \A d \in C : Height[d] <= Height[e]
  BY <1>6
<1>8. /\ CommonAncestor(ix, b) \in C
      /\ \A d \in C : Height[d] <= Height[CommonAncestor(ix, b)]
  BY <1>7, Zenon DEF CommonAncestor, C
<1> QED
  BY <1>2, <1>8 DEF C

(* A new header is linked in: a branch that lost is freed, and no part of  *)
(* the chain that is active afterwards.                                    *)
LEMMA LinkedLive ==
    ASSUME NEW ix, Shape(ix), PointersLive(ix), NEW b \in Block, NEW mode \in Mode,
           Connects(ix, b, mode)
    PROVE  ChainLive(Linked(ix, b, mode))
<1> DEFINE l == Linked(ix, b, mode)
           A == ix.tree \cup {Genesis}
           P == ChainOf(ix, Prev[b])
<1>1. /\ Shape(l) /\ l.ptr[b] = Prev[b] /\ \A c \in Block \ {b} : l.ptr[c] = ix.ptr[c]
      /\ l.tip = IF Height[b] > Height[ix.tip] THEN b ELSE ix.tip
      /\ l.tree = (ix.tree \ (IF Reorganises(ix, b, mode) THEN Disconnected(ix, b) ELSE {}))
                    \cup {b}
  BY LinkedFields
<1>2. /\ b \notin ix.tree /\ b # Genesis /\ b \in Header /\ Prev[b] \in A /\ Prev[b] \in Header
      /\ ix.tip \in A /\ ix.tip \in Header /\ ix.tree \subseteq Block /\ Genesis \notin Block
  BY HeaderAssumption DEF Connects, KnownPrev, PointersLive, Shape, Index, Header
<1>3. \A c \in A : PtrOf(ix, c) = NULL \/ PtrOf(ix, c) \in A
  BY DEF PointersLive, PtrOf
<1>4. \A c \in A : PtrOf(l, c) = PtrOf(ix, c)
  BY <1>1, <1>2 DEF PtrOf
<1> HIDE DEF A
<1>5. P \subseteq A
  BY <1>2, <1>3, ChainWithin
<1> HIDE DEF l, P
<1>6. CASE Height[b] > Height[ix.tip]
  <2>1. PtrOf(l, b) = Prev[b] /\ Prev[b] \in P /\ b \notin P
    BY <1>1, <1>2, <1>5, Chain DEF PtrOf, P, A
  <2>2. \A c \in P : PtrOf(ix, c) = NULL \/ PtrOf(ix, c) \in P
    BY <1>2, Chain DEF P
  <2>3. \A c \in P \cup {b} : PtrOf(l, c) = NULL \/ PtrOf(l, c) \in P \cup {b}
    BY <1>5, <1>4, <2>1, <2>2
  <2>4. ChainOf(l, b) \subseteq P \cup {b}
    BY <1>2, <2>3, ChainWithin
  <2>5. P \subseteq l.tree \cup {Genesis}
    <3>1. CASE ~Reorganises(ix, b, mode)
      BY <1>1, <1>5, <3>1 DEF A
    <3>2. CASE Reorganises(ix, b, mode)
      <4>1. SharedChain(ix, b) # {}
        BY <3>2 DEF Connects
      <4>2. ASSUME NEW c \in P, c \in Disconnected(ix, b) PROVE FALSE
        <5>1. c \in SharedChain(ix, b) /\ Height[c] > Height[CommonAncestor(ix, b)]
          BY <4>2 DEF Disconnected, SharedChain, P
        <5>2. /\ Height[c] <= Height[CommonAncestor(ix, b)] /\ Height[c] \in Nat
              /\ Height[CommonAncestor(ix, b)] \in Nat
          BY <4>1, <5>1, AncestorHighest
        <5> QED
          BY <5>1, <5>2
      <4> QED
        BY <1>1, <1>5, <4>2 DEF A
    <3> QED
      BY <3>1, <3>2
  <2> QED
    BY <1>1, <1>6, <2>4, <2>5 DEF ChainLive, l
<1>7. CASE ~(Height[b] > Height[ix.tip])
  <2>1. l.tip = ix.tip /\ A \subseteq l.tree \cup {Genesis}
    BY <1>1, <1>7 DEF Reorganises, A
  <2>2. \A c \in A : PtrOf(l, c) = NULL \/ PtrOf(l, c) \in A
    BY <1>3, <1>4
  <2>3. ChainOf(l, ix.tip) \subseteq A
    BY <1>2, <2>2, ChainWithin
  <2> QED
    BY <2>1, <2>3 DEF ChainLive, l
<1> QED
  BY <1>6, <1>7

(* The scan's last object lies MaxHdrInMem + 1 below the tip, and the one  *)
(* that is freed right below it.                                           *)
LEMMA ScanBelow ==
    ASSUME NEW ix, Shape(ix), MaxHdrInMem > 0, Oldest(ix) \in Block
    PROVE  /\ ScanTip(ix) \in Block /\ ScanTip(ix) \in ChainOf(ix, ix.tip)
           /\ Height[ScanTip(ix)] < Height[ix.tip]
           /\ Oldest(ix) = Prev[ScanTip(ix)]
           /\ Height[Oldest(ix)] < Height[ScanTip(ix)]
<1> DEFINE s == ScanTip(ix)
           k == MaxHdrInMem + 1
           f == Back(ix, ix.tip)
<1>1. ix.tip \in Header /\ Height[ix.tip] \in Nat /\ MaxHdrInMem \in Nat /\ NULL \notin Block
  BY HeaderAssumption DEF Shape, Index, Header
<1>2. s \in Block /\ Oldest(ix) = ix.ptr[s]
  BY <1>1 DEF Oldest
<1>3. k <= Height[ix.tip] /\ s = f[k]
  BY <1>1, <1>2 DEF ScanTip
<1>4. k \in 0 .. Height[ix.tip] + 1 /\ s # NULL
  BY <1>1, <1>2, <1>3
<1>5. Height[s] = Height[ix.tip] - k
  BY <1>1, <1>3, <1>4, BackHeights
<1>6. s \in ChainOf(ix, ix.tip)
  BY <1>3, <1>4 DEF ChainOf
<1>7. Oldest(ix) = Prev[s]
  BY <1>1, <1>2 DEF Shape
<1>8. Height[Prev[s]] \in Nat /\ Height[s] = Height[Prev[s]] + 1
  BY <1>2, HeaderAssumption
<1> HIDE DEF s
<1>9. Height[s] < Height[ix.tip] /\ Height[Prev[s]] < Height[s]
  BY <1>1, <1>5, <1>8
<1> QED
  BY <1>2, <1>6, <1>7, <1>9 DEF s

(* Old headers are freed: the chain is cut above the one that goes.        *)
LEMMA TrimmedLive ==
    ASSUME NEW ix, Shape(ix)
    PROVE  /\ Shape(Trimmed(ix)) /\ Trimmed(ix).tip = ix.tip
           /\ Trimmed(ix).tree \subseteq ix.tree
           /\ \A c \in Block : Trimmed(ix).ptr[c] \in {NULL, ix.ptr[c]}
           /\ ix.tip \in Block => Trimmed(ix).ptr[ix.tip] = ix.ptr[ix.tip]
           /\ ChainLive(ix) => ChainLive(Trimmed(ix))
<1>1. CASE ~(MaxHdrInMem > 0 /\ Oldest(ix) \in Block)
  BY <1>1 DEF Trimmed
<1>2. CASE MaxHdrInMem > 0 /\ Oldest(ix) \in Block
  <2> DEFINE s == ScanTip(ix)
             o == Oldest(ix)
             t == Trimmed(ix)
             C == ChainOf(ix, ix.tip)
             S == {c \in C : Height[c] >= Height[s]}
  <2>1. /\ s \in Block /\ s \in C /\ Height[s] < Height[ix.tip] /\ o = Prev[s]
        /\ Height[o] < Height[s]
    BY <1>2, ScanBelow
  <2>2. /\ ix \in Index /\ ix.ptr \in [Block -> Header \cup {NULL}] /\ ix.tip \in Header
        /\ Height[s] \in Nat /\ Height[ix.tip] \in Nat /\ s # ix.tip
    BY <2>1, HeaderAssumption DEF Shape, Index, Header
  <2>3. t = [ix EXCEPT !.tree = ix.tree \ {o}, !.ptr = [ix.ptr EXCEPT ![s] = NULL],
                       !.bottom = s]
    BY <1>2 DEF Trimmed
  <2> HIDE DEF s, o, t
  <2>4. /\ t \in Index /\ t.tree = ix.tree \ {o} /\ t.tip = ix.tip
        /\ t.ptr[s] = NULL /\ \A c \in Block \ {s} : t.ptr[c] = ix.ptr[c]
    BY <2>1, <2>2, <2>3 DEF Index, Header
  <2>5. Shape(t) /\ \A c \in Block : t.ptr[c] \in {NULL, ix.ptr[c]}
    BY <2>4 DEF Shape
  <2>6. ASSUME ChainLive(ix) PROVE ChainLive(t)
    <3>1. /\ ix.tip \in C /\ \A c \in C : c \in Header /\ Height[c] \in Nat
          /\ \A c \in C : PtrOf(ix, c) = NULL \/ PtrOf(ix, c) \in C
          /\ \A c, d \in C : Height[c] = Height[d] => c = d
      BY <2>2, Chain
    <3> HIDE DEF C
    <3>2. ASSUME NEW c \in S PROVE PtrOf(t, c) = NULL \/ PtrOf(t, c) \in S
      <4>1. CASE c = s
        BY <2>1, <2>4, <4>1, HeaderAssumption DEF PtrOf
      <4>2. CASE c = Genesis
        BY <4>2 DEF PtrOf
      <4>3. CASE c # s /\ c # Genesis /\ ix.ptr[c] = NULL
        BY <2>4, <3>1, <4>3 DEF PtrOf, Header
      <4>4. CASE c # s /\ c # Genesis /\ ix.ptr[c] # NULL
        <5>1. c \in Block /\ PtrOf(t, c) = ix.ptr[c] /\ ix.ptr[c] = Prev[c] /\ Prev[c] \in C
          BY <2>4, <3>1, <4>4 DEF PtrOf, Header, Shape
        <5>2. Height[c] > Height[s]
          BY <2>1, <2>2, <3>1, <4>4
        <5>3. Height[c] = Height[Prev[c]] + 1 /\ Height[Prev[c]] \in Nat
          BY <5>1, HeaderAssumption
        <5> QED
          BY <2>2, <5>1, <5>2, <5>3
      <4> QED
        BY <4>1, <4>2, <4>3, <4>4
    <3>3. ix.tip \in S
      BY <2>1, <2>2, <3>1
    <3>4. ChainOf(t, ix.tip) \subseteq S
      BY <2>2, <3>2, <3>3, ChainWithin
    <3>5. o \notin S
      <4>1. Height[o] \in Nat
        BY <2>1, HeaderAssumption
      <4> QED
        BY <2>1, <2>2, <4>1
    <3>6. S \subseteq t.tree \cup {Genesis}
      BY <2>4, <2>6, <3>5 DEF ChainLive, C
    <3> QED
      BY <2>4, <3>4, <3>6 DEF ChainLive
  <2> QED
    BY <2>2, <2>4, <2>5, <2>6 DEF t
<1> QED
  BY <1>1, <1>2

(* dogecoin_headersdb_disconnect_tip frees the tip and nothing behind it.  *)
LEMMA PopLive ==
    ASSUME NEW ix, Shape(ix)
    PROVE  /\ Shape(DisconnectTip(ix)) /\ DisconnectTip(ix).ptr = ix.ptr
           /\ DisconnectTip(ix).tree \subseteq ix.tree
           /\ DisconnectTip(ix).tip =
                IF PtrOf(ix, ix.tip) = NULL THEN ix.tip ELSE Prev[ix.tip]
           /\ ChainLive(ix) => ChainLive(DisconnectTip(ix))
<1>1. CASE PtrOf(ix, ix.tip) = NULL
  BY <1>1 DEF DisconnectTip
<1>2. CASE PtrOf(ix, ix.tip) # NULL
  <2> DEFINE d == PtrOf(ix, ix.tip)
             t == DisconnectTip(ix)
             C == ChainOf(ix, ix.tip)
             S == {c \in C : Height[c] <= Height[d]}
  <2>1. /\ ix \in Index /\ ix.tip \in Block /\ d = Prev[ix.tip] /\ d \in Header
        /\ Height[d] \in Nat /\ Height[ix.tip] = Height[d] + 1 /\ ix.tip \in Header
    BY <1>2, HeaderAssumption DEF PtrOf, Shape, Index, Header
  <2>2. t = [ix EXCEPT !.tree = ix.tree \ {ix.tip}, !.tip = d]
    BY <1>2 DEF DisconnectTip
  <2> HIDE DEF d, t
  <2>3. t \in Index /\ t.ptr = ix.ptr /\ t.tree = ix.tree \ {ix.tip} /\ t.tip = d
    BY <2>1, <2>2 DEF Index
  <2>4. Shape(t)
    BY <2>3 DEF Shape
  <2>5. ASSUME ChainLive(ix) PROVE ChainLive(t)
    <3>1. /\ ix.tip \in C /\ \A c \in C : c \in Header /\ Height[c] \in Nat
          /\ \A c \in C : PtrOf(ix, c) = NULL \/ PtrOf(ix, c) \in C
      BY <2>1, Chain
    <3> HIDE DEF C
    <3>2. d \in S
      BY <1>2, <2>1, <3>1 DEF d
    <3>3. ASSUME NEW c \in S PROVE PtrOf(t, c) = NULL \/ PtrOf(t, c) \in S
      <4>1. PtrOf(t, c) = PtrOf(ix, c)
        BY <2>3 DEF PtrOf
      <4>2. CASE PtrOf(ix, c) # NULL
        <5>1. c \in Block /\ PtrOf(ix, c) = Prev[c] /\ Prev[c] \in C
          BY <3>1, <4>2 DEF PtrOf, Header, Shape
        <5>2. Height[c] = Height[Prev[c]] + 1 /\ Height[Prev[c]] \in Nat
          BY <5>1, HeaderAssumption
        <5> QED
          BY <2>1, <4>1, <5>1, <5>2
      <4> QED
        BY <4>1, <4>2
    <3>4. ChainOf(t, d) \subseteq S
      BY <2>1, <3>2, <3>3, ChainWithin
    <3>5. ix.tip \notin S
      BY <2>1
    <3> QED
      BY <2>3, <2>5, <3>4, <3>5 DEF ChainLive, C
  <2> QED
    BY <1>2, <2>1, <2>3, <2>4, <2>5 DEF t, d
<1> QED
  BY <1>1, <1>2

(* dogecoin_headers_db_connect_hdr: what it leaves of the pointers, and    *)
(* that the new active chain is live when no pointer was to freed memory.  *)
LEMMA ConnectLive ==
    ASSUME NEW ix, Shape(ix), NEW b \in Block, NEW mode \in Mode
    PROVE  /\ Shape(Connect(ix, b, mode))
           /\ Connect(ix, b, mode).ptr[b] \in {NULL, Prev[b]}
           /\ \A c \in Block \ {b} : Connect(ix, b, mode).ptr[c] \in {NULL, ix.ptr[c]}
           /\ Height[b] > Height[ix.tip] => Connect(ix, b, mode).ptr[b] = Prev[b]
           /\ Connects(ix, b, mode) /\ PointersLive(ix) => ChainLive(Connect(ix, b, mode))
<1> DEFINE l == Linked(ix, b, mode)
<1>1. /\ Shape(l) /\ l.ptr[b] = Prev[b] /\ \A c \in Block \ {b} : l.ptr[c] = ix.ptr[c]
      /\ l.tip = IF Height[b] > Height[ix.tip] THEN b ELSE ix.tip
  BY LinkedFields
<1>2. Connects(ix, b, mode) /\ PointersLive(ix) => ChainLive(l)
  BY LinkedLive
<1> HIDE DEF l
<1>3. /\ Shape(Trimmed(l)) /\ \A c \in Block : Trimmed(l).ptr[c] \in {NULL, l.ptr[c]}
      /\ l.tip \in Block => Trimmed(l).ptr[l.tip] = l.ptr[l.tip]
      /\ ChainLive(l) => ChainLive(Trimmed(l))
  BY <1>1, TrimmedLive
<1>4. Connect(ix, b, mode) = l \/ Connect(ix, b, mode) = Trimmed(l)
  BY DEF Connect, l
<1> QED
  BY <1>1, <1>2, <1>3, <1>4
=============================================================================
