----------------------------- MODULE MCHeadersDB -----------------------------
(* Chain a; from its first header branch b, whose headers are cheaper      *)
(* than those of a, and from its second header branch c.  A run without    *)
(* forks takes MCChain as its headers.                                     *)
EXTENDS HeadersDB, TLC

CONSTANTS g, a1, a2, a3, a4, b2, b3, c3, junk
MCChain == {a1, a2, a3, a4, junk}
MCForks == MCChain \cup {b2, b3, c3}
MCPrev == [b \in Block |->
    ((a1 :> g) @@ (a2 :> a1) @@ (a3 :> a2) @@ (a4 :> a3) @@
     (b2 :> a1) @@ (b3 :> b2) @@ (c3 :> a2) @@ (junk :> g))[b]]
MCHeight == [b \in Header |->
    ((g :> 0) @@ (a1 :> 1) @@ (a2 :> 2) @@ (a3 :> 3) @@ (a4 :> 4) @@
     (b2 :> 2) @@ (b3 :> 3) @@ (c3 :> 3) @@ (junk :> 1))[b]]
MCWork == [b \in Block |-> IF b \in {b2, b3} THEN 1 ELSE 3]
MCTime == MCHeight
MCAuxPow == Block \ {a1, junk}
MCValid == Block \ {junk}
=============================================================================
