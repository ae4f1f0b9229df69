------------------------------ MODULE MCParHdr ------------------------------
(* A checkpointed chain m1, m2, m3 in a segment of two headers and one of *)
(* one, and two headers off that chain: s1 instead of m1 and s2, after m1, *)
(* instead of m2.                                                          *)
EXTENDS ParHdr, TLC

CONSTANTS g, m1, m2, m3, s1, s2
MCBlock == {m1, m2, m3, s1, s2}
MCPrev == (m1 :> g) @@ (m2 :> m1) @@ (m3 :> m2) @@
          (s1 :> g) @@ (s2 :> m1)
MCHeight == (g :> 0) @@ (m1 :> 1) @@ (m2 :> 2) @@ (m3 :> 3) @@
            (s1 :> 1) @@ (s2 :> 2)
MCTime == MCHeight
MCWork == [b \in MCBlock |-> 1]
MCMain == (0 :> g) @@ (1 :> m1) @@ (2 :> m2) @@ (3 :> m3)
MCStopHeight == (0 :> 2) @@ (1 :> 3)
=============================================================================
