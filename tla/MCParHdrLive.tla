---------------------------- MODULE MCParHdrLive -----------------------------
(* A checkpointed chain m1 .. m6 in two segments of two headers and two of *)
(* one, for the memory budget and liveness.  Peers are on that chain.      *)
EXTENDS ParHdr, TLC

CONSTANTS g, m1, m2, m3, m4, m5, m6
MCBlock == {m1, m2, m3, m4, m5, m6}
MCMain == (0 :> g) @@ (1 :> m1) @@ (2 :> m2) @@ (3 :> m3) @@ (4 :> m4) @@ (5 :> m5) @@
          (6 :> m6)
MCHeight == [b \in Header |-> CHOOSE h \in 0 .. ChainHeight : MCMain[h] = b]
MCPrev == [b \in Block |-> MCMain[MCHeight[b] - 1]]
MCWork == [b \in Block |-> 1]
MCStopHeight == (0 :> 1) @@ (1 :> 3) @@ (2 :> 5) @@ (3 :> 6)
=============================================================================
