------------------------------- MODULE MCSmpv -------------------------------
(* Chain a and, from its first header, branch b.  Payments t and v are     *)
(* mined in both, u, which pays two addresses, in the branch alone.        *)
EXTENDS Smpv, TLC

CONSTANTS g, a1, a2, a3, a4, b2, b3, t, u, v, x, y
MCBlock == {a1, a2, a3, a4, b2, b3}
MCPrev == (a1 :> g) @@ (a2 :> a1) @@ (a3 :> a2) @@ (a4 :> a3) @@ (b2 :> a1) @@ (b3 :> b2)
MCHeight == (g :> 0) @@ (a1 :> 1) @@ (a2 :> 2) @@ (a3 :> 3) @@ (a4 :> 4) @@ (b2 :> 2) @@ (b3 :> 3)
MCWork == [b \in MCBlock |-> 1]
MCOuts == (t :> <<x>>) @@ (u :> <<y, x>>) @@ (v :> <<y>>)
MCBlockTxs == (a1 :> <<>>) @@ (a2 :> <<t>>) @@ (a3 :> <<>>) @@ (a4 :> <<v>>) @@
              (b2 :> <<u>>) @@ (b3 :> <<t, v>>)
=============================================================================
