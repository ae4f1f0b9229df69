--------------------------- MODULE MCFilteredScan ---------------------------
(* Two payments in the first window of three blocks and one after it; the  *)
(* first is spent from in its own window, the second in a later one.       *)
EXTENDS FilteredScan, TLC

CONSTANTS a1, a2, a3, b1, b2
MCTx == {a1, a2, a3, b1, b2}
MCTxHeight == (a1 :> 1) @@ (a2 :> 2) @@ (a3 :> 6) @@ (b1 :> 3) @@ (b2 :> 5)
MCParent == (b1 :> a1) @@ (b2 :> a2) @@ [t \in MCTx |-> NULL]
=============================================================================
