------------------------------ MODULE MCWallet ------------------------------
(* t1 pays the first child and a watched address; t2 spends the first and  *)
(* pays change to the second child; t3 spends the watched output and the   *)
(* change.                                                                 *)
EXTENDS Wallet, TLC

CONSTANTS t1, t2, t3
MCTx == {t1, t2, t3}
MCWatch == {<<"watch", 1>>}
Other == <<"other", 0>>
MCInputs == (t1 :> {}) @@ (t2 :> {<<t1, 1>>}) @@ (t3 :> {<<t1, 2>>, <<t2, 2>>})
MCOutputs == (t1 :> <<HdAddr(0), <<"watch", 1>>>>) @@
             (t2 :> <<Other, HdAddr(1)>>) @@ (t3 :> <<Other>>)
=============================================================================
