----------------------------- MODULE MCBcmdSync -----------------------------
(* Model checking of BcmdSync: two neighbours with the same (link-local)   *)
(* address behind two ports, an own address and its subnet, a prefix.      *)
EXTENDS BcmdSync

CONSTANTS aa, oo, pp, cc

MCNbr == {<<1, aa>>, <<2, aa>>}
MCOwn == {<<1, oo>>}
MCConnected == [d \in {cc} |-> 1]
MCV6 == {aa, pp}
=============================================================================
