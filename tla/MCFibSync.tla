----------------------------- MODULE MCFibSync -----------------------------
(* Model checking of FibSync: small sets of neighbours and prefixes.       *)
EXTENDS FibSync

MCIndex == 1..2
=============================================================================
