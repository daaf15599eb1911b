------------------------------ MODULE MCL3Fib ------------------------------
(* Model checking of L3Fib: small sets of addresses, prefixes and stations. *)
EXTENDS L3Fib

MCRouteMax22 == [v4 |-> 2, v6 |-> 2]
MCRouteMax11 == [v4 |-> 1, v6 |-> 1]
=============================================================================
