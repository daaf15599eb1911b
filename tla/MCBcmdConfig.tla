---------------------------- MODULE MCBcmdConfig ----------------------------
(* Model checking of BcmdConfig: three ports, two groups, two lists.        *)
EXTENDS BcmdConfig

Line(u, S) == [vid |-> u, ports |-> S]
MCGroupFiles == {<<>>, <<Line(2, {1, 2})>>, <<Line(2, {3}), Line(3, {1, 2, 9})>>}

Rule(n, i) == [name |-> n, seq |-> i]
Apply(n, S) == [name |-> n, ports |-> S]
MCAclFiles ==
  {<<>>, <<Rule(1, 1), Rule(2, 2), Apply(1, {1, 2}), Apply(1, {3})>>,
   <<Apply(2, {1}), Rule(2, 2), Rule(2, 1)>>}

MCStarts ==
  {<<<<>>, <<>>>>,
   <<<<Line(2, {3}), Line(3, {1, 2, 9})>>,
     <<Rule(1, 1), Rule(2, 2), Apply(1, {1, 2}), Apply(1, {3})>>>>}
=============================================================================
