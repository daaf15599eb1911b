--------------------------- MODULE MCEdgedConfig ---------------------------
(* Model checking of EdgedConfig: a few ports, groups and access lists.    *)
EXTENDS EdgedConfig

MCPortLists == {<<1, 2>>, <<3, 2>>}
\* One of the probes lies where rules go, as 562 does.
MCProbeIdx == <<12>>
MCRules == {<<1, 2>>, <<2, -1>>, <<2, 1>>, <<2, 2>>}

MCAcls == [rules |-> (<<1, 2>> :> TRUE @@ <<2, 1>> :> TRUE @@ <<2, 2>> :> TRUE),
           binds |-> {1, 2}]
MCL2Files == {<<>>, 2 :> <<1, 2>>}
MCAclFiles == {NoAcls, MCAcls}
=============================================================================
