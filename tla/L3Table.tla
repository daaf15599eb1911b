------------------------------ MODULE L3Table ------------------------------
(***************************************************************************)
(* What core/datapath/l3.c promises its caller netlink.c: a table of       *)
(* neighbours, each bound to a next-hop index of its own while it is       *)
(* known, and a table of routes, each with the next-hop indices its        *)
(* gateways had when the route was last given.                             *)
(*                                                                         *)
(* L3Fib implements it as long as the chip takes every write and no table  *)
(* is full: "route" is then what the chip forwards on (L3Fib!ChipRoutes).  *)
(* FibSync uses it as the layer below the kernel's messages.               *)
(***************************************************************************)
EXTENDS Integers, FiniteSets, Functions

CONSTANTS
  Gw,        \* addresses of neighbours
  Dst,       \* transit prefixes
  Index,     \* next-hop indices
  MaxPaths   \* most gateways of a route

ASSUME TableAssumption == MaxPaths \in Nat

VARIABLES
  nh,        \* known neighbours: address -> next-hop index
  route      \* routes: prefix -> how often each next-hop index is a path

tableVars == <<nh, route>>

Bind(f, x, v) == [y \in DOMAIN f \cup {x} |-> IF y = x THEN v ELSE f[y]]
Unbind(f, x) == Restrict(f, DOMAIN f \ {x})

TableInit == nh = <<>> /\ route = <<>>

\* l3_host_add: a neighbour that is new gets an index that no other one has.
Resolve(g) ==
  /\ IF g \in DOMAIN nh THEN UNCHANGED nh
     ELSE \E i \in Index \ Range(nh) : nh' = Bind(nh, g, i)
  /\ UNCHANGED route

\* l3_host_del: the index may be given to another neighbour from now on; the
\* routes that use it stay as they are.
Forget(g) == nh' = Unbind(nh, g) /\ UNCHANGED route

\* The paths of a route through the gateways gws (a function from path to
\* gateway): those of them that are known, by their index.
Paths(gws) ==
  LET known == {i \in DOMAIN gws : gws[i] \in DOMAIN nh}
  IN  [x \in {nh[gws[i]] : i \in known} |->
         Cardinality({i \in known : nh[gws[i]] = x})]

\* Mutant of SetRoute: a prefix that is known is not given again.
SetRouteOnce(p, gws) ==
  /\ route' = IF DOMAIN Paths(gws) = {} \/ p \in DOMAIN route THEN route
              ELSE Bind(route, p, Paths(gws))
  /\ UNCHANGED nh

\* l3_route_add_paths: a route with no known gateway is skipped.
SetRoute(p, gws) ==
  /\ route' = IF DOMAIN Paths(gws) = {} THEN route
              ELSE Bind(route, p, Paths(gws))
  /\ UNCHANGED nh

\* l3_route_del.
DelRoute(p) == route' = Unbind(route, p) /\ UNCHANGED nh

PathLists == UNION {[1..k -> Gw] : k \in 1..MaxPaths}

TableNext ==
  \/ \E g \in Gw : Resolve(g) \/ Forget(g)
  \/ \E p \in Dst : DelRoute(p) \/ \E gws \in PathLists : SetRoute(p, gws)

TableSpec == TableInit /\ [][TableNext]_tableVars
=============================================================================
