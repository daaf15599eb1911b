------------------------------ MODULE BcmdFib ------------------------------
(***************************************************************************)
(* asic/bcm56340/bcmd.c: neighbours, own addresses and routes of the       *)
(* AS4610's daemon, in the L3 objects of Broadcom's SDK.                   *)
(*                                                                         *)
(* A neighbour is <<port, ip>>, and so is an own address, on port Lo for   *)
(* the loopback device.  Hosts of the chip are found by their ip alone.    *)
(* The IPv6 handlers are those of IPv4 on IPv6 keys, with a cache of their *)
(* own, and do without routes for connected subnets.                       *)
(*                                                                         *)
(* The operators work on a record b:                                       *)
(*   cache   bcmd_nh, bcmd_nh6: neighbour or <<Local, ip>> -> egress       *)
(*   intf    bcmd_l3intf_set: ports with an L3 interface; with the first   *)
(*           one MY_STATION and bcmSwitchL3EgressMode are set              *)
(*   glean   bcmd_glean_eid, or NoId                                       *)
(*   egr     SDK: egress object -> its neighbour and MAC                   *)
(*   group   SDK: ECMP object -> its egress objects                        *)
(*   host    SDK: ip -> egress object, or ToCpu                            *)
(*   route   SDK: prefix -> egress object or ECMP object                   *)
(*                                                                         *)
(* Of the SDK (not part of the repository): adding what is there already   *)
(* fails, and so does creating an object when its table is full and        *)
(* destroying one that is in use.                                          *)
(***************************************************************************)
EXTENDS Integers, FiniteSets, SequencesExt

CONSTANTS
  V6,        \* the IPv6 ones of ip addresses and prefixes
  NhMax,     \* size of bcmd_nh and of bcmd_nh6
  EgrMax,    \* SDK: egress objects
  GroupMax   \* SDK: ECMP objects

ASSUME BcmdAssumption ==
  /\ NhMax \in Nat \ {0} /\ EgrMax \in Nat \ {0} /\ GroupMax \in Nat

Local == -1
Lo == 0
NoId == 0
ToCpu == 0
Glean == [nbr |-> <<>>, mac |-> "cpu"]

EgrIds == 1..EgrMax
GroupIds == (EgrMax + 1)..(EgrMax + GroupMax)

With(f, x, v) == [y \in DOMAIN f \cup {x} |-> IF y = x THEN v ELSE f[y]]
Without(f, x) == Restrict(f, DOMAIN f \ {x})

BcmdInit ==
  [cache |-> <<>>, intf |-> {}, glean |-> NoId,
   egr |-> <<>>, group |-> <<>>, host |-> <<>>, route |-> <<>>]
-----------------------------------------------------------------------------
(* The SDK.                                                                *)

FreeEgr(b) == EgrIds \ DOMAIN b.egr
FreeGroup(b) == GroupIds \ DOMAIN b.group

AddHost(b, ip, e) == IF ip \in DOMAIN b.host THEN b ELSE [b EXCEPT !.host = With(@, ip, e)]
AddRoute(b, p, e) == IF p \in DOMAIN b.route THEN b ELSE [b EXCEPT !.route = With(@, p, e)]

InUse(b, e) ==
  e \in Range(b.host) \cup Range(b.route) \cup UNION {Range(b.group[g]) : g \in DOMAIN b.group}

DestroyEgr(b, e) == IF InUse(b, e) THEN b ELSE [b EXCEPT !.egr = Without(@, e)]
-----------------------------------------------------------------------------
\* bcmd_l3_intf_ensure.
Ensure(b, port) == [b EXCEPT !.intf = @ \cup {port}]

\* bcmd_nh_slot, bcmd_nh6_slot: what is left for the family of an address.
Slots(b, ip) ==
  NhMax - Cardinality({k \in DOMAIN b.cache : k[2] \in V6 <=> ip \in V6})

Remember(b, k, e) == IF Slots(b, k[2]) > 0 THEN [b EXCEPT !.cache = With(@, k, e)] ELSE b

\* bcmd_l3_neigh_add: a neighbour that is cached is left alone, whatever its
\* MAC; one whose host exists already is cached all the same.
NeighAdd(b, n, mac) ==
  IF n \in DOMAIN b.cache THEN b
  ELSE IF FreeEgr(b) = {} THEN Ensure(b, n[1])
  ELSE LET e == Min(FreeEgr(b))
           c == [Ensure(b, n[1]) EXCEPT !.egr = With(@, e, [nbr |-> n, mac |-> mac])]
       IN  Remember(AddHost(c, n[2], e), n, e)

\* Mutant of NeighDel: the host stays.
NeighDelKeepsHost(b, n) ==
  IF n \notin DOMAIN b.cache THEN b
  ELSE DestroyEgr([b EXCEPT !.cache = Without(@, n)], b.cache[n])

\* bcmd_l3_neigh_del: the host of the ip goes, whichever port it was for.
NeighDel(b, n) ==
  IF n \notin DOMAIN b.cache THEN b
  ELSE DestroyEgr([b EXCEPT !.cache = Without(@, n), !.host = Without(@, n[2])], b.cache[n])

\* bcmd_l3_local_ip, after bcmd_l3_intf_ensure for a front port.
LocalAdd(b, o) ==
  LET c == IF o[1] = Lo THEN b ELSE Ensure(b, o[1])
  IN  IF <<Local, o[2]>> \in DOMAIN c.cache \/ o[2] \in DOMAIN c.host THEN c
      ELSE Remember(AddHost(c, o[2], ToCpu), <<Local, o[2]>>, ToCpu)

\* Mutant of LocalDel: the address stays in the cache.
LocalDelFinds(b, o) ==
  IF <<Local, o[2]>> \notin DOMAIN b.cache THEN b
  ELSE [b EXCEPT !.host = Without(@, o[2])]

\* bcmd_l3_local_ip_del.
LocalDel(b, o) ==
  IF <<Local, o[2]>> \notin DOMAIN b.cache THEN b
  ELSE [b EXCEPT !.cache = Without(@, <<Local, o[2]>>), !.host = Without(@, o[2])]

\* bcmd_l3_connected_add: the glean object, which cannot be created before
\* there is an L3 interface, then the interface of the port.
RouteConnected(b, p, port) ==
  IF p \in V6 \/ (b.glean = NoId /\ (b.intf = {} \/ FreeEgr(b) = {})) THEN b
  ELSE LET c == IF b.glean # NoId THEN b
                ELSE LET e == Min(FreeEgr(b))
                     IN  [b EXCEPT !.glean = e, !.egr = With(@, e, Glean)]
       IN  AddRoute(Ensure(c, port), p, c.glean)

\* bcmd_l3_route_add: a gateway that is not resolved is left to a re-dump.
RouteVia(b, p, n) == IF n \in DOMAIN b.cache THEN AddRoute(b, p, b.cache[n]) ELSE b

\* bcmd_l3_route_add_ecmp: a group of the gateways that are resolved, at
\* least two, whether or not the route exists already.
RouteMultipath(b, p, gws) ==
  LET known == gws \cap DOMAIN b.cache
  IN  IF Cardinality(known) < 2 \/ FreeGroup(b) = {} THEN b
      ELSE LET g == Min(FreeGroup(b))
           IN  AddRoute([b EXCEPT !.group = With(@, g, [n \in known |-> b.cache[n]])], p, g)

\* Mutant of RouteDel: the entry is not found without BCM_L3_IP6.
RouteDelOnly4(b, p) == IF p \in V6 THEN b ELSE [b EXCEPT !.route = Without(@, p)]

\* bcmd_l3_route_del: the group of a route stays.
RouteDel(b, p) == [b EXCEPT !.route = Without(@, p)]

\* The neighbours behind a route of the chip, {<<>>} for a connected one.
Behind(b, p) ==
  LET e == b.route[p]
  IN  IF e \in GroupIds THEN DOMAIN b.group[e] ELSE {b.egr[e].nbr}
=============================================================================
