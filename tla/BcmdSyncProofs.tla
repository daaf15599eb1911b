--------------------------- MODULE BcmdSyncProofs ---------------------------
(***************************************************************************)
(* What BcmdSync keeps for every set of neighbours, own addresses and      *)
(* prefixes, every number of egress and ECMP objects, every size of the    *)
(* socket's buffer, and caches that have room for all.                     *)
(***************************************************************************)
EXTENDS BcmdSync, SequenceTheorems, FiniteSetTheorems,
        WellFoundedInduction, TLAPS

-----------------------------------------------------------------------------
(* bcmd's cache and the objects of the SDK.                                *)

LocalKey(o) == <<Local, o[2]>>
CacheKeys == Nbr \cup {LocalKey(o) : o \in Own}

\* bcmd_nh and bcmd_nh6 have room for every neighbour and every own address.
CacheSuffices ==
  \A k \in CacheKeys :
    LET S == {j \in CacheKeys : j[2] \in V6 <=> k[2] \in V6}
    IN  IsFiniteSet(S) /\ Cardinality(S) <= NhMax

FibFields(b) ==
  b = [cache |-> b.cache, intf |-> b.intf, glean |-> b.glean, egr |-> b.egr,
       group |-> b.group, host |-> b.host, route |-> b.route]

\* A cached neighbour has an egress object of its own; a host of the chip is a
\* neighbour that is cached or an own address that is; no route is on an object
\* that is gone.
NbrCached(b) ==
  /\ DOMAIN b.cache \subseteq CacheKeys /\ DOMAIN b.egr \subseteq EgrIds
  /\ \A n \in DOMAIN b.cache \cap Nbr :
       b.cache[n] \in DOMAIN b.egr /\ b.egr[b.cache[n]].nbr = n

HostCached(b) ==
  \A ip \in DOMAIN b.host :
    \/ b.host[ip] = ToCpu /\ <<Local, ip>> \in DOMAIN b.cache
    \/ \E n \in DOMAIN b.cache \cap Nbr : n[2] = ip /\ b.cache[n] = b.host[ip]

RouteKept(b) ==
  /\ \A p \in DOMAIN b.route : b.route[p] \in DOMAIN b.egr \cup DOMAIN b.group
  /\ b.glean # NoId => b.glean \in DOMAIN b.egr /\ b.egr[b.glean] = Glean

FibOK(b) == FibFields(b) /\ NbrCached(b) /\ HostCached(b) /\ RouteKept(b)

\* A set of naturals that is not empty has a least element.
LEMMA LeastOfNats ==
  ASSUME NEW T, T \subseteq Nat, T # {}
  PROVE  Min(T) \in T
<1> DEFINE R == OpToRel(<, Nat)
<1>1. \E x \in T : \A y \in T : ~ (<<y, x>> \in R)
  BY NatLessThanWellFounded, WFMin, Zenon
<1>2. \A x, y \in T : <<y, x>> \in R <=> y < x
  BY DEF OpToRel
<1> HIDE DEF R
<1>3. PICK x \in T : \A y \in T : ~ (y < x)
  BY <1>1, <1>2, Zenon
<1>4. \A y \in T : x <= y
  BY <1>3
<1> QED
  BY <1>4 DEF Min

LEMMA FreeIds ==
  ASSUME NEW b
  PROVE  /\ FreeEgr(b) # {} => Min(FreeEgr(b)) \in EgrIds \ DOMAIN b.egr
         /\ FreeGroup(b) # {} => Min(FreeGroup(b)) \in GroupIds \ DOMAIN b.group
         /\ 0 \notin EgrIds
<1>1. FreeEgr(b) \subseteq Nat /\ FreeGroup(b) \subseteq Nat
  BY BcmdAssumption DEF FreeEgr, FreeGroup, EgrIds, GroupIds
<1> QED
  BY <1>1, LeastOfNats DEF FreeEgr, FreeGroup, EgrIds

LEMMA KeysApart ==
  /\ \A n \in Nbr \cup Own : n = <<n[1], n[2]>> /\ n[1] \in Nat /\ n # <<>>
  /\ \A ip : <<Local, ip>> \notin Nbr \cup Own
  /\ Own \cap Nbr = {} /\ Dst \cap Nbr = {} /\ Dst \cap Own = {}
<1>1. \A n \in Nbr \cup Own : n = <<n[1], n[2]>> /\ n[1] \in Nat
  BY BcmdSyncAssumption
<1>2. \A n \in Nbr \cup Own : n # <<>>
  BY <1>1
<1>3. ASSUME NEW ip, <<Local, ip>> \in Nbr \cup Own PROVE FALSE
  BY <1>1, <1>3 DEF Local
<1> QED
  BY <1>1, <1>2, <1>3, BcmdSyncAssumption

\* While a key is not cached there is a record for it.
LEMMA RoomLeft ==
  ASSUME CacheSuffices, NEW b, DOMAIN b.cache \subseteq CacheKeys,
         NEW k \in CacheKeys \ DOMAIN b.cache
  PROVE  Slots(b, k[2]) > 0
<1> DEFINE S == {j \in CacheKeys : j[2] \in V6 <=> k[2] \in V6}
           D == {j \in DOMAIN b.cache : j[2] \in V6 <=> k[2] \in V6}
<1>1. IsFiniteSet(S) /\ Cardinality(S) <= NhMax
  BY DEF CacheSuffices
<1>2. D \in SUBSET (S \ {k}) /\ k \in S /\ S \ {k} \in SUBSET S
  OBVIOUS
<1>3. Slots(b, k[2]) = NhMax - Cardinality(D)
  BY DEF Slots
<1> HIDE DEF S, D
<1>4. IsFiniteSet(S \ {k}) /\ Cardinality(S \ {k}) = Cardinality(S) - 1
  BY <1>1, <1>2, FS_RemoveElement
<1>5. IsFiniteSet(D) /\ Cardinality(D) <= Cardinality(S \ {k})
  BY <1>2, <1>4, FS_Subset
<1>6. Cardinality(S) \in Nat /\ Cardinality(D) \in Nat /\ NhMax \in Nat
  BY <1>1, <1>5, FS_CardinalityType, BcmdAssumption
<1> QED
  BY <1>1, <1>3, <1>4, <1>5, <1>6

\* What bcmd_l3_neigh_add changes.
LEMMA NeighAdds ==
  ASSUME CacheSuffices, NEW b, FibOK(b), NEW n \in Nbr, NEW mac, NEW c, c = NeighAdd(b, n, mac)
  PROVE  \/ /\ FibFields(c) /\ c.cache = b.cache /\ c.egr = b.egr /\ c.host = b.host
            /\ c.route = b.route /\ c.group = b.group /\ c.glean = b.glean
         \/ \E e \in EgrIds \ DOMAIN b.egr :
              /\ n \notin DOMAIN b.cache
              /\ FibFields(c) /\ c.cache = With(b.cache, n, e)
              /\ c.egr = With(b.egr, e, [nbr |-> n, mac |-> mac])
              /\ c.host = IF n[2] \in DOMAIN b.host THEN b.host ELSE With(b.host, n[2], e)
              /\ c.route = b.route /\ c.group = b.group /\ c.glean = b.glean
<1>0. FibFields(b) /\ DOMAIN b.cache \subseteq CacheKeys
  BY DEF FibOK, NbrCached
<1>1. CASE n \in DOMAIN b.cache
  BY <1>0, <1>1 DEF NeighAdd
<1>2. CASE n \notin DOMAIN b.cache /\ FreeEgr(b) = {}
  <2>1. c = Ensure(b, n[1])
    BY <1>2 DEF NeighAdd
  <2> QED
    BY <1>0, <2>1 DEF Ensure, FibFields
<1>3. CASE n \notin DOMAIN b.cache /\ FreeEgr(b) # {}
  <2> DEFINE e == Min(FreeEgr(b))
             u == [Ensure(b, n[1]) EXCEPT !.egr = With(@, e, [nbr |-> n, mac |-> mac])]
             h == AddHost(u, n[2], e)
  <2>1. e \in EgrIds \ DOMAIN b.egr
    BY <1>3, FreeIds
  <2>2. c = Remember(h, n, e)
    BY <1>3 DEF NeighAdd
  <2> HIDE DEF e
  <2>3. /\ FibFields(u) /\ u.cache = b.cache /\ u.host = b.host
        /\ u.route = b.route /\ u.group = b.group /\ u.glean = b.glean
        /\ u.egr = With(b.egr, e, [nbr |-> n, mac |-> mac])
    <3> DEFINE w == Ensure(b, n[1])
    <3>1. /\ FibFields(w) /\ w.cache = b.cache /\ w.host = b.host /\ w.egr = b.egr
          /\ w.route = b.route /\ w.group = b.group /\ w.glean = b.glean
      BY <1>0 DEF Ensure, FibFields
    <3> HIDE DEF w
    <3>2. u = [w EXCEPT !.egr = With(@, e, [nbr |-> n, mac |-> mac])]
      BY DEF w
    <3> HIDE DEF u
    <3> QED
      BY <3>1, <3>2 DEF FibFields
  <2> HIDE DEF u
  <2>4. /\ FibFields(h) /\ h.cache = b.cache
        /\ h.host = IF n[2] \in DOMAIN b.host THEN b.host ELSE With(b.host, n[2], e)
        /\ h.route = b.route /\ h.group = b.group /\ h.glean = b.glean
        /\ h.egr = With(b.egr, e, [nbr |-> n, mac |-> mac])
    BY <2>3 DEF AddHost, FibFields
  <2> HIDE DEF h
  <2>5. Slots(h, n[2]) > 0
    <3>1. n \in CacheKeys \ DOMAIN h.cache /\ DOMAIN h.cache \subseteq CacheKeys
      BY <1>0, <1>3, <2>4 DEF CacheKeys
    <3> QED
      BY <3>1, RoomLeft
  <2>6. c = [h EXCEPT !.cache = With(@, n, e)]
    BY <2>2, <2>5 DEF Remember
  <2>7. /\ FibFields(c) /\ c.cache = With(b.cache, n, e) /\ c.egr = h.egr
        /\ c.host = h.host /\ c.route = h.route /\ c.group = h.group /\ c.glean = h.glean
    BY <2>4, <2>6 DEF FibFields
  <2> QED
    BY <1>3, <2>1, <2>4, <2>7
<1> QED
  BY <1>1, <1>2, <1>3

\* What is as it was but for the interfaces is in order.
LEMMA SameFib ==
  ASSUME NEW b, FibOK(b), NEW c, FibFields(c), c.cache = b.cache, c.egr = b.egr,
         c.host = b.host, c.route = b.route, c.group = b.group, c.glean = b.glean
  PROVE  FibOK(c)
BY DEF FibOK, NbrCached, HostCached, RouteKept

LEMMA NeighAddOK ==
  ASSUME CacheSuffices, NEW b, FibOK(b), NEW n \in Nbr, NEW mac, NEW c, c = NeighAdd(b, n, mac)
  PROVE  /\ FibOK(c) /\ c.route = b.route
         /\ DOMAIN b.cache \subseteq DOMAIN c.cache
         /\ DOMAIN c.cache \subseteq DOMAIN b.cache \cup {n}
         /\ \A ip \in DOMAIN b.host : ip \in DOMAIN c.host /\ c.host[ip] = b.host[ip]
<1>1. CASE /\ FibFields(c) /\ c.cache = b.cache /\ c.egr = b.egr /\ c.host = b.host
           /\ c.route = b.route /\ c.group = b.group /\ c.glean = b.glean
  BY <1>1, SameFib
<1>2. ASSUME NEW e \in EgrIds \ DOMAIN b.egr,
             n \notin DOMAIN b.cache, FibFields(c), c.cache = With(b.cache, n, e),
             c.egr = With(b.egr, e, [nbr |-> n, mac |-> mac]),
             c.host = (IF n[2] \in DOMAIN b.host THEN b.host ELSE With(b.host, n[2], e)),
             c.route = b.route, c.group = b.group, c.glean = b.glean
      PROVE  /\ FibOK(c) /\ c.route = b.route
             /\ DOMAIN b.cache \subseteq DOMAIN c.cache
             /\ DOMAIN c.cache \subseteq DOMAIN b.cache \cup {n}
             /\ \A ip \in DOMAIN b.host : ip \in DOMAIN c.host /\ c.host[ip] = b.host[ip]
  <2>1. /\ DOMAIN c.cache = DOMAIN b.cache \cup {n} /\ c.cache[n] = e
        /\ \A k \in DOMAIN b.cache : c.cache[k] = b.cache[k]
    BY <1>2 DEF With
  <2>2. /\ DOMAIN c.egr = DOMAIN b.egr \cup {e} /\ c.egr[e].nbr = n
        /\ \A i \in DOMAIN b.egr : c.egr[i] = b.egr[i]
    <3>1. c.egr[e] = [nbr |-> n, mac |-> mac]
      BY <1>2 DEF With
    <3> QED
      BY <1>2, <3>1 DEF With
  <2>3. NbrCached(c)
    BY <1>2, <2>1, <2>2 DEF FibOK, NbrCached, CacheKeys
  <2>4. RouteKept(c)
    BY <1>2, <2>2 DEF FibOK, RouteKept
  <2>5. ASSUME NEW ip \in DOMAIN b.host
        PROVE  \/ b.host[ip] = ToCpu /\ <<Local, ip>> \in DOMAIN c.cache
               \/ \E k \in DOMAIN c.cache \cap Nbr : k[2] = ip /\ c.cache[k] = b.host[ip]
    BY <2>1 DEF FibOK, HostCached
  <2>6. CASE n[2] \in DOMAIN b.host
    BY <1>2, <2>1, <2>3, <2>4, <2>5, <2>6 DEF FibOK, HostCached
  <2>7. CASE n[2] \notin DOMAIN b.host
    <3>1. /\ DOMAIN c.host = DOMAIN b.host \cup {n[2]} /\ c.host[n[2]] = e
          /\ \A ip \in DOMAIN b.host : c.host[ip] = b.host[ip]
      BY <1>2, <2>7 DEF With
    <3>2. HostCached(c)
      BY <2>1, <2>5, <3>1 DEF HostCached
    <3> QED
      BY <1>2, <2>1, <2>3, <2>4, <3>1, <3>2 DEF FibOK
  <2> QED
    BY <2>6, <2>7
<1>3. \/ /\ FibFields(c) /\ c.cache = b.cache /\ c.egr = b.egr /\ c.host = b.host
         /\ c.route = b.route /\ c.group = b.group /\ c.glean = b.glean
      \/ \E e \in EgrIds \ DOMAIN b.egr :
           /\ n \notin DOMAIN b.cache
           /\ FibFields(c) /\ c.cache = With(b.cache, n, e)
           /\ c.egr = With(b.egr, e, [nbr |-> n, mac |-> mac])
           /\ c.host = IF n[2] \in DOMAIN b.host THEN b.host ELSE With(b.host, n[2], e)
           /\ c.route = b.route /\ c.group = b.group /\ c.glean = b.glean
  BY NeighAdds
<1> QED
  BY <1>1, <1>2, <1>3, Zenon

\* Destroying the object of a neighbour that is no longer cached.
LEMMA DestroyOK ==
  ASSUME NEW b, FibFields(b), NbrCached(b), HostCached(b), RouteKept(b),
         NEW e, NEW n \in Nbr, e \in DOMAIN b.egr, b.egr[e].nbr = n, n \notin DOMAIN b.cache,
         NEW c, c = DestroyEgr(b, e)
  PROVE  FibOK(c) /\ c.cache = b.cache /\ c.host = b.host /\ c.route = b.route
<1>1. CASE InUse(b, e)
  BY <1>1 DEF DestroyEgr, FibOK
<1>2. CASE ~InUse(b, e)
  <2>1. c = [b EXCEPT !.egr = Without(@, e)]
    BY <1>2 DEF DestroyEgr
  <2>2. /\ FibFields(c) /\ c.cache = b.cache /\ c.host = b.host /\ c.route = b.route
        /\ c.group = b.group /\ c.glean = b.glean /\ c.egr = Without(b.egr, e)
    BY <2>1 DEF FibFields
  <2>3. /\ DOMAIN c.egr = DOMAIN b.egr \ {e}
        /\ \A i \in DOMAIN b.egr \ {e} : c.egr[i] = b.egr[i]
    BY <2>2 DEF Without, Restrict
  <2>4. \A p \in DOMAIN b.route : b.route[p] # e
    BY <1>2 DEF InUse, Range
  <2>5. \A k \in DOMAIN b.cache \cap Nbr : b.cache[k] # e
    BY DEF NbrCached
  <2>6. b.glean # NoId => b.glean # e
    <3>1. n # <<>>
      BY KeysApart
    <3> QED
      BY <3>1 DEF RouteKept, Glean
  <2>7. NbrCached(c)
    BY <2>2, <2>3, <2>5 DEF NbrCached
  <2>8. HostCached(c)
    BY <2>2 DEF HostCached
  <2>9. RouteKept(c)
    BY <2>2, <2>3, <2>4, <2>6 DEF RouteKept
  <2> QED
    BY <2>2, <2>7, <2>8, <2>9 DEF FibOK
<1> QED
  BY <1>1, <1>2

LEMMA NeighDelOK ==
  ASSUME NEW b, FibOK(b), NEW n \in Nbr, NEW c, c = NeighDel(b, n)
  PROVE  /\ FibOK(c) /\ c.route = b.route /\ DOMAIN c.cache = DOMAIN b.cache \ {n}
         /\ \A ip \in DOMAIN b.host : ip # n[2] => ip \in DOMAIN c.host /\ c.host[ip] = b.host[ip]
<1>1. CASE n \notin DOMAIN b.cache
  BY <1>1 DEF NeighDel
<1>2. CASE n \in DOMAIN b.cache
  <2> DEFINE e == b.cache[n]
             u == [b EXCEPT !.cache = Without(@, n), !.host = Without(@, n[2])]
  <2>0. FibFields(b) /\ NbrCached(b) /\ HostCached(b) /\ RouteKept(b)
    BY DEF FibOK
  <2>1. c = DestroyEgr(u, e)
    BY <1>2 DEF NeighDel
  <2>2. e \in DOMAIN b.egr /\ b.egr[e].nbr = n
    BY <1>2, <2>0 DEF NbrCached
  <2>3. /\ FibFields(u) /\ u.cache = Without(b.cache, n) /\ u.host = Without(b.host, n[2])
        /\ u.route = b.route /\ u.group = b.group /\ u.glean = b.glean /\ u.egr = b.egr
    <3>1. u = [b EXCEPT !.cache = Without(@, n), !.host = Without(@, n[2])]
      OBVIOUS
    <3> HIDE DEF u
    <3> QED
      BY <2>0, <3>1 DEF FibFields
  <2> HIDE DEF u, e
  <2>4. /\ DOMAIN u.cache = DOMAIN b.cache \ {n}
        /\ \A k \in DOMAIN b.cache \ {n} : u.cache[k] = b.cache[k]
    BY <2>3 DEF Without, Restrict
  <2>5. /\ DOMAIN u.host = DOMAIN b.host \ {n[2]}
        /\ \A ip \in DOMAIN b.host \ {n[2]} : u.host[ip] = b.host[ip]
    BY <2>3 DEF Without, Restrict
  <2>6. NbrCached(u)
    BY <2>0, <2>3, <2>4 DEF NbrCached
  <2>7. HostCached(u)
    <3>1. ASSUME NEW ip \in DOMAIN u.host
          PROVE  \/ u.host[ip] = ToCpu /\ <<Local, ip>> \in DOMAIN u.cache
                 \/ \E k \in DOMAIN u.cache \cap Nbr : k[2] = ip /\ u.cache[k] = u.host[ip]
      <4>1. ip \in DOMAIN b.host /\ ip # n[2] /\ u.host[ip] = b.host[ip] /\ <<Local, ip>> # n
        BY <2>5, KeysApart
      <4>2. CASE b.host[ip] = ToCpu /\ <<Local, ip>> \in DOMAIN b.cache
        BY <2>4, <4>1, <4>2
      <4>3. CASE \E k \in DOMAIN b.cache \cap Nbr : k[2] = ip /\ b.cache[k] = b.host[ip]
        BY <2>4, <4>1, <4>3
      <4> QED
        BY <2>0, <4>1, <4>2, <4>3 DEF HostCached
    <3> QED
      BY <3>1 DEF HostCached
  <2>8. RouteKept(u)
    BY <2>0, <2>3 DEF RouteKept
  <2>9. FibOK(c) /\ c.cache = u.cache /\ c.host = u.host /\ c.route = u.route
    BY <2>1, <2>2, <2>3, <2>4, <2>6, <2>7, <2>8, DestroyOK
  <2> QED
    BY <2>3, <2>4, <2>5, <2>9
<1> QED
  BY <1>1, <1>2

\* No own address is that of another port or of a neighbour.
OwnApart ==
  /\ \A o, p \in Own : o[2] = p[2] => o = p
  /\ \A o \in Own, n \in Nbr : o[2] # n[2]

\* An own address that is cached is punted.
LocalPunted(b) ==
  \A o \in Own : LocalKey(o) \in DOMAIN b.cache =>
                 o[2] \in DOMAIN b.host /\ b.host[o[2]] = ToCpu

LEMMA LocalAddOK ==
  ASSUME CacheSuffices, NEW b, FibOK(b), NEW o \in Own, NEW c, c = LocalAdd(b, o)
  PROVE  /\ FibOK(c) /\ c.route = b.route
         /\ DOMAIN b.cache \subseteq DOMAIN c.cache
         /\ DOMAIN c.cache \subseteq DOMAIN b.cache \cup {LocalKey(o)}
         /\ o[2] \notin DOMAIN b.host => LocalKey(o) \in DOMAIN c.cache
         /\ \A ip \in DOMAIN b.host : ip \in DOMAIN c.host /\ c.host[ip] = b.host[ip]
         /\ LocalKey(o) \in DOMAIN c.cache \ DOMAIN b.cache =>
              o[2] \in DOMAIN c.host /\ c.host[o[2]] = ToCpu
<1> DEFINE k == LocalKey(o)
           u == IF o[1] = Lo THEN b ELSE Ensure(b, o[1])
<1>0. FibFields(b) /\ NbrCached(b) /\ HostCached(b) /\ RouteKept(b)
  BY DEF FibOK
<1>1. /\ FibFields(u) /\ u.cache = b.cache /\ u.host = b.host /\ u.egr = b.egr
      /\ u.route = b.route /\ u.group = b.group /\ u.glean = b.glean
  BY <1>0 DEF Ensure, FibFields
<1>2. c = IF k \in DOMAIN u.cache \/ o[2] \in DOMAIN u.host THEN u
          ELSE Remember(AddHost(u, o[2], ToCpu), k, ToCpu)
  BY DEF LocalAdd, LocalKey
<1>3. k \in CacheKeys /\ k[2] = o[2] /\ k \notin Nbr
  BY KeysApart DEF CacheKeys, LocalKey
<1> HIDE DEF u
<1>4. FibOK(u)
  BY <1>1, SameFib
<1>5. CASE k \in DOMAIN u.cache \/ o[2] \in DOMAIN u.host
  <2>1. c = u
    BY <1>2, <1>5
  <2> QED
    BY <1>1, <1>4, <1>5, <2>1
<1>6. CASE k \notin DOMAIN u.cache /\ o[2] \notin DOMAIN u.host
  <2> DEFINE h == AddHost(u, o[2], ToCpu)
  <2>1. c = Remember(h, k, ToCpu)
    BY <1>2, <1>6
  <2>2. /\ FibFields(h) /\ h.cache = b.cache /\ h.host = With(b.host, o[2], ToCpu)
        /\ h.egr = b.egr /\ h.route = b.route /\ h.group = b.group /\ h.glean = b.glean
    BY <1>1, <1>6 DEF AddHost, FibFields
  <2> HIDE DEF h, k
  <2>3. Slots(h, k[2]) > 0
    BY <1>0, <1>1, <1>3, <1>6, <2>2, RoomLeft DEF NbrCached
  <2>4. c = [h EXCEPT !.cache = With(@, k, ToCpu)]
    BY <2>1, <2>3 DEF Remember
  <2>5. /\ FibFields(c) /\ c.cache = With(b.cache, k, ToCpu) /\ c.host = With(b.host, o[2], ToCpu)
        /\ c.egr = b.egr /\ c.route = b.route /\ c.group = b.group /\ c.glean = b.glean
    BY <2>2, <2>4 DEF FibFields
  <2>6. /\ DOMAIN c.cache = DOMAIN b.cache \cup {k}
        /\ \A j \in DOMAIN b.cache : j # k => c.cache[j] = b.cache[j]
    BY <2>5 DEF With
  <2>7. /\ DOMAIN c.host = DOMAIN b.host \cup {o[2]} /\ c.host[o[2]] = ToCpu
        /\ \A ip \in DOMAIN b.host : c.host[ip] = b.host[ip]
    BY <1>1, <1>6, <2>5 DEF With
  <2>8. NbrCached(c)
    BY <1>0, <1>3, <2>5, <2>6 DEF NbrCached
  <2>9. HostCached(c)
    <3>1. <<Local, o[2]>> \in DOMAIN c.cache
      BY <2>6 DEF k, LocalKey
    <3>2. ASSUME NEW ip \in DOMAIN b.host
          PROVE  \/ c.host[ip] = ToCpu /\ <<Local, ip>> \in DOMAIN c.cache
                 \/ \E j \in DOMAIN c.cache \cap Nbr : j[2] = ip /\ c.cache[j] = c.host[ip]
      BY <1>0, <1>3, <2>6, <2>7 DEF HostCached
    <3> QED
      BY <2>7, <3>1, <3>2 DEF HostCached
  <2>10. RouteKept(c)
    BY <1>0, <2>5 DEF RouteKept
  <2> QED
    BY <2>5, <2>6, <2>7, <2>8, <2>9, <2>10 DEF FibOK, k
<1> QED
  BY <1>5, <1>6

LEMMA LocalDelOK ==
  ASSUME NEW b, FibOK(b), NEW o \in Own, NEW c, c = LocalDel(b, o)
  PROVE  /\ FibOK(c) /\ c.route = b.route /\ DOMAIN c.cache = DOMAIN b.cache \ {LocalKey(o)}
         /\ \A ip \in DOMAIN b.host : ip # o[2] => ip \in DOMAIN c.host /\ c.host[ip] = b.host[ip]
<1>1. CASE LocalKey(o) \notin DOMAIN b.cache
  BY <1>1 DEF LocalDel, LocalKey
<1>2. CASE LocalKey(o) \in DOMAIN b.cache
  <2> DEFINE k == LocalKey(o)
  <2>0. FibFields(b) /\ NbrCached(b) /\ HostCached(b) /\ RouteKept(b) /\ k \notin Nbr
    BY KeysApart DEF FibOK, LocalKey
  <2>1. c = [b EXCEPT !.cache = Without(@, k), !.host = Without(@, o[2])]
    BY <1>2 DEF LocalDel, LocalKey
  <2> HIDE DEF k
  <2>2. /\ FibFields(c) /\ c.cache = Without(b.cache, k) /\ c.host = Without(b.host, o[2])
        /\ c.route = b.route /\ c.group = b.group /\ c.glean = b.glean /\ c.egr = b.egr
    BY <2>0, <2>1 DEF FibFields
  <2>3. /\ DOMAIN c.cache = DOMAIN b.cache \ {k}
        /\ \A j \in DOMAIN b.cache \ {k} : c.cache[j] = b.cache[j]
    BY <2>2 DEF Without, Restrict
  <2>4. /\ DOMAIN c.host = DOMAIN b.host \ {o[2]}
        /\ \A ip \in DOMAIN b.host \ {o[2]} : c.host[ip] = b.host[ip]
    BY <2>2 DEF Without, Restrict
  <2>5. NbrCached(c)
    BY <2>0, <2>2, <2>3 DEF NbrCached
  <2>6. HostCached(c)
    <3>1. ASSUME NEW ip \in DOMAIN c.host
          PROVE  \/ c.host[ip] = ToCpu /\ <<Local, ip>> \in DOMAIN c.cache
                 \/ \E j \in DOMAIN c.cache \cap Nbr : j[2] = ip /\ c.cache[j] = c.host[ip]
      <4>1. ip \in DOMAIN b.host /\ ip # o[2] /\ c.host[ip] = b.host[ip] /\ <<Local, ip>> # k
        BY <2>4 DEF k, LocalKey
      <4>2. CASE b.host[ip] = ToCpu /\ <<Local, ip>> \in DOMAIN b.cache
        BY <2>3, <4>1, <4>2
      <4>3. CASE \E j \in DOMAIN b.cache \cap Nbr : j[2] = ip /\ b.cache[j] = b.host[ip]
        BY <2>0, <2>3, <4>1, <4>3
      <4> QED
        BY <2>0, <4>1, <4>2, <4>3 DEF HostCached
    <3> QED
      BY <3>1 DEF HostCached
  <2>7. RouteKept(c)
    BY <2>0, <2>2 DEF RouteKept
  <2> QED
    BY <2>2, <2>3, <2>4, <2>5, <2>6, <2>7 DEF FibOK, k
<1> QED
  BY <1>1, <1>2

-----------------------------------------------------------------------------
(* Routes.                                                                 *)

\* What a handler of routes to p that adds nothing else may change.
OnlyRoute(b, c, p) ==
  /\ c.cache = b.cache /\ c.host = b.host
  /\ DOMAIN b.route \subseteq DOMAIN c.route
  /\ DOMAIN c.route \subseteq DOMAIN b.route \cup {p}

LEMMA AddRouteOK ==
  ASSUME NEW b, FibOK(b), NEW p, NEW e \in DOMAIN b.egr \cup DOMAIN b.group,
         NEW c, c = AddRoute(b, p, e)
  PROVE  FibOK(c) /\ OnlyRoute(b, c, p)
<1>1. CASE p \in DOMAIN b.route
  BY <1>1 DEF AddRoute, OnlyRoute
<1>2. CASE p \notin DOMAIN b.route
  <2>1. c = [b EXCEPT !.route = With(@, p, e)]
    BY <1>2 DEF AddRoute
  <2>2. /\ FibFields(c) /\ c.cache = b.cache /\ c.host = b.host /\ c.egr = b.egr
        /\ c.group = b.group /\ c.glean = b.glean /\ c.route = With(b.route, p, e)
    BY <2>1 DEF FibOK, FibFields
  <2>3. /\ DOMAIN c.route = DOMAIN b.route \cup {p} /\ c.route[p] = e
        /\ \A q \in DOMAIN b.route : q # p => c.route[q] = b.route[q]
    BY <2>2 DEF With
  <2>4. RouteKept(c)
    BY <2>2, <2>3 DEF FibOK, RouteKept
  <2>5. NbrCached(c) /\ HostCached(c)
    BY <2>2 DEF FibOK, NbrCached, HostCached
  <2> QED
    BY <2>2, <2>3, <2>4, <2>5 DEF FibOK, OnlyRoute
<1> QED
  BY <1>1, <1>2

LEMMA RouteConnectedOK ==
  ASSUME NEW b, FibOK(b), NEW p, NEW port, NEW c, c = RouteConnected(b, p, port)
  PROVE  FibOK(c) /\ OnlyRoute(b, c, p)
<1>1. CASE p \in V6 \/ (b.glean = NoId /\ (b.intf = {} \/ FreeEgr(b) = {}))
  BY <1>1 DEF RouteConnected, OnlyRoute
<1>2. CASE ~(p \in V6 \/ (b.glean = NoId /\ (b.intf = {} \/ FreeEgr(b) = {})))
  <2> DEFINE e == Min(FreeEgr(b))
             u == IF b.glean # NoId THEN b
                  ELSE [b EXCEPT !.glean = e, !.egr = With(@, e, Glean)]
             w == Ensure(u, port)
  <2>1. c = AddRoute(w, p, u.glean)
    BY <1>2 DEF RouteConnected
  <2>2. /\ FibOK(u) /\ u.cache = b.cache /\ u.host = b.host /\ u.route = b.route
        /\ u.glean \in DOMAIN u.egr
    <3>1. CASE b.glean # NoId
      BY <3>1 DEF FibOK, RouteKept
    <3>2. CASE b.glean = NoId
      <4>1. e \in EgrIds \ DOMAIN b.egr /\ e # NoId
        BY <1>2, <3>2, FreeIds DEF NoId
      <4> HIDE DEF e
      <4>2. u = [b EXCEPT !.glean = e, !.egr = With(@, e, Glean)]
        BY <3>2
      <4> HIDE DEF u
      <4>3. /\ FibFields(u) /\ u.cache = b.cache /\ u.host = b.host /\ u.route = b.route
            /\ u.group = b.group /\ u.glean = e /\ u.egr = With(b.egr, e, Glean)
        BY <4>2 DEF FibOK, FibFields
      <4>4. /\ DOMAIN u.egr = DOMAIN b.egr \cup {e} /\ u.egr[e] = Glean
            /\ \A i \in DOMAIN b.egr : u.egr[i] = b.egr[i]
        BY <4>1, <4>3 DEF With
      <4>5. NbrCached(u)
        BY <4>1, <4>3, <4>4 DEF FibOK, NbrCached
      <4>6. HostCached(u)
        BY <4>3 DEF FibOK, HostCached
      <4>7. RouteKept(u)
        BY <4>3, <4>4 DEF FibOK, RouteKept
      <4> QED
        BY <4>3, <4>4, <4>5, <4>6, <4>7 DEF FibOK
    <3> QED
      BY <3>1, <3>2
  <2> HIDE DEF u
  <2>3. /\ FibFields(w) /\ w.cache = u.cache /\ w.host = u.host /\ w.route = u.route
        /\ w.egr = u.egr /\ w.group = u.group /\ w.glean = u.glean
    BY <2>2 DEF FibOK, FibFields, Ensure
  <2> HIDE DEF w
  <2>4. FibOK(w)
    BY <2>2, <2>3, SameFib
  <2>5. FibOK(c) /\ OnlyRoute(w, c, p)
    BY <2>1, <2>2, <2>3, <2>4, AddRouteOK
  <2> QED
    BY <2>2, <2>3, <2>5 DEF OnlyRoute
<1> QED
  BY <1>1, <1>2

LEMMA RouteViaOK ==
  ASSUME NEW b, FibOK(b), NEW p, NEW n \in Nbr, NEW c, c = RouteVia(b, p, n)
  PROVE  FibOK(c) /\ OnlyRoute(b, c, p)
<1>1. CASE n \notin DOMAIN b.cache
  BY <1>1 DEF RouteVia, OnlyRoute
<1>2. CASE n \in DOMAIN b.cache
  <2>1. c = AddRoute(b, p, b.cache[n]) /\ b.cache[n] \in DOMAIN b.egr
    BY <1>2 DEF RouteVia, FibOK, NbrCached
  <2> QED
    BY <2>1, AddRouteOK
<1> QED
  BY <1>1, <1>2

LEMMA RouteMultipathOK ==
  ASSUME NEW b, FibOK(b), NEW p, NEW gws, NEW c, c = RouteMultipath(b, p, gws)
  PROVE  FibOK(c) /\ OnlyRoute(b, c, p)
<1> DEFINE known == gws \cap DOMAIN b.cache
           g == Min(FreeGroup(b))
           u == [b EXCEPT !.group = With(@, g, [n \in known |-> b.cache[n]])]
<1>1. CASE Cardinality(known) < 2 \/ FreeGroup(b) = {}
  BY <1>1 DEF RouteMultipath, OnlyRoute
<1>2. CASE ~(Cardinality(known) < 2 \/ FreeGroup(b) = {})
  <2>1. c = AddRoute(u, p, g)
    BY <1>2 DEF RouteMultipath
  <2> DEFINE m == [n \in known |-> b.cache[n]]
  <2>2. u = [b EXCEPT !.group = With(@, g, m)]
    OBVIOUS
  <2> HIDE DEF u, g, m
  <2>3. /\ FibFields(u) /\ u.cache = b.cache /\ u.host = b.host /\ u.route = b.route
        /\ u.egr = b.egr /\ u.glean = b.glean /\ u.group = With(b.group, g, m)
    BY <2>2 DEF FibOK, FibFields
  <2>4. DOMAIN u.group = DOMAIN b.group \cup {g}
    BY <2>3 DEF With
  <2>5. NbrCached(u) /\ HostCached(u)
    BY <2>3 DEF FibOK, NbrCached, HostCached
  <2>6. RouteKept(u)
    BY <2>3, <2>4 DEF FibOK, RouteKept
  <2>7. FibOK(c) /\ OnlyRoute(u, c, p)
    BY <2>1, <2>3, <2>4, <2>5, <2>6, AddRouteOK DEF FibOK
  <2> QED
    BY <2>3, <2>7 DEF OnlyRoute
<1> QED
  BY <1>1, <1>2

LEMMA RouteDelOK ==
  ASSUME NEW b, FibOK(b), NEW p, NEW c, c = RouteDel(b, p)
  PROVE  FibOK(c) /\ c.cache = b.cache /\ c.host = b.host /\ DOMAIN c.route = DOMAIN b.route \ {p}
<1>1. /\ FibFields(c) /\ c.cache = b.cache /\ c.host = b.host /\ c.egr = b.egr
      /\ c.group = b.group /\ c.glean = b.glean /\ c.route = Without(b.route, p)
  BY DEF RouteDel, FibOK, FibFields
<1>2. /\ DOMAIN c.route = DOMAIN b.route \ {p}
      /\ \A q \in DOMAIN b.route \ {p} : c.route[q] = b.route[q]
  BY <1>1 DEF Without, Restrict
<1>3. NbrCached(c) /\ HostCached(c)
  BY <1>1 DEF FibOK, NbrCached, HostCached
<1>4. RouteKept(c)
  BY <1>1, <1>2 DEF FibOK, RouteKept
<1> QED
  BY <1>1, <1>2, <1>3, <1>4 DEF FibOK

-----------------------------------------------------------------------------
(* Messages.                                                               *)

Keys == Nbr \cup Own \cup Dst

Message ==
  {Done} \cup {Msg("del", k, {}) : k \in Keys}
         \cup UNION {{Msg("new", k, v) : v \in Values(k)} : k \in Keys}

\* Own addresses of several ports are one if their ip is.
Same(j, k) == j = k \/ (j \in Own /\ k \in Own /\ j[2] = k[2])

\* What bcmd has of key k.
Has(b, k) ==
  IF k \in Dst THEN k \in DOMAIN b.route
  ELSE (IF k \in Own THEN LocalKey(k) ELSE k) \in DOMAIN b.cache

LEMMA MessageKinds ==
  ASSUME NEW m \in Message
  PROVE  \/ m = Done
         \/ m.type = "del" /\ m.key \in Keys /\ m.val = {}
         \/ m.type = "new" /\ m.key \in Keys /\ m.val \in Values(m.key)
BY DEF Message, Msg

LEMMA DoneTells ==
  /\ Done \in Message /\ Done.type = "done" /\ Done.key \notin Keys
  /\ \A k \in Keys : ~Same(Done.key, k)
<1>1. <<>> \notin Keys
  BY KeysApart, BcmdSyncAssumption DEF Keys
<1> QED
  BY <1>1 DEF Message, Done, Msg, Same, Keys

\* bcmd has more after a message only if it is a RTM_NEW about just that, and
\* has not what a RTM_DEL is about.
LEMMA HandleOK ==
  ASSUME CacheSuffices, NEW b, FibOK(b), NEW m \in Message, NEW c, c = Handle(b, m)
  PROVE  /\ FibOK(c)
         /\ \A k \in Keys : Has(c, k) => Has(b, k) \/ (m.type = "new" /\ Same(m.key, k))
         /\ \A k \in Keys : m.type = "del" /\ Same(m.key, k) => ~Has(c, k)
         /\ DOMAIN c.route \subseteq DOMAIN b.route \cup Dst
<1>0. /\ \A ip : <<Local, ip>> \notin Nbr \cup Own
      /\ Own \cap Nbr = {} /\ Dst \cap Nbr = {} /\ Dst \cap Own = {}
  BY KeysApart
<1>1. CASE m = Done
  <2>1. c = b /\ m.type = "done"
    BY <1>1, DoneTells DEF Handle, Keys
  <2> QED
    BY <2>1
<1>2. CASE m # Done /\ m.key \in Own
  <2>0. m.type \in {"new", "del"} /\ m.key \notin Nbr \cup Dst
    BY <1>0, <1>2, MessageKinds
  <2>1. c = IF m.type = "new" THEN LocalAdd(b, m.key) ELSE LocalDel(b, m.key)
    BY <1>2, <2>0 DEF Handle
  <2>2. CASE m.type = "new"
    <3>1. FibOK(c) /\ c.route = b.route /\ DOMAIN c.cache \subseteq DOMAIN b.cache \cup {LocalKey(m.key)}
      BY <1>2, <2>1, <2>2, LocalAddOK
    <3>2. ASSUME NEW k \in Keys, Has(c, k) PROVE Has(b, k) \/ Same(m.key, k)
      <4>1. CASE k \in Own
        BY <1>0, <1>2, <3>1, <3>2, <4>1 DEF Has, Same, LocalKey
      <4>2. CASE k \notin Own
        <5>1. k # LocalKey(m.key) \/ k \in Dst
          BY <1>0, <4>2 DEF Keys, LocalKey
        <5> QED
          BY <3>1, <3>2, <4>2, <5>1 DEF Has
      <4> QED
        BY <4>1, <4>2
    <3> QED
      BY <2>2, <3>1, <3>2
  <2>3. CASE m.type = "del"
    <3>1. FibOK(c) /\ c.route = b.route /\ DOMAIN c.cache = DOMAIN b.cache \ {LocalKey(m.key)}
      BY <1>2, <2>1, <2>3, LocalDelOK
    <3>2. \A k \in Keys : Has(c, k) => Has(b, k)
      BY <3>1 DEF Has
    <3>3. ASSUME NEW k \in Keys, Same(m.key, k) PROVE ~Has(c, k)
      <4>1. k \in Own /\ LocalKey(k) = LocalKey(m.key) /\ k \notin Dst
        BY <1>0, <1>2, <3>3 DEF Same, LocalKey
      <4> QED
        BY <3>1, <4>1 DEF Has
    <3> QED
      BY <2>3, <3>1, <3>2, <3>3
  <2> QED
    BY <2>0, <2>2, <2>3
<1>3. CASE m # Done /\ m.key \in Nbr
  <2>0. m.type \in {"new", "del"} /\ m.key \notin Own \cup Dst
    BY <1>0, <1>3, MessageKinds
  <2>1. c = IF m.type = "del" THEN NeighDel(b, m.key)
            ELSE IF m.val = Failed THEN b ELSE NeighAdd(b, m.key, m.val)
    BY <1>3, <2>0 DEF Handle
  <2>2. CASE m.type = "new"
    <3>1. FibOK(c) /\ c.route = b.route /\ DOMAIN c.cache \subseteq DOMAIN b.cache \cup {m.key}
      BY <1>3, <2>1, <2>2, NeighAddOK
    <3>2. ASSUME NEW k \in Keys, Has(c, k) PROVE Has(b, k) \/ Same(m.key, k)
      <4>1. \A o \in Own : LocalKey(o) # m.key
        BY <1>0, <1>3 DEF LocalKey
      <4> QED
        BY <3>1, <3>2, <4>1 DEF Has, Same
    <3> QED
      BY <2>2, <3>1, <3>2
  <2>3. CASE m.type = "del"
    <3>1. FibOK(c) /\ c.route = b.route /\ DOMAIN c.cache = DOMAIN b.cache \ {m.key}
      BY <1>3, <2>1, <2>3, NeighDelOK
    <3>2. \A k \in Keys : Has(c, k) => Has(b, k)
      BY <3>1 DEF Has
    <3>3. \A k \in Keys : Same(m.key, k) => ~Has(c, k)
      BY <2>0, <3>1 DEF Has, Same
    <3> QED
      BY <2>3, <3>1, <3>2, <3>3
  <2> QED
    BY <2>0, <2>2, <2>3
<1>4. CASE m # Done /\ m.key \in Dst
  <2>0. m.type \in {"new", "del"} /\ m.key \notin Own \cup Nbr
    BY <1>0, <1>4, MessageKinds
  <2>1. c = IF m.type = "del" THEN RouteDel(b, m.key)
            ELSE IF m.val = {} THEN RouteConnected(b, m.key, Connected[m.key])
            ELSE IF Cardinality(m.val) > 1 THEN RouteMultipath(b, m.key, m.val)
            ELSE RouteVia(b, m.key, CHOOSE n \in m.val : TRUE)
    BY <1>4, <2>0 DEF Handle
  <2>2. CASE m.type = "new"
    <3>1. m.val = {} \/ (m.val # {} /\ m.val \subseteq Nbr)
      <4>1. m.val \in Values(m.key)
        BY <2>2, MessageKinds, DoneTells
      <4> QED
        BY <2>0, <4>1 DEF Values, Gateways, Of
    <3>2. FibOK(c) /\ OnlyRoute(b, c, m.key)
      <4>1. CASE m.val = {}
        BY <2>1, <2>2, <4>1, RouteConnectedOK
      <4>2. CASE m.val # {} /\ Cardinality(m.val) > 1
        BY <2>1, <2>2, <4>2, RouteMultipathOK
      <4>3. CASE m.val # {} /\ ~(Cardinality(m.val) > 1)
        <5>1. PICK n : n = CHOOSE x \in m.val : TRUE
          OBVIOUS
        <5>2. n \in Nbr
          BY <3>1, <4>3, <5>1
        <5>3. c = RouteVia(b, m.key, n)
          BY <2>1, <2>2, <4>3, <5>1
        <5> QED
          BY <5>2, <5>3, RouteViaOK
      <4> QED
        BY <4>1, <4>2, <4>3
    <3>3. \A k \in Keys : Has(c, k) => Has(b, k) \/ Same(m.key, k)
      BY <3>2 DEF Has, Same, OnlyRoute
    <3> QED
      BY <1>4, <2>2, <3>2, <3>3 DEF OnlyRoute
  <2>3. CASE m.type = "del"
    <3>1. FibOK(c) /\ c.cache = b.cache /\ DOMAIN c.route = DOMAIN b.route \ {m.key}
      BY <2>1, <2>3, RouteDelOK
    <3>2. \A k \in Keys : Has(c, k) => Has(b, k)
      BY <3>1 DEF Has
    <3>3. \A k \in Keys : Same(m.key, k) => ~Has(c, k)
      BY <1>4, <2>0, <3>1 DEF Has, Same
    <3> QED
      BY <2>3, <3>1, <3>2, <3>3
  <2> QED
    BY <2>0, <2>2, <2>3
<1> QED
  BY <1>1, <1>2, <1>3, <1>4, MessageKinds DEF Keys

\* An own address that bcmd has stays until a RTM_DELADDR, which is not that of
\* another address, and is had after a RTM_NEWADDR, as no neighbour has its host.
LEMMA HandleOwn ==
  ASSUME CacheSuffices, OwnApart, NEW b, FibOK(b), LocalPunted(b), NEW m \in Message,
         NEW c, c = Handle(b, m)
  PROVE  /\ LocalPunted(c)
         /\ \A o \in Own : Has(b, o) => Has(c, o) \/ (m.type = "del" /\ m.key = o)
         /\ \A o \in Own : m.type = "new" /\ m.key = o => Has(c, o)
<1>0. /\ \A ip : <<Local, ip>> \notin Nbr \cup Own
      /\ Own \cap Nbr = {} /\ Dst \cap Nbr = {} /\ Dst \cap Own = {}
      /\ \A o \in Own : LocalKey(o) \notin Nbr
  BY KeysApart DEF LocalKey
<1>a. \A o \in Own : Has(b, o) <=> LocalKey(o) \in DOMAIN b.cache
  BY <1>0 DEF Has
<1>b. \A o \in Own : Has(c, o) <=> LocalKey(o) \in DOMAIN c.cache
  BY <1>0 DEF Has
<1>c. ASSUME DOMAIN b.cache = DOMAIN c.cache, b.host = c.host, m.key \notin Own
      PROVE  /\ LocalPunted(c)
             /\ \A o \in Own : Has(b, o) => Has(c, o) \/ (m.type = "del" /\ m.key = o)
             /\ \A o \in Own : m.type = "new" /\ m.key = o => Has(c, o)
  BY <1>a, <1>b, <1>c DEF LocalPunted
<1>1. CASE m = Done
  <2>1. c = b /\ m.key \notin Own
    BY <1>1, DoneTells DEF Handle, Keys
  <2> QED
    BY <1>c, <2>1
<1>2. CASE m # Done /\ m.key \in Own
  <2>0. m.type \in {"new", "del"} /\ m.key \notin Nbr \cup Dst
    BY <1>0, <1>2, MessageKinds
  <2>1. c = IF m.type = "new" THEN LocalAdd(b, m.key) ELSE LocalDel(b, m.key)
    BY <1>2, <2>0 DEF Handle
  <2>a. \A o \in Own : LocalKey(o) = LocalKey(m.key) => o = m.key
    BY <1>2 DEF LocalKey, OwnApart
  <2>2. CASE m.type = "new"
    <3>1. /\ DOMAIN b.cache \subseteq DOMAIN c.cache
          /\ DOMAIN c.cache \subseteq DOMAIN b.cache \cup {LocalKey(m.key)}
          /\ m.key[2] \notin DOMAIN b.host => LocalKey(m.key) \in DOMAIN c.cache
          /\ \A ip \in DOMAIN b.host : ip \in DOMAIN c.host /\ c.host[ip] = b.host[ip]
          /\ LocalKey(m.key) \in DOMAIN c.cache \ DOMAIN b.cache =>
               m.key[2] \in DOMAIN c.host /\ c.host[m.key[2]] = ToCpu
      BY <1>2, <2>1, <2>2, LocalAddOK
    <3>2. m.key[2] \in DOMAIN b.host => LocalKey(m.key) \in DOMAIN b.cache
      BY <1>2 DEF FibOK, HostCached, LocalKey, OwnApart
    <3>3. LocalPunted(c)
      <4>1. ASSUME NEW o \in Own, LocalKey(o) \in DOMAIN c.cache
            PROVE  o[2] \in DOMAIN c.host /\ c.host[o[2]] = ToCpu
        <5>1. CASE LocalKey(o) \in DOMAIN b.cache
          BY <3>1, <5>1 DEF LocalPunted
        <5>2. CASE LocalKey(o) \notin DOMAIN b.cache
          BY <2>a, <3>1, <4>1, <5>2
        <5> QED
          BY <5>1, <5>2
      <4> QED
        BY <4>1 DEF LocalPunted
    <3>4. LocalKey(m.key) \in DOMAIN c.cache
      BY <3>1, <3>2
    <3> QED
      BY <1>a, <1>b, <3>1, <3>3, <3>4
  <2>3. CASE m.type = "del"
    <3>1. /\ DOMAIN c.cache = DOMAIN b.cache \ {LocalKey(m.key)}
          /\ \A ip \in DOMAIN b.host : ip # m.key[2] => ip \in DOMAIN c.host /\ c.host[ip] = b.host[ip]
      BY <1>2, <2>1, <2>3, LocalDelOK
    <3>2. ASSUME NEW o \in Own, LocalKey(o) \in DOMAIN c.cache
          PROVE  o[2] \in DOMAIN c.host /\ c.host[o[2]] = ToCpu
      <4>1. o # m.key /\ o[2] # m.key[2] /\ LocalKey(o) \in DOMAIN b.cache
        BY <1>2, <3>1, <3>2 DEF OwnApart
      <4> QED
        BY <3>1, <4>1 DEF LocalPunted
    <3>3. LocalPunted(c)
      BY <3>2 DEF LocalPunted
    <3>4. \A o \in Own : Has(b, o) => Has(c, o) \/ m.key = o
      BY <1>a, <1>b, <2>a, <3>1
    <3> QED
      BY <2>3, <3>3, <3>4
  <2> QED
    BY <2>0, <2>2, <2>3
<1>3. CASE m # Done /\ m.key \in Nbr
  <2>0. m.type \in {"new", "del"} /\ m.key \notin Own \cup Dst
    BY <1>0, <1>3, MessageKinds
  <2>1. c = IF m.type = "del" THEN NeighDel(b, m.key)
            ELSE IF m.val = Failed THEN b ELSE NeighAdd(b, m.key, m.val)
    BY <1>3, <2>0 DEF Handle
  <2>2. \A o \in Own : o[2] # m.key[2] /\ LocalKey(o) # m.key
    BY <1>0, <1>3 DEF OwnApart
  <2>3. /\ DOMAIN b.cache \ {m.key} \subseteq DOMAIN c.cache
        /\ DOMAIN c.cache \subseteq DOMAIN b.cache \cup {m.key}
        /\ \A ip \in DOMAIN b.host : ip # m.key[2] => ip \in DOMAIN c.host /\ c.host[ip] = b.host[ip]
    <3>1. CASE c = b
      BY <3>1
    <3>2. CASE c = NeighDel(b, m.key)
      BY <1>3, <3>2, NeighDelOK
    <3>3. CASE c = NeighAdd(b, m.key, m.val)
      BY <1>3, <3>3, NeighAddOK
    <3> QED
      BY <2>1, <3>1, <3>2, <3>3
  <2>4. LocalPunted(c)
    BY <2>2, <2>3 DEF LocalPunted
  <2>5. \A o \in Own : Has(b, o) => Has(c, o)
    BY <1>a, <1>b, <2>2, <2>3
  <2> QED
    BY <2>0, <2>4, <2>5
<1>4. CASE m # Done /\ m.key \in Dst
  <2>0. m.type \in {"new", "del"} /\ m.key \notin Own \cup Nbr
    BY <1>0, <1>4, MessageKinds
  <2>1. c = IF m.type = "del" THEN RouteDel(b, m.key)
            ELSE IF m.val = {} THEN RouteConnected(b, m.key, Connected[m.key])
            ELSE IF Cardinality(m.val) > 1 THEN RouteMultipath(b, m.key, m.val)
            ELSE RouteVia(b, m.key, CHOOSE n \in m.val : TRUE)
    BY <1>4, <2>0 DEF Handle
  <2>2. c.cache = b.cache /\ c.host = b.host
    <3>1. CASE m.type = "del"
      BY <2>1, <3>1, RouteDelOK
    <3>2. CASE m.type = "new" /\ m.val = {}
      BY <2>1, <3>2, RouteConnectedOK DEF OnlyRoute
    <3>3. CASE m.type = "new" /\ m.val # {} /\ Cardinality(m.val) > 1
      BY <2>1, <3>3, RouteMultipathOK DEF OnlyRoute
    <3>4. CASE m.type = "new" /\ m.val # {} /\ ~(Cardinality(m.val) > 1)
      <4>1. PICK n : n = CHOOSE x \in m.val : TRUE
        OBVIOUS
      <4>2. c = RouteVia(b, m.key, n)
        BY <2>1, <3>4, <4>1
      <4> QED
        BY <4>2 DEF RouteVia, AddRoute, FibOK, FibFields
    <3> QED
      BY <2>0, <3>1, <3>2, <3>3, <3>4
  <2> QED
    BY <1>c, <2>0, <2>2
<1> QED
  BY <1>1, <1>2, <1>3, <1>4, MessageKinds DEF Keys

-----------------------------------------------------------------------------
(* The socket's queue.                                                     *)

\* The last message about k in queue q is of type T.
LastIs(q, k, T) ==
  \A i \in 1..Len(q) :
    Same(q[i].key, k) /\ (\A j \in (i + 1)..Len(q) : ~Same(q[j].key, k)) => q[i].type = T

Silent(q, k) == \A i \in 1..Len(q) : ~Same(q[i].key, k)

\* A message about k makes it the last one about k.
LEMMA LastOfAppend ==
  ASSUME NEW q \in Seq(Message), NEW e \in Message, NEW k, NEW T,
         Same(e.key, k) => e.type = T,
         ~Same(e.key, k) => LastIs(q, k, T)
  PROVE  /\ LastIs(Append(q, e), k, T)
         /\ Silent(Append(q, e), k) => Silent(q, k) /\ ~Same(e.key, k)
<1> DEFINE n == Len(q)
           a == Append(q, e)
<1>1. n \in Nat /\ Len(a) = n + 1 /\ a[n + 1] = e /\ \A i \in 1..n : a[i] = q[i]
  OBVIOUS
<1> HIDE DEF n, a
<1>2. ASSUME NEW i \in 1..(n + 1), Same(a[i].key, k),
             \A j \in (i + 1)..(n + 1) : ~Same(a[j].key, k)
      PROVE  a[i].type = T
  <2>1. CASE i = n + 1
    BY <1>1, <1>2, <2>1
  <2>2. CASE i # n + 1
    <3>1. i \in 1..n /\ n + 1 \in (i + 1)..(n + 1) /\ a[i] = q[i]
      BY <1>1, <2>2
    <3>2. ~Same(e.key, k)
      BY <1>1, <1>2, <3>1
    <3>3. \A j \in (i + 1)..n : ~Same(q[j].key, k)
      <4>1. ASSUME NEW j \in (i + 1)..n PROVE ~Same(q[j].key, k)
        <5>1. j \in (i + 1)..(n + 1) /\ j \in 1..n
          BY <1>1, <3>1
        <5> QED
          BY <1>1, <1>2, <5>1
      <4> QED
        BY <4>1
    <3>4. LastIs(q, k, T)
      BY <3>2
    <3> QED
      BY <1>2, <3>1, <3>3, <3>4 DEF LastIs, n
  <2> QED
    BY <2>1, <2>2
<1>3. LastIs(a, k, T)
  BY <1>1, <1>2 DEF LastIs
<1>4. ASSUME Silent(a, k) PROVE Silent(q, k) /\ ~Same(e.key, k)
  <2>1. \A i \in 1..n : i \in 1..(n + 1) /\ a[i] = q[i]
    BY <1>1
  <2>2. n + 1 \in 1..(n + 1)
    BY <1>1
  <2> QED
    BY <1>1, <1>4, <2>1, <2>2 DEF Silent, n
<1> QED
  BY <1>3, <1>4 DEF a

\* The last message about k stays the last one when the first message is read,
\* unless that was it.
LEMMA LastOfTail ==
  ASSUME NEW q \in Seq(Message), q # <<>>, NEW k, NEW T, LastIs(q, k, T)
  PROVE  /\ LastIs(Tail(q), k, T)
         /\ Silent(Tail(q), k) =>
              IF Same(Head(q).key, k) THEN Head(q).type = T ELSE Silent(q, k)
<1> DEFINE n == Len(q)
           t == Tail(q)
<1>1. n \in Nat /\ n >= 1 /\ Len(t) = n - 1 /\ \A i \in 1..(n - 1) : t[i] = q[i + 1]
  OBVIOUS
<1>2. Head(q) = q[1]
  OBVIOUS
<1> HIDE DEF n, t
<1>3. ASSUME NEW i \in 1..(n - 1), Same(t[i].key, k),
             \A j \in (i + 1)..(n - 1) : ~Same(t[j].key, k)
      PROVE  t[i].type = T
  <2>1. i + 1 \in 1..n /\ t[i] = q[i + 1]
    BY <1>1
  <2>2. ASSUME NEW j \in ((i + 1) + 1)..n PROVE ~Same(q[j].key, k)
    <3>1. j - 1 \in (i + 1)..(n - 1) /\ j - 1 \in 1..(n - 1) /\ (j - 1) + 1 = j
      BY <1>1
    <3> QED
      BY <1>1, <1>3, <3>1
  <2> QED
    BY <1>3, <2>1, <2>2 DEF LastIs, n
<1>4. LastIs(t, k, T)
  BY <1>1, <1>3 DEF LastIs
<1>5. ASSUME Silent(t, k) PROVE \A j \in 2..n : ~Same(q[j].key, k)
  <2>1. ASSUME NEW j \in 2..n PROVE ~Same(q[j].key, k)
    <3>1. j - 1 \in 1..(n - 1) /\ (j - 1) + 1 = j
      BY <1>1
    <3> QED
      BY <1>1, <1>5, <3>1 DEF Silent
  <2> QED
    BY <2>1
<1>6. ASSUME Silent(t, k), Same(q[1].key, k) PROVE q[1].type = T
  <2>1. 1 \in 1..n /\ \A j \in (1 + 1)..n : ~Same(q[j].key, k)
    BY <1>1, <1>5, <1>6
  <2> QED
    BY <1>6, <2>1 DEF LastIs, n
<1>7. ASSUME Silent(t, k), ~Same(q[1].key, k) PROVE Silent(q, k)
  <2>1. \A j \in 1..n : j = 1 \/ j \in 2..n
    BY <1>1
  <2> QED
    BY <1>5, <1>7, <2>1 DEF Silent, n
<1> QED
  BY <1>2, <1>4, <1>6, <1>7 DEF t

-----------------------------------------------------------------------------
(* Types, and the cache.                                                   *)

SyncTypeOK ==
  /\ queue \in Seq(Message)
  /\ DOMAIN ktab \subseteq Keys /\ \A k \in DOMAIN ktab : ktab[k] \in Values(k)
  /\ pc \in {"ask", "drain", "loop"}
  /\ asks \in Seq(SUBSET Keys) /\ (pc # "loop" => asks # <<>>)
  /\ dump = NoDump \/ dump \subseteq Keys

SyncIInv == SyncTypeOK /\ FibOK(fib) /\ DOMAIN fib.route \subseteq Dst

\* The dumps of one family.
LEMMA DumpsAre ==
  ASSUME NEW six
  PROVE  /\ Dumps(<<Own, Nbr, Dst>>, six) \in Seq(SUBSET Keys)
         /\ Len(Dumps(<<Own, Nbr, Dst>>, six)) = 3
         /\ Dumps(<<Own, Nbr, Dst>>, six)[1] = Of(Own, six)
         /\ Dumps(<<Nbr, Dst>>, six) \in Seq(SUBSET Keys)
         /\ Len(Dumps(<<Nbr, Dst>>, six)) = 2
<1>1. \A S \in SUBSET Keys : Of(S, six) \in SUBSET Keys
  BY DEF Of
<1>2. Own \in SUBSET Keys /\ Nbr \in SUBSET Keys /\ Dst \in SUBSET Keys
  BY DEF Keys
<1> QED
  BY <1>1, <1>2 DEF Dumps

LEMMA AsksAre ==
  /\ InitDumps \in Seq(SUBSET Keys) /\ InitDumps # <<>>
  /\ Redumps \in Seq(SUBSET Keys) /\ Redumps # <<>>
  /\ \A o \in Own : \E i \in 1..Len(InitDumps) : o \in InitDumps[i]
<1> DEFINE a == Dumps(<<Own, Nbr, Dst>>, FALSE)
           b == Dumps(<<Own, Nbr, Dst>>, TRUE)
           c == Dumps(<<Nbr, Dst>>, FALSE)
           d == Dumps(<<Nbr, Dst>>, TRUE)
<1>1. /\ a \in Seq(SUBSET Keys) /\ Len(a) = 3 /\ a[1] = Of(Own, FALSE)
      /\ b \in Seq(SUBSET Keys) /\ Len(b) = 3 /\ b[1] = Of(Own, TRUE)
      /\ c \in Seq(SUBSET Keys) /\ Len(c) = 2
      /\ d \in Seq(SUBSET Keys) /\ Len(d) = 2
  BY DumpsAre
<1>2. InitDumps = a \o b /\ Redumps = c \o d
  BY DEF InitDumps, Redumps
<1> HIDE DEF a, b, c, d
<1>3. /\ InitDumps \in Seq(SUBSET Keys) /\ Len(InitDumps) = 6
      /\ InitDumps[1] = a[1] /\ InitDumps[4] = b[1]
      /\ Redumps \in Seq(SUBSET Keys) /\ Len(Redumps) = 4
  <2>1. /\ InitDumps \in Seq(SUBSET Keys) /\ Len(InitDumps) = Len(a) + Len(b)
        /\ \A i \in 1..(Len(a) + Len(b)) :
             InitDumps[i] = IF i <= Len(a) THEN a[i] ELSE b[i - Len(a)]
    BY <1>1, <1>2, ConcatProperties
  <2>2. Redumps \in Seq(SUBSET Keys) /\ Len(Redumps) = Len(c) + Len(d)
    BY <1>1, <1>2, ConcatProperties
  <2>3. 1 \in 1..(3 + 3) /\ 4 \in 1..(3 + 3) /\ 3 + 3 = 6 /\ 2 + 2 = 4 /\ 4 - 3 = 1 /\ 1 <= 3 /\ ~(4 <= 3)
    OBVIOUS
  <2> QED
    BY <1>1, <2>1, <2>2, <2>3
<1>4. \A o \in Own : o \in Of(Own, FALSE) \/ o \in Of(Own, TRUE)
  BY DEF Of, Is6
<1>5. \A o \in Own : \E i \in 1..Len(InitDumps) : o \in InitDumps[i]
  <2>1. 1 \in 1..6 /\ 4 \in 1..6
    OBVIOUS
  <2> QED
    BY <1>1, <1>3, <1>4, <2>1
<1>6. Len(<<>>) = 0
  OBVIOUS
<1>7. InitDumps # <<>> /\ Redumps # <<>>
  <2>1. 6 # 0 /\ 4 # 0
    OBVIOUS
  <2>2. Len(InitDumps) # Len(<<>>) /\ Len(Redumps) # Len(<<>>)
    BY <1>3, <1>6, <2>1
  <2> QED
    BY <2>2, Zenon
<1> QED
  BY <1>3, <1>5, <1>7

LEMMA NoDumpIs == \A S \in SUBSET Keys : S # NoDump
<1>1. <<"none">> \notin Keys
  <2>1. ASSUME NEW k \in Nbr \cup Own, k = <<"none">> PROVE FALSE
    BY <2>1, KeysApart
  <2> QED
    BY <2>1, BcmdSyncAssumption DEF Keys
<1> QED
  BY <1>1 DEF NoDump

\* What one recv makes room for.
LEMMA DumpedIs ==
  ASSUME NEW q \in Seq(Message), NEW d, d = NoDump \/ d \subseteq Keys, Dumped(q, d), SyncTypeOK
  PROVE  \/ queue' = q /\ dump' = d
         \/ d # NoDump /\ d \cap DOMAIN ktab = {} /\ queue' = Append(q, Done) /\ dump' = NoDump
         \/ \E k \in d \cap DOMAIN ktab : \E e \in Message :
              /\ e.type = "new" /\ e.key = k /\ queue' = Append(q, e)
              /\ d # NoDump /\ dump' = (d \cap DOMAIN ktab) \ {k}
<1>1. \A k \in DOMAIN ktab : /\ Msg("new", k, ktab[k]) \in Message
                             /\ Msg("new", k, ktab[k]).type = "new"
                             /\ Msg("new", k, ktab[k]).key = k
  BY DEF SyncTypeOK, Message, Msg
<1>2. CASE d = NoDump \/ Len(q) = QueueMax
  BY <1>2 DEF Dumped
<1>3. CASE ~(d = NoDump \/ Len(q) = QueueMax) /\ d \cap DOMAIN ktab = {}
  BY <1>3 DEF Dumped
<1>4. CASE ~(d = NoDump \/ Len(q) = QueueMax) /\ d \cap DOMAIN ktab # {}
  <2>1. \E k \in d \cap DOMAIN ktab :
           queue' = Append(q, Msg("new", k, ktab[k])) /\ dump' = (d \cap DOMAIN ktab) \ {k}
    BY <1>4 DEF Dumped
  <2> QED
    BY <1>1, <1>4, <2>1
<1> QED
  BY <1>2, <1>3, <1>4

LEMMA DumpedTypes ==
  ASSUME NEW q \in Seq(Message), NEW d, d = NoDump \/ d \subseteq Keys, Dumped(q, d), SyncTypeOK
  PROVE  queue' \in Seq(Message) /\ (dump' = NoDump \/ dump' \subseteq Keys)
<1>1. \A e \in Message : Append(q, e) \in Seq(Message)
  OBVIOUS
<1> QED
  BY <1>1, DumpedIs, DoneTells

LEMMA SyncInit == Init => SyncIInv
<1> SUFFICES ASSUME Init PROVE SyncIInv
  OBVIOUS
<1>a. PICK K \in SUBSET (Nbr \cup Own \cup Dst) :
        \E mac \in [K \cap Nbr -> Macs] :
        \E gws \in [(K \cap Dst) \ DOMAIN Connected -> SUBSET Nbr] :
          /\ \A p \in K \cap Dst : Supported(p, K)
          /\ \A p \in DOMAIN gws : gws[p] \in Gateways(p)
          /\ ktab = [k \in K |-> IF k \in Nbr THEN mac[k]
                                 ELSE IF k \in DOMAIN gws THEN gws[k] ELSE {}]
  BY Zenon DEF Init
<1>b. PICK mac \in [K \cap Nbr -> Macs] :
        \E gws \in [(K \cap Dst) \ DOMAIN Connected -> SUBSET Nbr] :
          /\ \A p \in K \cap Dst : Supported(p, K)
          /\ \A p \in DOMAIN gws : gws[p] \in Gateways(p)
          /\ ktab = [k \in K |-> IF k \in Nbr THEN mac[k]
                                 ELSE IF k \in DOMAIN gws THEN gws[k] ELSE {}]
  BY <1>a
<1>1. PICK gws \in [(K \cap Dst) \ DOMAIN Connected -> SUBSET Nbr] :
        /\ \A p \in DOMAIN gws : gws[p] \in Gateways(p)
        /\ ktab = [k \in K |-> IF k \in Nbr THEN mac[k]
                               ELSE IF k \in DOMAIN gws THEN gws[k] ELSE {}]
  BY <1>b
<1>2. DOMAIN ktab \subseteq Keys
  BY <1>1 DEF Keys
<1>3. ASSUME NEW k \in DOMAIN ktab PROVE ktab[k] \in Values(k)
  <2>1. k \in K /\ Dst \cap (Nbr \cup Own) = {}
    BY <1>1, KeysApart
  <2>2. CASE k \in Nbr
    BY <1>1, <2>1, <2>2 DEF Values
  <2>3. CASE k \in DOMAIN gws
    BY <1>1, <2>1, <2>3 DEF Values
  <2>4. CASE k \notin Nbr /\ k \notin DOMAIN gws
    BY <1>1, <2>1, <2>4 DEF Values
  <2> QED
    BY <2>2, <2>3, <2>4
<1>4. queue = <<>> /\ dump = NoDump /\ pc = "ask" /\ asks = InitDumps /\ fib = BcmdInit
  BY DEF Init
<1>5. SyncTypeOK
  <2>1. <<>> \in Seq(Message)
    OBVIOUS
  <2> QED
    BY <1>2, <1>3, <1>4, <2>1, AsksAre DEF SyncTypeOK
<1>6. FibOK(fib) /\ DOMAIN fib.route = {}
  <2>1. DOMAIN <<>> = {}
    OBVIOUS
  <2>2. /\ FibFields(fib) /\ DOMAIN fib.cache = {} /\ DOMAIN fib.egr = {} /\ DOMAIN fib.host = {}
        /\ DOMAIN fib.route = {} /\ fib.glean = NoId
    BY <1>4, <2>1 DEF BcmdInit, FibFields
  <2> QED
    BY <2>2 DEF FibOK, NbrCached, HostCached, RouteKept
<1> QED
  BY <1>5, <1>6 DEF SyncIInv

LEMMA ReceiveTypes ==
  ASSUME CacheSuffices, SyncIInv, Receive
  PROVE  /\ queue \in Seq(Message) /\ queue # <<>> /\ Head(queue) \in Message
         /\ Tail(queue) \in Seq(Message) /\ Dumped(Tail(queue), dump) /\ fib' = Handle(fib, Head(queue))
         /\ queue' \in Seq(Message) /\ (dump' = NoDump \/ dump' \subseteq Keys)
         /\ FibOK(fib') /\ DOMAIN fib'.route \subseteq Dst
<1>1. queue \in Seq(Message) /\ queue # <<>> /\ Dumped(Tail(queue), dump) /\ fib' = Handle(fib, Head(queue))
  BY DEF Receive, SyncIInv, SyncTypeOK
<1>2. Head(queue) \in Message /\ Tail(queue) \in Seq(Message)
  BY <1>1
<1>3. queue' \in Seq(Message) /\ (dump' = NoDump \/ dump' \subseteq Keys)
  BY <1>1, <1>2, DumpedTypes DEF SyncIInv, SyncTypeOK
<1>4. FibOK(fib') /\ DOMAIN fib'.route \subseteq DOMAIN fib.route \cup Dst
  BY <1>1, <1>2, HandleOK DEF SyncIInv
<1> QED
  BY <1>1, <1>2, <1>3, <1>4 DEF SyncIInv

LEMMA PostIs ==
  ASSUME NEW m \in Message, Post(m)
  PROVE  \/ queue' = Append(queue, m) /\ UNCHANGED <<congested, overrun, lost>>
         \/ queue' = queue /\ lost'
BY DEF Post

LEMMA SyncStep == CacheSuffices /\ SyncIInv /\ [Next]_vars => SyncIInv'
<1> SUFFICES ASSUME CacheSuffices, SyncIInv, [Next]_vars PROVE SyncIInv'
  OBVIOUS
<1>0. SyncTypeOK /\ FibOK(fib) /\ DOMAIN fib.route \subseteq Dst
  BY DEF SyncIInv
<1>a. \A m \in Message : Append(queue, m) \in Seq(Message)
  BY <1>0 DEF SyncTypeOK
<1>1. ASSUME NEW k \in Keys, NEW v \in Values(k), KernelSet(k, v) PROVE SyncIInv'
  <2>1. Msg("new", k, v) \in Message
    BY DEF Message
  <2>2. /\ ktab' = With(ktab, k, v) /\ Post(Msg("new", k, v))
        /\ UNCHANGED <<dump, pc, asks, fib>>
    BY <1>1 DEF KernelSet, Change, bcmdVars
  <2>3. queue' \in Seq(Message)
    BY <1>0, <1>a, <2>1, <2>2, PostIs DEF SyncTypeOK
  <2>4. DOMAIN ktab' \subseteq Keys /\ \A j \in DOMAIN ktab' : ktab'[j] \in Values(j)
    BY <1>0, <2>2 DEF SyncTypeOK, With
  <2> QED
    BY <1>0, <2>2, <2>3, <2>4 DEF SyncIInv, SyncTypeOK
<1>2. ASSUME NEW k \in Keys, KernelDel(k) PROVE SyncIInv'
  <2>1. Msg("del", k, {}) \in Message
    BY DEF Message
  <2>2. /\ ktab' = Without(ktab, k) /\ Post(Msg("del", k, {}))
        /\ UNCHANGED <<dump, pc, asks, fib>>
    BY <1>2 DEF KernelDel, Change, bcmdVars
  <2>3. queue' \in Seq(Message)
    BY <1>0, <1>a, <2>1, <2>2, PostIs DEF SyncTypeOK
  <2>4. DOMAIN ktab' \subseteq Keys /\ \A j \in DOMAIN ktab' : ktab'[j] \in Values(j)
    BY <1>0, <2>2 DEF SyncTypeOK, Without, Restrict
  <2> QED
    BY <1>0, <2>2, <2>3, <2>4 DEF SyncIInv, SyncTypeOK
<1>3. CASE Ask
  <2>1. UNCHANGED <<ktab, asks, fib>> /\ pc = "ask" /\ pc' = "drain"
    BY <1>3 DEF Ask, kernelVars
  <2>2. asks \in Seq(SUBSET Keys) /\ asks # <<>> /\ Head(asks) \subseteq Keys
    BY <1>0, <2>1 DEF SyncTypeOK
  <2>3. queue' \in Seq(Message) /\ (dump' = NoDump \/ dump' \subseteq Keys)
    <3>1. CASE dump = NoDump
      <4>1. Dumped(queue, Head(asks))
        BY <1>3, <3>1 DEF Ask
      <4> QED
        BY <1>0, <2>2, <4>1, DumpedTypes DEF SyncTypeOK
    <3>2. CASE dump # NoDump
      <4>1. Post(Done) /\ UNCHANGED dump
        BY <1>3, <3>2 DEF Ask
      <4> QED
        BY <1>0, <1>a, <4>1, PostIs, DoneTells DEF SyncTypeOK
    <3> QED
      BY <3>1, <3>2
  <2> QED
    BY <1>0, <2>1, <2>2, <2>3 DEF SyncIInv, SyncTypeOK
<1>4. ASSUME Receive \/ ReceiveError
      PROVE  /\ queue' \in Seq(Message) /\ (dump' = NoDump \/ dump' \subseteq Keys)
             /\ FibOK(fib') /\ DOMAIN fib'.route \subseteq Dst
  <2>1. CASE Receive
    BY <2>1, ReceiveTypes
  <2>2. CASE ReceiveError
    BY <1>0, <2>2 DEF ReceiveError, SyncTypeOK
  <2> QED
    BY <1>4, <2>1, <2>2
<1>5. CASE Drain
  <2>1. /\ Receive \/ ReceiveError
        /\ ktab' = ktab /\ pc = "drain"
        /\ \/ asks' = Tail(asks) /\ pc' = (IF Tail(asks) = <<>> THEN "loop" ELSE "ask")
           \/ UNCHANGED <<pc, asks>>
    BY <1>5 DEF Drain, kernelVars
  <2>2. asks \in Seq(SUBSET Keys) /\ asks # <<>> /\ Tail(asks) \in Seq(SUBSET Keys)
    BY <1>0, <2>1 DEF SyncTypeOK
  <2>3. asks' \in Seq(SUBSET Keys) /\ pc' \in {"ask", "drain", "loop"} /\ (pc' # "loop" => asks' # <<>>)
    BY <2>1, <2>2
  <2> QED
    BY <1>0, <1>4, <2>1, <2>3 DEF SyncIInv, SyncTypeOK
<1>6. CASE Turn
  <2>1. /\ ktab' = ktab /\ pc = "loop"
        /\ \/ pc' = "ask" /\ asks' = Redumps
           \/ UNCHANGED <<pc, asks>>
        /\ \/ Receive \/ ReceiveError
           \/ UNCHANGED <<queue, dump, fib>>
    BY <1>6 DEF Turn, kernelVars, socketVars
  <2>2. asks' \in Seq(SUBSET Keys) /\ pc' \in {"ask", "drain", "loop"} /\ (pc' # "loop" => asks' # <<>>)
    BY <1>0, <2>1, AsksAre DEF SyncTypeOK
  <2> QED
    BY <1>0, <1>4, <2>1, <2>2 DEF SyncIInv, SyncTypeOK
<1>7. CASE UNCHANGED vars
  BY <1>0, <1>7 DEF SyncIInv, SyncTypeOK, vars, kernelVars, socketVars, bcmdVars
<1> QED
  BY <1>1, <1>2, <1>3, <1>5, <1>6, <1>7 DEF Next, Keys

\* If there is a record for every neighbour and every own address, each neighbour
\* that is cached has an egress object of its own, each host of the chip can be
\* found by the next deletion, and no route is on an object that is gone:
\* bcm_l3_egress_destroy is not asked to destroy what a cached neighbour has.
THEOREM CacheIsTrue ==
  ASSUME CacheSuffices
  PROVE  Spec => []CacheTrue
<1>1. SyncIInv => CacheTrue
  <2> SUFFICES ASSUME SyncIInv PROVE CacheTrue
    OBVIOUS
  <2>1. NbrCached(fib) /\ HostCached(fib) /\ RouteKept(fib)
    BY DEF SyncIInv, FibOK
  <2>2. Range(fib.route) \subseteq DOMAIN fib.egr \cup DOMAIN fib.group
    BY <2>1 DEF RouteKept, Range
  <2>3. \A n \in DOMAIN fib.cache \cap Nbr :
          fib.cache[n] \in DOMAIN fib.egr /\ fib.egr[fib.cache[n]].nbr = n
    BY <2>1 DEF NbrCached
  <2> QED
    BY <2>1, <2>2, <2>3, Zenon DEF CacheTrue, HostCached
<1>2. SyncIInv /\ [Next]_vars => SyncIInv'
  BY SyncStep
<1> QED
  BY <1>1, <1>2, SyncInit, PTL DEF Spec

-----------------------------------------------------------------------------
(* Deletions.                                                              *)

\* The kernel has neither k nor, if it is an own address, its ip elsewhere.
Gone(k) == \A j \in DOMAIN ktab : ~Same(j, k)

\* The last that the socket tells of what is gone is that it is gone, and bcmd
\* has nothing of it once the socket is silent.
NothingLeft ==
  ~lost => \A k \in Keys : Gone(k) =>
    LastIs(queue, k, "del") /\ (Silent(queue, k) => ~Has(fib, k))

\* A part of a dump is not about what is gone.
LEMMA DumpSpares ==
  ASSUME SyncTypeOK, NEW q \in Seq(Message), NEW d, d = NoDump \/ d \subseteq Keys, Dumped(q, d),
         NEW k \in Keys, Gone(k), LastIs(q, k, "del")
  PROVE  LastIs(queue', k, "del") /\ (Silent(queue', k) => Silent(q, k))
<1>1. CASE queue' = q
  BY <1>1
<1>2. ASSUME NEW e \in Message, ~Same(e.key, k), queue' = Append(q, e)
      PROVE  LastIs(queue', k, "del") /\ (Silent(queue', k) => Silent(q, k))
  BY <1>2, LastOfAppend
<1>3. \/ queue' = q
      \/ queue' = Append(q, Done)
      \/ \E j \in DOMAIN ktab : \E e \in Message : e.key = j /\ queue' = Append(q, e)
  BY DumpedIs
<1>4. CASE queue' = Append(q, Done)
  BY <1>2, <1>4, DoneTells
<1>5. ASSUME NEW j \in DOMAIN ktab, NEW e \in Message, e.key = j, queue' = Append(q, e)
      PROVE  LastIs(queue', k, "del") /\ (Silent(queue', k) => Silent(q, k))
  <2>1. ~Same(e.key, k)
    BY <1>5 DEF Gone
  <2> QED
    BY <1>2, <1>5, <2>1
<1> QED
  BY <1>1, <1>3, <1>4, <1>5

LEMMA ReceiveForgets ==
  ASSUME CacheSuffices, SyncIInv, Receive, NEW k \in Keys, Gone(k),
         LastIs(queue, k, "del"), Silent(queue, k) => ~Has(fib, k)
  PROVE  LastIs(queue', k, "del") /\ (Silent(queue', k) => ~Has(fib', k))
<1> DEFINE m == Head(queue)
           t == Tail(queue)
<1>1. /\ queue \in Seq(Message) /\ queue # <<>> /\ m \in Message /\ t \in Seq(Message)
      /\ Dumped(t, dump) /\ fib' = Handle(fib, m)
  BY ReceiveTypes
<1>2. /\ LastIs(t, k, "del")
      /\ Silent(t, k) => IF Same(m.key, k) THEN m.type = "del" ELSE Silent(queue, k)
  BY <1>1, LastOfTail
<1> HIDE DEF m, t
<1>3. LastIs(queue', k, "del") /\ (Silent(queue', k) => Silent(t, k))
  BY <1>1, <1>2, DumpSpares DEF SyncIInv, SyncTypeOK
<1>4. /\ Has(fib', k) => Has(fib, k) \/ (m.type = "new" /\ Same(m.key, k))
      /\ m.type = "del" /\ Same(m.key, k) => ~Has(fib', k)
  BY <1>1, HandleOK DEF SyncIInv
<1> QED
  BY <1>2, <1>3, <1>4

LEMMA LeftStep ==
  CacheSuffices /\ SyncIInv /\ NothingLeft /\ [Next]_vars => NothingLeft'
<1> SUFFICES ASSUME CacheSuffices, SyncIInv, NothingLeft, [Next]_vars,
                    ~lost', NEW k \in Keys, Gone(k)'
             PROVE  LastIs(queue', k, "del") /\ (Silent(queue', k) => ~Has(fib', k))
  BY DEF NothingLeft, Keys
<1>0. SyncTypeOK /\ queue \in Seq(Message)
  BY DEF SyncIInv, SyncTypeOK
<1>1. ASSUME NEW j \in Keys, NEW v \in Values(j), KernelSet(j, v)
      PROVE  LastIs(queue', k, "del") /\ (Silent(queue', k) => ~Has(fib', k))
  <2>1. Msg("new", j, v) \in Message /\ Msg("new", j, v).key = j
    BY DEF Message, Msg
  <2>2. ktab' = With(ktab, j, v) /\ Post(Msg("new", j, v)) /\ fib' = fib
    BY <1>1 DEF KernelSet, Change, bcmdVars
  <2>3. queue' = Append(queue, Msg("new", j, v)) /\ ~lost
    BY <2>1, <2>2, PostIs
  <2>4. Gone(k) /\ ~Same(j, k)
    BY <2>2 DEF Gone, With
  <2>5. LastIs(queue, k, "del") /\ (Silent(queue, k) => ~Has(fib, k))
    BY <2>3, <2>4 DEF NothingLeft
  <2> QED
    BY <1>0, <2>1, <2>2, <2>3, <2>4, <2>5, LastOfAppend
<1>2. ASSUME NEW j \in Keys, KernelDel(j)
      PROVE  LastIs(queue', k, "del") /\ (Silent(queue', k) => ~Has(fib', k))
  <2>1. /\ Msg("del", j, {}) \in Message /\ Msg("del", j, {}).key = j
        /\ Msg("del", j, {}).type = "del"
    BY DEF Message, Msg
  <2>2. ktab' = Without(ktab, j) /\ Post(Msg("del", j, {})) /\ fib' = fib
    BY <1>2 DEF KernelDel, Change, bcmdVars
  <2>3. queue' = Append(queue, Msg("del", j, {})) /\ ~lost
    BY <2>1, <2>2, PostIs
  <2>4. ~Same(j, k) => Gone(k)
    BY <2>2 DEF Gone, Without, Restrict
  <2>5. ~Same(j, k) => LastIs(queue, k, "del") /\ (Silent(queue, k) => ~Has(fib, k))
    BY <2>3, <2>4 DEF NothingLeft
  <2> QED
    BY <1>0, <2>1, <2>2, <2>3, <2>5, LastOfAppend
<1>3. ASSUME ktab' = ktab, ~lost
      PROVE  /\ Gone(k) /\ LastIs(queue, k, "del") /\ (Silent(queue, k) => ~Has(fib, k))
             /\ Receive => LastIs(queue', k, "del") /\ (Silent(queue', k) => ~Has(fib', k))
             /\ queue' = queue /\ fib' = fib =>
                  LastIs(queue', k, "del") /\ (Silent(queue', k) => ~Has(fib', k))
  <2>1. Gone(k)
    BY <1>3 DEF Gone
  <2>2. LastIs(queue, k, "del") /\ (Silent(queue, k) => ~Has(fib, k))
    BY <1>3, <2>1 DEF NothingLeft
  <2>3. Receive => LastIs(queue', k, "del") /\ (Silent(queue', k) => ~Has(fib', k))
    BY <2>1, <2>2, ReceiveForgets
  <2> QED
    BY <2>1, <2>2, <2>3
<1>4. CASE Ask
  <2>1. UNCHANGED <<ktab, asks, fib>> /\ pc = "ask"
    BY <1>4 DEF Ask, kernelVars
  <2>2. asks \in Seq(SUBSET Keys) /\ asks # <<>> /\ Head(asks) \subseteq Keys
    BY <1>0, <2>1 DEF SyncTypeOK
  <2>3. CASE dump = NoDump
    <3>1. Dumped(queue, Head(asks)) /\ ~lost
      BY <1>4, <2>3 DEF Ask
    <3>2. LastIs(queue', k, "del") /\ (Silent(queue', k) => Silent(queue, k))
      BY <1>0, <1>3, <2>1, <2>2, <3>1, DumpSpares
    <3> QED
      BY <1>3, <2>1, <3>1, <3>2
  <2>4. CASE dump # NoDump
    <3>1. Post(Done)
      BY <1>4, <2>4 DEF Ask
    <3>2. queue' = Append(queue, Done) /\ ~lost
      BY <3>1, PostIs, DoneTells
    <3>3. LastIs(queue', k, "del") /\ (Silent(queue', k) => Silent(queue, k))
      BY <1>0, <1>3, <2>1, <3>2, LastOfAppend, DoneTells
    <3> QED
      BY <1>3, <2>1, <3>2, <3>3
  <2> QED
    BY <2>3, <2>4
<1>5. CASE Drain \/ Turn
  <2>1. ktab' = ktab /\ (Receive \/ UNCHANGED <<queue, lost, fib>>)
    BY <1>5 DEF Drain, Turn, ReceiveError, kernelVars, socketVars
  <2>2. ~lost
    BY <2>1 DEF Receive
  <2> QED
    BY <1>3, <2>1, <2>2
<1>6. CASE UNCHANGED vars
  BY <1>3, <1>6 DEF vars, kernelVars, socketVars, bcmdVars
<1> QED
  BY <1>1, <1>2, <1>4, <1>5, <1>6 DEF Next, Keys

\* If there is a record for every neighbour and every own address, nothing
\* outlives its deletion unless an event was dropped: bcmd_nl_dump may hear of
\* what is deleted in the same moment, but only before it hears of the deletion.
THEOREM NothingOutlives ==
  ASSUME CacheSuffices
  PROVE  Spec => []NoneStale
<1>1. Init => NothingLeft
  <2> SUFFICES ASSUME Init, NEW k \in Keys PROVE LastIs(queue, k, "del") /\ ~Has(fib, k)
    BY DEF NothingLeft
  <2>1. queue = <<>> /\ fib = BcmdInit
    BY DEF Init
  <2>2. Len(<<>>) = 0 /\ DOMAIN <<>> = {}
    OBVIOUS
  <2>3. DOMAIN fib.cache = {} /\ DOMAIN fib.route = {}
    BY <2>1, <2>2 DEF BcmdInit
  <2> QED
    BY <2>1, <2>2, <2>3 DEF LastIs, Has
<1>2. SyncIInv /\ NothingLeft => NoneStale
  <2> SUFFICES ASSUME SyncIInv, NothingLeft, Quiet
               PROVE  /\ DOMAIN fib.cache \cap Nbr \subseteq DOMAIN ktab
                      /\ DOMAIN fib.host \subseteq {k[2] : k \in DOMAIN ktab \cap (Nbr \cup Own)}
                      /\ DOMAIN fib.route \subseteq DOMAIN ktab
    BY DEF NoneStale
  <2>0. /\ \A ip : <<Local, ip>> \notin Nbr \cup Own
        /\ Own \cap Nbr = {} /\ Dst \cap Nbr = {} /\ Dst \cap Own = {}
    BY KeysApart
  <2>1. \A k \in Keys : Gone(k) => ~Has(fib, k)
    <3>1. queue = <<>> /\ ~lost
      BY DEF Quiet
    <3>2. Len(<<>>) = 0
      OBVIOUS
    <3>3. \A k \in Keys : Silent(queue, k)
      BY <3>1, <3>2 DEF Silent
    <3> QED
      BY <3>1, <3>3 DEF NothingLeft
  <2>2. DOMAIN fib.cache \cap Nbr \subseteq DOMAIN ktab
    <3>1. ASSUME NEW n \in DOMAIN fib.cache \cap Nbr, n \notin DOMAIN ktab PROVE FALSE
      <4>1. n \in Keys /\ Has(fib, n) /\ n \notin Own
        BY <2>0 DEF Keys, Has
      <4>2. Gone(n)
        BY <3>1, <4>1 DEF Gone, Same
      <4> QED
        BY <2>1, <4>1, <4>2
    <3> QED
      BY <3>1
  <2>3. DOMAIN fib.route \subseteq DOMAIN ktab
    <3>1. ASSUME NEW p \in DOMAIN fib.route, p \notin DOMAIN ktab PROVE FALSE
      <4>1. p \in Keys /\ Has(fib, p) /\ p \notin Own
        BY <2>0 DEF Keys, Has, SyncIInv
      <4>2. Gone(p)
        BY <3>1, <4>1 DEF Gone, Same
      <4> QED
        BY <2>1, <4>1, <4>2
    <3> QED
      BY <3>1
  <2>4. ASSUME NEW ip \in DOMAIN fib.host
        PROVE  \E k \in DOMAIN ktab \cap (Nbr \cup Own) : k[2] = ip
    <3>1. CASE <<Local, ip>> \in DOMAIN fib.cache
      <4>1. PICK o \in Own : o[2] = ip
        <5>1. <<Local, ip>> \in CacheKeys
          BY <3>1 DEF SyncIInv, FibOK, NbrCached
        <5> QED
          BY <2>0, <5>1 DEF CacheKeys, LocalKey
      <4>2. o \in Keys /\ Has(fib, o)
        BY <2>0, <3>1, <4>1 DEF Keys, Has, LocalKey
      <4>3. PICK j \in DOMAIN ktab : Same(j, o)
        BY <2>1, <4>2 DEF Gone
      <4> QED
        BY <4>1, <4>3 DEF Same
    <3>2. CASE \E n \in DOMAIN fib.cache \cap Nbr : n[2] = ip
      BY <2>2, <3>2
    <3> QED
      BY <3>1, <3>2 DEF SyncIInv, FibOK, HostCached
  <2> QED
    BY <2>2, <2>3, <2>4
<1>3. SyncIInv /\ [Next]_vars => SyncIInv'
  BY SyncStep
<1>4. SyncIInv /\ NothingLeft /\ [Next]_vars => NothingLeft'
  BY LeftStep
<1> QED
  BY <1>1, <1>2, <1>3, <1>4, SyncInit, PTL DEF Spec

-----------------------------------------------------------------------------
(* Own addresses.                                                          *)

NoDone(q) == \A i \in 1..Len(q) : q[i].type # "done"

OneDone(q) ==
  \E i \in 1..Len(q) :
    q[i].type = "done" /\ \A j \in 1..Len(q) : j # i => q[j].type # "done"

\* While nothing is lost a dump that is awaited is either in flight or has its
\* NLMSG_DONE in the socket, and no other dump has.
OneDump ==
  ~lost =>
    /\ ~overrun
    /\ pc # "drain" => dump = NoDump /\ NoDone(queue)
    /\ pc = "drain" => \/ dump # NoDump /\ NoDone(queue)
                       \/ dump = NoDump /\ OneDone(queue)

LEMMA DoneAppended ==
  ASSUME NEW q \in Seq(Message), NEW e \in Message
  PROVE  /\ NoDone(q) /\ e.type # "done" => NoDone(Append(q, e))
         /\ NoDone(q) /\ e.type = "done" => OneDone(Append(q, e))
         /\ OneDone(q) /\ e.type # "done" => OneDone(Append(q, e))
<1> DEFINE n == Len(q)
           a == Append(q, e)
<1>1. n \in Nat /\ Len(a) = n + 1 /\ a[n + 1] = e /\ \A i \in 1..n : a[i] = q[i]
  OBVIOUS
<1> HIDE DEF n, a
<1>2. \A i \in 1..(n + 1) : i = n + 1 \/ i \in 1..n
  BY <1>1
<1>3. \A i \in 1..n : i \in 1..(n + 1) /\ i # n + 1
  BY <1>1
<1>4. n + 1 \in 1..(n + 1)
  BY <1>1
<1>5. ASSUME NoDone(q), e.type # "done" PROVE NoDone(a)
  <2>1. ASSUME NEW i \in 1..(n + 1) PROVE a[i].type # "done"
    BY <1>1, <1>2, <1>5, <2>1 DEF NoDone, n
  <2> QED
    BY <1>1, <2>1 DEF NoDone
<1>6. ASSUME NoDone(q), e.type = "done" PROVE OneDone(a)
  <2>1. ASSUME NEW j \in 1..(n + 1), j # n + 1 PROVE a[j].type # "done"
    BY <1>1, <1>2, <1>6, <2>1 DEF NoDone, n
  <2> QED
    BY <1>1, <1>4, <1>6, <2>1 DEF OneDone
<1>7. ASSUME OneDone(q), e.type # "done" PROVE OneDone(a)
  <2>1. PICK i \in 1..n : q[i].type = "done" /\ \A j \in 1..n : j # i => q[j].type # "done"
    BY <1>7 DEF OneDone, n
  <2>2. ASSUME NEW j \in 1..(n + 1), j # i PROVE a[j].type # "done"
    BY <1>1, <1>2, <1>7, <2>1, <2>2
  <2>3. i \in 1..(n + 1) /\ a[i].type = "done"
    BY <1>1, <1>3, <2>1
  <2> QED
    BY <1>1, <2>2, <2>3 DEF OneDone
<1> QED
  BY <1>5, <1>6, <1>7 DEF a

LEMMA DoneRead ==
  ASSUME NEW q \in Seq(Message), q # <<>>
  PROVE  /\ NoDone(q) => Head(q).type # "done" /\ NoDone(Tail(q))
         /\ OneDone(q) /\ Head(q).type = "done" => NoDone(Tail(q))
         /\ OneDone(q) /\ Head(q).type # "done" => OneDone(Tail(q))
<1> DEFINE n == Len(q)
           t == Tail(q)
<1>1. /\ n \in Nat /\ n >= 1 /\ Len(t) = n - 1 /\ \A i \in 1..(n - 1) : t[i] = q[i + 1]
      /\ Head(q) = q[1]
  OBVIOUS
<1> HIDE DEF n, t
<1>2. \A i \in 1..(n - 1) : i + 1 \in 1..n /\ i + 1 # 1
  BY <1>1
<1>3. 1 \in 1..n
  BY <1>1
<1>4. ASSUME NoDone(q) PROVE q[1].type # "done" /\ NoDone(t)
  <2>1. ASSUME NEW i \in 1..(n - 1) PROVE t[i].type # "done"
    BY <1>1, <1>2, <1>4 DEF NoDone, n
  <2> QED
    BY <1>1, <1>3, <1>4, <2>1 DEF NoDone, n
<1>5. ASSUME OneDone(q), q[1].type = "done" PROVE NoDone(t)
  <2>1. PICK i \in 1..n : q[i].type = "done" /\ \A j \in 1..n : j # i => q[j].type # "done"
    BY <1>5 DEF OneDone, n
  <2>2. i = 1
    BY <1>3, <1>5, <2>1
  <2>3. ASSUME NEW j \in 1..(n - 1) PROVE t[j].type # "done"
    BY <1>1, <1>2, <2>1, <2>2
  <2> QED
    BY <1>1, <2>3 DEF NoDone
<1>6. ASSUME OneDone(q), q[1].type # "done" PROVE OneDone(t)
  <2>1. PICK i \in 1..n : q[i].type = "done" /\ \A j \in 1..n : j # i => q[j].type # "done"
    BY <1>6 DEF OneDone, n
  <2>2. i # 1
    BY <1>6, <2>1
  <2>3. i - 1 \in 1..(n - 1) /\ (i - 1) + 1 = i
    BY <1>1, <2>2
  <2>4. t[i - 1].type = "done"
    BY <1>1, <2>1, <2>3
  <2>5. ASSUME NEW j \in 1..(n - 1), j # i - 1 PROVE t[j].type # "done"
    <3>1. j + 1 # i
      BY <2>5
    <3> QED
      BY <1>1, <1>2, <2>1, <3>1
  <2> QED
    BY <1>1, <2>3, <2>4, <2>5 DEF OneDone
<1> QED
  BY <1>1, <1>4, <1>5, <1>6 DEF t

\* A dump that goes on adds its NLMSG_DONE only as it ends.
LEMMA DumpEnds ==
  ASSUME SyncTypeOK, NEW q \in Seq(Message), NEW d, d = NoDump \/ d \subseteq Keys, Dumped(q, d)
  PROVE  /\ d = NoDump => dump' = NoDump /\ queue' = q
         /\ d # NoDump /\ NoDone(q) => \/ dump' # NoDump /\ NoDone(queue')
                                       \/ dump' = NoDump /\ OneDone(queue')
<1>1. CASE queue' = q /\ dump' = d
  BY <1>1
<1>2. CASE d # NoDump /\ queue' = Append(q, Done) /\ dump' = NoDump
  BY <1>2, DoneAppended, DoneTells
<1>3. ASSUME NEW k \in d \cap DOMAIN ktab, NEW e \in Message, e.type = "new",
             queue' = Append(q, e), d # NoDump, dump' = (d \cap DOMAIN ktab) \ {k}
      PROVE  dump' # NoDump /\ (NoDone(q) => NoDone(queue'))
  <2>1. dump' \in SUBSET Keys
    BY <1>3 DEF SyncTypeOK
  <2>2. "new" # "done"
    OBVIOUS
  <2> QED
    BY <1>3, <2>1, <2>2, DoneAppended, NoDumpIs
<1>4. d = NoDump => d \cap DOMAIN ktab = {}
  <2>1. <<"none">> \notin Keys
    BY NoDumpIs DEF NoDump
  <2> QED
    BY <2>1 DEF NoDump, SyncTypeOK
<1> QED
  BY <1>1, <1>2, <1>3, <1>4, DumpedIs

LEMMA OneDumpStep ==
  CacheSuffices /\ SyncIInv /\ OneDump /\ [Next]_vars => OneDump'
<1> SUFFICES ASSUME CacheSuffices, SyncIInv, OneDump, [Next]_vars, ~lost'
             PROVE  /\ ~overrun'
                    /\ pc' # "drain" => dump' = NoDump /\ NoDone(queue')
                    /\ pc' = "drain" => \/ dump' # NoDump /\ NoDone(queue')
                                        \/ dump' = NoDump /\ OneDone(queue')
  BY DEF OneDump
<1>0. SyncTypeOK /\ queue \in Seq(Message) /\ (dump = NoDump \/ dump \subseteq Keys)
  BY DEF SyncIInv, SyncTypeOK
<1>1. ASSUME NEW e \in Message, e.type # "done", Post(e), UNCHANGED <<pc, dump>>
      PROVE  OneDump'
  <2>1. queue' = Append(queue, e) /\ ~lost /\ overrun' = overrun
    BY <1>1, PostIs
  <2> QED
    BY <1>0, <1>1, <2>1, DoneAppended DEF OneDump
<1>2. ASSUME NEW k \in Keys, NEW v \in Values(k), KernelSet(k, v) PROVE OneDump'
  <2>1. Msg("new", k, v) \in Message /\ Msg("new", k, v).type # "done"
    BY DEF Message, Msg
  <2> QED
    BY <1>1, <1>2, <2>1 DEF KernelSet, Change, bcmdVars
<1>3. ASSUME NEW k \in Keys, KernelDel(k) PROVE OneDump'
  <2>1. Msg("del", k, {}) \in Message /\ Msg("del", k, {}).type # "done"
    BY DEF Message, Msg
  <2> QED
    BY <1>1, <1>3, <2>1 DEF KernelDel, Change, bcmdVars
<1>4. CASE Ask
  <2>1. pc = "ask" /\ pc' = "drain" /\ ~lost
    BY <1>4, PostIs, DoneTells DEF Ask
  <2>2. dump = NoDump /\ NoDone(queue) /\ ~overrun
    BY <2>1 DEF OneDump
  <2>3. Dumped(queue, Head(asks)) /\ overrun' = overrun
    BY <1>4, <2>2 DEF Ask
  <2>4. Head(asks) \in SUBSET Keys
    BY <1>0, <2>1 DEF SyncTypeOK
  <2>5. \/ dump' # NoDump /\ NoDone(queue')
        \/ dump' = NoDump /\ OneDone(queue')
    BY <1>0, <2>2, <2>3, <2>4, DumpEnds, NoDumpIs
  <2> QED
    BY <2>1, <2>2, <2>3, <2>5
<1>5. CASE Drain
  <2>1. /\ pc = "drain" /\ (Receive \/ ReceiveError)
        /\ IF overrun \/ Head(queue).type = "done" THEN pc' \in {"loop", "ask"} ELSE pc' = pc
    BY <1>5 DEF Drain
  <2>2. ~lost /\ (overrun' = overrun \/ overrun)
    BY <2>1 DEF Receive, ReceiveError
  <2>3. ~lost /\ ~overrun /\ Receive /\ ~overrun'
    <3>1. ~lost
      BY <2>1 DEF Receive, ReceiveError
    <3>2. ~overrun
      BY <3>1 DEF OneDump
    <3> QED
      BY <2>1, <3>1, <3>2 DEF Receive, ReceiveError
  <2>4. /\ queue # <<>> /\ Tail(queue) \in Seq(Message) /\ Dumped(Tail(queue), dump)
    BY <2>3, ReceiveTypes
  <2>5. CASE dump # NoDump /\ NoDone(queue)
    <3>1. Head(queue).type # "done" /\ NoDone(Tail(queue))
      BY <1>0, <2>4, <2>5, DoneRead
    <3>2. \/ dump' # NoDump /\ NoDone(queue')
          \/ dump' = NoDump /\ OneDone(queue')
      BY <1>0, <2>4, <2>5, <3>1, DumpEnds
    <3> QED
      BY <2>1, <2>3, <3>1, <3>2
  <2>6. CASE dump = NoDump /\ OneDone(queue)
    <3>1. dump' = NoDump /\ queue' = Tail(queue)
      BY <1>0, <2>4, <2>6, DumpEnds
    <3>2. IF Head(queue).type = "done" THEN NoDone(queue') ELSE OneDone(queue')
      BY <1>0, <2>4, <2>6, <3>1, DoneRead
    <3> QED
      BY <2>1, <2>3, <3>1, <3>2
  <2> QED
    BY <2>1, <2>3, <2>5, <2>6 DEF OneDump
<1>6. CASE Turn
  <2>1. /\ pc = "loop" /\ pc' \in {"loop", "ask"}
        /\ Receive \/ ReceiveError \/ UNCHANGED <<queue, overrun, dump, lost>>
    BY <1>6 DEF Turn, socketVars
  <2>2. ~lost
    BY <2>1 DEF Receive, ReceiveError
  <2>3. ~overrun /\ dump = NoDump /\ NoDone(queue)
    BY <2>1, <2>2 DEF OneDump
  <2>4. CASE Receive
    <3>1. queue # <<>> /\ Tail(queue) \in Seq(Message) /\ Dumped(Tail(queue), dump)
      BY <2>4, ReceiveTypes
    <3>2. dump' = NoDump /\ queue' = Tail(queue)
      BY <1>0, <2>3, <3>1, DumpEnds
    <3>3. NoDone(queue')
      BY <1>0, <2>3, <3>1, <3>2, DoneRead
    <3> QED
      BY <2>1, <2>3, <2>4, <3>2, <3>3 DEF Receive
  <2>5. CASE UNCHANGED <<queue, overrun, dump, lost>>
    BY <2>1, <2>3, <2>5
  <2> QED
    BY <2>1, <2>3, <2>4, <2>5 DEF ReceiveError
<1>7. CASE UNCHANGED vars
  BY <1>7 DEF vars, socketVars, bcmdVars, OneDump
<1> QED
  BY <1>2, <1>3, <1>4, <1>5, <1>6, <1>7 DEF Next, Keys, OneDump

\* bcmd has yet to ask for o, or the kernel has yet to tell of it.
Coming(o) ==
  \/ pc = "ask" /\ \E i \in 1..Len(asks) : o \in asks[i]
  \/ pc = "drain" /\ \E i \in 2..Len(asks) : o \in asks[i]
  \/ o \in dump

\* The last that the socket tells of o is that it is there, and bcmd has it
\* once the socket is silent.
Told(o) == LastIs(queue, o, "new") /\ (Silent(queue, o) => Has(fib, o))

OwnTold ==
  /\ LocalPunted(fib)
  /\ ~lost => \A o \in DOMAIN ktab \cap Own : Coming(o) \/ Told(o)

LEMMA OwnSame ==
  ASSUME OwnApart, NEW o \in Own, NEW j
  PROVE  Same(j, o) <=> j = o
BY DEF OwnApart, Same

\* A part of a dump only tells of what is there.
LEMMA DumpTells ==
  ASSUME SyncTypeOK, NEW q \in Seq(Message), NEW d, d = NoDump \/ d \subseteq Keys, Dumped(q, d),
         NEW o \in DOMAIN ktab \cap Own
  PROVE  /\ LastIs(q, o, "new") => LastIs(queue', o, "new") /\ (Silent(queue', o) => Silent(q, o))
         /\ o \in d => o \in dump' \/ (LastIs(queue', o, "new") /\ ~Silent(queue', o))
<1>0. o \in Keys
  BY DEF Keys
<1>1. CASE queue' = q /\ dump' = d
  BY <1>1
<1>2. CASE d # NoDump /\ d \cap DOMAIN ktab = {} /\ queue' = Append(q, Done)
  <2>1. LastIs(q, o, "new") => LastIs(queue', o, "new") /\ (Silent(queue', o) => Silent(q, o))
    BY <1>0, <1>2, LastOfAppend, DoneTells
  <2> QED
    BY <1>2, <2>1
<1>3. ASSUME NEW k \in d \cap DOMAIN ktab, NEW e \in Message, e.type = "new", e.key = k,
             queue' = Append(q, e), dump' = (d \cap DOMAIN ktab) \ {k}
      PROVE  /\ LastIs(q, o, "new") => LastIs(queue', o, "new") /\ (Silent(queue', o) => Silent(q, o))
             /\ o \in d => o \in dump' \/ (LastIs(queue', o, "new") /\ ~Silent(queue', o))
  <2>1. LastIs(q, o, "new") => LastIs(queue', o, "new") /\ (Silent(queue', o) => Silent(q, o))
    BY <1>3, LastOfAppend
  <2>2. ASSUME k = o PROVE LastIs(queue', o, "new") /\ ~Silent(queue', o)
    <3>1. Same(e.key, o)
      BY <1>3, <2>2 DEF Same
    <3> QED
      BY <1>3, <3>1, LastOfAppend
  <2> QED
    BY <1>3, <2>1, <2>2
<1> QED
  BY <1>1, <1>2, <1>3, DumpedIs

LEMMA ReceiveLearns ==
  ASSUME CacheSuffices, OwnApart, SyncIInv, LocalPunted(fib), Receive
  PROVE  /\ LocalPunted(fib')
         /\ \A o \in DOMAIN ktab \cap Own :
              /\ Told(o) => LastIs(queue', o, "new") /\ (Silent(queue', o) => Has(fib', o))
              /\ o \in dump => o \in dump' \/ (LastIs(queue', o, "new") /\ ~Silent(queue', o))
<1> DEFINE m == Head(queue)
           t == Tail(queue)
<1>1. /\ queue \in Seq(Message) /\ queue # <<>> /\ m \in Message /\ t \in Seq(Message)
      /\ Dumped(t, dump) /\ fib' = Handle(fib, m)
      /\ SyncTypeOK /\ (dump = NoDump \/ dump \subseteq Keys)
  BY ReceiveTypes DEF SyncIInv, SyncTypeOK
<1>2. ASSUME NEW o, Told(o)
      PROVE  /\ LastIs(t, o, "new")
             /\ Silent(t, o) => IF Same(m.key, o) THEN m.type = "new" ELSE Silent(queue, o)
  BY <1>1, <1>2, LastOfTail DEF Told
<1> HIDE DEF m, t
<1>3. /\ LocalPunted(fib')
      /\ \A o \in Own : Has(fib, o) => Has(fib', o) \/ (m.type = "del" /\ m.key = o)
      /\ \A o \in Own : m.type = "new" /\ m.key = o => Has(fib', o)
  BY <1>1, HandleOwn DEF SyncIInv
<1>4. ASSUME NEW o \in DOMAIN ktab \cap Own
      PROVE  /\ Told(o) => LastIs(queue', o, "new") /\ (Silent(queue', o) => Has(fib', o))
             /\ o \in dump => o \in dump' \/ (LastIs(queue', o, "new") /\ ~Silent(queue', o))
  <2>1. /\ LastIs(t, o, "new") => LastIs(queue', o, "new") /\ (Silent(queue', o) => Silent(t, o))
        /\ o \in dump => o \in dump' \/ (LastIs(queue', o, "new") /\ ~Silent(queue', o))
    BY <1>1, DumpTells
  <2>2. Same(m.key, o) <=> m.key = o
    BY OwnSame
  <2>3. ASSUME Told(o) PROVE LastIs(queue', o, "new") /\ (Silent(queue', o) => Has(fib', o))
    <3>1. /\ LastIs(t, o, "new")
          /\ Silent(t, o) => IF Same(m.key, o) THEN m.type = "new" ELSE Silent(queue, o)
      BY <1>2, <2>3
    <3>2. Silent(t, o) => Has(fib', o)
      <4>1. CASE m.key = o
        BY <1>3, <2>2, <3>1, <4>1
      <4>2. CASE m.key # o
        BY <1>3, <2>2, <2>3, <3>1, <4>2 DEF Told
      <4> QED
        BY <4>1, <4>2
    <3> QED
      BY <2>1, <3>1, <3>2
  <2> QED
    BY <2>1, <2>3
<1> QED
  BY <1>3, <1>4

LEMMA OwnStep ==
  CacheSuffices /\ OwnApart /\ SyncIInv /\ OneDump /\ OwnTold /\ [Next]_vars => OwnTold'
<1> SUFFICES ASSUME CacheSuffices, OwnApart, SyncIInv, OneDump, OwnTold, [Next]_vars
             PROVE  OwnTold'
  OBVIOUS
<1>0. /\ SyncTypeOK /\ queue \in Seq(Message) /\ (dump = NoDump \/ dump \subseteq Keys)
      /\ LocalPunted(fib)
  BY DEF SyncIInv, SyncTypeOK, OwnTold
<1>a. Own \cap NoDump = {}
  <2>1. <<"none">> \notin Keys
    BY NoDumpIs DEF NoDump
  <2> QED
    BY <2>1 DEF NoDump, Keys
<1>b. ASSUME NEW j \in Keys, NEW e \in Message, e.key = j, e.type \in {"new", "del"}, Post(e),
             DOMAIN ktab' = IF e.type = "new" THEN DOMAIN ktab \cup {j} ELSE DOMAIN ktab \ {j},
             UNCHANGED <<pc, asks, dump, fib>>
      PROVE  OwnTold'
  <2>1. ASSUME ~lost', NEW o \in DOMAIN ktab' \cap Own PROVE (Coming(o) \/ Told(o))'
    <3>1. queue' = Append(queue, e) /\ ~lost
      BY <1>b, <2>1, PostIs
    <3>2. Same(e.key, o) <=> j = o
      BY <1>b, OwnSame
    <3>3. CASE j = o
      <4>1. e.type = "new"
        BY <1>b, <2>1, <3>3
      <4>2. LastIs(queue', o, "new") /\ ~Silent(queue', o)
        BY <1>0, <3>1, <3>2, <3>3, <4>1, LastOfAppend
      <4> QED
        BY <4>2 DEF Told
    <3>4. CASE j # o
      <4>1. o \in DOMAIN ktab \cap Own
        BY <1>b, <2>1, <3>4
      <4>2. CASE Coming(o)
        BY <1>b, <4>2 DEF Coming
      <4>3. CASE Told(o)
        <5>1. LastIs(queue', o, "new") /\ (Silent(queue', o) => Silent(queue, o))
          BY <1>0, <3>1, <3>2, <3>4, <4>3, LastOfAppend DEF Told
        <5>2. Has(fib', o) <=> Has(fib, o)
          BY <1>b
        <5> QED
          BY <4>3, <5>1, <5>2 DEF Told
      <4> QED
        BY <3>1, <4>1, <4>2, <4>3 DEF OwnTold
    <3> QED
      BY <3>3, <3>4
  <2>2. LocalPunted(fib')
    BY <1>0, <1>b
  <2> QED
    BY <2>1, <2>2 DEF OwnTold
<1>1. ASSUME NEW k \in Keys, NEW v \in Values(k), KernelSet(k, v) PROVE OwnTold'
  <2>1. /\ Msg("new", k, v) \in Message /\ Msg("new", k, v).type = "new"
        /\ Msg("new", k, v).key = k
    BY DEF Message, Msg
  <2>2. DOMAIN ktab' = DOMAIN ktab \cup {k} /\ Post(Msg("new", k, v)) /\ UNCHANGED <<pc, asks, dump, fib>>
    BY <1>1 DEF KernelSet, Change, bcmdVars, With
  <2> QED
    BY <1>b, <2>1, <2>2
<1>2. ASSUME NEW k \in Keys, KernelDel(k) PROVE OwnTold'
  <2>1. /\ Msg("del", k, {}) \in Message /\ Msg("del", k, {}).type = "del"
        /\ Msg("del", k, {}).key = k
    BY DEF Message, Msg
  <2>2. DOMAIN ktab' = DOMAIN ktab \ {k} /\ Post(Msg("del", k, {})) /\ UNCHANGED <<pc, asks, dump, fib>>
    BY <1>2 DEF KernelDel, Change, bcmdVars, Without, Restrict
  <2> QED
    BY <1>b, <2>1, <2>2
<1>3. CASE Ask
  <2>1. UNCHANGED <<ktab, asks, fib>> /\ pc = "ask" /\ pc' = "drain"
    BY <1>3 DEF Ask, kernelVars
  <2>2. asks \in Seq(SUBSET Keys) /\ asks # <<>> /\ Head(asks) \subseteq Keys /\ Head(asks) = asks[1]
    BY <1>0, <2>1 DEF SyncTypeOK
  <2>3. ASSUME ~lost', NEW o \in DOMAIN ktab' \cap Own PROVE (Coming(o) \/ Told(o))'
    <3>1. ~lost
      BY <1>3, <2>3, PostIs, DoneTells DEF Ask
    <3>2. dump = NoDump
      BY <2>1, <3>1 DEF OneDump
    <3>3. Dumped(queue, Head(asks)) /\ o \in DOMAIN ktab \cap Own
      BY <1>3, <2>1, <2>3, <3>2 DEF Ask
    <3>4. /\ LastIs(queue, o, "new") =>
               LastIs(queue', o, "new") /\ (Silent(queue', o) => Silent(queue, o))
          /\ o \in Head(asks) => o \in dump' \/ (LastIs(queue', o, "new") /\ ~Silent(queue', o))
      BY <1>0, <2>2, <3>3, DumpTells
    <3>5. CASE Coming(o)
      <4>1. PICK i \in 1..Len(asks) : o \in asks[i]
        BY <1>a, <2>1, <3>2, <3>5 DEF Coming
      <4>2. CASE i = 1
        BY <2>2, <3>4, <4>1, <4>2 DEF Coming, Told
      <4>3. CASE i # 1
        <5>1. i \in 2..Len(asks)
          BY <2>2, <4>3
        <5> QED
          BY <2>1, <4>1, <5>1 DEF Coming
      <4> QED
        BY <4>2, <4>3
    <3>6. CASE Told(o)
      <4>1. Has(fib', o) <=> Has(fib, o)
        BY <2>1
      <4> QED
        BY <3>4, <3>6, <4>1 DEF Told
    <3> QED
      BY <3>1, <3>3, <3>5, <3>6 DEF OwnTold
  <2>4. LocalPunted(fib')
    BY <1>0, <2>1
  <2> QED
    BY <2>3, <2>4 DEF OwnTold
<1>4. ASSUME ktab' = ktab, Receive
      PROVE  /\ LocalPunted(fib') /\ lost' = lost
             /\ \A o \in DOMAIN ktab \cap Own : (Told(o) => Told(o)') /\ (o \in dump => (o \in dump \/ Told(o))')
  <2>1. LocalPunted(fib') /\ lost' = lost
    BY <1>0, <1>4, ReceiveLearns DEF Receive
  <2>2. ASSUME NEW o \in DOMAIN ktab \cap Own
        PROVE  (Told(o) => Told(o)') /\ (o \in dump => (o \in dump \/ Told(o))')
    <3>1. /\ Told(o) => LastIs(queue', o, "new") /\ (Silent(queue', o) => Has(fib', o))
          /\ o \in dump => o \in dump' \/ (LastIs(queue', o, "new") /\ ~Silent(queue', o))
      BY <1>0, <1>4, ReceiveLearns
    <3> QED
      BY <3>1 DEF Told
  <2> QED
    BY <2>1, <2>2
<1>5. CASE Drain
  <2>1. /\ ktab' = ktab /\ pc = "drain" /\ (Receive \/ ReceiveError)
        /\ IF overrun \/ Head(queue).type = "done"
           THEN asks' = Tail(asks) /\ pc' = (IF Tail(asks) = <<>> THEN "loop" ELSE "ask")
           ELSE UNCHANGED <<pc, asks>>
    BY <1>5 DEF Drain, kernelVars
  <2>2. CASE Receive
    <3>1. ASSUME ~lost', NEW o \in DOMAIN ktab' \cap Own PROVE (Coming(o) \/ Told(o))'
      <4>0. ~lost /\ o \in DOMAIN ktab \cap Own
        BY <1>4, <2>1, <2>2, <3>1
      <4>1. (Told(o) => Told(o)') /\ (o \in dump => (o \in dump \/ Told(o))')
        BY <1>4, <2>1, <2>2, <4>0
      <4>2. CASE \E i \in 2..Len(asks) : o \in asks[i]
        <5>1. PICK i \in 2..Len(asks) : o \in asks[i]
          BY <4>2
        <5>2. CASE UNCHANGED <<pc, asks>>
          BY <2>1, <5>1, <5>2 DEF Coming
        <5>3. CASE asks' = Tail(asks) /\ pc' = (IF Tail(asks) = <<>> THEN "loop" ELSE "ask")
          <6>1. asks \in Seq(SUBSET Keys) /\ asks # <<>>
            BY <1>0, <2>1 DEF SyncTypeOK
          <6>2. i - 1 \in 1..Len(Tail(asks)) /\ Tail(asks)[i - 1] = asks[i]
            BY <5>1, <6>1
          <6>3. Tail(asks) # <<>>
            <7>1. Len(<<>>) = 0 /\ 1..0 = {}
              OBVIOUS
            <7> QED
              BY <6>2, <7>1
          <6> QED
            BY <5>1, <5>3, <6>2, <6>3 DEF Coming
        <5> QED
          BY <2>1, <5>2, <5>3
      <4>3. CASE o \in dump
        BY <4>1, <4>3 DEF Coming
      <4>4. CASE Told(o)
        BY <4>1, <4>4
      <4>5. Coming(o) => o \in dump \/ \E i \in 2..Len(asks) : o \in asks[i]
        BY <2>1 DEF Coming
      <4> QED
        BY <4>0, <4>2, <4>3, <4>4, <4>5 DEF OwnTold
    <3>2. LocalPunted(fib')
      BY <1>4, <2>1, <2>2
    <3> QED
      BY <3>1, <3>2 DEF OwnTold
  <2>3. CASE ReceiveError
    <3>1. overrun /\ lost' = lost /\ fib' = fib
      BY <2>3 DEF ReceiveError
    <3>2. lost
      BY <3>1 DEF OneDump
    <3> QED
      BY <1>0, <3>1, <3>2 DEF OwnTold
  <2> QED
    BY <2>1, <2>2, <2>3
<1>6. CASE Turn
  <2>1. /\ ktab' = ktab /\ pc = "loop"
        /\ Receive \/ ReceiveError \/ UNCHANGED <<queue, lost, dump, fib>>
    BY <1>6 DEF Turn, kernelVars, socketVars
  <2>2. ASSUME ~lost', NEW o \in DOMAIN ktab' \cap Own PROVE (Coming(o) \/ Told(o))'
    <3>1. ~lost
      BY <2>1, <2>2 DEF Receive, ReceiveError
    <3>2. dump = NoDump /\ ~overrun
      BY <2>1, <3>1 DEF OneDump
    <3>3. Told(o) /\ o \in DOMAIN ktab \cap Own
      BY <1>a, <2>1, <2>2, <3>1, <3>2 DEF OwnTold, Coming
    <3>4. CASE Receive
      BY <1>4, <2>1, <3>3, <3>4
    <3>5. CASE UNCHANGED <<queue, fib>>
      <4>1. Has(fib', o) <=> Has(fib, o)
        BY <3>5
      <4>2. (LastIs(queue', o, "new") <=> LastIs(queue, o, "new")) /\ (Silent(queue', o) <=> Silent(queue, o))
        BY <3>5
      <4> QED
        BY <3>3, <4>1, <4>2 DEF Told
    <3> QED
      BY <2>1, <3>2, <3>4, <3>5 DEF ReceiveError
  <2>3. LocalPunted(fib')
    <3>1. CASE Receive
      BY <1>4, <2>1, <3>1
    <3>2. CASE fib' = fib
      BY <1>0, <3>2
    <3> QED
      BY <2>1, <3>1, <3>2 DEF ReceiveError
  <2> QED
    BY <2>2, <2>3 DEF OwnTold
<1>7. CASE UNCHANGED vars
  BY <1>7 DEF vars, kernelVars, socketVars, bcmdVars, OwnTold, Coming, Told
<1> QED
  BY <1>1, <1>2, <1>3, <1>5, <1>6, <1>7 DEF Next, Keys

\* If there is a record for every neighbour and every own address, and no two of
\* these addresses are the same, every own address is punted when bcmd has read
\* all that the kernel had to tell and no event was dropped: the first dump, the
\* events and the end of a dump that comes in between leave none out.
THEOREM OwnAddressesPunted ==
  ASSUME CacheSuffices, OwnApart
  PROVE  Spec => []OwnPunted
<1>1. Init => OneDump /\ OwnTold
  <2> SUFFICES ASSUME Init PROVE OneDump /\ OwnTold
    OBVIOUS
  <2>1. /\ queue = <<>> /\ dump = NoDump /\ overrun = FALSE /\ pc = "ask" /\ asks = InitDumps
        /\ fib = BcmdInit
    BY DEF Init
  <2>2. Len(<<>>) = 0 /\ DOMAIN <<>> = {}
    OBVIOUS
  <2>3. OneDump
    BY <2>1, <2>2 DEF OneDump, NoDone
  <2>4. LocalPunted(fib)
    BY <2>1, <2>2 DEF LocalPunted, BcmdInit
  <2>5. \A o \in Own : Coming(o)
    BY <2>1, AsksAre DEF Coming
  <2> QED
    BY <2>3, <2>4, <2>5 DEF OwnTold
<1>2. OneDump /\ OwnTold => OwnPunted
  <2> SUFFICES ASSUME OneDump, OwnTold, Quiet, NEW o \in DOMAIN ktab \cap Own
               PROVE  o[2] \in DOMAIN fib.host /\ fib.host[o[2]] = ToCpu
    BY DEF OwnPunted
  <2>1. pc = "loop" /\ queue = <<>> /\ dump = NoDump /\ ~lost
    BY DEF Quiet
  <2>2. o \notin NoDump /\ o \notin Dst
    <3>1. <<"none">> \notin Keys
      BY NoDumpIs DEF NoDump
    <3> QED
      BY <3>1, KeysApart DEF NoDump, Keys
  <2>3. Told(o)
    BY <2>1, <2>2 DEF OwnTold, Coming
  <2>4. Silent(queue, o)
    <3>1. Len(<<>>) = 0
      OBVIOUS
    <3> QED
      BY <2>1, <3>1 DEF Silent
  <2> QED
    BY <2>2, <2>3, <2>4 DEF Told, Has, OwnTold, LocalPunted
<1>3. SyncIInv /\ [Next]_vars => SyncIInv'
  BY SyncStep
<1>4. SyncIInv /\ OneDump /\ [Next]_vars => OneDump'
  BY OneDumpStep
<1>5. SyncIInv /\ OneDump /\ OwnTold /\ [Next]_vars => OwnTold'
  BY OwnStep
<1> QED
  BY <1>1, <1>2, <1>3, <1>4, <1>5, SyncInit, PTL DEF Spec
=============================================================================
