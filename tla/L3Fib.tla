------------------------------- MODULE L3Fib -------------------------------
(***************************************************************************)
(* core/datapath/l3.c: how edged turns kernel neighbours, routes and own   *)
(* addresses into the L3 tables of the BCM56846.                           *)
(*                                                                         *)
(* One action per handler (l3_host_add, l3_host_del, l3_route_add_paths,   *)
(* l3_route_del, l3_local_host_add); the IPv6 twins are the same actions   *)
(* on IPv6 keys.  An action runs a handler from its first line to its      *)
(* return, chip writes included.  The handlers run on the single thread of *)
(* edged's main loop, so they do not interleave with each other.           *)
(*                                                                         *)
(* A chip write can fail.  Faulty names the writes that may:               *)
(*   "ing", "egr"   ING_L3_NEXT_HOP, EGR_L3_NEXT_HOP of a host             *)
(*   "entry"        the hash insert into L3_ENTRY (FULL counts as failure) *)
(*   "ecmp"         L3_ECMP and L3_ECMP_COUNT of a new group               *)
(*   "defip"        L3_DEFIP and L3_DEFIP_128 of a route                   *)
(*   "clear"        every write that clears an entry                       *)
(***************************************************************************)
EXTENDS EcmpGroups

CONSTANTS
  Gw4, Gw6,      \* IPv4 and IPv6 addresses of neighbours
  Dst4, Dst6,    \* transit prefixes of the two families
  Own,           \* the switch's own IPv4 addresses
  Station,       \* where a neighbour is: a MAC address behind an swp port
  Cpu,           \* the "station" of a next-hop with COPY_TO_CPU
  NeighMax,      \* L3_NEIGH_MAX, records of l3_neigh_nh and of l3_neigh_nh6
  NhFreeMax,     \* size of the array nh_free
  RouteMax,      \* [v4 |-> L3_ROUTE_MAX, v6 |-> L3_ROUTE6_MAX]
  TransitBase,   \* defip_transit_base
  LocalBase,     \* first L3_DEFIP slot of the /32 entries of own addresses
  DiagSlot,      \* the catch-all slot of logical port 1
  Defip128Size,  \* L3_DEFIP_128m_MAX + 1
  MaxPaths,      \* 64, the paths of a route that are looked at
  Faulty,
  MaxNh,         \* bound of the model: next-hop indices ever created
  MaxTransit,    \* bound of the model: IPv4 transit slots ever created
  MaxLocal       \* bound of the model: calls of l3_local_host_add

Fam == {"v4", "v6"}
Gw  == Gw4 \cup Gw6
Dst == Dst4 \cup Dst6

FamGw(f)  == IF f = "v4" THEN Gw4 ELSE Gw6
FamDst(f) == IF f = "v4" THEN Dst4 ELSE Dst6
FamOf(p)  == IF p \in Dst4 THEN "v4" ELSE "v6"

ASSUME FibAssumption ==
  /\ IsFiniteSet(Gw) /\ Gw4 \cap Gw6 = {} /\ Gw \cap Own = {}
  /\ IsFiniteSet(Dst) /\ Dst4 \cap Dst6 = {} /\ Dst \cap Own = {}
  /\ Cpu \notin Station
  /\ NeighMax \in Nat /\ NhFreeMax \in Nat
  /\ NhFreeMax >= 2 * NeighMax            \* 512 = 2 * 256
  /\ RouteMax \in [Fam -> Nat \ {0}]
  /\ TransitBase \in Nat /\ LocalBase \in Nat /\ TransitBase < LocalBase
  /\ DiagSlot \in Nat /\ LocalBase < DiagSlot
  /\ Defip128Size \in Nat
  /\ MaxPaths \in Nat \ {0}
  /\ MaxNh \in Nat /\ MaxTransit \in Nat /\ MaxLocal \in Nat

VARIABLES
  nhNext,     \* next_hop_idx, high water of the next-hop indices
  nhFree,     \* nh_free, released next-hop indices
  neigh,      \* l3_neigh_nh and l3_neigh_nh6: address -> next-hop index
  defipNext,  \* defip_transit_slot and defip128_next_slot
  defipFree,  \* defip_free and defip128_free
  rt,         \* route_tab and route6_tab: prefix -> [slot, ecmp, ref, sig]
  localNext,  \* defip_slot of l3_local_host_add
  ecmp,       \* the state of EcmpGroups
  ing,        \* chip ING_L3_NEXT_HOP: index -> station whose port it names
  egr,        \* chip EGR_L3_NEXT_HOP: index -> station whose MAC it names
  host,       \* chip L3_ENTRY: address -> next-hop index
  defip       \* chip L3_DEFIP and L3_DEFIP_128: slot -> [dst, ecmp, ref]

nhVars   == <<nhNext, nhFree, neigh>>
rtVars   == <<defipNext, defipFree, rt>>
chipVars == <<ing, egr, host>>
vars == <<nhVars, rtVars, localNext, ecmp, chipVars, defip>>

Init ==
  /\ nhNext = 1 /\ nhFree = <<>> /\ neigh = <<>>
  /\ defipNext = [v4 |-> TransitBase, v6 |-> 0]
  /\ defipFree = [f \in Fam |-> <<>>]
  /\ rt = <<>>
  /\ localNext = LocalBase
  /\ ecmp = EcmpInit
  /\ ing = <<>> /\ egr = <<>> /\ host = <<>>
  /\ defip = [f \in Fam |-> <<>>]

\* The outcomes of an operation on the chip: it works, or it may fail.
Outcome(op) == IF op \in Faulty THEN BOOLEAN ELSE {TRUE}
Written(op, old, new) == {new} \cup (IF op \in Faulty THEN {old} ELSE {})
-----------------------------------------------------------------------------
(* Next-hop indices: next_hop_alloc, next_hop_release.                     *)

\* Mutant of NextNh: an empty free list is an error.
NextNhOrError == IF nhFree # <<>> THEN Last(nhFree) ELSE NoGid

NextNh == IF nhFree # <<>> THEN Last(nhFree) ELSE nhNext

\* Mutants of TakeNh: the free list is not popped; the high water stays.
TakeNhNoPop ==
  IF nhFree # <<>>
  THEN UNCHANGED <<nhNext, nhFree>>
  ELSE nhNext <= MaxNh /\ nhNext' = nhNext + 1 /\ UNCHANGED nhFree

TakeNhNoBump ==
  IF nhFree # <<>>
  THEN nhFree' = Front(nhFree) /\ UNCHANGED nhNext
  ELSE nhNext <= MaxNh /\ UNCHANGED <<nhNext, nhFree>>

TakeNh ==
  IF nhFree # <<>>
  THEN nhFree' = Front(nhFree) /\ UNCHANGED nhNext
  ELSE nhNext <= MaxNh /\ nhNext' = nhNext + 1 /\ UNCHANGED nhFree

\* l3_neigh_nh_record and l3_neigh6_record: refresh, or the first free
\* record; with none left the neighbour goes unrecorded.
Recorded(g, nh) ==
  IF g \in DOMAIN neigh
     \/ \E f \in Fam : /\ g \in FamGw(f)
                       /\ Cardinality(DOMAIN neigh \cap FamGw(f)) < NeighMax
  THEN Put(neigh, g, nh) ELSE neigh

\* Mutant of HostNh: a known neighbour is given a new index.
HostNhFresh(g) == NextNh

\* The index l3_host_add programs: the recorded one, or the next.
HostNh(g) == IF g \in DOMAIN neigh THEN neigh[g] ELSE NextNh

(***************************************************************************)
(* l3_host_add: neighbour g resolved to station s.  A known neighbour      *)
(* keeps its index.  "at" is where the call ends: at a write that fails    *)
(* (return -1) or with everything done.                                    *)
(***************************************************************************)
HostAdd(g, s, at) ==
  LET nh == HostNh(g)
  IN  /\ at \in {"ing", "egr", "entry"} \cap Faulty \/ at = "done"
      /\ IF g \in DOMAIN neigh THEN UNCHANGED <<nhNext, nhFree>> ELSE TakeNh
      /\ ing'   = IF at = "ing" THEN ing ELSE Put(ing, nh, s)
      /\ egr'   = IF at \in {"ing", "egr"} THEN egr ELSE Put(egr, nh, s)
      /\ host'  = IF at = "done" THEN Put(host, g, nh) ELSE host
      /\ neigh' = IF at = "done" THEN Recorded(g, nh) ELSE neigh
      /\ UNCHANGED <<rtVars, localNext, ecmp, defip>>

\* Mutant of HostDel: the L3_ENTRY of the neighbour is left behind.
HostDelNoEntry(g) ==
  /\ g \in DOMAIN neigh
  /\ ing' \in Written("clear", ing, Drop(ing, neigh[g]))
  /\ egr' \in Written("clear", egr, Drop(egr, neigh[g]))
  /\ nhFree' = Push(nhFree, neigh[g], NhFreeMax)
  /\ neigh' = Drop(neigh, g)
  /\ UNCHANGED <<nhNext, rtVars, localNext, ecmp, host, defip>>

\* l3_host_del, for a neighbour that is recorded.
HostDel(g) ==
  /\ g \in DOMAIN neigh
  /\ host' \in Written("clear", host, Drop(host, g))
  /\ ing' \in Written("clear", ing, Drop(ing, neigh[g]))
  /\ egr' \in Written("clear", egr, Drop(egr, neigh[g]))
  /\ nhFree' = Push(nhFree, neigh[g], NhFreeMax)
  /\ neigh' = Drop(neigh, g)
  /\ UNCHANGED <<nhNext, rtVars, localNext, ecmp, defip>>

(***************************************************************************)
(* l3_local_host_add: own address a on logical port 1 (diag) or another.   *)
(* It takes a fresh next-hop index and a fresh slot on every call, also    *)
(* when it has been called for this address before.                        *)
(***************************************************************************)
LocalHostAdd(a, diag, at) ==
  LET entry == [dst |-> a, ecmp |-> FALSE, ref |-> nhNext]
      slots == {localNext} \cup (IF diag THEN {DiagSlot} ELSE {})
  IN  /\ at \in {"ing", "egr", "entry"} \cap Faulty \/ at = "done"
      /\ nhNext <= MaxNh /\ localNext < LocalBase + MaxLocal
      /\ nhNext' = nhNext + 1
      /\ ing' = IF at = "ing" THEN ing ELSE Put(ing, nhNext, Cpu)
      /\ egr' = IF at \in {"ing", "egr"} THEN egr ELSE Put(egr, nhNext, Cpu)
      /\ IF at \in {"ing", "egr"}
         THEN UNCHANGED <<localNext, defip, host>>
         ELSE /\ localNext' = localNext + 1
              /\ \E ok \in SUBSET slots :
                   /\ "defip" \in Faulty \/ ok = slots
                   /\ defip' = [defip EXCEPT !["v4"] =
                        [x \in DOMAIN defip["v4"] \cup ok |->
                           IF x \in ok THEN entry ELSE defip["v4"][x]]]
              /\ host' = IF at = "done" THEN Put(host, a, nhNext) ELSE host
      /\ UNCHANGED <<nhFree, neigh, rtVars, ecmp>>

\* l3_host_del of a neighbour that is "not tracked": an early return.
HostDelUntracked(g) == g \notin DOMAIN neigh /\ UNCHANGED vars
-----------------------------------------------------------------------------
(* DEFIP slots: defip_slot_alloc and defip_slot_free, defip128_alloc and   *)
(* defip128_release.  Only the IPv6 table has a limit.                     *)

NextSlot(f) ==
  IF defipFree[f] # <<>> THEN Last(defipFree[f]) ELSE defipNext[f]

SlotsLeft(f) ==
  f = "v6" => defipFree[f] # <<>> \/ defipNext[f] < Defip128Size

\* Mutant of TakeSlot: the free list is not popped.
TakeSlotNoPop(f) ==
  IF defipFree[f] # <<>>
  THEN UNCHANGED <<defipFree, defipNext>>
  ELSE /\ f = "v4" => defipNext[f] < TransitBase + MaxTransit
       /\ defipNext' = [defipNext EXCEPT ![f] = @ + 1]
       /\ UNCHANGED defipFree

TakeSlot(f) ==
  IF defipFree[f] # <<>>
  THEN /\ defipFree' = [defipFree EXCEPT ![f] = Front(@)]
       /\ UNCHANGED defipNext
  ELSE /\ f = "v4" => defipNext[f] < TransitBase + MaxTransit
       /\ defipNext' = [defipNext EXCEPT ![f] = @ + 1]
       /\ UNCHANGED defipFree

\* The write of entry x to slot s of the DEFIP table of family f.
WriteDefip(f, s, x) ==
  defip' \in Written("defip", defip, [defip EXCEPT ![f] = Put(@, s, x)])

\* The record of a route r = [ecmp, ref, sig] that got slot s.
AtSlot(s, r) == [slot |-> s, ecmp |-> r.ecmp, ref |-> r.ref, sig |-> r.sig]

Entry(p, r) == [dst |-> p, ecmp |-> r.ecmp, ref |-> r.ref]

\* The states of the groups after a route that has a group lets go of it.
LetGo(e, r) ==
  IF r.ecmp THEN {Unref(e, r.ref, ok) : ok \in Outcome("clear")} ELSE {e}
-----------------------------------------------------------------------------
(***************************************************************************)
(* l3_route_add_paths and l3_route_add_paths_v6: a route to p through the  *)
(* gateways of the sequence gws.                                           *)
(***************************************************************************)

\* The paths whose gateway has a chip next-hop; the others are skipped.
Resolved(gws) == {i \in DOMAIN gws : gws[i] \in DOMAIN neigh}

\* path_sig of the sorted next-hop indices: how many, and which.
PathSig(gws) ==
  [size |-> Cardinality(Resolved(gws)),
   of   |-> [nh \in {neigh[gws[i]] : i \in Resolved(gws)} |->
               Cardinality({i \in Resolved(gws) : neigh[gws[i]] = nh})]]

RoomFor(p) == Cardinality(DOMAIN rt \cap FamDst(FamOf(p))) < RouteMax[FamOf(p)]

\* A known prefix keeps its slot; its old group is dropped after the write.
Replace(p, r, e) ==
  LET new == AtSlot(rt[p].slot, r)
  IN  /\ p \in DOMAIN rt
      /\ WriteDefip(FamOf(p), new.slot, Entry(p, r))
      /\ ecmp' \in LetGo(e, rt[p])
      /\ rt' = Put(rt, p, new)
      /\ UNCHANGED <<defipNext, defipFree>>

\* A new prefix takes a slot; one that route_tab has no record left for is
\* programmed all the same.
Insert(p, r, e) ==
  LET f == FamOf(p)
      new == AtSlot(NextSlot(f), r)
  IN  /\ p \notin DOMAIN rt /\ SlotsLeft(f)
      /\ TakeSlot(f)
      /\ WriteDefip(f, new.slot, Entry(p, r))
      /\ ecmp' = e
      /\ rt' = IF RoomFor(p) THEN Put(rt, p, new) ELSE rt

\* L3_DEFIP_128 is full: the group just referenced is let go.
NoSlot(p, r, e) ==
  /\ p \notin DOMAIN rt /\ ~SlotsLeft(FamOf(p))
  /\ ecmp' \in LetGo(e, r)
  /\ UNCHANGED <<rtVars, defip>>

\* No group can be had: return with the route as it was.
NoGroup(e) == ecmp' = e /\ UNCHANGED <<rtVars, defip>>

Program(p, r, e) == Replace(p, r, e) \/ Insert(p, r, e) \/ NoSlot(p, r, e)

Writes(n) == IF "ecmp" \in Faulty THEN 0..(n + 1) ELSE {n + 1}

RouteAddSingle(p, gws) ==
  /\ Cardinality(Resolved(gws)) = 1
  /\ p \in DOMAIN rt => rt[p].sig # PathSig(gws)
  /\ \E nh \in DOMAIN PathSig(gws).of :
       Program(p, [ecmp |-> FALSE, ref |-> nh, sig |-> PathSig(gws)], ecmp)
  /\ UNCHANGED <<nhVars, localNext, chipVars>>

RouteAddEcmp(p, gws) ==
  LET n == Cardinality(Resolved(gws)) IN
  /\ n > 1
  /\ p \in DOMAIN rt => rt[p].sig # PathSig(gws)
  /\ \E w \in Writes(n) :
       LET g == Ref(ecmp, PathSig(gws), n, w) IN
       IF g.gid = NoGid THEN NoGroup(g.e)
       ELSE Program(p, [ecmp |-> TRUE, ref |-> g.gid, sig |-> PathSig(gws)], g.e)
  /\ UNCHANGED <<nhVars, localNext, chipVars>>

\* Early returns: no path has a chip next-hop, or the route is unchanged.
RouteAddSkipped(p, gws) ==
  /\ \/ Resolved(gws) = {}
     \/ p \in DOMAIN rt /\ rt[p].sig = PathSig(gws)
  /\ UNCHANGED vars

\* Mutant of RouteDel: the DEFIP slot is freed but not cleared.
RouteDelNoClear(p) ==
  LET f == FamOf(p) IN
  /\ p \in DOMAIN rt
  /\ defipFree' = [defipFree EXCEPT ![f] = Push(@, rt[p].slot, RouteMax[f])]
  /\ ecmp' \in LetGo(ecmp, rt[p])
  /\ rt' = Drop(rt, p)
  /\ UNCHANGED <<defip, defipNext, nhVars, localNext, chipVars>>

\* l3_route_del and l3_route_del_v6, for a prefix that is recorded.
RouteDel(p) ==
  LET f == FamOf(p) IN
  /\ p \in DOMAIN rt
  /\ defip' \in Written("clear", defip,
                        [defip EXCEPT ![f] = Drop(@, rt[p].slot)])
  /\ defipFree' = [defipFree EXCEPT ![f] = Push(@, rt[p].slot, RouteMax[f])]
  /\ ecmp' \in LetGo(ecmp, rt[p])
  /\ rt' = Drop(rt, p)
  /\ UNCHANGED <<defipNext, nhVars, localNext, chipVars>>

RouteDelUntracked(p) == p \notin DOMAIN rt /\ UNCHANGED vars
-----------------------------------------------------------------------------
Ends == {"ing", "egr", "entry", "done"}

\* The gateway lists of a route message of family f.
GwLists(f) == UNION {[1..k -> FamGw(f)] : k \in 1..MaxPaths}

Next ==
  \/ \E g \in Gw, s \in Station, at \in Ends : HostAdd(g, s, at)
  \/ \E g \in Gw : HostDel(g) \/ HostDelUntracked(g)
  \/ \E a \in Own, diag \in BOOLEAN, at \in Ends : LocalHostAdd(a, diag, at)
  \/ \E p \in Dst : \E gws \in GwLists(FamOf(p)) :
       RouteAddSingle(p, gws) \/ RouteAddEcmp(p, gws) \/ RouteAddSkipped(p, gws)
  \/ \E p \in Dst : RouteDel(p) \/ RouteDelUntracked(p)

Spec == Init /\ [][Next]_vars
-----------------------------------------------------------------------------
(***************************************************************************)
(* Type invariant.                                                         *)
(***************************************************************************)
\* Every allocator, table and chip table holds values of its range.
TypeOK ==
  /\ nhNext \in Nat \ {0} /\ nhFree \in Seq(Nat)
  /\ DOMAIN neigh \subseteq Gw /\ \A g \in DOMAIN neigh : neigh[g] \in Nat
  /\ defipNext \in [Fam -> Nat] /\ defipFree \in [Fam -> Seq(Nat)]
  /\ DOMAIN rt \subseteq Dst
  /\ \A p \in DOMAIN rt : /\ rt[p].slot \in Nat /\ rt[p].ref \in Nat
                          /\ rt[p].ecmp \in BOOLEAN
  /\ localNext \in Nat
  /\ DOMAIN ing \subseteq Nat /\ Range(ing) \subseteq Station \cup {Cpu}
  /\ DOMAIN egr \subseteq Nat /\ Range(egr) \subseteq Station \cup {Cpu}
  /\ DOMAIN host \subseteq Gw \cup Own /\ Range(host) \subseteq Nat
  /\ DOMAIN defip = Fam
  /\ \A f \in Fam : DOMAIN defip[f] \subseteq Nat

(***************************************************************************)
(* Safety.                                                                 *)
(***************************************************************************)

\* A next-hop index has one owner: no two neighbours, IPv4 or IPv6, share an
\* index, none of theirs is on the free list, the free list names no index
\* twice, and all were created.  It is what makes next_hop_alloc safe.
NextHopOwnership ==
  /\ IsInjective(neigh) /\ IsInjective(nhFree)
  /\ ToSet(nhFree) \cap Range(neigh) = {}
  /\ ToSet(nhFree) \cup Range(neigh) \subseteq 1..(nhNext - 1)

\* Traffic to an own address is punted to the CPU as long as the address is
\* in L3_ENTRY: no neighbour ever gets (and rewrites) its next-hop index.
OwnReachesCpu ==
  \A a \in Own \cap DOMAIN host :
    host[a] \in DOMAIN ing /\ ing[host[a]] = Cpu /\ egr[host[a]] = Cpu

\* L3_ENTRY is the neighbour table: an entry for every recorded neighbour and
\* no other, with its index, and that index names an egress port and a MAC.
\* (Without "clear" failures, and with a record for every neighbour.)
HostMirror ==
  /\ DOMAIN host \cap Gw = DOMAIN neigh
  /\ \A g \in DOMAIN neigh :
       host[g] = neigh[g] /\ neigh[g] \in DOMAIN ing \cap DOMAIN egr

\* A DEFIP slot has one owner: the recorded routes of a family have slots of
\* their own, none is on the free list, and the free list has no duplicate.
SlotOwnership ==
  \A f \in Fam :
    LET D == DOMAIN rt \cap FamDst(f) IN
    /\ \A p, q \in D : rt[p].slot = rt[q].slot => p = q
    /\ IsInjective(defipFree[f])
    /\ \A p \in D : rt[p].slot \notin ToSet(defipFree[f])
    /\ ToSet(defipFree[f]) \cup {rt[p].slot : p \in D} \subseteq 0..(defipNext[f] - 1)

\* The DEFIP tables are the route table: every recorded route is programmed
\* with its next-hop or group, and apart from own addresses no other entry is.
\* (Without "defip" and "clear" failures, with a record for every prefix and
\* the IPv4 transit band below LocalBase.)
DefipMirror ==
  \A f \in Fam :
    LET D == DOMAIN rt \cap FamDst(f) IN
    /\ \A p \in D : /\ rt[p].slot \in DOMAIN defip[f]
                    /\ defip[f][rt[p].slot] = Entry(p, rt[p])
    /\ {s \in DOMAIN defip[f] : defip[f][s].dst \in Dst} = {rt[p].slot : p \in D}

\* A multipath route never points at a group that was freed or handed to
\* another member set: COUNT has its group, as wide as the route has paths,
\* and every slot of the block was last written for the route's member set.
EcmpRoutesIntact ==
  \A p \in DOMAIN rt : rt[p].ecmp =>
    /\ rt[p].ref \in DOMAIN ecmp.cnt
    /\ LET c == ecmp.cnt[rt[p].ref] IN
       /\ c.count = rt[p].sig.size
       /\ \A s \in Block(c.base, c.count) : ecmp.mem[s] = rt[p].sig

UsersOf(r, g) == {p \in DOMAIN r : r[p].ecmp /\ r[p].ref = g}
Users(g) == UsersOf(rt, g)

\* The reference count of a group is the number of routes that use it, so the
\* last one to go frees it: no group outlives its routes.
\* (With a record for every prefix and every group.)
RefCountExact ==
  /\ DOMAIN ecmp.grp = ecmp.tab
  /\ \A g \in ecmp.tab : /\ ecmp.grp[g].ref = Cardinality(Users(g))
                         /\ ecmp.grp[g].ref > 0

\* Identical member sets share one group.
OneGroupPerSet ==
  \A g, h \in ecmp.tab : ecmp.grp[g].sig = ecmp.grp[h].sig => g = h

\* The free lists never overflow, so no release of an index is lost: nh_free
\* has room for every recorded neighbour, defip_free for every route.
FreeListsSuffice ==
  /\ Len(nhFree) + Cardinality(DOMAIN neigh) <= NhFreeMax
  /\ \A f \in Fam : Len(defipFree[f]) + Cardinality(DOMAIN rt \cap FamDst(f))
                     <= RouteMax[f]

(***************************************************************************)
(* The inductive invariant behind EcmpRoutesIntact and OneGroupPerSet.     *)
(***************************************************************************)

\* Every multipath route of the table r has its group in e, and ecmp_tab
\* counts at least the routes that use a group of it and the reference that
\* the caller holds (more, when a route went unrecorded).
RefsOK(r, e, held) ==
  /\ \A p \in DOMAIN r : r[p].ecmp =>
       r[p].ref \in DOMAIN e.grp /\ e.grp[r[p].ref].sig = r[p].sig
  /\ held \subseteq DOMAIN e.grp
  /\ \A g \in e.tab :
       Cardinality(UsersOf(r, g)) + (IF g \in held THEN 1 ELSE 0) <= e.grp[g].ref

EcmpIInv == EcmpInv(ecmp) /\ DOMAIN rt \subseteq Dst /\ RefsOK(rt, ecmp, {})

(***************************************************************************)
(* Action properties.                                                      *)
(***************************************************************************)

\* A neighbour keeps its next-hop index from the call that records it to the
\* one that deletes it, whatever fails in between: routes that hold the index
\* stay right when the neighbour is resolved again.
StableNextHop ==
  [][\A g \in DOMAIN neigh \cap DOMAIN neigh' : neigh'[g] = neigh[g]]_vars

(***************************************************************************)
(* What the code's comments say and the code does not do.                  *)
(***************************************************************************)

NhsOf(p) == DOMAIN rt[p].sig.of

\* "reusing the freed index is safe in practice": no route forwards through
\* an index that is free or belongs to a neighbour resolved after it.
NoDanglingNextHop ==
  \A p \in DOMAIN rt : NhsOf(p) \cap ToSet(nhFree) = {}

-----------------------------------------------------------------------------
(***************************************************************************)
(* Refinement of L3Table.                                                  *)
(***************************************************************************)

\* The paths that an entry of L3_DEFIP sends packets over.
ChipPaths(x) ==
  IF x.ecmp THEN ecmp.mem[ecmp.cnt[x.ref].base].of ELSE [i \in {x.ref} |-> 1]

\* The transit prefixes that the chip has, with their paths.
ChipRoutes ==
  LET entries == {x \in UNION {Range(defip[f]) : f \in Fam} : x.dst \in Dst}
  IN  [p \in {x.dst : x \in entries} |->
         ChipPaths(CHOOSE x \in entries : x.dst = p)]

Table == INSTANCE L3Table WITH nh <- neigh, route <- ChipRoutes, Index <- 1..MaxNh

\* The chip forwards as L3Table says: a packet to a prefix goes over the
\* next-hops its gateways had when the route was last given, and no call for
\* one route or neighbour changes where another one's packets go.
\* (Without "defip" and "clear" failures, with a record for every prefix and
\* the IPv4 transit band below LocalBase.)
ForwardsAsTold == Table!TableSpec
=============================================================================
