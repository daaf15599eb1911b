----------------------------- MODULE BcmdSwitch -----------------------------
(***************************************************************************)
(* The switching state that bcmd (asic/bcm56340/bcmd.c) gives the chip of  *)
(* an AS4610: the VLANs of its ports and groups, the access lists, and the *)
(* KNET netdevs, which the SDK's kernel module keeps when bcmd ends.       *)
(*                                                                         *)
(* VLAN operators work on a record v:                                      *)
(*   member   chip: VLAN -> its untagged front ports                       *)
(*   pvid     chip: port -> VLAN of its untagged packets                   *)
(*   group    bcmd_port_group: port -> VLAN of its L2 group, or 0          *)
(* The CPU is a member of every VLAN but the first and is left out.        *)
(*                                                                         *)
(* Access list operators work on the set of the entries of the chip,       *)
(* [rule, port, known], known where bcmd_acl_entries has it; the groups of *)
(* IPv4 and of IPv6 rules are one, of FpMax entries.                       *)
(*                                                                         *)
(* KNET operators work on a record k:                                      *)
(*   netif    netdevs: id -> front port                                    *)
(*   filter   sequence of [port, dest], the first that matches counts; the *)
(*            catch-all has port 0                                         *)
(***************************************************************************)
EXTENDS Integers, FiniteSets, SequencesExt

CONSTANTS
  FrontPorts, \* the front ports
  OwnBase,   \* bcmd_vlan_for_port is OwnBase + port, 100
  VidMax,    \* the largest VLAN, 4094
  EntryMax,  \* BCMD_ACL_MAX_ENTRIES
  RuleMax, BindMax,  \* BCMD_ACL_MAX_RULES, BCMD_ACL_MAX_BINDS
  FpMax      \* entries of the field processor

ASSUME SwitchAssumption ==
  /\ FrontPorts \subseteq Nat \ {0} /\ IsFiniteSet(FrontPorts) /\ OwnBase \in Nat \ {0}
  /\ VidMax \in Nat /\ \A p \in FrontPorts : OwnBase + p <= VidMax
  /\ EntryMax \in Nat /\ RuleMax \in Nat /\ BindMax \in Nat /\ FpMax \in Nat

\* The members of a set of numbers, the lowest first.  (SetToSortSeq makes TLC
\* enumerate the sequences over the set.)
InOrder(S) ==
  [i \in 1..Cardinality(S) |-> CHOOSE x \in S : Cardinality({y \in S : y < x}) = i - 1]

Vlans == 1..VidMax
OwnVlan(p) == OwnBase + p

\* "init bcm" of the SDK: all ports are in VLAN 1.
ChipVlans ==
  [member |-> [u \in Vlans |-> IF u = 1 THEN FrontPorts ELSE {}],
   pvid |-> [p \in FrontPorts |-> 1], group |-> [p \in FrontPorts |-> 0]]

\* bcmd_vlan_isolate, for the ports of S; "from" is where they leave beside
\* VLAN 1.
IsolateFrom(v, S, from) ==
  [v EXCEPT !.member = [u \in Vlans |->
                          {p \in v.member[u] : p \in S => u \notin {1, from[p]}}
                            \cup {p \in S : u = OwnVlan(p)}],
            !.pvid = [p \in FrontPorts |-> IF p \in S THEN OwnVlan(p) ELSE v.pvid[p]]]

Isolate(v, S) == IsolateFrom(v, S, [p \in S |-> 1])

(***************************************************************************)
(* bcmd_load_l2_groups, of lines [vid, ports].  Names that are of no front *)
(* port are skipped, and so are a line that then has no port and one whose *)
(* VLAN bcmd_l2_group_apply refuses.  The ports of a line join, then leave *)
(* VLAN 1 and their own VLAN, even where that is the VLAN of the group;    *)
(* they leave no other group, and a later line has the last word.          *)
(***************************************************************************)
LinesOf(lines, p) == {i \in DOMAIN lines : lines[i].vid \in 2..VidMax /\ p \in lines[i].ports}

LoadGroups(v, lines) ==
  LET grouped == {p \in FrontPorts : LinesOf(lines, p) # {}}
      joined(p) == {lines[i].vid : i \in LinesOf(lines, p)}
      to == [p \in grouped |-> lines[Max(LinesOf(lines, p))].vid]
  IN  [member |-> [u \in Vlans |->
                     {p \in v.member[u] \cup {p \in grouped : u \in joined(p)} :
                        p \in grouped => u \notin {1, OwnVlan(p)}}],
       pvid  |-> [p \in FrontPorts |-> IF p \in grouped THEN to[p] ELSE v.pvid[p]],
       group |-> [p \in FrontPorts |-> IF p \in grouped THEN to[p] ELSE v.group[p]]]

\* Mutant of ResetGroups: a port stays a member of its group.
ResetGroupsStay(v) ==
  LET S == {p \in FrontPorts : v.group[p] # 0}
  IN  [Isolate(v, S) EXCEPT !.group = [p \in FrontPorts |-> 0]]

\* bcmd_l2_reset: as far as bcmd_port_group knows, a port leaves its group.
ResetGroups(v) ==
  LET S == {p \in FrontPorts : v.group[p] # 0}
  IN  [IsolateFrom(v, S, v.group) EXCEPT !.group = [p \in FrontPorts |-> 0]]
-----------------------------------------------------------------------------
(***************************************************************************)
(* acls.conf is a sequence of lines: rules [name, seq], where seq stands   *)
(* for all that the rule says, and binds [name, ports].                    *)
(***************************************************************************)
IsBind(l) == "ports" \in DOMAIN l

\* The rules in the order of their lines, as many as fit in rules[].
AclRules(lines) ==
  LET IsRule(i) == ~IsBind(lines[i])
      R == {i \in DOMAIN lines : IsRule(i)}
      nth(k) == CHOOSE i \in R : Cardinality({j \in 1..i : IsRule(j)}) = k
  IN  [k \in 1..Min({RuleMax, Cardinality(R)}) |-> lines[nth(k)]]

\* The names that are applied, as many as fit in binds[].
Bound(lines) ==
  LET before(i) == {lines[j].name : j \in {j \in 1..i - 1 : IsBind(lines[j])}}
  IN  {lines[i].name : i \in {i \in DOMAIN lines :
                               IsBind(lines[i]) /\ Cardinality(before(i)) < BindMax}}

\* The ports that rules of this name are applied to.
BoundTo(lines, name) ==
  IF name \notin Bound(lines) THEN {}
  ELSE UNION {l.ports \cap FrontPorts : l \in {l \in ToSet(lines) : IsBind(l) /\ l.name = name}}

(***************************************************************************)
(* bcmd_load_acls and bcmd_acl_program_one, rule by rule and port by port. *)
(* What cannot be installed is given back; what does not fit in            *)
(* bcmd_acl_entries stays in the chip, and counts once however often.      *)
(***************************************************************************)
LoadAcls(e, lines) ==
  LET rs == AclRules(lines)
      W == {x \in (DOMAIN rs) \X FrontPorts : x[2] \in BoundTo(lines, rs[x[1]].name)}
      rank(x) == Cardinality({y \in W : y[1] < x[1] \/ (y[1] = x[1] /\ y[2] < x[2])})
  IN  e \cup {[rule |-> rs[x[1]], port |-> x[2], known |-> rank(x) < EntryMax] :
                x \in {x \in W : Cardinality(e) + rank(x) < FpMax}}

\* Mutant of AclReset: as a group flush, which left the entries in the TCAM.
AclFlush(e) == {[x EXCEPT !.known = FALSE] : x \in e}

\* bcmd_acl_reset.
AclReset(e) == {x \in e : ~x.known}
-----------------------------------------------------------------------------
KnetNone == [netif |-> <<>>, filter |-> <<>>]

\* Mutant of KnetClear: the filters of the last run stay.
KnetClearNetifs(k) == [k EXCEPT !.netif = <<>>]

\* bcmd_knet_setup destroys all by their ids; the kernel module numbers them
\* from the lowest id that is free, far below BCMD_MAXPORT + 2.
KnetClear(k) == KnetNone

\* A netdev for each port, but those of "bad", which could not be created.
KnetNetifs(k, bad) ==
  LET made == InOrder(FrontPorts \ bad)
  IN  [k EXCEPT !.netif = [i \in DOMAIN made |-> made[i]]]

\* A filter for each port that has a netdev, in the order of the ports, but for
\* those of "bad".
KnetFilters(k, bad) ==
  LET ids == InOrder({i \in DOMAIN k.netif : k.netif[i] \notin bad})
  IN  [k EXCEPT !.filter = @ \o [i \in DOMAIN ids |->
                                   [port |-> k.netif[ids[i]], dest |-> ids[i]]]]

\* The rest goes to the first netdev.
KnetCatchAll(k) ==
  IF k.netif = <<>> THEN k
  ELSE [k EXCEPT !.filter = Append(@, [port |-> 0, dest |-> Min(DOMAIN k.netif)])]

\* The port whose netdev gets the frames that come in at port p, or 0.
DeliveredTo(k, p) ==
  LET S == {i \in DOMAIN k.filter : k.filter[i].port \in {0, p}}
      d == k.filter[Min(S)].dest
  IN  IF S = {} \/ d \notin DOMAIN k.netif THEN 0 ELSE k.netif[d]
=============================================================================
