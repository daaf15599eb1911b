----------------------------- MODULE VlanGroups -----------------------------
(***************************************************************************)
(* core/datapath/vlan.c: the per-port service VLANs, the L2 groups that    *)
(* pull ports off them, and the reader of l2-groups.conf.                  *)
(*                                                                         *)
(* The operators work on a record v, edged's and the chip's VLAN state:    *)
(*   member   chip VLAN_TAB and EGR_VLAN: VLAN -> its untagged ports       *)
(*   pvid     chip PORT_TAB: port -> VLAN of its untagged packets          *)
(*   group    port_group_vid: port -> VLAN of its L2 group, or 0           *)
(*                                                                         *)
(* The CPU is a tagged member of every service VLAN and of no group all    *)
(* along and is left out, and so are the spanning tree states.  Writes of  *)
(* a PVID work; bmd_vlan_port_add fails for the ports of a set "bad".      *)
(***************************************************************************)
EXTENDS Integers, FiniteSets, SequencesExt

CONSTANTS
  Ports,     \* logical numbers of the valid ports
  ResvLo, ResvHi,  \* EDGED_RESV_VLAN_LO, EDGED_RESV_VLAN_HI
  VidMax,    \* the largest VLAN, 4094
  LineMax    \* ports that fit in the line buffer of vlan_load_l2_groups

ASSUME VlanAssumption ==
  /\ Ports \subseteq 1..(ResvHi - ResvLo) /\ IsFiniteSet(Ports)
  /\ ResvLo \in Nat /\ ResvHi \in Nat
  /\ 2 <= ResvLo /\ ResvLo <= ResvHi /\ ResvHi <= VidMax
  /\ VidMax \in Nat /\ LineMax \in Nat \ {0}

Vlans == 1..VidMax
ResvVid(p) == ResvLo + p                            \* edged_resv_vid_for_port

\* Mutant of GroupVid: any VLAN may be that of a group.
AnyVid(u) == u \in 2..VidMax

\* The VLANs that vlan_l2_group_apply accepts.
GroupVid(u) == u \in 2..VidMax /\ u \notin ResvLo..ResvHi

\* vlan_init_resv_per_port: every port alone in its service VLAN.
VlanInit ==
  [member |-> [u \in Vlans |-> {p \in Ports : u = ResvVid(p)}],
   pvid   |-> [p \in Ports |-> ResvVid(p)],
   group  |-> [p \in Ports |-> 0]]

\* Mutant of Apply: ports that could not be added are tracked as well.
ApplyTracksAll(v, vid, ports, bad) ==
  IF ~GroupVid(vid) THEN v
  ELSE LET all == ports \cap Ports
           S == all \ bad
       IN  [member |-> [u \in Vlans |->
                          {p \in v.member[u] : p \in all => u \notin {1, ResvVid(p)}}
                            \cup (IF u = vid THEN S ELSE {})],
            pvid   |-> [p \in Ports |-> IF p \in S THEN vid ELSE v.pvid[p]],
            group  |-> [p \in Ports |-> IF p \in all THEN vid ELSE v.group[p]]]

(***************************************************************************)
(* vlan_l2_group_apply: the ports of the set leave VLAN 1 and their        *)
(* service VLAN, but no group they are in already; those that can be added *)
(* join the group.  Ports that do not exist are skipped.                   *)
(***************************************************************************)
Apply(v, vid, ports, bad) ==
  IF ~GroupVid(vid) THEN v
  ELSE LET all == ports \cap Ports
           S == all \ bad
       IN  [member |-> [u \in Vlans |->
                          {p \in v.member[u] : p \in all => u \notin {1, ResvVid(p)}}
                            \cup (IF u = vid THEN S ELSE {})],
            pvid   |-> [p \in Ports |-> IF p \in S THEN vid ELSE v.pvid[p]],
            group  |-> [p \in Ports |-> IF p \in S THEN vid ELSE v.group[p]]]

\* vlan_l2_reset, vlan_port_restore_l3: every port that is in a group as far
\* as port_group_vid knows goes back to its service VLAN.
Reset(v, bad) ==
  [member |-> [u \in Vlans |->
                 {p \in v.member[u] : v.group[p] # u}
                   \cup {p \in Ports \ bad : v.group[p] # 0 /\ u = ResvVid(p)}],
   pvid   |-> [p \in Ports |-> IF v.group[p] # 0 THEN ResvVid(p) ELSE v.pvid[p]],
   group  |-> [p \in Ports |-> 0]]
-----------------------------------------------------------------------------
(***************************************************************************)
(* l2-groups.conf.  Its content is a function from the VLAN of a line to   *)
(* the list of its ports; the command line tool writes the lines in the    *)
(* order of the VLANs.  A line that does not fit in the buffer is read as  *)
(* two: the rest of it becomes a line of its own, which may start with the *)
(* digits of a port that was cut in two ("swp" and "44"), and so name a    *)
(* group that nobody asked for.                                            *)
(***************************************************************************)
LoadLine(v, vid, ports, bad) ==
  IF Len(ports) <= LineMax THEN Apply(v, vid, ToSet(ports), bad)
  ELSE LET rest == SubSeq(ports, LineMax + 1, Len(ports))
       IN  Apply(Apply(v, vid, ToSet(SubSeq(ports, 1, LineMax)), bad),
                 Head(rest), ToSet(Tail(rest)), bad)

\* vlan_load_l2_groups: what the file makes of v, line by line.
Load(v, l2, bad) ==
  LET read[u \in 0..VidMax] ==
        IF u = 0 THEN v
        ELSE IF u \in DOMAIN l2 THEN LoadLine(read[u - 1], u, l2[u], bad)
        ELSE read[u - 1]
  IN  read[VidMax]
-----------------------------------------------------------------------------
\* The group that the file puts port p in: of several, the one read last.
GroupOf(l2, p) ==
  LET S == {u \in DOMAIN l2 : GroupVid(u) /\ p \in ToSet(l2[u])}
  IN  IF S = {} THEN 0 ELSE Max(S)

\* The chip bridges the ports of S as the file says: a port that is in a group
\* is a member of its VLAN, classifies into it and has left its service VLAN;
\* any other port is back in its service VLAN.
AsConfigured(v, l2, S) ==
  \A p \in S :
    LET u == IF GroupOf(l2, p) = 0 THEN ResvVid(p) ELSE GroupOf(l2, p)
    IN  /\ p \in v.member[u] /\ v.pvid[p] = u
        /\ u # ResvVid(p) => p \notin v.member[ResvVid(p)]
=============================================================================
