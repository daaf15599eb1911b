----------------------------- MODULE BcmdConfig -----------------------------
(***************************************************************************)
(* bcmd of an AS4610 from its start to its loop (bcmd_run in               *)
(* asic/bcm56340/bcmd.c): the chip, its ports, the files l2-groups.conf    *)
(* and acls.conf, the KNET netdevs, and the admin state that the kernel    *)
(* has of them.  BcmdSync has the rest of what netlink tells bcmd.         *)
(*                                                                         *)
(* Beside bcmd run the edgenos command (one at a time), which writes a     *)
(* file in two steps and sends SIGHUP, "ip link set", and the kernel       *)
(* module of the SDK, whose netdevs and filters outlive bcmd.  bcmd may    *)
(* crash, or give up at a step that fails; systemd starts it again, and    *)
(* "init all" resets the chip.  A SIGHUP before bcmd has a handler ends    *)
(* it, which systemd (Restart=on-failure) takes for a clean exit.          *)
(*                                                                         *)
(* Left out: optics and board registers, link state, and a netlink socket  *)
(* that cannot be opened.                                                  *)
(***************************************************************************)
EXTENDS BcmdSwitch

CONSTANTS
  Flaky,        \* ports whose enabling, netdev or filter may fail at start
  GroupFiles, AclFiles,   \* contents of the two files, sequences of lines
  StartFiles,   \* contents of both, <<groups, acls>>, at the first start
  SockMax,      \* messages that fit in the receive buffer of the socket
  MaxEdits, MaxLinks, MaxCrashes  \* bounds of the model

ASSUME BcmdConfigAssumption ==
  /\ Flaky \subseteq FrontPorts /\ SockMax \in Nat \ {0}
  /\ GroupFiles \subseteq Seq([vid : Nat, ports : SUBSET Nat])
  /\ \A f \in AclFiles : DOMAIN f = 1..Len(f) /\ Len(f) \in Nat
  /\ StartFiles \subseteq GroupFiles \X AclFiles
  /\ MaxEdits \in Nat /\ MaxLinks \in Nat /\ MaxCrashes \in Nat

VARIABLES
  groups, acls,  \* the two files
  cmd,      \* the command: [pc, file, new]
  pc,       \* where bcmd is
  resync,   \* bcmd: bcmd_l2_resync_req
  vlan,     \* bcmd and chip: BcmdSwitch
  fp,       \* bcmd and chip: entries of the access lists
  enabled,  \* chip: ports that are enabled
  knet,     \* kernel module: BcmdSwitch
  admin,    \* kernel: ports whose netdev is up
  sock,     \* socket: RTM_NEWLINK [port, up] to be received
  missed,   \* history: ports whose admin state bcmd has not been told
  edits, links, crashes  \* counters of the bounds

fileVars  == <<groups, acls, cmd, edits>>
chipVars  == <<vlan, fp, enabled>>
linkVars  == <<admin, sock, missed, links>>
vars == <<fileVars, pc, resync, chipVars, knet, linkVars, crashes>>

Booting == {"exec", "ports", "groups", "acls", "clear", "netifs", "filters",
            "catch-all", "netdevs", "open", "dumps"}
Running == pc \notin {"down", "dead"}
HasHandler == pc \in {"loop", "resync groups", "resync acls"}

NoCmd == [pc |-> "none", file |-> "groups", new |-> <<>>]
Netdevs == ToSet(knet.netif)

Init ==
  /\ \E s \in StartFiles : groups = s[1] /\ acls = s[2]
  /\ cmd = NoCmd /\ edits = 0
  /\ pc = "exec" /\ resync = FALSE /\ crashes = 0
  /\ vlan = ChipVlans /\ fp = {} /\ enabled = {}
  /\ knet = KnetNone /\ admin = {} /\ sock = <<>> /\ missed = {} /\ links = 0
-----------------------------------------------------------------------------
(* The edgenos command.                                                    *)

\* open(conf, "w") empties a file that will have new content.
CmdOpen ==
  /\ cmd.pc = "none" /\ Running /\ edits < MaxEdits /\ edits' = edits + 1
  /\ \/ \E f \in GroupFiles :
          cmd' = [pc |-> "open", file |-> "groups", new |-> f] /\ groups' = <<>>
          /\ UNCHANGED acls
     \/ \E f \in AclFiles :
          cmd' = [pc |-> "open", file |-> "acls", new |-> f] /\ acls' = <<>>
          /\ UNCHANGED groups
  /\ UNCHANGED <<pc, resync, chipVars, knet, linkVars, crashes>>

CmdWrite ==
  /\ cmd.pc = "open" /\ cmd' = [cmd EXCEPT !.pc = "written"]
  /\ IF cmd.file = "groups" THEN groups' = cmd.new /\ UNCHANGED acls
                            ELSE acls' = cmd.new /\ UNCHANGED groups
  /\ UNCHANGED <<edits, pc, resync, chipVars, knet, linkVars, crashes>>

\* pkill -HUP bcmd; bcmd_on_sig.
CmdHup ==
  /\ cmd.pc = "written" /\ cmd' = NoCmd
  /\ resync' = (resync \/ HasHandler)
  /\ pc' = IF pc \in Booting THEN "dead" ELSE pc
  /\ UNCHANGED <<groups, acls, edits, chipVars, knet, linkVars, crashes>>
-----------------------------------------------------------------------------
(* The kernel.                                                             *)

\* An event reaches the socket of a bcmd that has one; it tells the state of
\* the netdev as a whole, so that what was missed before is made good.
Post(p, up) ==
  IF pc \in {"dumps"} \cup {"loop", "resync groups", "resync acls"} /\ Len(sock) < SockMax
  THEN /\ sock' = Append(sock, [port |-> p, up |-> up]) /\ missed' = missed \ {p}
  ELSE /\ missed' = missed \cup {p} /\ UNCHANGED sock

\* ip link set; links also change otherwise (MTU, carrier), with the same event.
SetAdmin(p) ==
  /\ p \in Netdevs /\ links < MaxLinks /\ links' = links + 1
  /\ admin' \in {admin \cup {p}, admin \ {p}}
  /\ Post(p, p \in admin')
  /\ UNCHANGED <<fileVars, pc, resync, chipVars, knet, crashes>>
-----------------------------------------------------------------------------
(* The start of bcmd.                                                      *)

At(here, there) == pc = here /\ pc' = there /\ UNCHANGED <<fileVars, resync, crashes>>

\* bcmd_chip_init.
ChipInit ==
  /\ At("exec", "ports")
  /\ vlan' = ChipVlans /\ fp' = {} /\ enabled' = {}
  /\ UNCHANGED <<knet, linkVars>>

\* bcmd_port_up: a port that cannot be enabled is not isolated either.
PortsUp ==
  /\ At("ports", "groups")
  /\ \E bad \in SUBSET Flaky :
       enabled' = FrontPorts \ bad /\ vlan' = Isolate(vlan, FrontPorts \ bad)
  /\ UNCHANGED <<fp, knet, linkVars>>

BootGroups ==
  /\ At("groups", "acls") /\ vlan' = LoadGroups(vlan, groups)
  /\ UNCHANGED <<fp, enabled, knet, linkVars>>

BootAcls ==
  /\ At("acls", "clear") /\ fp' = LoadAcls(fp, acls)
  /\ UNCHANGED <<vlan, enabled, knet, linkVars>>

\* bcmd_rx_start and bcmd_knet_setup, whose first loops remove what the last
\* run has left; with a netdev goes its state.
Clear ==
  /\ At("clear", "netifs")
  /\ knet' = KnetClear(knet) /\ admin' = {}
  /\ UNCHANGED <<chipVars, sock, missed, links>>

Netifs ==
  /\ At("netifs", "filters") /\ \E bad \in SUBSET Flaky : knet' = KnetNetifs(knet, bad)
  /\ UNCHANGED <<chipVars, linkVars>>

Filters ==
  /\ At("filters", "catch-all") /\ \E bad \in SUBSET Flaky : knet' = KnetFilters(knet, bad)
  /\ UNCHANGED <<chipVars, linkVars>>

CatchAll ==
  /\ At("catch-all", "netdevs") /\ knet' = KnetCatchAll(knet)
  /\ UNCHANGED <<chipVars, linkVars>>

\* bcmd_build_ifmap and bcmd_netdev_up, before there is a socket.
NetdevsUp ==
  /\ At("netdevs", "open") /\ admin' = Netdevs
  /\ UNCHANGED <<chipVars, knet, sock, missed, links>>

\* bcmd_nl_open: from here on events are heard.  No dump tells the admin state,
\* so that a netdev that differs from its port by now is not heard of.
NlOpen ==
  /\ At("open", "dumps")
  /\ sock' = <<>> /\ missed' = {p \in Netdevs : (p \in admin) # (p \in enabled)}
  /\ UNCHANGED <<chipVars, knet, admin, links>>

\* The dumps are done; signal() installs the handlers.
Handlers == At("dumps", "loop") /\ UNCHANGED <<chipVars, knet, linkVars>>
-----------------------------------------------------------------------------
(* The loop of bcmd.                                                       *)

\* Mutant of HandleLink: a port is enabled again, and never disabled.
HandleLinkUpOnly ==
  /\ pc \in {"dumps", "loop"} /\ sock # <<>>
  /\ LET m == Head(sock)
     IN  enabled' = IF m.port \notin Netdevs THEN enabled
                    ELSE enabled \cup {p \in {m.port} : m.up}
  /\ sock' = Tail(sock)
  /\ UNCHANGED <<fileVars, pc, resync, vlan, fp, knet, admin, missed, links, crashes>>

\* bcmd_nl_handle, RTM_NEWLINK, from a drain or from the loop.
HandleLink ==
  /\ pc \in {"dumps", "loop"} /\ sock # <<>>
  /\ LET m == Head(sock)
     IN  enabled' = IF m.port \notin Netdevs THEN enabled
                    ELSE (enabled \ {m.port}) \cup {p \in {m.port} : m.up}
  /\ sock' = Tail(sock)
  /\ UNCHANGED <<fileVars, pc, resync, vlan, fp, knet, admin, missed, links, crashes>>

Resync ==
  /\ pc = "loop" /\ resync /\ pc' = "resync groups" /\ resync' = FALSE
  /\ UNCHANGED <<fileVars, chipVars, knet, linkVars, crashes>>

\* bcmd_l2_reset and bcmd_load_l2_groups.
ResyncGroups ==
  /\ At("resync groups", "resync acls")
  /\ vlan' = LoadGroups(ResetGroups(vlan), groups)
  /\ UNCHANGED <<fp, enabled, knet, linkVars>>

\* Mutant of ResyncAcls: the flag is cleared when the work is done.
ResyncAclsAndClear ==
  /\ pc = "resync acls" /\ pc' = "loop" /\ resync' = FALSE
  /\ fp' = LoadAcls(AclReset(fp), acls)
  /\ UNCHANGED <<fileVars, vlan, enabled, knet, linkVars, crashes>>

\* bcmd_acl_reset and bcmd_load_acls.
ResyncAcls ==
  /\ At("resync acls", "loop")
  /\ fp' = LoadAcls(AclReset(fp), acls)
  /\ UNCHANGED <<vlan, enabled, knet, linkVars>>

\* bcmd ends in a crash, or with an error of its start; its socket goes.
Crash ==
  /\ Running /\ crashes < MaxCrashes /\ crashes' = crashes + 1
  /\ pc' = "down" /\ resync' = FALSE /\ sock' = <<>> /\ missed' = {}
  /\ UNCHANGED <<fileVars, chipVars, knet, admin, links>>

\* systemd, RestartSec later.
Restart ==
  /\ At("down", "exec") /\ UNCHANGED <<chipVars, knet, linkVars>>

Boot == \/ ChipInit \/ PortsUp \/ BootGroups \/ BootAcls \/ Clear \/ Netifs
        \/ Filters \/ CatchAll \/ NetdevsUp \/ NlOpen \/ Handlers \/ Restart
Loop == HandleLink \/ Resync \/ ResyncGroups \/ ResyncAcls
Command == CmdOpen \/ CmdWrite \/ CmdHup

Next == Boot \/ Loop \/ Command \/ Crash \/ \E p \in FrontPorts : SetAdmin(p)

(***************************************************************************)
(* Fairness.  systemd runs bcmd, and its loop turns at least every two     *)
(* seconds; a command that has opened the file runs to its end.            *)
(***************************************************************************)
Fairness == WF_vars(Boot) /\ WF_vars(Loop) /\ WF_vars(CmdWrite \/ CmdHup)

Spec == Init /\ [][Next]_vars /\ Fairness
-----------------------------------------------------------------------------
\* No change of the files waits to be taken over.
Quiet == pc = "loop" /\ ~resync /\ cmd.pc = "none"

\* The VLAN that the file puts port p in: of several, the one read last.
GroupOf(p) ==
  LET S == {i \in DOMAIN groups : p \in groups[i].ports /\ groups[i].vid \in 2..VidMax}
  IN  IF S = {} THEN 0 ELSE groups[Max(S)].vid

\* Each group of the file is a broadcast domain of its own, and so is every
\* other port, whatever the file said before.  A port that could not be enabled
\* at start, and has been in no group since, is left in VLAN 1.
GroupsApplied ==
  \A p \in FrontPorts :
    LET u == IF GroupOf(p) # 0 THEN GroupOf(p)
             ELSE IF vlan.pvid[p] = 1 THEN 1 ELSE OwnVlan(p)
    IN  vlan.pvid[p] = u /\ {w \in Vlans : p \in vlan.member[w]} = {u}

\* The chip has an entry for each rule that is applied and each of its ports,
\* no other and none twice, in as far as they fit.
AclsApplied ==
  LET on == {x \in ToSet(AclRules(acls)) \X FrontPorts : x[2] \in BoundTo(acls, x[1].name)}
      has == {<<x.rule, x.port>> : x \in fp}
  IN  /\ has \subseteq on /\ Cardinality(has) = Cardinality(fp)
      /\ Cardinality(fp) = Min({FpMax, Cardinality(on)})

\* The chip bridges as the file says when no change waits to be taken over.
BridgedAsFile == Quiet => GroupsApplied

\* It has the access lists of the file when no change waits to be taken over.
AclsAsFile == Quiet => AclsApplied

\* What comes in at a port reaches the host on the netdev of the port, whatever
\* an earlier bcmd has left behind and whatever failed; only what has no filter
\* of its own goes to the first netdev.
OwnNetdev ==
  pc \in {"netdevs", "open", "dumps", "loop", "resync groups", "resync acls"}
    /\ Netdevs # {} =>
      \A p \in FrontPorts :
        DeliveredTo(knet, p) = IF \E i \in DOMAIN knet.filter : knet.filter[i].port = p
                               THEN p ELSE Min(Netdevs)

\* A port is enabled if and only if its netdev is up, once bcmd has read its
\* socket: for all netdevs whose state it could learn.
AdminFollowed ==
  pc = "loop" /\ sock = <<>> =>
    \A p \in Netdevs \ missed : p \in enabled <=> p \in admin

\* A change of a file is not lost, also when it comes in the middle of a resync
\* or while bcmd is down: in the end the chip has what the files say, or a SIGHUP
\* has ended bcmd.
FilesReachChip == <>[](pc = "dead" \/ (Quiet /\ GroupsApplied /\ AclsApplied))
=============================================================================
