---------------------------- MODULE EdgedConfig ----------------------------
(***************************************************************************)
(* How operator configuration reaches the chip on a BCM56846 switch.       *)
(*                                                                         *)
(* Any number of "edgenos l2" and "edgenos acl" commands (core/cli/edgenos;*)
(* the web UI starts them too) read a file, change what they read, write   *)
(* the file in place and send SIGHUP.  edged only notes the signal in a    *)
(* flag; its main loop clears the flag, then reads l2-groups.conf and      *)
(* programs the VLANs, then reads acls.conf and programs the access lists. *)
(* At start it reads both files on its own, inside asic_init.              *)
(*                                                                         *)
(* The commands and edged are processes: every step of one interleaves     *)
(* with the others'.  edged may crash; systemd starts it again, and the    *)
(* chip is reset.  A SIGHUP that comes before edged has a handler ends it, *)
(* and systemd (Restart=on-failure) takes that for a clean exit.           *)
(***************************************************************************)
EXTENDS VlanGroups, AclTable

CONSTANTS
  Cmd,        \* commands that may run at the same time
  Groups,     \* VLANs named in commands
  PortLists,  \* port lists given in commands
  Rules,      \* rules given in commands: <<name of the list, number>>, where
              \* names are positive numbers in their sorting order
  BadPorts,   \* ports whose bmd_vlan_port_add may fail
  L2Files, AclFiles,  \* contents of the two files at the start
  MaxCmds,    \* bound of the model: commands started
  MaxCrashes  \* bound of the model: crashes of edged

ASSUME ConfigAssumption ==
  /\ Groups \subseteq Vlans /\ \A f \in L2Files : DOMAIN f \subseteq Vlans
  /\ Rules \subseteq (Nat \ {0}) \X Int
  /\ \A a \in AclFiles \ {NoAcls} :
       /\ a = [rules |-> a.rules, binds |-> a.binds]
       /\ IsFiniteSet(DOMAIN a.rules) /\ DOMAIN a.rules \subseteq (Nat \ {0}) \X Int

VARIABLES
  l2,       \* /etc/edged/l2-groups.conf: VLAN -> ports
  acl,      \* /etc/edged/acls.conf: [rules: <<name, seq>> -> ok, binds], NoAcls
  cmd,      \* the commands: [pc, file, new]
  started,  \* commands started so far
  epc,      \* edged: where it is
  resync,   \* edged: vlan_resync_req
  vlan,     \* edged and chip: VlanGroups
  fp,       \* edged and chip: AclTable
  crashes   \* crashes so far

fileVars  == <<l2, acl>>
cmdVars   == <<cmd, started>>
edgedVars == <<epc, resync, vlan, fp, crashes>>
vars == <<fileVars, cmdVars, edgedVars>>

\* Where edged is: asic_init, main's loop and vlan_resync_req's work in it;
\* "exec" is before the handlers are installed.
Places == {"exec", "boot l2", "boot acl", "boot traps", "loop", "l2", "acl",
           "down", "dead"}

NoCmd == [pc |-> "none", file |-> "l2", new |-> <<>>]
EmptyAcl == [rules |-> <<>>, binds |-> {}]

\* The rules in the order _acl_write puts them in.
InOrder(k, m) == k[1] < m[1] \/ (k[1] = m[1] /\ k[2] < m[2])

AclContent(a) ==
  IF a = NoAcls THEN NoAcls
  ELSE LET keys == Ordered(DOMAIN a.rules, InOrder)
       IN  [rules |-> [i \in DOMAIN keys |->
                         [name |-> keys[i][1], seq |-> keys[i][2], ok |-> a.rules[keys[i]]]],
            binds |-> a.binds]

Init ==
  /\ l2 \in L2Files /\ acl \in AclFiles
  /\ cmd = [w \in Cmd |-> NoCmd] /\ started = 0
  /\ epc = "exec" /\ resync = FALSE /\ crashes = 0
  /\ vlan = VlanInit /\ fp = AclInit
-----------------------------------------------------------------------------
(* The commands.                                                           *)

Without(f, S) == Restrict(f, DOMAIN f \ S)
With(f, x, v) == [y \in DOMAIN f \cup {x} |-> IF y = x THEN v ELSE f[y]]

\* cmd_l2: what "set", "del" and "clear" make of the groups read.
L2Edits(g) ==
  {With(g, line[1], line[2]) : line \in Groups \X PortLists}
    \cup {Without(g, {vid}) : vid \in Groups} \cup {<<>>}

Names == {k[1] : k \in Rules}

\* cmd_acl: what "set", "del", "apply", "unapply" and "clear" make of them.
AclEdits(a) ==
  LET r == IF a = NoAcls THEN EmptyAcl ELSE a
      rules(f) == [rules |-> f, binds |-> r.binds]
      binds(B) == [rules |-> r.rules, binds |-> B]
  IN  {rules(With(r.rules, rule[1], rule[2])) : rule \in Rules \X BOOLEAN}
        \cup {rules(Without(r.rules, {k})) : k \in Rules}
        \cup {[rules |-> Without(r.rules, {k \in Rules : k[1] = n}),
               binds |-> r.binds \ {n}] : n \in Names}
        \cup {binds(r.binds \cup {n}) : n \in Names}
        \cup {binds(r.binds \ {n}) : n \in Names} \cup {EmptyAcl}

Running == epc \notin {"down", "dead"}

\* main has called signal(); before it a SIGHUP ends edged.
HasHandler == Running /\ epc # "exec"

\* pgrep finds edged, the file is read and the change made.
CmdRead(w) ==
  /\ cmd[w].pc = "none" /\ Running
  /\ started < MaxCmds /\ started' = started + 1
  /\ \/ \E new \in L2Edits(l2) :
          cmd' = [cmd EXCEPT ![w] = [pc |-> "read", file |-> "l2", new |-> new]]
     \/ \E new \in AclEdits(acl) :
          cmd' = [cmd EXCEPT ![w] = [pc |-> "read", file |-> "acl", new |-> new]]
  /\ UNCHANGED <<fileVars, edgedVars>>

\* open(conf, "w") leaves the file empty.
CmdOpen(w) ==
  /\ cmd[w].pc = "read"
  /\ IF cmd[w].file = "l2" THEN l2' = <<>> /\ UNCHANGED acl
                           ELSE acl' = EmptyAcl /\ UNCHANGED l2
  /\ cmd' = [cmd EXCEPT ![w].pc = "open"]
  /\ UNCHANGED <<started, edgedVars>>

\* The text is written when the file is closed.  Lines that another command
\* has written since the file was opened stay behind its end.
CmdWrite(w) ==
  /\ cmd[w].pc = "open"
  /\ LET new == cmd[w].new IN
     IF cmd[w].file = "l2"
     THEN \E K \in SUBSET (DOMAIN l2 \ DOMAIN new) :
            /\ l2' = [u \in K \cup DOMAIN new |-> IF u \in K THEN l2[u] ELSE new[u]]
            /\ UNCHANGED acl
     ELSE \E K \in SUBSET (DOMAIN acl.rules \ DOMAIN new.rules) :
            /\ acl' = [rules |-> [k \in K \cup DOMAIN new.rules |->
                                    IF k \in K THEN acl.rules[k] ELSE new.rules[k]],
                       binds |-> new.binds]
            /\ UNCHANGED l2
  /\ cmd' = [cmd EXCEPT ![w].pc = "written"]
  /\ UNCHANGED <<started, edgedVars>>

\* acls.conf is removed by hand, to no longer have any.
CmdRemove(w) ==
  /\ cmd[w].pc = "none" /\ acl # NoAcls /\ \A x \in Cmd : cmd[x].pc = "none"
  /\ started < MaxCmds /\ started' = started + 1
  /\ acl' = NoAcls
  /\ cmd' = [cmd EXCEPT ![w].pc = "written"]
  /\ UNCHANGED <<l2, edgedVars>>

\* pkill -HUP edged.
CmdHup(w) ==
  /\ cmd[w].pc = "written" /\ cmd' = [cmd EXCEPT ![w] = NoCmd]
  /\ resync' = (resync \/ HasHandler)
  /\ epc' = IF epc = "exec" THEN "dead" ELSE epc
  /\ UNCHANGED <<fileVars, started, vlan, fp, crashes>>
-----------------------------------------------------------------------------
(* edged.                                                                  *)

At(here, there) ==
  /\ epc = here /\ epc' = there
  /\ UNCHANGED <<fileVars, cmdVars, crashes>>

\* main installs the handlers; asic_init resets the chip, and
\* vlan_init_resv_per_port gives every port its service VLAN.
BootChip ==
  /\ At("exec", "boot l2") /\ vlan' = VlanInit /\ fp' = AclInit /\ UNCHANGED resync

BootL2 ==
  /\ At("boot l2", "boot acl")
  /\ \E bad \in SUBSET BadPorts : vlan' = Load(vlan, l2, bad)
  /\ UNCHANGED <<fp, resync>>

BootAcl ==
  /\ At("boot acl", "boot traps")
  /\ fp' = AclLoad(fp, AclContent(acl)) /\ UNCHANGED <<vlan, resync>>

\* datapath_init, of which cumulus_replicate_init is the last step.
BootTraps ==
  /\ At("boot traps", "loop") /\ fp' = Replicate(fp) /\ UNCHANGED <<vlan, resync>>

\* Mutant of Resync: the flag is never cleared.
ResyncForEver == resync /\ At("loop", "l2") /\ UNCHANGED <<resync, vlan, fp>>

\* The main loop finds the flag set.
Resync == resync /\ At("loop", "l2") /\ resync' = FALSE /\ UNCHANGED <<vlan, fp>>

\* vlan_l2_resync.
ResyncL2 ==
  /\ At("l2", "acl")
  /\ \E bad \in SUBSET BadPorts : vlan' = Load(Reset(vlan, bad), l2, bad)
  /\ UNCHANGED <<fp, resync>>

\* Mutant of ResyncAcl: the flag is cleared when the work is done.
ResyncAclAndClear ==
  /\ At("acl", "loop")
  /\ fp' = AclLoad(AclReset(fp), AclContent(acl)) /\ resync' = FALSE /\ UNCHANGED vlan

\* edged_acl_reset, edged_acl_load.
ResyncAcl ==
  /\ At("acl", "loop")
  /\ fp' = AclLoad(AclReset(fp), AclContent(acl)) /\ UNCHANGED <<vlan, resync>>

Crash ==
  /\ Running /\ crashes < MaxCrashes /\ crashes' = crashes + 1
  /\ epc' = "down" /\ resync' = FALSE
  /\ UNCHANGED <<fileVars, cmdVars, vlan, fp>>

\* systemd, RestartSec later.
Restart == At("down", "exec") /\ UNCHANGED <<resync, vlan, fp>>

Command(w) == CmdRead(w) \/ CmdOpen(w) \/ CmdWrite(w) \/ CmdRemove(w) \/ CmdHup(w)
Boot == BootChip \/ BootL2 \/ BootAcl \/ BootTraps
Loop == Resync \/ ResyncL2 \/ ResyncAcl

Next == (\E w \in Cmd : Command(w)) \/ Boot \/ Loop \/ Crash \/ Restart

(***************************************************************************)
(* Fairness: edged and a command that was started go on, and systemd       *)
(* starts edged again.  Nobody has to start a command.  Every step of      *)
(* edged but an idle turn of its loop changes epc and nothing disables it, *)
(* so that fairness of edged is said of epc alone: where there is a step   *)
(* to take, edged does not stay.                                           *)
(***************************************************************************)
Idle == epc = "dead" \/ (epc = "loop" /\ ~resync)
Leaves == ~Idle /\ epc' \in Places \ {epc}

Fairness ==
  /\ WF_epc(Leaves)
  /\ \A w \in Cmd : WF_vars(CmdOpen(w) \/ CmdWrite(w) \/ CmdHup(w))

Spec == Init /\ [][Next]_vars /\ Fairness
-----------------------------------------------------------------------------
\* Nothing is under way: edged waits in its main loop, and no command is
\* between its change of a file and its signal.
Quiet ==
  /\ epc = "loop" /\ ~resync
  /\ \A w \in Cmd : cmd[w].pc \in {"none", "read"}

\* Whatever commands overlapped with each other, with a resync or with the
\* start of edged, and although some of them saw or left an empty file: when
\* things are quiet the chip bridges the ports as the file now says, except
\* for ports that the chip may refuse to add.
L2Applied == Quiet => AsConfigured(vlan, l2, Ports \ BadPorts)

\* Likewise for the access lists.
AclsApplied == Quiet => AclsAsConfigured(fp, AclContent(acl))

\* port_group_vid never lies, not even when adding a port fails: a port that
\* has a group there is a member of its VLAN, classifies into it and has left
\* its service VLAN.  vlan_l2_reset relies on it.
GroupTracked ==
  \A p \in Ports :
    LET u == vlan.group[p] IN
    u # 0 => p \in vlan.member[u] /\ vlan.pvid[p] = u /\ p \notin vlan.member[ResvVid(p)]

\* Once no more commands are started edged comes to rest: no resync goes round
\* for ever and no signal stays unanswered.  With L2Applied and AclsApplied the
\* chip is then as the files say.  Only a SIGHUP that ended edged prevents it.
Settles == <>[](epc = "dead" \/ Quiet)
-----------------------------------------------------------------------------
(* What the code's comments say and the code does not do.                  *)

\* The slice of the access lists "is enabled LATE, only in acl.c
\* edged_acl_load": entries that are in the chip are looked up.
AclsEnforced == Quiet /\ AclEntries(fp) # {} => fp.lookup
=============================================================================
