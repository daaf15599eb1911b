---------------------------- MODULE EdgedStartup ----------------------------
(***************************************************************************)
(* How the addresses of swp-addrs.conf get to the chip of an AS5610: main  *)
(* of core/datapath/edged.c with its sentinel /run/edged.ready, the TAP    *)
(* interfaces, which live as long as edged, the address dump and the       *)
(* RTM_NEWADDR events of netlink.c, and swp-l3-config.sh, which waits for  *)
(* the sentinel and adds the addresses once.                               *)
(*                                                                         *)
(* edged may end at any step and is started again by systemd; an operator  *)
(* restarts either service.  Waits of the script are not timed: they may   *)
(* run out whenever what they wait for is not there.                       *)
(***************************************************************************)
EXTENDS Integers, Sequences, FiniteSets

CONSTANTS
  Ports,     \* ports of config.bcm
  Flaky,     \* ports whose TAP may fail to be created
  Conf,      \* interfaces that have an address in swp-addrs.conf
  SockMax,   \* messages that fit in the receive buffer of the socket
  MaxCrashes, MaxStops, MaxCalls  \* bounds: ends of edged, starts of swp-l3

ASSUME StartupAssumption ==
  /\ Flaky \subseteq Ports /\ Conf \subseteq Ports /\ SockMax \in Nat \ {0}
  /\ MaxCrashes \in Nat /\ MaxStops \in Nat /\ MaxCalls \in Nat

VARIABLES
  pc,      \* edged
  running, \* edged: no SIGTERM so far
  todo,    \* edged: ports whose TAP is still to be created
  ready,   \* /run/edged.ready is there
  taps,    \* kernel: TAPs
  addr,    \* kernel: TAPs that have their address
  sock,    \* netlink socket of edged: RTM_NEWADDR of these interfaces
  dump,    \* kernel: addresses that the dump in flight has still to tell
  lost,    \* history: this edged has been denied an event
  punted,  \* chip: own addresses that l3_local_host_add has sent to the CPU
  svc,     \* swp-l3-config.sh: [pc, todo, slow, seen, killed]
  crashes, stops, calls

edgedVars  == <<pc, running, todo, ready>>
kernelVars == <<taps, addr, sock, dump, lost>>
countVars  == <<crashes, stops, calls>>
vars == <<edgedVars, kernelVars, punted, svc, countVars>>

Listening == pc \in {"dump", "l3", "loop"}

Init ==
  /\ pc = "exec" /\ running = TRUE /\ todo = {} /\ ready = FALSE
  /\ taps = {} /\ addr = {} /\ sock = <<>> /\ dump = {} /\ lost = FALSE /\ punted = {}
  /\ svc = [pc |-> "none", todo |-> {}, slow |-> FALSE, seen |-> FALSE, killed |-> FALSE]
  /\ crashes = 0 /\ stops = 0 /\ calls = 0
-----------------------------------------------------------------------------
(* edged.                                                                  *)

At(here, there) == pc = here /\ pc' = there /\ UNCHANGED countVars

\* Mutant of ClearReady: the sentinel of the last edged stays.
KeepReady ==
  /\ At("exec", "asic")
  /\ UNCHANGED <<running, todo, ready, kernelVars, punted, svc>>

\* edged_clear_ready, when there are signal handlers.
ClearReady ==
  /\ At("exec", "asic") /\ ready' = FALSE
  /\ UNCHANGED <<running, todo, kernelVars, punted, svc>>

\* asic_init resets the chip.
AsicInit ==
  /\ At("asic", "taps") /\ punted' = {} /\ todo' = Ports
  /\ UNCHANGED <<running, ready, kernelVars, svc>>

\* packet_io_init: the next TAP, which may fail.
TunCreate ==
  /\ pc = "taps" /\ todo # {}
  /\ LET p == CHOOSE p \in todo : \A q \in todo : p <= q
     IN  /\ todo' = todo \ {p}
         /\ \/ taps' = taps \cup {p}
            \/ p \in Flaky /\ UNCHANGED taps
  /\ UNCHANGED <<pc, running, ready, addr, sock, dump, lost, punted, svc, countVars>>

\* netlink_init: from here on events are heard.
NetlinkBind ==
  /\ At("taps", "dump") /\ todo = {} /\ taps # {}
  /\ UNCHANGED <<running, todo, ready, kernelVars, punted, svc>>

\* Mutant of NetlinkDump: addresses are not asked for.
NetlinkNoDump ==
  /\ At("dump", "l3")
  /\ UNCHANGED <<running, todo, ready, kernelVars, punted, svc>>

\* netlink_init: RTM_GETADDR.
NetlinkDump ==
  /\ At("dump", "l3") /\ dump' = addr
  /\ UNCHANGED <<running, todo, ready, taps, addr, sock, lost, punted, svc>>

\* l2_init, l3_init and led_init, then edged_set_ready, whose fopen may fail.
SetReady ==
  /\ At("l3", "loop") /\ ready' \in {ready, TRUE}
  /\ UNCHANGED <<running, todo, kernelVars, punted, svc>>

\* netlink_poll, RTM_NEWADDR.
Receive ==
  /\ pc = "loop" /\ running /\ sock # <<>> /\ sock' = Tail(sock)
  /\ punted' = punted \cup {Head(sock)}
  /\ UNCHANGED <<edgedVars, taps, addr, dump, lost, svc, countVars>>

\* SIGTERM of "systemctl restart edged"; edged ends when it is in its loop.
Term ==
  /\ pc \notin {"off", "exec", "stop"} /\ running /\ stops < MaxStops
  /\ stops' = stops + 1 /\ running' = FALSE
  /\ UNCHANGED <<pc, todo, ready, kernelVars, punted, svc, crashes, calls>>

\* The loop is left; edged_clear_ready.
LeaveLoop ==
  /\ At("loop", "stop") /\ ~running /\ ready' = FALSE
  /\ UNCHANGED <<running, todo, kernelVars, punted, svc>>

\* With edged go its TAPs and their addresses.
Ends ==
  /\ pc' = "off" /\ running' = TRUE /\ todo' = {}
  /\ taps' = {} /\ addr' = {} /\ sock' = <<>> /\ dump' = {} /\ lost' = FALSE
  /\ svc' = [svc EXCEPT !.seen = FALSE]
  /\ UNCHANGED <<ready, punted, stops, calls>>

Exit == pc = "stop" /\ Ends /\ UNCHANGED crashes

\* A crash, a step of the start that fails, or no TAP at all.
Crash == pc # "off" /\ crashes < MaxCrashes /\ crashes' = crashes + 1 /\ Ends

\* systemd starts edged again.
Start ==
  /\ At("off", "exec")
  /\ UNCHANGED <<running, todo, ready, kernelVars, punted, svc>>
-----------------------------------------------------------------------------
(* The kernel.                                                             *)

Post(p) ==
  IF ~Listening THEN UNCHANGED <<sock, lost>>
  ELSE IF Len(sock) < SockMax THEN sock' = Append(sock, p) /\ UNCHANGED lost
  ELSE lost' = TRUE /\ UNCHANGED sock

\* The dump goes on when the socket is read.
KernelDumps ==
  /\ pc = "loop" /\ Len(sock) < SockMax
  /\ \E p \in dump : dump' = dump \ {p} /\ sock' = Append(sock, p)
  /\ UNCHANGED <<edgedVars, taps, addr, lost, punted, svc, countVars>>
-----------------------------------------------------------------------------
(* swp-l3-config.sh.                                                       *)

\* systemd at boot, and an operator later.
SvcStart ==
  /\ calls < MaxCalls /\ calls' = calls + 1
  /\ svc' = [pc |-> "wait", todo |-> Conf, slow |-> FALSE, seen |-> FALSE, killed |-> FALSE]
  /\ UNCHANGED <<edgedVars, kernelVars, punted, crashes, stops>>

\* The wait for the sentinel.  "seen": it is that of the edged that runs.
SvcReady ==
  /\ svc.pc = "wait"
  /\ svc' = [svc EXCEPT !.pc = "apply", !.slow = ~ready,
                        !.seen = ready /\ pc \notin {"off", "exec"}]
  /\ UNCHANGED <<edgedVars, kernelVars, punted, countVars>>

\* apply_one, for the interface of a line: added unless it is there.
SvcApply(p) ==
  /\ svc.pc = "apply" /\ p \in svc.todo /\ p \in taps
  /\ addr' = addr \cup {p}
  /\ IF p \in addr THEN UNCHANGED <<sock, lost>> ELSE Post(p)
  /\ svc' = [svc EXCEPT !.todo = @ \ {p}]
  /\ UNCHANGED <<edgedVars, taps, dump, punted, countVars>>

\* apply_one, when the interface does not come, or has just gone.
SvcSkip(p) ==
  /\ svc.pc = "apply" /\ p \in svc.todo /\ p \notin taps
  /\ svc' = [svc EXCEPT !.todo = @ \ {p}, !.slow = TRUE]
  /\ UNCHANGED <<edgedVars, kernelVars, punted, countVars>>

SvcDone ==
  /\ svc.pc = "apply" /\ svc.todo = {} /\ svc' = [svc EXCEPT !.pc = "done"]
  /\ UNCHANGED <<edgedVars, kernelVars, punted, countVars>>

\* TimeoutStartSec: several waits that ran out add up to more.
SvcKilled ==
  /\ svc.pc = "apply" /\ svc.slow
  /\ svc' = [svc EXCEPT !.pc = "done", !.killed = TRUE]
  /\ UNCHANGED <<edgedVars, kernelVars, punted, countVars>>

Boot == ClearReady \/ AsicInit \/ TunCreate \/ NetlinkBind \/ NetlinkDump \/ SetReady
Service == SvcReady \/ SvcDone \/ \E p \in Conf : SvcApply(p) \/ SvcSkip(p)

Next ==
  \/ Boot \/ Receive \/ Term \/ LeaveLoop \/ Exit \/ Crash \/ Start
  \/ KernelDumps \/ SvcStart \/ Service \/ SvcKilled

(***************************************************************************)
(* Fairness: edged and the script run, systemd starts edged again and the  *)
(* script once at boot.                                                    *)
(***************************************************************************)
Fairness ==
  /\ WF_vars(Boot) /\ WF_vars(LeaveLoop \/ Exit \/ Start) /\ WF_vars(Receive)
  /\ WF_vars(KernelDumps) /\ WF_vars(Service) /\ WF_vars(calls = 0 /\ SvcStart)

Spec == Init /\ [][Next]_vars /\ Fairness
-----------------------------------------------------------------------------
\* edged drops the sentinel "ONLY after it has fully initialized": a script that
\* has seen that of the running edged, and not one that a crash has left behind,
\* skips no interface that is created, and no address is missed.
AssignedOnceReady ==
  svc.pc = "done" /\ svc.seen /\ ~svc.killed => Conf \cap taps \subseteq addr

\* Packets to an own address reach the CPU when edged has read its socket, be it
\* older than the socket, added in the middle of the start, or later.
AddressesPunted ==
  pc = "loop" /\ sock = <<>> /\ dump = {} /\ ~lost => addr \subseteq punted

\* edged comes to its loop and the script to its end, and after a script that
\* has seen the sentinel the chip has every address.
AddressesWork ==
  <>[](pc = "loop" /\ svc.pc = "done"
         /\ (svc.seen /\ ~svc.killed /\ ~lost => Conf \cap taps \subseteq punted))
=============================================================================
