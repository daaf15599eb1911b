----------------------------- MODULE PortLinks -----------------------------
(***************************************************************************)
(* The front-panel ports: portmap_link_poll and the LEDs of the AS5610-52X *)
(* (portmap.c, led.c), handle_link of netlink.c, the carrier of the TAPs.  *)
(*                                                                         *)
(* The link poll asks every port that is enabled whether its PCS is        *)
(* locked, and lets MAC, carrier and LED follow.  A 40G QSFP port that was *)
(* initialised before its peer sent anything never locks; the poll         *)
(* initialises it once more when it has been unlocked for a while.  The    *)
(* kernel tells, over a socket that may overflow, when somebody sets a     *)
(* port up or down.  Nothing asks it for the state of the links: what was  *)
(* changed before the socket was bound is not heard of.                    *)
(*                                                                         *)
(* Only the start looks at what bmd_port_mode_set returns; handle_link and *)
(* the link poll take it to have worked.                                   *)
(*                                                                         *)
(* edged's handlers run on one thread; the kernel, the peers and the clock *)
(* interleave with them.                                                   *)
(***************************************************************************)
EXTENDS Integers, FiniteSets, SequencesExt

CONSTANTS
  Ports,       \* numbers of the valid ports: 1..52
  Qsfp,        \* the 40G QSFP ones
  BadPorts,    \* ports for which bmd_port_mode_set may fail
  Grace,       \* QSFP_RETRY_GRACE_S, in ticks
  RetryMax,    \* QSFP_RETRY_MAX
  EventMax,    \* events that fit in the receive buffer of the socket
  MaxChanges   \* bound of the model: changes of a port or a peer

ASSUME LinkAssumption ==
  /\ Ports \subseteq Nat \ {0} /\ IsFiniteSet(Ports)
  /\ Qsfp \subseteq Ports /\ BadPorts \subseteq Ports
  /\ Grace \in Nat \ {0} /\ RetryMax \in Nat /\ EventMax \in Nat /\ MaxChanges \in Nat

VARIABLES
  admin,     \* kernel: port -> IFF_UP
  carrier,   \* kernel: port -> carrier of its TAP
  watch,     \* kernel: ports with a carrier change that is still to be told
  events,    \* netlink socket: RTM_NEWLINK, as [port, up]
  missed,    \* history: ports whose admin state edged could not learn
  peer,      \* the far ends: port -> it sends
  changes,   \* changes of ports and peers so far
  mode,      \* chip: port -> it is initialised and enabled
  adapted,   \* chip: port -> initialised with a peer that sends
  failed,    \* history: ports the last setting of whose mode failed
  mac,       \* chip: port -> MAC receives, and is set in EPC_LINK_BMAP
  leds,      \* chip: ports with a green LED
  enabled,   \* edged.ports[].enabled
  linkUp,    \* edged.ports[].link_up
  numPorts,  \* edged.num_ports
  since,     \* qsfp_unlocked_since: ticks since then (Grace: or more), or Unset
  retries    \* qsfp_retry_count

kernelVars == <<admin, carrier, watch>>
socketVars == <<events, missed>>
worldVars  == <<peer, changes>>
modeVars   == <<mode, adapted, failed>>
chipVars   == <<modeVars, mac>>
portVars   == <<enabled, linkUp>>
retryVars  == <<since, retries>>
vars == <<kernelVars, socketVars, worldVars, chipVars, leds, portVars, numPorts, retryVars>>

Unset == -1

(***************************************************************************)
(* After portmap_configure_ports, packet_io_init and netlink_init: the     *)
(* TAPs were set up, without carrier; the kernel may not have told yet     *)
(* that packet_io_init took the carrier away.  Between the creation of a   *)
(* TAP and the bind of the socket somebody may have set it down again.     *)
(***************************************************************************)
Init ==
  \E bad \in SUBSET BadPorts :
    /\ admin \in [Ports -> BOOLEAN] /\ carrier = [p \in Ports |-> FALSE]
    /\ watch \in {{}, Ports}
    /\ events = <<>> /\ missed = {p \in Ports : admin[p] # (p \notin bad)}
    /\ peer \in [Ports -> BOOLEAN] /\ changes = 0
    /\ mode = [p \in Ports |-> p \notin bad]
    /\ adapted = [p \in Ports |-> p \notin bad /\ peer[p]] /\ failed = bad
    /\ mac = [p \in Ports |-> FALSE] /\ leds = {}
    /\ enabled = mode /\ linkUp = mac
    /\ numPorts = Cardinality(Ports \ bad)
    /\ since = [p \in Ports |-> Unset] /\ retries = [p \in Ports |-> 0]

\* pcs_block_lock_get, cl82_link_get.  Four lanes only align on a port that
\* was initialised while its peer was sending.
Locked(p) == mode[p] /\ peer[p] /\ (p \in Qsfp => adapted[p])
-----------------------------------------------------------------------------
(* The kernel and the far ends (not part of the repository).               *)

\* An event tells the state of the port as a whole, so that what was missed
\* before is made good.
Post(p, up) ==
  IF Len(events) < EventMax
  THEN events' = Append(events, [port |-> p, up |-> up]) /\ missed' = missed \ {p}
  ELSE missed' = missed \cup {p} /\ UNCHANGED events

Change ==
  /\ changes < MaxChanges /\ changes' = changes + 1
  /\ UNCHANGED <<mode, failed, mac, leds, portVars, numPorts, retryVars>>

\* "ip link set swpN up" or "down".
SetAdmin(p) ==
  /\ admin' = [admin EXCEPT ![p] = ~@]
  /\ Post(p, ~admin[p])
  /\ Change /\ UNCHANGED <<carrier, watch, peer, adapted>>

\* The kernel's linkwatch tells of a carrier change, of a port that is up.
TellCarrier(p) ==
  /\ p \in watch /\ watch' = watch \ {p}
  /\ IF admin[p] THEN Post(p, TRUE) ELSE UNCHANGED socketVars
  /\ UNCHANGED <<admin, carrier, worldVars, chipVars, leds, portVars, numPorts, retryVars>>

\* A far end starts or stops to send.  When it starts again the lanes may or
\* may not align as they did before.
SetPeer(p) ==
  /\ peer' = [peer EXCEPT ![p] = ~@]
  /\ \E a \in {adapted[p], FALSE} : adapted' = [adapted EXCEPT ![p] = a]
  /\ Change /\ UNCHANGED <<kernelVars, socketVars>>

\* The clock.
Tick ==
  /\ \E p \in Qsfp : since[p] \in 0..(Grace - 1)
  /\ since' = [p \in Ports |-> IF since[p] \in 0..(Grace - 1) THEN since[p] + 1 ELSE since[p]]
  /\ UNCHANGED <<kernelVars, socketVars, worldVars, chipVars, leds, portVars, numPorts, retries>>
-----------------------------------------------------------------------------
(* edged.                                                                  *)

(***************************************************************************)
(* bmd_port_mode_set, or the calls of a retry, for the ports of S.  Those  *)
(* that fail leave a port as it was ("left"), or off.                      *)
(***************************************************************************)
SetModes(S, up, off, left) ==
  LET done == S \ (off \cup left) IN
  /\ mode' = [p \in Ports |-> IF p \in done THEN up ELSE p \notin off /\ mode[p]]
  /\ adapted' = [p \in Ports |-> IF p \in done THEN up /\ peer[p]
                                                  ELSE p \notin off /\ adapted[p]]
  /\ failed' = (failed \ done) \cup off \cup left

\* Mutant of HandleLink: that a port was disabled is not noted.
HandleLinkForgets ==
  /\ events # <<>> /\ events' = Tail(events)
  /\ LET p == Head(events).port
         up == Head(events).up
     IN  /\ IF up = enabled[p] THEN UNCHANGED chipVars
            ELSE \E off \in SUBSET ({p} \cap BadPorts) :
                 \E left \in SUBSET ({p} \cap BadPorts) :
                   /\ SetModes({p}, up, off, left)
                   /\ mac' = [mac EXCEPT ![p] = @ /\ p \in left \ off]
         /\ enabled' = [enabled EXCEPT ![p] = @ \/ up]
  /\ UNCHANGED <<kernelVars, missed, worldVars, leds, linkUp, numPorts, retryVars>>

\* handle_link.  bmd_port_mode_set also takes the port out of EPC_LINK_BMAP;
\* whether it worked makes no difference to what is noted.
HandleLink ==
  /\ events # <<>> /\ events' = Tail(events)
  /\ LET p == Head(events).port
         up == Head(events).up
     IN  /\ IF up = enabled[p] THEN UNCHANGED chipVars
            ELSE \E off \in SUBSET ({p} \cap BadPorts) :
                 \E left \in SUBSET ({p} \cap BadPorts) :
                   /\ SetModes({p}, up, off, left)
                   /\ mac' = [mac EXCEPT ![p] = @ /\ p \in left \ off]
         /\ enabled' = [enabled EXCEPT ![p] = up]
  /\ UNCHANGED <<kernelVars, missed, worldVars, leds, linkUp, numPorts, retryVars>>

\* Mutant of Polled: ports that are disabled are not skipped.
PolledAll == Ports

\* The ports that a poll looks at.
Polled == {p \in Ports : enabled[p]}

Unlocked == {p \in Polled \cap Qsfp : ~Locked(p)}

\* Mutant of Retried: the first retry is the last.
RetriedOnce == {p \in Unlocked : retries[p] < 1 /\ since[p] = Grace}

\* The ports that a poll initialises once more.
Retried == {p \in Unlocked : retries[p] < RetryMax /\ since[p] = Grace}

\* Mutant of NewCarrier: the carrier goes up and never down.
NewCarrierUpOnly(p) == carrier[p] \/ (p \in Polled /\ Locked(p))

\* tun_set_carrier follows every change of link_up.
NewCarrier(p) == IF p \in Polled /\ Locked(p) # linkUp[p] THEN Locked(p) ELSE carrier[p]

\* led_update: the loop ends at num_ports, whatever ports were skipped.
Lit(up) == {p \in Ports : p <= numPorts /\ up[p]}

(***************************************************************************)
(* portmap_link_poll.  A QSFP port that is locked forgets its timer and    *)
(* its retries; one that is not starts its timer, or is disabled and set   *)
(* to its mode again, which clears its bit in EPC_LINK_BMAP.               *)
(***************************************************************************)
LinkPoll ==
  LET up == [p \in Ports |-> IF p \in Polled THEN Locked(p) ELSE linkUp[p]] IN
  /\ linkUp' = up /\ leds' = Lit(up)
  /\ \E off \in SUBSET (Retried \cap BadPorts) :
       \E left \in SUBSET (Retried \cap BadPorts) : SetModes(Retried, TRUE, off, left)
  /\ mac' = [p \in Ports |-> IF p \in Polled THEN Locked(p) ELSE mac[p]]
  /\ carrier' = [p \in Ports |-> NewCarrier(p)]
  /\ watch' = watch \cup {p \in Ports : carrier'[p] # carrier[p]}
  /\ since' = [p \in Ports |->
                 IF p \in Unlocked
                 THEN IF since[p] = Unset \/ p \in Retried THEN 0 ELSE since[p]
                 ELSE IF p \in Polled THEN Unset ELSE since[p]]
  /\ retries' = [p \in Ports |->
                   IF p \in Retried THEN retries[p] + 1
                   ELSE IF p \in Polled \ Unlocked THEN 0 ELSE retries[p]]
  /\ UNCHANGED <<admin, socketVars, worldVars, enabled, numPorts>>

Next ==
  \/ \E p \in Ports : SetAdmin(p) \/ TellCarrier(p) \/ SetPeer(p)
  \/ Tick \/ HandleLink \/ LinkPoll

(***************************************************************************)
(* Fairness: the thread of edged runs, the clock and the kernel go on.     *)
(***************************************************************************)
Fairness ==
  /\ WF_vars(HandleLink) /\ WF_vars(LinkPoll) /\ WF_vars(Tick)
  /\ \A p \in Ports : WF_vars(TellCarrier(p))

Spec == Init /\ [][Next]_vars /\ Fairness
-----------------------------------------------------------------------------
\* What edged takes for enabled is what the chip does, but for a port the last
\* setting of whose mode failed: no poll and no retry, be it one that fails or
\* one between two events, switches on a port that handle_link has switched off,
\* and no port receives while it is off.
DisabledIsOff ==
  \A p \in Ports : (mac[p] => mode[p]) /\ (p \notin failed => enabled[p] = mode[p])

\* edged enables the ports that the kernel has up and no other once it has read
\* what the kernel told, for all ports whose state it could learn: one that was
\* set down before the socket was bound stays enabled, and one that could not be
\* configured stays off, until the kernel next tells of it, and so does one
\* whose last event was dropped.
FollowsAdmin == events = <<>> => \A p \in Ports \ missed : enabled[p] = admin[p]

\* A port that stays up with a peer that stays comes up: an SFP port always, a
\* QSFP port unless it ran out of retries, however late its peer came, whatever
\* events were dropped and calls failed, if the last was not dropped or failed.
LinksComeUp ==
  \A p \in Ports :
    <>[](admin[p] /\ peer[p]) =>
      <>[](linkUp[p] /\ carrier[p]) \/ <>[](p \in missed \cup failed)
        \/ <>[](p \in Qsfp /\ retries[p] = RetryMax)

\* A port that stays up without a peer loses its carrier and its LED, so that
\* the kernel does not route over it.
LinksGoDown ==
  \A p \in Ports :
    <>[](admin[p] /\ ~peer[p]) =>
      <>[](~linkUp[p] /\ ~carrier[p] /\ p \notin leds) \/ <>[](p \in missed)
=============================================================================
