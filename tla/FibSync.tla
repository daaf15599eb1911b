------------------------------ MODULE FibSync ------------------------------
(***************************************************************************)
(* core/datapath/netlink.c and the main loop of edged.c: how edged follows *)
(* the neighbours and routes of the Linux kernel, over a netlink socket    *)
(* whose queue is bounded, into the tables of L3Table.                     *)
(*                                                                         *)
(* Three parties interleave: the kernel changes its tables and posts an    *)
(* event for each change (dropped when the queue is full, of which the     *)
(* next recv is told, ENOBUFS); it answers one dump request at a time, in  *)
(* parts: the first with the request, each other one when recv has made    *)
(* room for it; edged handles one message at a time and sends dump         *)
(* requests, at start and every 15 seconds.                                *)
(***************************************************************************)
EXTENDS L3Table, Sequences, SequencesExt

CONSTANTS
  Gw4, Dst4,   \* the IPv4 ones of Gw and Dst; the others are IPv6
  QueueMax,    \* messages that fit in the receive buffer of the socket
  MaxChanges   \* bound of the model: changes of the kernel's tables

ASSUME SyncAssumption ==
  /\ Gw4 \subseteq Gw /\ Dst4 \subseteq Dst
  /\ QueueMax \in Nat \ {0} /\ MaxChanges \in Nat

VARIABLES
  kneigh,   \* kernel: neighbour -> "none", "ok" (has a MAC) or "failed"
  kroute,   \* kernel: prefix -> its gateways, none for a connected route
  changes,  \* kernel: changes made so far
  queue,    \* netlink socket: messages to be received
  overrun,  \* netlink socket: an event was dropped since the last ENOBUFS
  dump,     \* kernel: the dump in flight, or NoDump
  lost,     \* history: some event was dropped
  pc,       \* edged: "init" (netlink_init), "poll" (netlink_poll), "loop"
  turn      \* edged: the next dump request, of InitDumps or of Redumps

kernelVars == <<kneigh, kroute, changes>>
socketVars == <<queue, overrun, dump, lost>>
edgedVars  == <<pc, turn>>
vars == <<tableVars, kernelVars, socketVars, edgedVars>>

(* Dumps are [obj, fam].  Addresses are dumped once and are never empty:   *)
(* the loopback device has one.                                            *)
Dump(obj, fam) == [obj |-> obj, fam |-> fam]
NoDump == [obj |-> "none", fam |-> "v4", todo |-> {}]

\* The requests of netlink_init, one after the other.
InitDumps == <<Dump("addr", "v4"),
               Dump("neigh", "v4"), Dump("route", "v4"),
               Dump("neigh", "v6"), Dump("route", "v6")>>

\* The requests of netlink_redump_routes, one each time.
Redumps == <<Dump("route", "v4"), Dump("route", "v6"),
             Dump("neigh", "v6"), Dump("neigh", "v4")>>

\* What the kernel has to tell about a dump.
Keys(d) ==
  LET mine(S, S4) == IF d.fam = "v4" THEN S \cap S4 ELSE S \ S4
  IN  CASE d.obj = "addr"  -> {"lo"}
        [] d.obj = "neigh" -> mine({g \in Gw : kneigh[g] # "none"}, Gw4)
        [] d.obj = "route" -> mine(DOMAIN kroute, Dst4)

\* Messages: what happened to which key, and its gateways for a new route.
Msg(type, key, gws) == [type |-> type, key |-> key, gws |-> gws]
Other == Msg("other", "lo", {})  \* RTM_NEWADDR and NLMSG_DONE: not of these tables
NewNeigh(g) == Msg(IF kneigh[g] = "ok" THEN "newneigh" ELSE "noaddr", g, {})

GwSets == (SUBSET Gw4) \cup (SUBSET (Gw \ Gw4))

Init ==
  /\ TableInit
  /\ kneigh \in [Gw -> {"none", "ok"}]
  /\ \E D \in SUBSET Dst : kroute \in [D -> GwSets]
  /\ \A p \in DOMAIN kroute :
       kroute[p] \subseteq (IF p \in Dst4 THEN Gw4 ELSE Gw \ Gw4)
  /\ changes = 0
  /\ queue = <<>> /\ overrun = FALSE /\ dump = NoDump
  /\ lost = FALSE
  /\ pc = "init" /\ turn = 1
-----------------------------------------------------------------------------
(* The kernel (not part of the repository).                                *)

\* An event is queued, or dropped when the queue is full.
Post(m) ==
  IF Len(queue) < QueueMax
  THEN queue' = Append(queue, m) /\ UNCHANGED <<overrun, lost>>
  ELSE overrun' = TRUE /\ lost' = TRUE /\ UNCHANGED queue

Change ==
  /\ changes < MaxChanges /\ changes' = changes + 1
  /\ UNCHANGED <<tableVars, dump, edgedVars>>

\* A neighbour is resolved, or stops to answer.
KernelNeigh(g, s) ==
  /\ s # kneigh[g] /\ (s = "failed" => kneigh[g] = "ok")
  /\ kneigh' = [kneigh EXCEPT ![g] = s]
  /\ Post(IF s = "ok" THEN Msg("newneigh", g, {}) ELSE Msg("noaddr", g, {}))
  /\ Change /\ UNCHANGED kroute

KernelNeighGone(g) ==
  /\ kneigh[g] # "none"
  /\ kneigh' = [kneigh EXCEPT ![g] = "none"]
  /\ Post(Msg("delneigh", g, {}))
  /\ Change /\ UNCHANGED kroute

\* A route is added, or replaced by one through other gateways.
KernelRoute(p, gws) ==
  /\ gws # {} /\ gws \subseteq (IF p \in Dst4 THEN Gw4 ELSE Gw \ Gw4)
  /\ p \in DOMAIN kroute => kroute[p] # gws
  /\ kroute' = Bind(kroute, p, gws)
  /\ Post(Msg("newroute", p, gws))
  /\ Change /\ UNCHANGED kneigh

KernelRouteGone(p) ==
  /\ p \in DOMAIN kroute
  /\ kroute' = Unbind(kroute, p)
  /\ Post(Msg("delroute", p, {}))
  /\ Change /\ UNCHANGED kneigh

Told(d, k) ==
  CASE d.obj = "neigh" -> NewNeigh(k)
    [] d.obj = "route" -> Msg("newroute", k, kroute[k])
    [] d.obj = "addr"  -> Other

\* The next part of dump d, if there is room for it behind q: any one of the
\* keys left, as it is by now, or NLMSG_DONE.
Dumped(q, d) ==
  IF d = NoDump \/ Len(q) >= QueueMax THEN queue' = q /\ dump' = d
  ELSE LET left == d.todo \cap Keys(d) IN
       IF left = {} THEN queue' = Append(q, Other) /\ dump' = NoDump
       ELSE \E k \in left : /\ queue' = Append(q, Told(d, k))
                            /\ dump' = [d EXCEPT !.todo = left \ {k}]

(***************************************************************************)
(* A dump request: EBUSY while another dump is in flight (the NLMSG_ERROR, *)
(* which nobody reads, takes no room here).                                *)
(***************************************************************************)
Request(d) ==
  IF dump = NoDump THEN Dumped(queue, [obj |-> d.obj, fam |-> d.fam, todo |-> Keys(d)])
                   ELSE UNCHANGED <<queue, dump>>

\* recv takes the first message; the dump goes on at the latest when the
\* buffer is empty, which is when the kernel no longer waits for more room.
Dequeue ==
  \/ Dumped(Tail(queue), dump)
  \/ Tail(queue) # <<>> /\ queue' = Tail(queue) /\ UNCHANGED dump
-----------------------------------------------------------------------------
(* edged.                                                                  *)

\* netlink_init, one request at a time.
InitDump ==
  /\ pc = "init"
  /\ Request(InitDumps[turn])
  /\ IF turn < Len(InitDumps) THEN turn' = turn + 1 /\ UNCHANGED pc
                              ELSE turn' = 1 /\ pc' = "poll"
  /\ UNCHANGED <<tableVars, kernelVars, overrun, lost>>

\* Mutant of Handle: RTM_DELNEIGH and RTM_DELROUTE are taken for additions.
HandleNew(m) ==
  CASE m.type \in {"newneigh", "delneigh"} -> Resolve(m.key)
    [] m.type = "newroute" /\ m.gws # {}   -> SetRoute(m.key, [g \in m.gws |-> g])
    [] OTHER                               -> UNCHANGED tableVars

(***************************************************************************)
(* handle_neigh and handle_route.  A neighbour without a MAC ("noaddr")    *)
(* and a route without a gateway are left alone.                           *)
(***************************************************************************)
Handle(m) ==
  CASE m.type = "newneigh" -> Resolve(m.key)
    [] m.type = "delneigh" -> Forget(m.key)
    [] m.type = "delroute" -> DelRoute(m.key)
    [] m.type = "newroute" /\ m.gws # {} -> SetRoute(m.key, [g \in m.gws |-> g])
    [] OTHER -> UNCHANGED tableVars

\* netlink_poll: the next message.
Receive ==
  /\ pc = "poll" /\ ~overrun /\ queue # <<>>
  /\ Handle(Head(queue)) /\ Dequeue
  /\ UNCHANGED <<kernelVars, overrun, lost, edgedVars>>

\* Mutant of PollEnds: one poll reads one datagram.
PollEndsEarly ==
  /\ pc = "poll" /\ pc' = "loop"
  /\ overrun' = FALSE
  /\ UNCHANGED <<tableVars, kernelVars, queue, dump, lost, turn>>

\* netlink_poll returns when recv does not give a message: ENOBUFS or EAGAIN.
PollEnds ==
  /\ pc = "poll" /\ (overrun \/ queue = <<>>)
  /\ pc' = "loop" /\ overrun' = FALSE
  /\ UNCHANGED <<tableVars, kernelVars, queue, dump, lost, turn>>

\* The rest of the main loop, when the 15 seconds are not over.
Loop ==
  /\ pc = "loop" /\ pc' = "poll"
  /\ UNCHANGED <<tableVars, kernelVars, socketVars, turn>>

NextTurn == (turn % Len(Redumps)) + 1

\* netlink_redump_routes.
Redump ==
  /\ pc = "loop" /\ pc' = "poll"
  /\ Request(Redumps[turn]) /\ turn' = NextTurn
  /\ UNCHANGED <<tableVars, kernelVars, overrun, lost>>

Kernel ==
  \/ \E g \in Gw : KernelNeighGone(g) \/ \E s \in {"ok", "failed"} : KernelNeigh(g, s)
  \/ \E p \in Dst : KernelRouteGone(p) \/ \E gws \in GwSets : KernelRoute(p, gws)

Next ==
  Kernel \/ InitDump \/ Receive \/ PollEnds \/ Loop \/ Redump

(***************************************************************************)
(* Fairness: the thread of edged runs; 15 seconds go by again and again,   *)
(* however often the loop goes round in between.  Nothing makes the        *)
(* kernel's tables change.                                                 *)
(***************************************************************************)
Fairness ==
  /\ WF_vars(InitDump) /\ WF_vars(Receive)
  /\ WF_vars(PollEnds) /\ WF_vars(Loop) /\ SF_vars(Redump)

Spec == Init /\ [][Next]_vars /\ Fairness
-----------------------------------------------------------------------------
\* netlink_redump_routes: "A netlink socket allows only ONE dump in flight".
\* What a dump still has to tell comes while the socket is read, so netlink_poll,
\* which reads until there is nothing left, also sees its end: as long as nothing
\* was dropped no periodic request comes while another dump is in flight.
OneDumpInFlight == pc = "loop" /\ ~lost => dump = NoDump

Idle == pc = "loop" /\ queue = <<>> /\ dump = NoDump

\* As long as no event was dropped, nothing outlives its deletion: when the
\* socket is drained, the chip has no neighbour and no route that the kernel
\* has not, although a dump told of it while it was being deleted.
NothingStale ==
  Idle /\ ~lost => /\ DOMAIN nh \subseteq {g \in Gw : kneigh[g] # "none"}
                   /\ DOMAIN route \subseteq DOMAIN kroute

\* The chip is up to date: it knows every neighbour the kernel has a MAC of,
\* and the paths of a route are those of its gateways that it knows.
UpToDate ==
  /\ \A g \in Gw : kneigh[g] = "ok" => g \in DOMAIN nh
  /\ \A p \in DOMAIN kroute :
       LET paths == Paths([g \in kroute[p] |-> g])
       IN  DOMAIN paths # {} => p \in DOMAIN route /\ route[p] = paths

\* Once the kernel's tables stay as they are the chip becomes, and stays, up
\* to date, whatever events were dropped and whichever dumps were refused: the
\* periodic re-dump finds neighbours that were missed, routes whose gateways
\* were resolved too late, and paths whose neighbour got another index.
Converges == <>[]UpToDate
=============================================================================
