------------------------------ MODULE BcmdSync ------------------------------
(***************************************************************************)
(* How bcmd follows the Linux kernel: bcmd_nl_dump, bcmd_nl_drain,         *)
(* bcmd_nl_process, bcmd_nl_handle and the loop of bcmd_run.               *)
(*                                                                         *)
(* Unlike edged, bcmd reads the answer to a dump request to its end before *)
(* it sends the next one, and one datagram in each other turn of its loop. *)
(* The kernel's tables are one function, from neighbours, own addresses    *)
(* and prefixes to what it has of them; it posts an event for every change *)
(* and drops events from a full queue until the queue has been read; the   *)
(* parts of a dump come one per recv, the first with the request.          *)
(***************************************************************************)
EXTENDS BcmdFib

CONSTANTS
  Nbr, Own, Dst,  \* neighbours, own addresses, prefixes
  Connected,      \* those of Dst that are subnets of a port: prefix -> port
  Macs, Failed,   \* what the kernel has of a neighbour: a MAC, or NUD_FAILED
  Turns,          \* turns of the loop between re-dumps, 15
  QueueMax,       \* datagrams that fit in the receive buffer
  Replaces,       \* bound of the model: MACs and gateways of an entry change
  MaxChanges      \* bound of the model: changes of the kernel's tables

ASSUME BcmdSyncAssumption ==
  /\ Turns \in Nat \ {0} /\ QueueMax \in Nat \ {0} /\ MaxChanges \in Nat
  /\ Replaces \in BOOLEAN /\ DOMAIN Connected \subseteq Dst
  /\ \A k \in Nbr \cup Own : k = <<k[1], k[2]>> /\ k[1] \in Nat
  /\ Own \cap Nbr = {} /\ Dst \cap (Nbr \cup Own \cup {<<>>, <<"none">>}) = {}

VARIABLES
  ktab,     \* kernel: key -> MAC, Failed or set of gateways
  changes,  \* kernel: changes so far
  queue,    \* socket: messages to be received
  congested,\* socket: events are dropped until the queue has been read
  overrun,  \* socket: the next recv returns ENOBUFS
  dump,     \* kernel: keys the dump in flight has still to tell, or NoDump
  lost,     \* history: some event was dropped
  pc,       \* bcmd: "ask" or "drain" (bcmd_nl_dump), "loop"
  asks,     \* bcmd: the dumps that are still to be made
  tick,     \* bcmd: turns of the loop, modulo Turns
  fib       \* bcmd and chip: BcmdFib

kernelVars == <<ktab, changes>>
socketVars == <<queue, congested, overrun, dump, lost>>
bcmdVars   == <<pc, asks, tick, fib>>
vars == <<kernelVars, socketVars, bcmdVars>>

NoDump == {<<"none">>}

Is6(k) == IF k \in Dst THEN k \in V6 ELSE k[2] \in V6
Of(S, six) == {k \in S : Is6(k) = six}

\* What bcmd_run asks for at start, and every 15 turns.
Dumps(S, six) == [i \in DOMAIN S |-> Of(S[i], six)]
InitDumps == Dumps(<<Own, Nbr, Dst>>, FALSE) \o Dumps(<<Own, Nbr, Dst>>, TRUE)

\* Mutant of Redumps: routes only.
RedumpsRoutes == Dumps(<<Dst>>, FALSE) \o Dumps(<<Dst>>, TRUE)

Redumps == Dumps(<<Nbr, Dst>>, FALSE) \o Dumps(<<Nbr, Dst>>, TRUE)

Msg(type, key, val) == [type |-> type, key |-> key, val |-> val]
Done == Msg("done", <<>>, {})

\* What the kernel may have of a key.
Gateways(p) == {S \in SUBSET Of(Nbr, p \in V6) : S # {}}
Values(k) ==
  IF k \in Nbr THEN Macs \cup {Failed}
  ELSE IF k \in Own \cup DOMAIN Connected THEN {{}} ELSE Gateways(k)

\* A subnet of a port is there only while the port has an address.
Supported(p, K) == p \in DOMAIN Connected => \E o \in K \cap Own : o[1] = Connected[p]
-----------------------------------------------------------------------------
Init ==
  /\ \E K \in SUBSET (Nbr \cup Own \cup Dst) :
     \E mac \in [K \cap Nbr -> Macs] :
     \E gws \in [(K \cap Dst) \ DOMAIN Connected -> SUBSET Nbr] :
       /\ \A p \in K \cap Dst : Supported(p, K)
       /\ \A p \in DOMAIN gws : gws[p] \in Gateways(p)
       /\ ktab = [k \in K |-> IF k \in Nbr THEN mac[k]
                             ELSE IF k \in DOMAIN gws THEN gws[k] ELSE {}]
  /\ changes = 0 /\ queue = <<>> /\ dump = NoDump
  /\ congested = FALSE /\ overrun = FALSE /\ lost = FALSE
  /\ pc = "ask" /\ asks = InitDumps /\ tick = 0 /\ fib = BcmdInit

(* The kernel (not part of the repository).                                *)

Post(m) ==
  IF Len(queue) < QueueMax /\ ~congested
  THEN queue' = Append(queue, m) /\ UNCHANGED <<congested, overrun, lost>>
  ELSE /\ congested' = TRUE /\ overrun' = (overrun \/ ~congested) /\ lost' = TRUE
       /\ UNCHANGED queue

\* The next part of dump d, if there is room for it behind q: a key that is
\* left, as it is by now, or NLMSG_DONE.
Dumped(q, d) ==
  LET todo == d \cap DOMAIN ktab IN
  IF d = NoDump \/ Len(q) = QueueMax THEN queue' = q /\ dump' = d
  ELSE IF todo = {} THEN queue' = Append(q, Done) /\ dump' = NoDump
  ELSE \E k \in todo : queue' = Append(q, Msg("new", k, ktab[k])) /\ dump' = todo \ {k}

Change == changes < MaxChanges /\ changes' = changes + 1 /\ UNCHANGED <<dump, bcmdVars>>

\* An entry is added, or replaced; a neighbour may stop to answer.
KernelSet(k, v) ==
  /\ IF k \in DOMAIN ktab THEN ktab[k] # v /\ (Replaces \/ v = Failed \/ ktab[k] = Failed)
                          ELSE v # Failed /\ Supported(k, DOMAIN ktab)
  /\ ktab' = With(ktab, k, v) /\ Post(Msg("new", k, v)) /\ Change

KernelDel(k) ==
  /\ k \in DOMAIN ktab
  /\ \A p \in DOMAIN ktab \cap Dst : Supported(p, DOMAIN ktab \ {k})
  /\ ktab' = Without(ktab, k) /\ Post(Msg("del", k, {})) /\ Change

-----------------------------------------------------------------------------
(* bcmd.                                                                   *)

\* bcmd_nl_handle.
Handle(b, m) ==
  CASE m.type = "done" -> b
    [] m.key \in Own -> IF m.type = "new" THEN LocalAdd(b, m.key) ELSE LocalDel(b, m.key)
    [] m.key \in Nbr -> IF m.type = "del" THEN NeighDel(b, m.key)
                        ELSE IF m.val = Failed THEN b ELSE NeighAdd(b, m.key, m.val)
    [] m.key \in Dst ->
         IF m.type = "del" THEN RouteDel(b, m.key)
         ELSE IF m.val = {} THEN RouteConnected(b, m.key, Connected[m.key])
         ELSE IF Cardinality(m.val) > 1 THEN RouteMultipath(b, m.key, m.val)
         ELSE RouteVia(b, m.key, CHOOSE n \in m.val : TRUE)

\* recv: the next datagram, or ENOBUFS once after a drop.
Receive ==
  /\ ~overrun /\ queue # <<>>
  /\ fib' = Handle(fib, Head(queue)) /\ Dumped(Tail(queue), dump)
  /\ congested' = (congested /\ queue' # <<>>) /\ UNCHANGED <<overrun, lost>>

ReceiveError ==
  /\ overrun /\ overrun' = FALSE /\ UNCHANGED <<queue, congested, dump, lost, fib>>

\* bcmd_nl_dump: the request.  While another dump is in flight it is refused,
\* with an NLMSG_ERROR for which there may be no room.
Ask ==
  /\ pc = "ask" /\ pc' = "drain"
  /\ IF dump = NoDump THEN Dumped(queue, Head(asks)) /\ UNCHANGED <<congested, overrun, lost>>
                      ELSE Post(Done) /\ UNCHANGED dump
  /\ UNCHANGED <<kernelVars, asks, tick, fib>>

\* bcmd_nl_drain: reads up to NLMSG_DONE or NLMSG_ERROR, or an error of recv.
Drain ==
  /\ pc = "drain"
  /\ Receive \/ ReceiveError
  /\ IF overrun \/ Head(queue).type = "done"
     THEN asks' = Tail(asks) /\ pc' = (IF Tail(asks) = <<>> THEN "loop" ELSE "ask")
     ELSE UNCHANGED <<pc, asks>>
  /\ UNCHANGED <<kernelVars, tick>>

\* One turn of the loop: bcmd_nl_process reads what there is, or poll times
\* out; every 15th turn the dumps follow.
Turn ==
  /\ pc = "loop"
  /\ IF queue # <<>> THEN Receive \/ ReceiveError ELSE UNCHANGED <<socketVars, fib>>
  /\ tick' = (tick + 1) % Turns
  /\ IF tick = Turns - 1 THEN pc' = "ask" /\ asks' = Redumps ELSE UNCHANGED <<pc, asks>>
  /\ UNCHANGED kernelVars

Next ==
  \/ \E k \in Nbr \cup Own \cup Dst : KernelDel(k) \/ \E v \in Values(k) : KernelSet(k, v)
  \/ Ask \/ Drain \/ Turn

(***************************************************************************)
(* Fairness: bcmd's thread runs; poll returns after two seconds at the     *)
(* latest.                                                                 *)
(***************************************************************************)
Spec ==
  Init /\ [][Next]_vars /\ WF_vars(Ask) /\ WF_vars(Drain) /\ WF_vars(Turn)
-----------------------------------------------------------------------------
\* What the cache says is true: a cached neighbour has an egress object of
\* its own, which no earlier destroy took away, and every host of the chip is
\* an own address or has the object of a cached neighbour with its address, so
\* that the next deletion finds it.  No route is left on an object that is gone.
CacheTrue ==
  /\ Range(fib.route) \subseteq DOMAIN fib.egr \cup DOMAIN fib.group
  /\ \A n \in DOMAIN fib.cache \cap Nbr :
       fib.cache[n] \in DOMAIN fib.egr /\ fib.egr[fib.cache[n]].nbr = n
  /\ \A ip \in DOMAIN fib.host :
       \/ fib.host[ip] = ToCpu
       \/ \E n \in DOMAIN fib.cache \cap Nbr : n[2] = ip /\ fib.cache[n] = fib.host[ip]

\* bcmd has read all that the kernel had to tell.
Quiet == pc = "loop" /\ queue = <<>> /\ dump = NoDump /\ ~lost

\* "Without a local-IP host entry the chip would L3-miss our own inbound
\* unicast": when bcmd has read all, own addresses are punted.
OwnPunted == Quiet => \A o \in DOMAIN ktab \cap Own :
                        o[2] \in DOMAIN fib.host /\ fib.host[o[2]] = ToCpu

\* As long as no event was dropped, nothing outlives its deletion, although a
\* dump may have told of it in the same moment: the chip has no neighbour, no
\* own address and no route that the kernel has not.
NoneStale ==
  Quiet => /\ DOMAIN fib.cache \cap Nbr \subseteq DOMAIN ktab
           /\ DOMAIN fib.host \subseteq {k[2] : k \in DOMAIN ktab \cap (Nbr \cup Own)}
           /\ DOMAIN fib.route \subseteq DOMAIN ktab

\* bcmd knows every neighbour that the kernel has a MAC of, and the chip has
\* the routes through one of them.
UpToDate ==
  /\ \A n \in DOMAIN ktab \cap Nbr : ktab[n] # Failed => n \in DOMAIN fib.cache
  /\ \A p \in (DOMAIN ktab \cap Dst) \ DOMAIN Connected :
       Cardinality(ktab[p]) = 1 /\ ktab[p] \subseteq DOMAIN fib.cache => p \in DOMAIN fib.route

\* Once the kernel's tables stay as they are the chip gets what it lacks,
\* whatever was dropped and whichever request was refused or answered by the
\* end of an earlier dump; no drain waits for ever.
CatchesUp == <>[]UpToDate
-----------------------------------------------------------------------------
(* What the code's comments say and the code does not do.                  *)

\* "Keep the chip L3 tables a true mirror of the kernel FIB": what is in the
\* chip, when bcmd has read all, has the MAC and the gateways that the kernel
\* has.
TrueMirror ==
  Quiet =>
    /\ \A n \in DOMAIN fib.cache \cap DOMAIN ktab \cap Nbr :
         ktab[n] # Failed => fib.egr[fib.cache[n]].mac = ktab[n]
    /\ \A p \in DOMAIN fib.route \cap DOMAIN ktab :
         ktab[p] # {} => Behind(fib, p) = ktab[p]
=============================================================================
