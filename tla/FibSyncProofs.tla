--------------------------- MODULE FibSyncProofs ---------------------------
(***************************************************************************)
(* What FibSync keeps for every set of neighbours and prefixes and every   *)
(* size of the netlink socket's buffer, as long as no event is dropped: a  *)
(* poll that drains the socket also sees the end of the dump in flight,    *)
(* and nothing outlives its deletion on the chip.                          *)
(***************************************************************************)
EXTENDS FibSync, TLAPS

-----------------------------------------------------------------------------
(* The requests and the messages.                                          *)

NeighTypes == {"newneigh", "delneigh"}
RouteTypes == {"newroute", "delroute"}

\* Messages by what they are about; "noaddr" is a neighbour without a MAC,
\* "other" one that is about none of the tables.
Message ==
  {m \in [type : NeighTypes \cup RouteTypes \cup {"noaddr", "other"},
          key : Gw \cup Dst \cup {"lo"}, gws : SUBSET Gw] :
     /\ m.type \in NeighTypes => m.key \in Gw
     /\ m.type \in RouteTypes => m.key \in Dst}

\* A dump of neighbours tells of neighbours, one of routes of prefixes.
DumpOK(d) ==
  \/ d = NoDump
  \/ /\ d \in [obj : {"addr", "neigh", "route"}, fam : {"v4", "v6"},
               todo : SUBSET (Gw \cup Dst \cup {"lo"})]
     /\ d.obj = "neigh" => d.todo \subseteq Gw
     /\ d.obj = "route" => d.todo \subseteq Dst

\* The state of the kernel and of edged; a turn is one of its list of dumps.
SyncTypeOK ==
  /\ kneigh \in [Gw -> {"none", "ok", "failed"}]
  /\ DOMAIN kroute \subseteq Dst /\ \A p \in DOMAIN kroute : kroute[p] \in SUBSET Gw
  /\ DOMAIN nh \subseteq Gw /\ DOMAIN route \subseteq Dst
  /\ queue \in Seq(Message)
  /\ DumpOK(dump)
  /\ pc \in {"init", "poll", "loop"}
  /\ turn \in 1..(IF pc = "init" THEN 5 ELSE 4)

\* A drop is remembered in "lost".
DropsKnown == overrun => lost

\* A dump in flight always has a message in the queue, whose recv makes it go
\* on: so EAGAIN tells that there is none.
DumpGoesOn == dump # NoDump => queue # <<>>

\* A message that a dump tells is about something that the kernel has.
Current(m) ==
  /\ m.type \in {"newneigh", "noaddr", "newroute", "other"}
  /\ m.type = "newneigh" => kneigh[m.key] # "none"
  /\ m.type = "newroute" => m.key \in DOMAIN kroute

LEMMA ToldOK ==
  ASSUME SyncTypeOK, NEW d, DumpOK(d), d # NoDump, NEW k \in d.todo \cap Keys(d)
  PROVE  Told(d, k) \in Message /\ Current(Told(d, k))
<1>1. d.obj \in {"addr", "neigh", "route"}
  BY DEF DumpOK
<1>2. CASE d.obj = "neigh"
  <2>1. k \in Gw /\ kneigh[k] # "none"
    BY <1>2 DEF DumpOK, Keys
  <2>2. Told(d, k) = NewNeigh(k)
    BY <1>2 DEF Told
  <2> QED
    BY <2>1, <2>2 DEF NewNeigh, Msg, Message, NeighTypes, RouteTypes, Current
<1>3. CASE d.obj = "route"
  <2>1. k \in Dst /\ k \in DOMAIN kroute
    BY <1>3 DEF DumpOK, Keys
  <2>2. kroute[k] \in SUBSET Gw
    BY <2>1 DEF SyncTypeOK
  <2>3. Told(d, k) = Msg("newroute", k, kroute[k])
    BY <1>3 DEF Told
  <2> QED
    BY <2>1, <2>2, <2>3 DEF Msg, Message, NeighTypes, RouteTypes, Current
<1>4. CASE d.obj = "addr"
  <2>1. Told(d, k) = Other
    BY <1>4 DEF Told
  <2> QED
    BY <2>1 DEF Other, Msg, Message, NeighTypes, RouteTypes, Current
<1> QED
  BY <1>1, <1>2, <1>3, <1>4

LEMMA AppendIn ==
  ASSUME NEW S, NEW q \in Seq(S), NEW m \in S
  PROVE  Append(q, m) # <<>>
<1>1. Len(Append(q, m)) = Len(q) + 1 /\ Len(q) \in Nat /\ Len(<<>>) = 0
  OBVIOUS
<1> QED
  BY <1>1

\* A part of a dump is appended, if there is room for it; what is left of the
\* dump then has a message in the queue to go on with.
LEMMA DumpTells ==
  ASSUME SyncTypeOK, NEW q \in Seq(Message), NEW d, DumpOK(d), Dumped(q, d)
  PROVE  /\ DumpOK(dump')
         /\ queue' = q \/ \E m \in Message : queue' = Append(q, m) /\ Current(m)
         /\ dump' # NoDump => queue' # <<>>
<1> DEFINE left == d.todo \cap Keys(d)
<1>1. ASSUME NEW m \in Message PROVE Append(q, m) # <<>>
  BY AppendIn
<1>2. CASE d = NoDump \/ Len(q) >= QueueMax
  <2>1. queue' = q /\ dump' = d
    BY <1>2 DEF Dumped
  <2>2. Len(q) >= QueueMax => q # <<>>
    BY SyncAssumption
  <2> QED
    BY <1>2, <2>1, <2>2
<1>3. CASE ~(d = NoDump \/ Len(q) >= QueueMax) /\ left = {}
  <2>1. queue' = Append(q, Other) /\ dump' = NoDump
    BY <1>3 DEF Dumped
  <2>2. Other \in Message /\ Current(Other)
    BY DEF Other, Msg, Message, NeighTypes, RouteTypes, Current
  <2> QED
    BY <2>1, <2>2 DEF DumpOK
<1>4. CASE ~(d = NoDump \/ Len(q) >= QueueMax) /\ left # {}
  <2>1. PICK k \in left : /\ queue' = Append(q, Told(d, k))
                          /\ dump' = [d EXCEPT !.todo = left \ {k}]
    BY <1>4 DEF Dumped
  <2>2. Told(d, k) \in Message /\ Current(Told(d, k))
    BY <1>4, ToldOK
  <2>3. DumpOK(dump')
    <3> DEFINE t == left \ {k}
    <3>1. dump' = [d EXCEPT !.todo = t] /\ t \subseteq d.todo
      BY <2>1
    <3> HIDE DEF t
    <3> QED
      BY <1>4, <3>1 DEF DumpOK
  <2> QED
    BY <1>1, <2>1, <2>2, <2>3
<1> QED
  BY <1>2, <1>3, <1>4

\* A request asks for what there is of its kind, or is refused.
LEMMA RequestOK ==
  ASSUME SyncTypeOK, DumpGoesOn,
         NEW d, d.obj \in {"addr", "neigh", "route"}, d.fam \in {"v4", "v6"}, Request(d)
  PROVE  /\ DumpOK(dump')
         /\ queue' = queue \/ \E m \in Message : queue' = Append(queue, m) /\ Current(m)
         /\ dump' # NoDump => queue' # <<>>
<1>1. CASE dump = NoDump
  <2> DEFINE e == [obj |-> d.obj, fam |-> d.fam, todo |-> Keys(d)]
  <2>1. Keys(d) \subseteq Gw \cup Dst \cup {"lo"}
    BY DEF Keys, SyncTypeOK
  <2>2. d.obj = "neigh" => Keys(d) \subseteq Gw
    BY DEF Keys
  <2>3. d.obj = "route" => Keys(d) \subseteq Dst
    BY DEF Keys, SyncTypeOK
  <2>4. DumpOK(e)
    BY <2>1, <2>2, <2>3 DEF DumpOK
  <2>5. Dumped(queue, e) /\ queue \in Seq(Message)
    BY <1>1 DEF Request, SyncTypeOK
  <2> HIDE DEF e
  <2> QED
    BY <2>4, <2>5, DumpTells
<1>2. CASE dump # NoDump
  BY <1>2 DEF Request, SyncTypeOK, DumpGoesOn
<1> QED
  BY <1>1, <1>2

\* recv takes the first message away, and a dump in flight goes on.
LEMMA DequeueOK ==
  ASSUME SyncTypeOK, queue # <<>>, Dequeue
  PROVE  /\ DumpOK(dump')
         /\ \/ queue' = Tail(queue)
            \/ \E m \in Message : queue' = Append(Tail(queue), m) /\ Current(m)
         /\ dump' # NoDump => queue' # <<>>
<1>1. Tail(queue) \in Seq(Message) /\ DumpOK(dump)
  BY DEF SyncTypeOK
<1>2. CASE Dumped(Tail(queue), dump)
  BY <1>1, <1>2, DumpTells
<1>3. CASE Tail(queue) # <<>> /\ queue' = Tail(queue) /\ UNCHANGED dump
  BY <1>1, <1>3
<1> QED
  BY <1>2, <1>3 DEF Dequeue

LEMMA RequestsOK ==
  /\ Len(InitDumps) = 5 /\ Len(Redumps) = 4
  /\ \A t \in 1..5 : /\ InitDumps[t].obj \in {"addr", "neigh", "route"}
                     /\ InitDumps[t].fam \in {"v4", "v6"}
  /\ \A t \in 1..4 : /\ Redumps[t].obj \in {"addr", "neigh", "route"}
                     /\ Redumps[t].fam \in {"v4", "v6"}
<1>1. \A o, f : Dump(o, f).obj = o /\ Dump(o, f).fam = f
  BY DEF Dump
<1> QED
  BY <1>1 DEF InitDumps, Redumps

\* An event that is posted is a message; one that is dropped is remembered.
LEMMA PostOK ==
  ASSUME SyncTypeOK, DropsKnown, NEW m \in Message, Post(m)
  PROVE  /\ queue' \in Seq(Message) /\ (overrun' => lost')
         /\ lost => lost'
         /\ ~lost' => queue' = Append(queue, m)
         /\ queue # <<>> => queue' # <<>>
<1>1. queue \in Seq(Message) /\ Append(queue, m) \in Seq(Message) /\ Append(queue, m) # <<>>
  BY DEF SyncTypeOK
<1> QED
  BY <1>1 DEF Post, DropsKnown

\* The tables know neighbours and prefixes only.
LEMMA HandleOK ==
  ASSUME SyncTypeOK, NEW m \in Message, Handle(m)
  PROVE  /\ DOMAIN nh' \subseteq Gw /\ DOMAIN route' \subseteq Dst
         /\ \A g \in DOMAIN nh' \ DOMAIN nh : m.type = "newneigh" /\ m.key = g
         /\ m.type = "delneigh" => m.key \notin DOMAIN nh'
         /\ \A p \in DOMAIN route' \ DOMAIN route : m.type = "newroute" /\ m.key = p
         /\ m.type = "delroute" => m.key \notin DOMAIN route'
<1>1. m.type \in NeighTypes \cup RouteTypes \cup {"noaddr", "other"}
  BY DEF Message
<1>2. CASE m.type = "newneigh"
  <2>1. Resolve(m.key) /\ m.key \in Gw
    BY <1>2 DEF Handle, Message, NeighTypes
  <2>2. DOMAIN nh' \subseteq DOMAIN nh \cup {m.key} /\ route' = route
    BY <2>1 DEF Resolve, Bind
  <2> QED
    BY <1>2, <2>1, <2>2 DEF SyncTypeOK
<1>3. CASE m.type = "delneigh"
  <2>1. Forget(m.key)
    BY <1>3 DEF Handle
  <2>2. DOMAIN nh' = DOMAIN nh \ {m.key} /\ route' = route
    BY <2>1 DEF Forget, Unbind, Restrict
  <2> QED
    BY <1>3, <2>2 DEF SyncTypeOK
<1>4. CASE m.type = "delroute"
  <2>1. DelRoute(m.key)
    BY <1>4 DEF Handle
  <2>2. DOMAIN route' = DOMAIN route \ {m.key} /\ nh' = nh
    BY <2>1 DEF DelRoute, Unbind, Restrict
  <2> QED
    BY <1>4, <2>2 DEF SyncTypeOK
<1>5. CASE m.type = "newroute"
  <2>1. m.key \in Dst
    BY <1>5 DEF Message, RouteTypes
  <2>2. CASE m.gws # {}
    <3>1. SetRoute(m.key, [g \in m.gws |-> g])
      BY <1>5, <2>2 DEF Handle
    <3>2. DOMAIN route' \subseteq DOMAIN route \cup {m.key} /\ nh' = nh
      BY <3>1 DEF SetRoute, Bind
    <3> QED
      BY <1>5, <2>1, <3>2 DEF SyncTypeOK
  <2>3. CASE m.gws = {}
    BY <1>5, <2>3 DEF Handle, tableVars, SyncTypeOK
  <2> QED
    BY <2>2, <2>3
<1>6. CASE m.type \in {"noaddr", "other"}
  BY <1>6 DEF Handle, tableVars, SyncTypeOK
<1> QED
  BY <1>1, <1>2, <1>3, <1>4, <1>5, <1>6 DEF NeighTypes, RouteTypes
-----------------------------------------------------------------------------
(* OneDumpInFlight.                                                        *)

SyncIInv == SyncTypeOK /\ DropsKnown /\ DumpGoesOn /\ OneDumpInFlight

LEMMA SyncInit == Init => SyncIInv
<1> SUFFICES ASSUME Init PROVE SyncIInv
  OBVIOUS
<1>1. nh = <<>> /\ route = <<>> /\ DOMAIN nh = {} /\ DOMAIN route = {}
  BY DEF Init, TableInit
<1>2. /\ kneigh \in [Gw -> {"none", "ok", "failed"}]
      /\ DOMAIN kroute \subseteq Dst /\ \A p \in DOMAIN kroute : kroute[p] \in SUBSET Gw
  <2>1. PICK D \in SUBSET Dst : kroute \in [D -> GwSets]
    BY DEF Init
  <2>2. GwSets \subseteq SUBSET Gw
    BY SyncAssumption DEF GwSets
  <2> QED
    BY <2>1, <2>2 DEF Init
<1>3. queue = <<>> /\ dump = NoDump /\ pc = "init" /\ turn = 1 /\ overrun = FALSE
  BY DEF Init
<1>4. DumpOK(NoDump)
  BY DEF DumpOK, NoDump
<1>5. <<>> \in Seq(Message)
  OBVIOUS
<1> QED
  BY <1>1, <1>2, <1>3, <1>4, <1>5
     DEF SyncIInv, SyncTypeOK, DropsKnown, DumpGoesOn, OneDumpInFlight

\* A change of the kernel's tables is posted, and disturbs nothing else.
LEMMA ChangeStep ==
  ASSUME SyncIInv, Kernel
  PROVE  /\ SyncIInv'
         /\ \E m \in Message : Post(m)
         /\ UNCHANGED <<tableVars, dump, edgedVars>>
<1>0. /\ kneigh \in [Gw -> {"none", "ok", "failed"}]
      /\ DOMAIN kroute \subseteq Dst /\ \A p \in DOMAIN kroute : kroute[p] \in SUBSET Gw
  BY DEF SyncIInv, SyncTypeOK
<1>a. ASSUME NEW m \in Message, Post(m), Change,
             kneigh' \in [Gw -> {"none", "ok", "failed"}],
             DOMAIN kroute' \subseteq Dst, \A p \in DOMAIN kroute' : kroute'[p] \in SUBSET Gw
      PROVE  SyncIInv' /\ UNCHANGED <<tableVars, dump, edgedVars>>
  <2>1. /\ queue' \in Seq(Message) /\ (overrun' => lost') /\ (lost => lost')
        /\ queue # <<>> => queue' # <<>>
    BY <1>a, PostOK DEF SyncIInv
  <2>2. UNCHANGED <<tableVars, dump, edgedVars>>
    BY <1>a DEF Change
  <2>3. UNCHANGED <<nh, route, dump, pc, turn>>
    BY <2>2 DEF tableVars, edgedVars
  <2>4. SyncTypeOK'
    BY <1>a, <2>1, <2>3 DEF SyncIInv, SyncTypeOK, DumpOK
  <2> QED
    BY <2>1, <2>2, <2>3, <2>4 DEF SyncIInv, DropsKnown, DumpGoesOn, OneDumpInFlight
<1>1. ASSUME NEW g \in Gw, KernelNeighGone(g)
      PROVE  /\ SyncIInv' /\ \E m \in Message : Post(m)
             /\ UNCHANGED <<tableVars, dump, edgedVars>>
  <2>1. Msg("delneigh", g, {}) \in Message
    BY DEF Msg, Message, NeighTypes, RouteTypes
  <2>2. kneigh' \in [Gw -> {"none", "ok", "failed"}] /\ UNCHANGED kroute
    BY <1>0, <1>1 DEF KernelNeighGone
  <2>3. Post(Msg("delneigh", g, {})) /\ Change
    BY <1>1 DEF KernelNeighGone
  <2> QED
    BY <1>0, <1>a, <2>1, <2>2, <2>3
<1>2. ASSUME NEW g \in Gw, NEW s \in {"ok", "failed"}, KernelNeigh(g, s)
      PROVE  /\ SyncIInv' /\ \E m \in Message : Post(m)
             /\ UNCHANGED <<tableVars, dump, edgedVars>>
  <2> DEFINE m == IF s = "ok" THEN Msg("newneigh", g, {}) ELSE Msg("noaddr", g, {})
  <2>1. m \in Message
    BY DEF Msg, Message, NeighTypes, RouteTypes
  <2>2. kneigh' \in [Gw -> {"none", "ok", "failed"}] /\ UNCHANGED kroute
    BY <1>0, <1>2 DEF KernelNeigh
  <2>3. Post(m) /\ Change
    BY <1>2 DEF KernelNeigh
  <2> HIDE DEF m
  <2> QED
    BY <1>0, <1>a, <2>1, <2>2, <2>3
<1>3. ASSUME NEW p \in Dst, KernelRouteGone(p)
      PROVE  /\ SyncIInv' /\ \E m \in Message : Post(m)
             /\ UNCHANGED <<tableVars, dump, edgedVars>>
  <2>1. Msg("delroute", p, {}) \in Message
    BY DEF Msg, Message, NeighTypes, RouteTypes
  <2>2. kroute' = Unbind(kroute, p) /\ UNCHANGED kneigh
    BY <1>3 DEF KernelRouteGone
  <2>3. DOMAIN kroute' \subseteq Dst /\ \A q \in DOMAIN kroute' : kroute'[q] \in SUBSET Gw
    BY <1>0, <2>2 DEF Unbind, Restrict
  <2>4. Post(Msg("delroute", p, {})) /\ Change
    BY <1>3 DEF KernelRouteGone
  <2> QED
    BY <1>0, <1>a, <2>1, <2>2, <2>3, <2>4
<1>4. ASSUME NEW p \in Dst, NEW gws \in GwSets, KernelRoute(p, gws)
      PROVE  /\ SyncIInv' /\ \E m \in Message : Post(m)
             /\ UNCHANGED <<tableVars, dump, edgedVars>>
  <2>1. gws \in SUBSET Gw
    BY SyncAssumption DEF GwSets
  <2>2. Msg("newroute", p, gws) \in Message
    BY <2>1 DEF Msg, Message, NeighTypes, RouteTypes
  <2>3. kroute' = Bind(kroute, p, gws) /\ UNCHANGED kneigh
    BY <1>4 DEF KernelRoute
  <2>4. DOMAIN kroute' \subseteq Dst /\ \A q \in DOMAIN kroute' : kroute'[q] \in SUBSET Gw
    BY <1>0, <2>1, <2>3 DEF Bind
  <2>5. Post(Msg("newroute", p, gws)) /\ Change
    BY <1>4 DEF KernelRoute
  <2> QED
    BY <1>0, <1>a, <2>2, <2>3, <2>4, <2>5
<1> QED
  BY <1>1, <1>2, <1>3, <1>4 DEF Kernel

LEMMA SyncStep == SyncIInv /\ [Next]_vars => SyncIInv'
<1> SUFFICES ASSUME SyncIInv, [Next]_vars PROVE SyncIInv'
  OBVIOUS
<1> USE DEF SyncIInv
<1>1. CASE Kernel
  BY <1>1, ChangeStep
<1>2. CASE InitDump
  <2>1. /\ pc = "init" /\ UNCHANGED <<nh, route, kneigh, kroute, overrun, lost>>
        /\ Request(InitDumps[turn])
    BY <1>2 DEF InitDump, tableVars, kernelVars
  <2>2. turn \in 1..5
    BY <2>1 DEF SyncTypeOK
  <2>3. /\ DumpOK(dump') /\ (dump' # NoDump => queue' # <<>>)
        /\ queue' = queue \/ \E m \in Message : queue' = Append(queue, m)
    BY <2>1, <2>2, RequestOK, RequestsOK
  <2>4. queue' \in Seq(Message)
    BY <2>3 DEF SyncTypeOK
  <2>5. /\ pc' \in {"init", "poll"}
        /\ turn' \in 1..(IF pc' = "init" THEN 5 ELSE 4)
    BY <1>2, <2>1, <2>2, RequestsOK DEF InitDump
  <2> QED
    BY <2>1, <2>3, <2>4, <2>5 DEF SyncTypeOK, DropsKnown, DumpGoesOn, OneDumpInFlight
<1>3. CASE Receive
  <2>1. /\ pc = "poll" /\ queue # <<>> /\ Dequeue
        /\ UNCHANGED <<kneigh, kroute, overrun, lost, pc, turn>>
    BY <1>3 DEF Receive, kernelVars, edgedVars
  <2>2. Head(queue) \in Message /\ Tail(queue) \in Seq(Message)
    BY <2>1 DEF SyncTypeOK
  <2>3. DOMAIN nh' \subseteq Gw /\ DOMAIN route' \subseteq Dst
    BY <1>3, <2>2, HandleOK DEF Receive
  <2>4. /\ DumpOK(dump') /\ (dump' # NoDump => queue' # <<>>)
        /\ queue' = Tail(queue) \/ \E m \in Message : queue' = Append(Tail(queue), m)
    BY <2>1, DequeueOK
  <2>5. queue' \in Seq(Message)
    BY <2>2, <2>4
  <2> QED
    BY <2>1, <2>3, <2>4, <2>5 DEF SyncTypeOK, DropsKnown, DumpGoesOn, OneDumpInFlight
<1>4. CASE PollEnds
  <2>1. UNCHANGED <<nh, route, kneigh, kroute, queue, dump, lost, turn>>
    BY <1>4 DEF PollEnds, tableVars, kernelVars
  <2>2. /\ pc = "poll" /\ pc' = "loop" /\ overrun' = FALSE
        /\ overrun \/ queue = <<>>
    BY <1>4 DEF PollEnds
  <2>3. overrun => lost
    BY DEF DropsKnown
  <2>4. queue = <<>> => dump = NoDump
    BY DEF DumpGoesOn
  <2> QED
    BY <2>1, <2>2, <2>3, <2>4
       DEF SyncTypeOK, DropsKnown, DumpGoesOn, OneDumpInFlight, DumpOK, NoDump
<1>5. CASE Loop
  <2>1. UNCHANGED <<nh, route, kneigh, kroute, queue, overrun, dump, lost, turn>>
    BY <1>5 DEF Loop, tableVars, kernelVars, socketVars
  <2>2. pc = "loop" /\ pc' = "poll"
    BY <1>5 DEF Loop
  <2> QED
    BY <2>1, <2>2 DEF SyncTypeOK, DropsKnown, DumpGoesOn, OneDumpInFlight, DumpOK, NoDump
<1>6. CASE Redump
  <2>1. /\ pc = "loop" /\ pc' = "poll" /\ turn' = NextTurn /\ Request(Redumps[turn])
        /\ UNCHANGED <<nh, route, kneigh, kroute, overrun, lost>>
    BY <1>6 DEF Redump, tableVars, kernelVars
  <2>2. turn \in 1..4
    BY <2>1 DEF SyncTypeOK
  <2>3. /\ DumpOK(dump') /\ (dump' # NoDump => queue' # <<>>)
        /\ queue' = queue \/ \E m \in Message : queue' = Append(queue, m)
    BY <2>1, <2>2, RequestOK, RequestsOK
  <2>4. queue' \in Seq(Message)
    BY <2>3 DEF SyncTypeOK
  <2>5. NextTurn \in 1..4
    BY <2>2, RequestsOK DEF NextTurn
  <2> QED
    BY <2>1, <2>3, <2>4, <2>5 DEF SyncTypeOK, DropsKnown, DumpGoesOn, OneDumpInFlight
<1>7. CASE UNCHANGED vars
  BY <1>7 DEF vars, tableVars, kernelVars, socketVars, edgedVars, SyncTypeOK, DropsKnown,
              DumpGoesOn, OneDumpInFlight, DumpOK, NoDump
<1> QED
  BY <1>1, <1>2, <1>3, <1>4, <1>5, <1>6, <1>7 DEF Next

\* netlink_redump_routes never asks for a dump while another one is in flight,
\* as long as no event was dropped: netlink_poll reads until recv returns EAGAIN,
\* and a dump in flight always has a message in the socket to go on from.
THEOREM DumpsAreSerial == Spec => []OneDumpInFlight
<1>1. Init => SyncIInv
  BY SyncInit
<1>2. SyncIInv /\ [Next]_vars => SyncIInv'
  BY SyncStep
<1>3. SyncIInv => OneDumpInFlight
  BY DEF SyncIInv
<1> QED
  BY <1>1, <1>2, <1>3, PTL DEF Spec
-----------------------------------------------------------------------------
(***************************************************************************)
(* NothingStale.  The chip may know a neighbour that the kernel has no     *)
(* more, as long as its RTM_DELNEIGH is in the queue and nothing after it  *)
(* brings the neighbour back.                                              *)
(***************************************************************************)

\* No message of the queue q is one of S.
Silent(q, S) == \A i \in 1..Len(q) : q[i] \notin S

\* The last message of S in the queue q, if there is one, is one of D.
LastIs(q, S, D) ==
  \A i \in 1..Len(q) :
    q[i] \in S /\ (\A j \in (i + 1)..Len(q) : q[j] \notin S) => q[i] \in D

AboutNeigh(g) == {m \in Message : m.type \in NeighTypes /\ m.key = g}
AboutRoute(p) == {m \in Message : m.type \in RouteTypes /\ m.key = p}
Deletions     == {m \in Message : m.type \in {"delneigh", "delroute"}}

\* What the kernel has no more is deleted last, or the chip does not have it.
StaleTold ==
  ~lost =>
    /\ \A g \in Gw : kneigh[g] = "none" =>
         /\ LastIs(queue, AboutNeigh(g), Deletions)
         /\ Silent(queue, AboutNeigh(g)) => g \notin DOMAIN nh
    /\ \A p \in Dst \ DOMAIN kroute :
         /\ LastIs(queue, AboutRoute(p), Deletions)
         /\ Silent(queue, AboutRoute(p)) => p \notin DOMAIN route

LEMMA LastOfAppend ==
  ASSUME NEW M, NEW q \in Seq(M), NEW m \in M, NEW S, NEW D,
         m \in S => m \in D,
         m \notin S => LastIs(q, S, D)
  PROVE  /\ LastIs(Append(q, m), S, D)
         /\ Silent(Append(q, m), S) => m \notin S /\ Silent(q, S)
<1> DEFINE n == Len(q)
           a == Append(q, m)
<1>1. n \in Nat /\ Len(a) = n + 1 /\ a[n + 1] = m /\ \A i \in 1..n : a[i] = q[i]
  OBVIOUS
<1> HIDE DEF n, a
<1>2. ASSUME NEW i \in 1..(n + 1), a[i] \in S,
             \A j \in (i + 1)..(n + 1) : a[j] \notin S
      PROVE  a[i] \in D
  <2>1. CASE i = n + 1
    BY <1>1, <1>2, <2>1
  <2>2. CASE i # n + 1
    <3>1. i \in 1..n /\ n + 1 \in (i + 1)..(n + 1) /\ a[i] = q[i]
      BY <1>1, <2>2
    <3>2. m \notin S
      BY <1>1, <1>2, <3>1
    <3>3. ASSUME NEW j \in (i + 1)..n PROVE q[j] \notin S
      <4>1. j \in (i + 1)..(n + 1) /\ j \in 1..n
        BY <1>1, <3>1
      <4> QED
        BY <1>1, <1>2, <4>1
    <3>4. LastIs(q, S, D)
      BY <3>2
    <3> QED
      BY <1>2, <3>1, <3>3, <3>4 DEF LastIs, n
  <2> QED
    BY <2>1, <2>2
<1>3. ASSUME Silent(a, S) PROVE m \notin S /\ Silent(q, S)
  <2>1. \A i \in 1..n : i \in 1..(n + 1) /\ a[i] = q[i]
    BY <1>1
  <2>2. n + 1 \in 1..(n + 1)
    BY <1>1
  <2> QED
    BY <1>1, <1>3, <2>1, <2>2 DEF Silent, n
<1>4. LastIs(a, S, D)
  BY <1>1, <1>2 DEF LastIs
<1> QED
  BY <1>3, <1>4 DEF a

LEMMA LastOfTail ==
  ASSUME NEW M, NEW q \in Seq(M), q # <<>>, NEW S, NEW D, LastIs(q, S, D)
  PROVE  /\ LastIs(Tail(q), S, D)
         /\ Silent(Tail(q), S) => IF Head(q) \in S THEN Head(q) \in D ELSE Silent(q, S)
<1> DEFINE n == Len(q)
           t == Tail(q)
<1>1. n \in Nat /\ n >= 1 /\ Len(t) = n - 1 /\ \A i \in 1..(n - 1) : t[i] = q[i + 1]
  OBVIOUS
<1>2. Head(q) = q[1]
  OBVIOUS
<1> HIDE DEF n, t
<1>3. ASSUME NEW i \in 1..(n - 1), t[i] \in S,
             \A j \in (i + 1)..(n - 1) : t[j] \notin S
      PROVE  t[i] \in D
  <2>1. i + 1 \in 1..n /\ t[i] = q[i + 1]
    BY <1>1
  <2>2. ASSUME NEW j \in ((i + 1) + 1)..n PROVE q[j] \notin S
    <3>1. j - 1 \in (i + 1)..(n - 1) /\ j - 1 \in 1..(n - 1) /\ (j - 1) + 1 = j
      BY <1>1
    <3> QED
      BY <1>1, <1>3, <3>1
  <2> QED
    BY <1>3, <2>1, <2>2 DEF LastIs, n
<1>4. LastIs(t, S, D)
  BY <1>1, <1>3 DEF LastIs
<1>5. ASSUME Silent(t, S), NEW j \in 2..n PROVE q[j] \notin S
  <2>1. j - 1 \in 1..(n - 1) /\ (j - 1) + 1 = j
    BY <1>1
  <2> QED
    BY <1>1, <1>5, <2>1 DEF Silent
<1>6. ASSUME Silent(t, S), q[1] \in S PROVE q[1] \in D
  <2>1. 1 \in 1..n /\ \A j \in (1 + 1)..n : q[j] \notin S
    BY <1>1, <1>5, <1>6
  <2> QED
    BY <1>6, <2>1 DEF LastIs, n
<1>7. ASSUME Silent(t, S), q[1] \notin S PROVE Silent(q, S)
  <2>1. \A j \in 1..n : j = 1 \/ j \in 2..n
    BY <1>1
  <2> QED
    BY <1>5, <1>7, <2>1 DEF Silent, n
<1> QED
  BY <1>2, <1>4, <1>6, <1>7 DEF t

\* A queue that tells what is gone, or a message that does, leaves the queue
\* with the message behind it telling it.
LEMMA AppendedTells ==
  ASSUME NEW q \in Seq(Message), NEW m \in Message, queue' = Append(q, m),
         \A g \in Gw : kneigh'[g] = "none" =>
            /\ m \in AboutNeigh(g) => m \in Deletions
            /\ m \notin AboutNeigh(g) =>
                 /\ LastIs(q, AboutNeigh(g), Deletions)
                 /\ Silent(q, AboutNeigh(g)) => g \notin DOMAIN nh',
         \A p \in Dst \ DOMAIN kroute' :
            /\ m \in AboutRoute(p) => m \in Deletions
            /\ m \notin AboutRoute(p) =>
                 /\ LastIs(q, AboutRoute(p), Deletions)
                 /\ Silent(q, AboutRoute(p)) => p \notin DOMAIN route'
  PROVE  StaleTold'
<1>1. ASSUME NEW g \in Gw, kneigh'[g] = "none"
      PROVE  /\ LastIs(queue', AboutNeigh(g), Deletions)
             /\ Silent(queue', AboutNeigh(g)) => g \notin DOMAIN nh'
  <2>1. /\ LastIs(Append(q, m), AboutNeigh(g), Deletions)
        /\ Silent(Append(q, m), AboutNeigh(g)) =>
             m \notin AboutNeigh(g) /\ Silent(q, AboutNeigh(g))
    BY <1>1, LastOfAppend
  <2> QED
    BY <1>1, <2>1
<1>2. ASSUME NEW p \in Dst \ DOMAIN kroute'
      PROVE  /\ LastIs(queue', AboutRoute(p), Deletions)
             /\ Silent(queue', AboutRoute(p)) => p \notin DOMAIN route'
  <2>1. /\ LastIs(Append(q, m), AboutRoute(p), Deletions)
        /\ Silent(Append(q, m), AboutRoute(p)) =>
             m \notin AboutRoute(p) /\ Silent(q, AboutRoute(p))
    BY <1>2, LastOfAppend
  <2> QED
    BY <1>2, <2>1
<1> QED
  BY <1>1, <1>2 DEF StaleTold

\* An event leaves the queue telling what is gone if it is the deletion of what
\* goes, and a part of a dump does as it is about something that is there.
LEMMA AppendTells ==
  ASSUME SyncTypeOK, StaleTold, NEW m \in Message,
         lost => lost', ~lost' => queue' = Append(queue, m), UNCHANGED <<nh, route>>,
         \A g \in Gw : kneigh'[g] = "none" =>
            /\ kneigh[g] = "none" \/ m \in AboutNeigh(g)
            /\ m \in AboutNeigh(g) => m \in Deletions,
         \A p \in Dst \ DOMAIN kroute' :
            /\ p \notin DOMAIN kroute \/ m \in AboutRoute(p)
            /\ m \in AboutRoute(p) => m \in Deletions
  PROVE  StaleTold'
<1> SUFFICES ASSUME ~lost' PROVE StaleTold'
  BY DEF StaleTold
<1>1. queue \in Seq(Message) /\ queue' = Append(queue, m)
  BY DEF SyncTypeOK
<1>2. \A g \in Gw : kneigh'[g] = "none" /\ m \notin AboutNeigh(g) =>
        /\ LastIs(queue, AboutNeigh(g), Deletions)
        /\ Silent(queue, AboutNeigh(g)) => g \notin DOMAIN nh'
  BY DEF StaleTold
<1>3. \A p \in Dst \ DOMAIN kroute' : m \notin AboutRoute(p) =>
        /\ LastIs(queue, AboutRoute(p), Deletions)
        /\ Silent(queue, AboutRoute(p)) => p \notin DOMAIN route'
  BY DEF StaleTold
<1> QED
  BY <1>1, <1>2, <1>3, AppendedTells

\* What is there is not among what is gone.
LEMMA CurrentTells ==
  ASSUME NEW m \in Message, Current(m)
  PROVE  /\ \A g \in Gw : m \in AboutNeigh(g) => kneigh[g] # "none"
         /\ \A p : m \in AboutRoute(p) => p \in DOMAIN kroute
BY DEF Current, AboutNeigh, AboutRoute, NeighTypes, RouteTypes

LEMMA StaleRequest ==
  ASSUME SyncTypeOK, StaleTold, UNCHANGED <<nh, route, kneigh, kroute, lost>>,
         queue' = queue \/ \E m \in Message : queue' = Append(queue, m) /\ Current(m)
  PROVE  StaleTold'
<1>1. CASE queue' = queue
  BY <1>1 DEF StaleTold
<1>2. ASSUME NEW m \in Message, queue' = Append(queue, m), Current(m) PROVE StaleTold'
  BY <1>2, CurrentTells, AppendTells
<1> QED
  BY <1>1, <1>2

LEMMA StaleKernel ==
  ASSUME SyncIInv, StaleTold, Kernel
  PROVE  StaleTold'
<1>0. /\ SyncTypeOK /\ DropsKnown /\ UNCHANGED <<nh, route>>
      /\ kneigh \in [Gw -> {"none", "ok", "failed"}]
  BY ChangeStep DEF SyncIInv, SyncTypeOK, tableVars
<1>a. \A m \in Message : Post(m) => (lost => lost') /\ (~lost' => queue' = Append(queue, m))
  BY <1>0, PostOK
<1>1. ASSUME NEW g \in Gw, KernelNeighGone(g) PROVE StaleTold'
  <2> DEFINE m == Msg("delneigh", g, {})
  <2>1. m \in Message /\ m \in AboutNeigh(g) /\ m \in Deletions
    BY DEF Msg, Message, NeighTypes, RouteTypes, AboutNeigh, Deletions
  <2>2. \A p : m \notin AboutRoute(p)
    BY DEF Msg, RouteTypes, AboutRoute
  <2>3. kneigh' = [kneigh EXCEPT ![g] = "none"] /\ kroute' = kroute /\ Post(m)
    BY <1>1 DEF KernelNeighGone
  <2>4. \A h \in Gw : h # g => kneigh'[h] = kneigh[h]
    BY <1>0, <2>3
  <2> HIDE DEF m
  <2>5. \A h \in Gw : kneigh'[h] = "none" =>
          /\ kneigh[h] = "none" \/ m \in AboutNeigh(h)
          /\ m \in AboutNeigh(h) => m \in Deletions
    BY <2>1, <2>4
  <2> QED
    BY <1>0, <1>a, <2>1, <2>2, <2>3, <2>5, AppendTells
<1>2. ASSUME NEW g \in Gw, NEW s \in {"ok", "failed"}, KernelNeigh(g, s) PROVE StaleTold'
  <2> DEFINE m == IF s = "ok" THEN Msg("newneigh", g, {}) ELSE Msg("noaddr", g, {})
  <2>1. m \in Message /\ m.key = g
    BY DEF Msg, Message, NeighTypes, RouteTypes
  <2>2. \A p : m \notin AboutRoute(p)
    BY DEF Msg, RouteTypes, AboutRoute
  <2>3. kneigh' = [kneigh EXCEPT ![g] = s] /\ kroute' = kroute /\ Post(m)
    BY <1>2 DEF KernelNeigh
  <2>4. kneigh'[g] # "none" /\ \A h \in Gw : h # g => kneigh'[h] = kneigh[h]
    BY <1>0, <2>3
  <2> HIDE DEF m
  <2>5. \A h \in Gw : h # g => m \notin AboutNeigh(h)
    BY <2>1 DEF AboutNeigh
  <2>6. \A h \in Gw : kneigh'[h] = "none" =>
          /\ kneigh[h] = "none" \/ m \in AboutNeigh(h)
          /\ m \in AboutNeigh(h) => m \in Deletions
    BY <2>4, <2>5
  <2> QED
    BY <1>0, <1>a, <2>1, <2>2, <2>3, <2>6, AppendTells
<1>3. ASSUME NEW p \in Dst, KernelRouteGone(p) PROVE StaleTold'
  <2> DEFINE m == Msg("delroute", p, {})
  <2>1. m \in Message /\ m \in AboutRoute(p) /\ m \in Deletions
    BY DEF Msg, Message, NeighTypes, RouteTypes, AboutRoute, Deletions
  <2>2. \A h : m \notin AboutNeigh(h)
    BY DEF Msg, NeighTypes, AboutNeigh
  <2>3. kroute' = Unbind(kroute, p) /\ kneigh' = kneigh /\ Post(m)
    BY <1>3 DEF KernelRouteGone
  <2>4. DOMAIN kroute' = DOMAIN kroute \ {p}
    BY <2>3 DEF Unbind, Restrict
  <2> HIDE DEF m
  <2>5. \A q \in Dst \ DOMAIN kroute' :
          /\ q \notin DOMAIN kroute \/ m \in AboutRoute(q)
          /\ m \in AboutRoute(q) => m \in Deletions
    BY <2>1, <2>4
  <2> QED
    BY <1>0, <1>a, <2>1, <2>2, <2>3, <2>5, AppendTells
<1>4. ASSUME NEW p \in Dst, NEW gws \in GwSets, KernelRoute(p, gws) PROVE StaleTold'
  <2> DEFINE m == Msg("newroute", p, gws)
  <2>0. gws \in SUBSET Gw
    BY SyncAssumption DEF GwSets
  <2>1. m \in Message /\ m.key = p
    BY <2>0 DEF Msg, Message, NeighTypes, RouteTypes
  <2>2. \A h : m \notin AboutNeigh(h)
    BY DEF Msg, NeighTypes, AboutNeigh
  <2>3. kroute' = Bind(kroute, p, gws) /\ kneigh' = kneigh /\ Post(m)
    BY <1>4 DEF KernelRoute
  <2>4. DOMAIN kroute' = DOMAIN kroute \cup {p}
    BY <2>3 DEF Bind
  <2> HIDE DEF m
  <2>5. \A q \in Dst \ DOMAIN kroute' :
          /\ q \notin DOMAIN kroute \/ m \in AboutRoute(q)
          /\ m \in AboutRoute(q) => m \in Deletions
    BY <2>1, <2>4 DEF AboutRoute
  <2> QED
    BY <1>0, <1>a, <2>1, <2>2, <2>3, <2>5, AppendTells
<1> QED
  BY <1>1, <1>2, <1>3, <1>4 DEF Kernel

LEMMA StaleStep == SyncIInv /\ StaleTold /\ [Next]_vars => StaleTold'
<1> SUFFICES ASSUME SyncIInv, StaleTold, [Next]_vars PROVE StaleTold'
  OBVIOUS
<1>0. SyncTypeOK /\ DropsKnown /\ DumpGoesOn /\ queue \in Seq(Message)
  BY DEF SyncIInv, SyncTypeOK
<1>a. ASSUME UNCHANGED <<nh, route, kneigh, kroute, queue, lost>> PROVE StaleTold'
  BY <1>a DEF StaleTold
<1>1. CASE Kernel
  BY <1>1, StaleKernel
<1>2. CASE InitDump
  <2>1. /\ pc = "init" /\ UNCHANGED <<nh, route, kneigh, kroute, lost>>
        /\ Request(InitDumps[turn])
    BY <1>2 DEF InitDump, tableVars, kernelVars
  <2>2. turn \in 1..5
    BY <1>0, <2>1 DEF SyncTypeOK
  <2>3. queue' = queue \/ \E m \in Message : queue' = Append(queue, m) /\ Current(m)
    BY <1>0, <2>1, <2>2, RequestOK, RequestsOK
  <2> QED
    BY <1>0, <2>1, <2>3, StaleRequest
<1>3. CASE Redump
  <2>1. /\ pc = "loop" /\ UNCHANGED <<nh, route, kneigh, kroute, lost>>
        /\ Request(Redumps[turn])
    BY <1>3 DEF Redump, tableVars, kernelVars
  <2>2. turn \in 1..4
    BY <1>0, <2>1 DEF SyncTypeOK
  <2>3. queue' = queue \/ \E m \in Message : queue' = Append(queue, m) /\ Current(m)
    BY <1>0, <2>1, <2>2, RequestOK, RequestsOK
  <2> QED
    BY <1>0, <2>1, <2>3, StaleRequest
<1>4. CASE Receive
  <2> DEFINE m == Head(queue)
  <2>1. m \in Message /\ queue # <<>> /\ Dequeue /\ Handle(m)
    BY <1>0, <1>4 DEF Receive
  <2>2. UNCHANGED <<kneigh, kroute, lost>>
    BY <1>4 DEF Receive, kernelVars
  <2>3. /\ \A g \in DOMAIN nh' \ DOMAIN nh : m.type = "newneigh" /\ m.key = g
        /\ m.type = "delneigh" => m.key \notin DOMAIN nh'
        /\ \A p \in DOMAIN route' \ DOMAIN route : m.type = "newroute" /\ m.key = p
        /\ m.type = "delroute" => m.key \notin DOMAIN route'
    BY <1>0, <2>1, HandleOK
  <2>4. SUFFICES ASSUME ~lost PROVE StaleTold'
    BY <2>2 DEF StaleTold
  <2>5. ASSUME NEW g \in Gw, kneigh[g] = "none"
        PROVE  /\ LastIs(Tail(queue), AboutNeigh(g), Deletions)
               /\ Silent(Tail(queue), AboutNeigh(g)) => g \notin DOMAIN nh'
    <3>1. /\ LastIs(queue, AboutNeigh(g), Deletions)
          /\ Silent(queue, AboutNeigh(g)) => g \notin DOMAIN nh
      BY <2>4, <2>5 DEF StaleTold
    <3>2. /\ LastIs(Tail(queue), AboutNeigh(g), Deletions)
          /\ Silent(Tail(queue), AboutNeigh(g)) =>
               IF m \in AboutNeigh(g) THEN m \in Deletions ELSE Silent(queue, AboutNeigh(g))
      BY <1>0, <2>1, <3>1, LastOfTail
    <3>3. ASSUME m \in AboutNeigh(g), m \in Deletions PROVE g \notin DOMAIN nh'
      BY <2>3, <3>3 DEF AboutNeigh, Deletions, NeighTypes
    <3>4. ASSUME m \notin AboutNeigh(g), g \notin DOMAIN nh PROVE g \notin DOMAIN nh'
      BY <2>1, <2>3, <3>4 DEF AboutNeigh, NeighTypes
    <3> QED
      BY <2>1, <3>1, <3>2, <3>3, <3>4
  <2>6. ASSUME NEW p \in Dst \ DOMAIN kroute
        PROVE  /\ LastIs(Tail(queue), AboutRoute(p), Deletions)
               /\ Silent(Tail(queue), AboutRoute(p)) => p \notin DOMAIN route'
    <3>1. /\ LastIs(queue, AboutRoute(p), Deletions)
          /\ Silent(queue, AboutRoute(p)) => p \notin DOMAIN route
      BY <2>4, <2>6 DEF StaleTold
    <3>2. /\ LastIs(Tail(queue), AboutRoute(p), Deletions)
          /\ Silent(Tail(queue), AboutRoute(p)) =>
               IF m \in AboutRoute(p) THEN m \in Deletions ELSE Silent(queue, AboutRoute(p))
      BY <1>0, <2>1, <3>1, LastOfTail
    <3>3. ASSUME m \in AboutRoute(p), m \in Deletions PROVE p \notin DOMAIN route'
      BY <2>3, <3>3 DEF AboutRoute, Deletions, RouteTypes
    <3>4. ASSUME m \notin AboutRoute(p), p \notin DOMAIN route PROVE p \notin DOMAIN route'
      BY <2>1, <2>3, <3>4 DEF AboutRoute, RouteTypes
    <3> QED
      BY <2>1, <3>1, <3>2, <3>3, <3>4
  <2>7. CASE queue' = Tail(queue)
    BY <2>2, <2>5, <2>6, <2>7 DEF StaleTold
  <2>8. ASSUME NEW n \in Message, queue' = Append(Tail(queue), n), Current(n)
        PROVE  StaleTold'
    <3>1. Tail(queue) \in Seq(Message)
      BY <1>0, <2>1
    <3>2. \A g \in Gw : kneigh[g] = "none" => n \notin AboutNeigh(g)
      BY <2>8, CurrentTells
    <3>3. \A p \in Dst \ DOMAIN kroute : n \notin AboutRoute(p)
      BY <2>8, CurrentTells
    <3> QED
      BY <2>2, <2>5, <2>6, <2>8, <3>1, <3>2, <3>3, AppendedTells
  <2> QED
    BY <1>0, <2>1, <2>7, <2>8, DequeueOK
<1>5. CASE PollEnds
  BY <1>5, <1>a DEF PollEnds, tableVars, kernelVars
<1>6. CASE Loop
  BY <1>6, <1>a DEF Loop, tableVars, kernelVars, socketVars
<1>7. CASE UNCHANGED vars
  BY <1>7, <1>a DEF vars, tableVars, kernelVars, socketVars
<1> QED
  BY <1>1, <1>2, <1>3, <1>4, <1>5, <1>6, <1>7 DEF Next

\* Nothing outlives its deletion: a dump that tells of a neighbour or a route
\* while it is being deleted does so before the kernel posts the deletion, and
\* edged takes them in that order.
THEOREM DeletionsWin == Spec => []NothingStale
<1>1. Init => SyncIInv /\ StaleTold
  <2> SUFFICES ASSUME Init PROVE StaleTold
    BY SyncInit
  <2>1. nh = <<>> /\ route = <<>> /\ DOMAIN nh = {} /\ DOMAIN route = {}
    BY DEF Init, TableInit
  <2>2. queue = <<>> /\ Len(queue) = 0
    BY DEF Init
  <2> QED
    BY <2>1, <2>2 DEF StaleTold, LastIs
<1>2. SyncIInv /\ StaleTold /\ [Next]_vars => (SyncIInv /\ StaleTold)'
  BY SyncStep, StaleStep
<1>3. SyncIInv /\ StaleTold => NothingStale
  <2>1. Len(<<>>) = 0
    OBVIOUS
  <2> QED
    BY <2>1 DEF SyncIInv, SyncTypeOK, StaleTold, NothingStale, Idle, Silent
<1> QED
  BY <1>1, <1>2, <1>3, PTL DEF Spec
=============================================================================
