--------------------------- MODULE StartupProofs ---------------------------
(***************************************************************************)
(* What EdgedStartup keeps for every set of ports and of configured        *)
(* addresses, every size of the socket's buffer and however often edged    *)
(* ends: swp-l3-config.sh leaves out no address after it has seen the      *)
(* sentinel, and addresses come to the chip without an event being missed. *)
(***************************************************************************)
EXTENDS EdgedStartup, TLAPS

\* Messages in the socket.
Queued == {sock[i] : i \in 1..Len(sock)}

\* A sentinel is that of edged in its loop, or what a crash has left behind.
SentinelOK == ready => pc \in {"off", "exec", "loop"}

\* The script has seen the sentinel of the edged that runs, so that no TAP is
\* going to be created; what it has not yet looked at it will.
ScriptOK ==
  /\ svc.seen => pc \in {"loop", "stop"} /\ svc.pc \in {"apply", "done"}
  /\ svc.pc = "wait" => svc.todo = Conf
  /\ svc.pc = "done" /\ ~svc.killed => svc.todo = {}
  /\ svc.seen /\ ~svc.killed => Conf \cap taps \subseteq addr \cup svc.todo

ScriptTypeOK ==
  svc \in [pc : {"none", "wait", "apply", "done"}, todo : SUBSET Conf,
           slow : BOOLEAN, seen : BOOLEAN, killed : BOOLEAN]

\* Once edged has asked for the addresses, each of them is in the chip, in the
\* socket, or still to be told by the dump, unless its event was dropped.
AddressKnown ==
  /\ sock \in Seq(Ports) /\ dump \subseteq Ports /\ addr \subseteq Ports
  /\ pc \in {"l3", "loop"} /\ ~lost => addr \subseteq punted \cup dump \cup Queued

StartupIInv == SentinelOK /\ ScriptTypeOK /\ ScriptOK /\ AddressKnown

LEMMA StartupInit == Init => StartupIInv
BY DEF Init, StartupIInv, SentinelOK, ScriptTypeOK, ScriptOK, AddressKnown, Queued

\* What the script sees and does, against the TAPs that edged creates.
LEMMA ScriptStep ==
  SentinelOK /\ ScriptTypeOK /\ ScriptOK /\ [Next]_vars
    => SentinelOK' /\ ScriptTypeOK' /\ ScriptOK'
<1> SUFFICES ASSUME SentinelOK, ScriptTypeOK, ScriptOK, [Next]_vars
             PROVE  SentinelOK' /\ ScriptTypeOK' /\ ScriptOK'
  OBVIOUS
<1> USE DEF SentinelOK, ScriptTypeOK, ScriptOK, edgedVars, kernelVars, countVars
<1>1. CASE Boot
  <2>1. CASE SetReady
    <3>1. pc = "l3" /\ pc' = "loop" /\ (ready' = ready \/ ready' = TRUE)
          /\ UNCHANGED <<running, todo, kernelVars, svc>>
      BY <2>1 DEF SetReady, At
    <3> QED
      BY <3>1
  <2>2. CASE ClearReady \/ AsicInit \/ TunCreate \/ NetlinkBind \/ NetlinkDump
    BY <2>2 DEF ClearReady, AsicInit, TunCreate, NetlinkBind, NetlinkDump, At
  <2> QED
    BY <1>1, <2>1, <2>2 DEF Boot
<1>2. CASE Receive
  BY <1>2 DEF Receive
<1>3. CASE Term \/ LeaveLoop
  BY <1>3 DEF Term, LeaveLoop, At
<1>4. CASE Exit \/ Crash
  BY <1>4 DEF Exit, Crash, Ends
<1>5. CASE Start
  BY <1>5 DEF Start, At
<1>6. CASE KernelDumps
  BY <1>6 DEF KernelDumps
<1>7. CASE SvcStart
  BY <1>7 DEF SvcStart
<1>8. CASE SvcReady
  BY <1>8 DEF SvcReady
<1>9. ASSUME NEW p \in Conf, SvcApply(p) PROVE SentinelOK' /\ ScriptTypeOK' /\ ScriptOK'
  BY <1>9 DEF SvcApply
<1>10. ASSUME NEW p \in Conf, SvcSkip(p) PROVE SentinelOK' /\ ScriptTypeOK' /\ ScriptOK'
  BY <1>10 DEF SvcSkip
<1>11. CASE SvcDone
  BY <1>11 DEF SvcDone
<1>12. CASE SvcKilled
  <2>1. svc' = [svc EXCEPT !.pc = "done", !.killed = TRUE] /\ svc.pc = "apply"
    BY <1>12 DEF SvcKilled
  <2>2. svc'.pc = "done" /\ svc'.killed /\ svc'.seen = svc.seen
    BY <2>1
  <2>3. ScriptTypeOK'
    BY <2>1
  <2> QED
    BY <1>12, <2>2, <2>3 DEF SvcKilled
<1>13. CASE UNCHANGED vars
  BY <1>13 DEF vars
<1> QED
  BY <1>1, <1>2, <1>3, <1>4, <1>5, <1>6, <1>7, <1>8, <1>9, <1>10, <1>11, <1>12, <1>13
  DEF Next, Service

LEMMA HeadAndTail ==
  ASSUME NEW S, NEW q \in Seq(S), q # <<>>
  PROVE  /\ Head(q) \in S /\ Tail(q) \in Seq(S)
         /\ {q[i] : i \in 1..Len(q)} = {Head(q)} \cup {Tail(q)[i] : i \in 1..Len(Tail(q))}
<1>1. Len(q) \in Nat \ {0} /\ Len(Tail(q)) = Len(q) - 1 /\ Head(q) = q[1]
  OBVIOUS
<1>2. \A i \in 1..Len(q) - 1 : Tail(q)[i] = q[i + 1]
  OBVIOUS
<1>3. ASSUME NEW i \in 1..Len(q) PROVE q[i] \in {Head(q)} \cup {Tail(q)[j] : j \in 1..Len(Tail(q))}
  <2>1. CASE i = 1
    BY <1>1, <2>1
  <2>2. CASE i # 1
    <3>1. i - 1 \in 1..Len(q) - 1
      BY <1>1, <2>2
    <3>2. Tail(q)[i - 1] = q[i]
      BY <1>2, <3>1
    <3> QED
      BY <1>1, <3>1, <3>2
  <2> QED
    BY <2>1, <2>2
<1>4. ASSUME NEW j \in 1..Len(Tail(q)) PROVE Tail(q)[j] \in {q[i] : i \in 1..Len(q)}
  <2>1. j + 1 \in 1..Len(q)
    BY <1>1
  <2> QED
    BY <1>1, <1>2, <2>1
<1>5. Head(q) \in {q[i] : i \in 1..Len(q)}
  BY <1>1
<1> QED
  BY <1>3, <1>4, <1>5

LEMMA AppendAdds ==
  ASSUME NEW S, NEW q \in Seq(S), NEW e \in S
  PROVE  /\ Append(q, e) \in Seq(S)
         /\ {Append(q, e)[i] : i \in 1..Len(Append(q, e))} = {q[i] : i \in 1..Len(q)} \cup {e}
<1>1. Len(Append(q, e)) = Len(q) + 1 /\ Len(q) \in Nat
  OBVIOUS
<1>2. \A i \in 1..Len(q) : Append(q, e)[i] = q[i]
  OBVIOUS
<1>3. Append(q, e)[Len(q) + 1] = e
  OBVIOUS
<1> QED
  BY <1>1, <1>2, <1>3

\* An address on its way to the chip: from the kernel into the dump or the
\* socket, from there into the CPU's entries.
LEMMA AddressStep == AddressKnown /\ [Next]_vars => AddressKnown'
<1> SUFFICES ASSUME AddressKnown, [Next]_vars PROVE AddressKnown'
  OBVIOUS
<1> USE StartupAssumption DEF AddressKnown, edgedVars, kernelVars, countVars
<1>1. CASE ClearReady \/ AsicInit \/ NetlinkBind \/ NetlinkDump \/ SetReady
  BY <1>1 DEF ClearReady, AsicInit, NetlinkBind, NetlinkDump, SetReady, At, Queued
<1>2. CASE TunCreate
  BY <1>2 DEF TunCreate, Queued
<1>3. CASE Receive
  <2>1. /\ Head(sock) \in Ports /\ Tail(sock) \in Seq(Ports)
        /\ Queued = {Head(sock)} \cup {Tail(sock)[i] : i \in 1..Len(Tail(sock))}
    BY <1>3, HeadAndTail DEF Receive, Queued
  <2>2. Queued = {Head(sock)} \cup Queued'
    BY <1>3, <2>1 DEF Receive, Queued
  <2> QED
    BY <1>3, <2>1, <2>2 DEF Receive
<1>4. CASE Term \/ LeaveLoop \/ Start
  BY <1>4 DEF Term, LeaveLoop, Start, At, Queued
<1>5. CASE Exit \/ Crash
  <2>1. <<>> \in Seq(Ports)
    OBVIOUS
  <2> QED
    BY <1>5, <2>1 DEF Exit, Crash, Ends
<1>6. CASE KernelDumps
  <2>1. PICK p \in dump : dump' = dump \ {p} /\ sock' = Append(sock, p)
    BY <1>6 DEF KernelDumps
  <2>2. sock' \in Seq(Ports) /\ Queued' = Queued \cup {p}
    BY <2>1, AppendAdds DEF Queued
  <2> QED
    BY <1>6, <2>1, <2>2 DEF KernelDumps
<1>7. ASSUME NEW p \in Conf, SvcApply(p) PROVE AddressKnown'
  <2>1. /\ addr' = addr \cup {p} /\ p \in Ports
        /\ UNCHANGED <<pc, dump, punted>>
    BY <1>7 DEF SvcApply
  <2>2. CASE UNCHANGED <<sock, lost>> /\ (p \in addr \/ ~Listening)
    BY <2>1, <2>2 DEF Listening, Queued
  <2>3. CASE sock' = Append(sock, p) /\ UNCHANGED lost
    <3>1. sock' \in Seq(Ports) /\ Queued' = Queued \cup {p}
      BY <2>1, <2>3, AppendAdds DEF Queued
    <3> QED
      BY <2>1, <2>3, <3>1
  <2>4. CASE lost' /\ UNCHANGED sock
    BY <2>1, <2>4
  <2> QED
    BY <1>7, <2>2, <2>3, <2>4 DEF SvcApply, Post
<1>8. ASSUME NEW p \in Conf, SvcSkip(p) PROVE AddressKnown'
  BY <1>8 DEF SvcSkip, Queued
<1>9. CASE SvcStart \/ SvcReady \/ SvcDone \/ SvcKilled
  BY <1>9 DEF SvcStart, SvcReady, SvcDone, SvcKilled, Queued
<1>10. CASE UNCHANGED vars
  BY <1>10 DEF vars, Queued
<1> QED
  BY <1>1, <1>2, <1>3, <1>4, <1>5, <1>6, <1>7, <1>8, <1>9, <1>10 DEF Next, Boot, Service

LEMMA StartupStep == StartupIInv /\ [Next]_vars => StartupIInv'
BY ScriptStep, AddressStep DEF StartupIInv

\* edged_set_ready comes after the last TAP, and a sentinel that a crash has
\* left behind goes before the first: a script that has seen it does not skip
\* an interface that is there.
THEOREM ReadyMeansAssigned == Spec => []AssignedOnceReady
<1>1. Init => StartupIInv
  BY StartupInit
<1>2. StartupIInv /\ [Next]_vars => StartupIInv'
  BY StartupStep
<1>3. StartupIInv => AssignedOnceReady
  BY DEF StartupIInv, ScriptOK, AssignedOnceReady
<1> QED
  BY <1>1, <1>2, <1>3, PTL DEF Spec

\* Between the socket, the dump of netlink_init and l3_local_host_add no own
\* address is forgotten, at whichever point of the start it is added.
THEOREM AddressesReachCpu == Spec => []AddressesPunted
<1>1. Init => StartupIInv
  BY StartupInit
<1>2. StartupIInv /\ [Next]_vars => StartupIInv'
  BY StartupStep
<1>3. ASSUME StartupIInv PROVE AddressesPunted
  <2> SUFFICES ASSUME pc = "loop", sock = <<>>, dump = {}, ~lost
               PROVE  addr \subseteq punted
    BY DEF AddressesPunted
  <2>1. Queued = {}
    BY DEF Queued
  <2> QED
    BY <1>3, <2>1 DEF StartupIInv, AddressKnown
<1> QED
  BY <1>1, <1>2, <1>3, PTL DEF Spec
=============================================================================
