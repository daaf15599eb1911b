----------------------------- MODULE LinkProofs -----------------------------
(***************************************************************************)
(* What PortLinks keeps for every set of ports, grace time, number of      *)
(* retries and size of the socket's buffer, whichever calls fail: neither  *)
(* the link poll nor one of its retries ever switches on a port that is    *)
(* disabled, and edged enables the ports that the kernel has up once it    *)
(* has read its events.                                                    *)
(***************************************************************************)
EXTENDS PortLinks, TLAPS

Event == [port : Ports, up : BOOLEAN]

\* What edged takes for enabled, the mode of a port and its MAC are a value
\* for every port; events are of ports.
EnabledTypeOK ==
  /\ enabled \in [Ports -> BOOLEAN] /\ mode \in [Ports -> BOOLEAN]
  /\ mac \in [Ports -> BOOLEAN]
  /\ events \in Seq(Event) /\ admin \in [Ports -> BOOLEAN]

LinkIInv == EnabledTypeOK /\ DisabledIsOff

LEMMA LinkInit == Init => LinkIInv
<1> SUFFICES ASSUME Init PROVE LinkIInv
  OBVIOUS
<1>1. PICK bad \in SUBSET BadPorts : mode = [p \in Ports |-> p \notin bad]
  BY DEF Init
<1>2. enabled = mode /\ mac = [p \in Ports |-> FALSE]
  BY DEF Init
<1>3. events = <<>> /\ admin \in [Ports -> BOOLEAN]
  BY DEF Init
<1>4. <<>> \in Seq(Event)
  OBVIOUS
<1> QED
  BY <1>1, <1>2, <1>3, <1>4 DEF LinkIInv, EnabledTypeOK, DisabledIsOff

LEMMA HeadIn ==
  ASSUME NEW S, NEW q \in Seq(S), q # <<>>
  PROVE  Head(q) \in S /\ Tail(q) \in Seq(S)
OBVIOUS

\* The kernel posts events of ports, and changes nothing of edged.
LEMMA PostKeeps ==
  ASSUME NEW p \in Ports, NEW up \in BOOLEAN,
         events \in Seq(Event), Post(p, up)
  PROVE  events' \in Seq(Event)
<1> DEFINE e == [port |-> p, up |-> up]
<1>1. e \in Event
  BY DEF Event
<1>2. Append(events, e) \in Seq(Event)
  BY <1>1
<1>3. events' = Append(events, e) \/ events' = events
  BY DEF Post
<1> QED
  BY <1>2, <1>3

\* Where the calls for the ports of S worked the mode is the one that was asked
\* for; where one failed the port is noted, and on only if it was on.
ModesAreSet(S, up, off, left) ==
  /\ mode' \in [Ports -> BOOLEAN]
  /\ \A p \in S \ (off \cup left) : mode'[p] = up
  /\ \A p \in off \cup left : p \in failed' /\ (mode'[p] <=> p \notin off /\ mode[p])
  /\ \A p \in Ports \ S : mode'[p] = mode[p] /\ (p \in failed => p \in failed')

LEMMA SetModesOK ==
  ASSUME mode \in [Ports -> BOOLEAN], NEW S, S \subseteq Ports, NEW up \in BOOLEAN,
         NEW off, NEW left, off \cup left \subseteq S, SetModes(S, up, off, left)
  PROVE  ModesAreSet(S, up, off, left)
<1> DEFINE done == S \ (off \cup left)
           new(p) == IF p \in done THEN up ELSE p \notin off /\ mode[p]
<1>1. mode' = [p \in Ports |-> new(p)] /\ failed' = (failed \ done) \cup off \cup left
  BY DEF SetModes
<1>2. \A p \in Ports : mode[p] \in BOOLEAN
  OBVIOUS
<1>3. \A p \in Ports : new(p) \in BOOLEAN
  OBVIOUS
<1>4. \A p \in Ports : /\ p \in done => new(p) = up
                       /\ p \in off \cup left => (new(p) <=> p \notin off /\ mode[p])
                       /\ p \notin S => new(p) = mode[p]
  BY <1>2
<1> HIDE DEF new
<1>5. mode' \in [Ports -> BOOLEAN]
  BY <1>1, <1>3, Zenon
<1>6. \A p \in Ports : mode'[p] = new(p)
  BY <1>1
<1> QED
  BY <1>1, <1>4, <1>5, <1>6 DEF ModesAreSet

LEMMA LinkStep == LinkIInv /\ [Next]_vars => LinkIInv'
<1> SUFFICES ASSUME LinkIInv, [Next]_vars PROVE LinkIInv'
  OBVIOUS
<1> USE DEF LinkIInv, EnabledTypeOK, DisabledIsOff
<1>m. mode \in [Ports -> BOOLEAN]
  OBVIOUS
<1>1. ASSUME NEW p \in Ports, SetAdmin(p) PROVE LinkIInv'
  <2>1. events' \in Seq(Event)
    BY <1>1, PostKeeps DEF SetAdmin
  <2>2. UNCHANGED <<enabled, mode, mac, failed>> /\ admin' \in [Ports -> BOOLEAN]
    BY <1>1 DEF SetAdmin, Change, portVars
  <2> QED
    BY <2>1, <2>2
<1>2. ASSUME NEW p \in Ports, TellCarrier(p) PROVE LinkIInv'
  <2>1. events' \in Seq(Event)
    BY <1>2, PostKeeps DEF TellCarrier, socketVars
  <2>2. UNCHANGED <<enabled, mode, mac, failed, admin>>
    BY <1>2 DEF TellCarrier, chipVars, modeVars, portVars
  <2> QED
    BY <2>1, <2>2
<1>3. ASSUME NEW p \in Ports, SetPeer(p) PROVE LinkIInv'
  BY <1>3 DEF SetPeer, Change, portVars, kernelVars, socketVars
<1>4. CASE Tick
  BY <1>4 DEF Tick, chipVars, modeVars, portVars, kernelVars, socketVars
<1>5. CASE HandleLink
  <2>1. Head(events) \in Event
    BY <1>5, HeadIn DEF HandleLink
  <2>2. PICK p \in Ports, up \in BOOLEAN : p = Head(events).port /\ up = Head(events).up
    BY <2>1 DEF Event
  <2>3. events' \in Seq(Event) /\ admin' \in [Ports -> BOOLEAN]
    BY <1>5, HeadIn DEF HandleLink, kernelVars
  <2>4. enabled' = [enabled EXCEPT ![p] = up]
    BY <1>5, <2>2 DEF HandleLink
  <2>5. CASE up # enabled[p]
    <3>1. PICK off \in SUBSET ({p} \cap BadPorts), left \in SUBSET ({p} \cap BadPorts) :
            /\ SetModes({p}, up, off, left)
            /\ mac' = [mac EXCEPT ![p] = mac[p] /\ p \in left \ off]
      BY <1>5, <2>2, <2>5 DEF HandleLink
    <3>2. enabled' \in [Ports -> BOOLEAN] /\ mac' \in [Ports -> BOOLEAN]
      <4> DEFINE b == mac[p] /\ p \in left \ off
      <4>1. b \in BOOLEAN /\ mac' = [mac EXCEPT ![p] = b]
        BY <3>1
      <4> HIDE DEF b
      <4> QED
        BY <2>2, <2>4, <4>1
    <3>3. /\ mode' \in [Ports -> BOOLEAN]
          /\ p \notin off \cup left => mode'[p] = up
          /\ p \in off \cup left =>
               p \in failed' /\ (mode'[p] <=> p \notin off /\ mode[p])
          /\ \A q \in Ports \ {p} :
               mode'[q] = mode[q] /\ (q \in failed => q \in failed')
      <4>1. PICK S : S = {p}
        OBVIOUS
      <4>2. S \subseteq Ports /\ off \cup left \subseteq S
        BY <4>1
      <4>3. SetModes(S, up, off, left)
        BY <3>1, <4>1
      <4>4. p \in S /\ \A q \in Ports \ {p} : q \in Ports \ S
        BY <4>1
      <4> HIDE <4>1
      <4>5. ModesAreSet(S, up, off, left)
        BY <1>m, <4>2, <4>3, SetModesOK
      <4> QED
        BY <4>4, <4>5 DEF ModesAreSet
    <3>4. ASSUME NEW q \in Ports
          PROVE  /\ mac'[q] => mode'[q]
                 /\ q \notin failed' => enabled'[q] = mode'[q]
      <4>1. CASE q = p
        <5>1. enabled'[q] = up /\ mac'[q] = (mac[p] /\ p \in left \ off)
          BY <2>2, <2>4, <3>1, <4>1
        <5>2. CASE q \in off \cup left
          <6>1. q \in failed' /\ (mode'[q] <=> q \notin off /\ mode[q])
            BY <3>3, <4>1, <5>2
          <6> QED
            BY <4>1, <5>1, <6>1
        <5>3. CASE q \notin off \cup left
          <6>1. mode'[q] = up
            BY <3>3, <4>1, <5>3
          <6> QED
            BY <4>1, <5>1, <5>3, <6>1
        <5> QED
          BY <5>2, <5>3
      <4>2. CASE q # p
        <5>1. enabled'[q] = enabled[q] /\ mac'[q] = mac[q]
          BY <2>2, <2>4, <3>1, <4>2
        <5>2. mode'[q] = mode[q] /\ (q \in failed => q \in failed')
          BY <3>3, <4>2
        <5> QED
          BY <5>1, <5>2
      <4> QED
        BY <4>1, <4>2
    <3> QED
      BY <2>3, <3>2, <3>3, <3>4
  <2>6. CASE up = enabled[p]
    <3>1. mode' = mode /\ mac' = mac /\ failed' = failed
      BY <1>5, <2>2, <2>6 DEF HandleLink, chipVars, modeVars
    <3>2. enabled' = enabled
      BY <2>2, <2>4, <2>6
    <3> QED
      BY <2>3, <3>1, <3>2
  <2> QED
    BY <2>5, <2>6
<1>6. CASE LinkPoll
  <2>1. Retried \subseteq Unlocked /\ Unlocked \subseteq Polled
    BY DEF Retried, Unlocked
  <2>2. \A p \in Polled : p \in Ports /\ enabled[p]
    BY DEF Polled
  <2>3. UNCHANGED <<enabled, events, admin>>
    BY <1>6 DEF LinkPoll, socketVars
  <2>4. PICK off \in SUBSET (Retried \cap BadPorts), left \in SUBSET (Retried \cap BadPorts) :
          SetModes(Retried, TRUE, off, left)
    BY <1>6 DEF LinkPoll
  <2>5. mac' = [p \in Ports |-> IF p \in Polled THEN Locked(p) ELSE mac[p]]
    BY <1>6 DEF LinkPoll
  <2>6. \A p \in Ports : Locked(p) \in BOOLEAN /\ (Locked(p) => mode[p])
    BY DEF Locked
  <2>7. /\ mode' \in [Ports -> BOOLEAN]
        /\ \A p \in Retried \ (off \cup left) : mode'[p] = TRUE
        /\ \A p \in off \cup left : p \in failed'
        /\ \A p \in Ports \ Retried : mode'[p] = mode[p] /\ (p \in failed => p \in failed')
        /\ off \cup left \subseteq Retried
    <3>1. PICK R : R = Retried
      OBVIOUS
    <3>2. R \subseteq Ports /\ off \cup left \subseteq R
      BY <2>1, <2>2, <3>1
    <3>3. SetModes(R, TRUE, off, left)
      BY <2>4, <3>1
    <3>4. ModesAreSet(R, TRUE, off, left)
      BY <1>m, <3>2, <3>3, SetModesOK
    <3> QED
      BY <3>1, <3>2, <3>4 DEF ModesAreSet
  <2>8. mode' \in [Ports -> BOOLEAN] /\ mac' \in [Ports -> BOOLEAN]
    <3>1. \A p \in Ports : (IF p \in Polled THEN Locked(p) ELSE mac[p]) \in BOOLEAN
      BY <2>6
    <3>2. mac' \in [Ports -> BOOLEAN]
      BY <2>5, <3>1, Zenon
    <3> QED
      BY <2>7, <3>2
  <2>9. ASSUME NEW p \in Ports
        PROVE  (mac'[p] => mode'[p]) /\ (p \notin failed' => enabled'[p] = mode'[p])
    <3>1. mac'[p] => mode[p]
      BY <2>5, <2>6
    <3>2. CASE p \in Retried
      <4>1. p \in Polled /\ p \in Unlocked /\ enabled[p]
        BY <2>1, <2>2, <3>2
      <4>2. ~Locked(p)
        BY <4>1 DEF Unlocked
      <4>3. ~mac'[p]
        BY <2>5, <4>1, <4>2
      <4>4. CASE p \in off \cup left
        BY <2>7, <4>3, <4>4
      <4>5. CASE p \notin off \cup left
        <5>1. mode'[p] = TRUE
          BY <2>7, <3>2, <4>5
        <5>2. enabled'[p] = TRUE
          BY <2>3, <4>1
        <5> QED
          BY <4>3, <5>1, <5>2
      <4> QED
        BY <4>4, <4>5
    <3>3. CASE p \notin Retried
      <4>1. mode'[p] = mode[p] /\ (p \in failed => p \in failed')
        BY <2>7, <3>3
      <4> QED
        BY <2>3, <3>1, <4>1
    <3> QED
      BY <3>2, <3>3
  <2> QED
    BY <2>3, <2>8, <2>9
<1>7. CASE UNCHANGED vars
  BY <1>7 DEF vars, chipVars, modeVars, portVars, kernelVars, socketVars
<1> QED
  BY <1>1, <1>2, <1>3, <1>4, <1>5, <1>6, <1>7 DEF Next

\* handle_link, portmap_link_poll and its retries agree on which ports are
\* on, whatever the kernel tells and whenever a peer comes or goes.
THEOREM DisabledStaysOff == Spec => []DisabledIsOff
<1>1. Init => LinkIInv
  BY LinkInit
<1>2. LinkIInv /\ [Next]_vars => LinkIInv'
  BY LinkStep
<1>3. LinkIInv => DisabledIsOff
  BY DEF LinkIInv
<1> QED
  BY <1>1, <1>2, <1>3, PTL DEF Spec
-----------------------------------------------------------------------------
(***************************************************************************)
(* FollowsAdmin.  Between two reads of the socket a port may be up in the  *)
(* kernel and off in edged; what holds all the time is that the last event *)
(* of a port in the queue says what the port is now.                       *)
(***************************************************************************)

\* No event of the queue q is of port p.
Silent(q, p) == \A i \in 1..Len(q) : q[i].port # p

\* The last event of port p in the queue q, if there is one, says up.
LastSays(q, p, up) ==
  \A i \in 1..Len(q) :
    q[i].port = p /\ (\A j \in (i + 1)..Len(q) : q[j].port # p) => q[i].up = up

\* Port p is as the kernel has it.
InStep(p) == enabled[p] = admin[p]

QueueTells ==
  \A p \in Ports \ missed : /\ LastSays(events, p, admin[p])
                            /\ Silent(events, p) => InStep(p)

\* An event that is appended is the last one of its port and of no other.
LEMMA LastOfAppend ==
  ASSUME NEW q \in Seq(Event), NEW p \in Ports, NEW v,
         NEW e \in Event,
         p = e.port => v = e.up,
         p # e.port => LastSays(q, p, v)
  PROVE  /\ LastSays(Append(q, e), p, v)
         /\ Silent(Append(q, e), p) => Silent(q, p) /\ p # e.port
<1> DEFINE n == Len(q)
           a == Append(q, e)
<1>1. n \in Nat /\ Len(a) = n + 1 /\ a[n + 1] = e /\ \A i \in 1..n : a[i] = q[i]
  OBVIOUS
<1> HIDE DEF n, a
<1>3. ASSUME NEW i \in 1..(n + 1), a[i].port = p,
             \A j \in (i + 1)..(n + 1) : a[j].port # p
      PROVE  a[i].up = v
  <2>1. CASE i = n + 1
    BY <1>1, <1>3, <2>1
  <2>2. CASE i # n + 1
    <3>1. i \in 1..n /\ n + 1 \in (i + 1)..(n + 1) /\ a[i] = q[i]
      BY <1>1, <2>2
    <3>2. p # e.port
      BY <1>1, <1>3, <3>1
    <3>3. \A j \in (i + 1)..n : q[j].port # p
      <4>1. ASSUME NEW j \in (i + 1)..n PROVE q[j].port # p
        <5>1. j \in (i + 1)..(n + 1) /\ j \in 1..n
          BY <1>1, <3>1
        <5> QED
          BY <1>1, <1>3, <5>1
      <4> QED
        BY <4>1
    <3>4. LastSays(q, p, v)
      BY <3>2
    <3> QED
      BY <1>3, <3>1, <3>3, <3>4 DEF LastSays, n
  <2> QED
    BY <2>1, <2>2
<1>4. LastSays(a, p, v)
  BY <1>1, <1>3 DEF LastSays
<1>5. ASSUME Silent(a, p) PROVE Silent(q, p) /\ p # e.port
  <2>1. \A i \in 1..n : i \in 1..(n + 1) /\ a[i] = q[i]
    BY <1>1
  <2>2. n + 1 \in 1..(n + 1)
    BY <1>1
  <2> QED
    BY <1>1, <1>5, <2>1, <2>2 DEF Silent, n
<1> QED
  BY <1>4, <1>5 DEF a

\* The last event of a port stays the last one when the first event is read,
\* unless that was it.
LEMMA LastOfTail ==
  ASSUME NEW q \in Seq(Event), q # <<>>,
         NEW p \in Ports, NEW v, LastSays(q, p, v)
  PROVE  /\ LastSays(Tail(q), p, v)
         /\ Silent(Tail(q), p) =>
              IF Head(q).port = p THEN Head(q).up = v ELSE Silent(q, p)
<1> DEFINE n == Len(q)
           t == Tail(q)
<1>1. n \in Nat /\ n >= 1 /\ Len(t) = n - 1 /\ \A i \in 1..(n - 1) : t[i] = q[i + 1]
  OBVIOUS
<1>2. Head(q) = q[1]
  OBVIOUS
<1> HIDE DEF n, t
<1>3. ASSUME NEW i \in 1..(n - 1), t[i].port = p,
             \A j \in (i + 1)..(n - 1) : t[j].port # p
      PROVE  t[i].up = v
  <2>1. i + 1 \in 1..n /\ t[i] = q[i + 1]
    BY <1>1
  <2>2. ASSUME NEW j \in ((i + 1) + 1)..n PROVE q[j].port # p
    <3>1. j - 1 \in (i + 1)..(n - 1) /\ j - 1 \in 1..(n - 1) /\ (j - 1) + 1 = j
      BY <1>1
    <3> QED
      BY <1>1, <1>3, <3>1
  <2> QED
    BY <1>3, <2>1, <2>2 DEF LastSays, n
<1>4. LastSays(t, p, v)
  BY <1>1, <1>3 DEF LastSays
<1>5. ASSUME Silent(t, p) PROVE \A j \in 2..n : q[j].port # p
  <2>1. ASSUME NEW j \in 2..n PROVE q[j].port # p
    <3>1. j - 1 \in 1..(n - 1) /\ (j - 1) + 1 = j
      BY <1>1
    <3> QED
      BY <1>1, <1>5, <3>1 DEF Silent
  <2> QED
    BY <2>1
<1>6. ASSUME Silent(t, p), q[1].port = p PROVE q[1].up = v
  <2>1. 1 \in 1..n /\ \A j \in (1 + 1)..n : q[j].port # p
    BY <1>1, <1>5, <1>6
  <2> QED
    BY <1>6, <2>1 DEF LastSays, n
<1>7. ASSUME Silent(t, p), q[1].port # p PROVE Silent(q, p)
  <2>1. \A j \in 1..n : j = 1 \/ j \in 2..n
    BY <1>1
  <2> QED
    BY <1>5, <1>7, <2>1 DEF Silent, n
<1> QED
  BY <1>2, <1>4, <1>6, <1>7 DEF t

\* An event that is posted leaves the queue telling the truth, of its port too
\* when an earlier one was missed; of a port whose event is dropped nothing is
\* said any more.
LEMMA PostTells ==
  ASSUME LinkIInv, QueueTells, NEW r \in Ports, NEW up \in BOOLEAN, Post(r, up),
         UNCHANGED enabled, admin'[r] = up,
         \A p \in Ports : p # r => admin'[p] = admin[p]
  PROVE  QueueTells'
<1> SUFFICES ASSUME NEW p \in Ports, p \notin missed'
             PROVE  LastSays(events', p, admin'[p]) /\ (Silent(events', p) => InStep(p)')
  BY DEF QueueTells
<1>1. events \in Seq(Event)
  BY DEF LinkIInv, EnabledTypeOK
<1>2. p # r => /\ p \notin missed
               /\ LastSays(events, p, admin[p]) /\ (Silent(events, p) => InStep(p))
  BY DEF Post, QueueTells
<1>3. p # r => (InStep(p)' <=> InStep(p))
  BY DEF InStep
<1>4. CASE Len(events) < EventMax
  <2>1. PICK e \in Event : e = [port |-> r, up |-> up]
    BY DEF Event
  <2>2. e.port = r /\ e.up = up /\ events' = Append(events, e)
    BY <1>4, <2>1 DEF Post
  <2>3. PICK v : v = admin'[p]
    OBVIOUS
  <2>4. (p = e.port => v = e.up) /\ (p # e.port => LastSays(events, p, v))
    BY <1>2, <2>2, <2>3
  <2>5. /\ LastSays(Append(events, e), p, v)
        /\ Silent(Append(events, e), p) => Silent(events, p) /\ p # e.port
    BY <1>1, <2>4, LastOfAppend
  <2> QED
    BY <1>2, <1>3, <2>2, <2>3, <2>5
<1>5. CASE ~(Len(events) < EventMax)
  <2>1. p # r /\ events' = events
    BY <1>5 DEF Post
  <2> QED
    BY <1>2, <1>3, <2>1
<1> QED
  BY <1>4, <1>5

LEMMA QueueInit == Init => QueueTells
<1> SUFFICES ASSUME Init PROVE QueueTells
  OBVIOUS
<1>1. PICK bad \in SUBSET BadPorts :
        /\ admin \in [Ports -> BOOLEAN] /\ enabled = [p \in Ports |-> p \notin bad]
        /\ missed = {p \in Ports : admin[p] # (p \notin bad)}
  BY DEF Init
<1>2. events = <<>>
  BY DEF Init
<1>3. Len(<<>>) = 0
  OBVIOUS
<1>4. \A p \in Ports \ missed : InStep(p)
  BY <1>1 DEF InStep
<1> QED
  BY <1>2, <1>3, <1>4 DEF QueueTells, LastSays, Silent

LEMMA QueueStep == LinkIInv /\ QueueTells /\ [Next]_vars => QueueTells'
<1> SUFFICES ASSUME LinkIInv, QueueTells, [Next]_vars PROVE QueueTells'
  OBVIOUS
<1>a. /\ events \in Seq(Event)
      /\ admin \in [Ports -> BOOLEAN] /\ enabled \in [Ports -> BOOLEAN]
  BY DEF LinkIInv, EnabledTypeOK
<1>b. ASSUME UNCHANGED <<events, missed, admin, enabled>> PROVE QueueTells'
  BY <1>b DEF QueueTells, LastSays, Silent, InStep
<1>1. ASSUME NEW r \in Ports, SetAdmin(r) PROVE QueueTells'
  <2>1. admin' = [admin EXCEPT ![r] = ~@] /\ Post(r, ~admin[r]) /\ UNCHANGED enabled
    BY <1>1 DEF SetAdmin, Change, portVars
  <2>2. admin'[r] = ~admin[r] /\ (~admin[r]) \in BOOLEAN
    <3> DEFINE b == ~admin[r]
    <3>1. admin' = [admin EXCEPT ![r] = b]
      BY <2>1
    <3> HIDE DEF b
    <3>2. admin'[r] = b
      BY <1>a, <3>1
    <3>3. admin[r] \in BOOLEAN
      BY <1>a
    <3>4. admin'[r] = ~admin[r]
      BY <3>2 DEF b
    <3> QED
      BY <3>3, <3>4
  <2>3. \A p \in Ports : p # r => admin'[p] = admin[p]
    BY <1>a, <2>1
  <2> QED
    BY <1>a, <2>1, <2>2, <2>3, PostTells
<1>2. ASSUME NEW r \in Ports, TellCarrier(r) PROVE QueueTells'
  <2>1. UNCHANGED <<admin, enabled>>
    BY <1>2 DEF TellCarrier, portVars
  <2>2. CASE admin[r]
    <3>1. Post(r, TRUE)
      BY <1>2, <2>2 DEF TellCarrier
    <3>2. admin[r] = TRUE
      BY <1>a, <2>2
    <3> QED
      BY <1>a, <2>1, <3>1, <3>2, PostTells
  <2>3. CASE ~admin[r]
    BY <1>2, <1>b, <2>1, <2>3 DEF TellCarrier, socketVars
  <2> QED
    BY <2>2, <2>3
<1>3. ASSUME NEW r \in Ports, SetPeer(r) PROVE QueueTells'
  BY <1>3, <1>b DEF SetPeer, Change, portVars, kernelVars, socketVars
<1>4. CASE Tick
  BY <1>4, <1>b DEF Tick, portVars, kernelVars, socketVars
<1>5. CASE HandleLink
  <2> DEFINE r == Head(events).port
             up == Head(events).up
  <2>1. events # <<>> /\ events' = Tail(events) /\ UNCHANGED <<missed, admin>>
    BY <1>5 DEF HandleLink, kernelVars
  <2>2. enabled' = [enabled EXCEPT ![r] = up]
    BY <1>5 DEF HandleLink
  <2>3. SUFFICES ASSUME NEW p \in Ports, p \notin missed'
        PROVE  LastSays(events', p, admin'[p]) /\ (Silent(events', p) => InStep(p)')
    BY DEF QueueTells
  <2>4. LastSays(events, p, admin[p]) /\ (Silent(events, p) => InStep(p))
    BY <2>1, <2>3 DEF QueueTells
  <2>5. /\ LastSays(Tail(events), p, admin[p])
        /\ Silent(Tail(events), p) => IF r = p THEN up = admin[p] ELSE Silent(events, p)
    BY <1>a, <2>1, <2>4, LastOfTail
  <2>6. ASSUME Silent(Tail(events), p) PROVE InStep(p)'
    <3>1. CASE r = p
      <4>1. enabled'[p] = admin[p]
        BY <1>a, <2>2, <2>5, <2>6, <3>1
      <4> QED
        BY <2>1, <4>1 DEF InStep
    <3>2. CASE r # p
      <4>1. enabled'[p] = enabled[p]
        BY <1>a, <2>2, <3>2
      <4> QED
        BY <2>1, <2>4, <2>5, <2>6, <3>2, <4>1 DEF InStep
    <3> QED
      BY <3>1, <3>2
  <2> QED
    BY <2>1, <2>5, <2>6
<1>6. CASE LinkPoll
  BY <1>6, <1>b DEF LinkPoll, socketVars
<1>7. CASE UNCHANGED vars
  BY <1>7, <1>b DEF vars, portVars, kernelVars, socketVars
<1> QED
  BY <1>1, <1>2, <1>3, <1>4, <1>5, <1>6, <1>7 DEF Next

\* edged enables the ports that the kernel has up and no other once it has
\* read what the kernel told: handle_link takes every event, whatever the link
\* poll did in between; only what came before the bind, or was dropped, is missed.
THEOREM AdminFollowed == Spec => []FollowsAdmin
<1>1. Init => LinkIInv /\ QueueTells
  BY LinkInit, QueueInit
<1>2. LinkIInv /\ QueueTells /\ [Next]_vars => (LinkIInv /\ QueueTells)'
  BY LinkStep, QueueStep
<1>3. QueueTells => FollowsAdmin
  <2>1. Len(<<>>) = 0
    OBVIOUS
  <2> QED
    BY <2>1 DEF QueueTells, FollowsAdmin, Silent, InStep
<1> QED
  BY <1>1, <1>2, <1>3, PTL DEF Spec
=============================================================================
