-------------------------- MODULE BcmdConfigProofs --------------------------
(***************************************************************************)
(* What BcmdConfig keeps for every set of ports, every content of the two  *)
(* files, every size of the socket's buffer, of the SDK's tables and of    *)
(* bcmd's own, and however often bcmd ends.                                *)
(***************************************************************************)
EXTENDS BcmdConfig, SequenceTheorems, FiniteSetTheorems,
        WellFoundedInduction, TLAPS

-----------------------------------------------------------------------------
(* The admin state of the ports.                                           *)

LinkMsg == [port : FrontPorts, up : BOOLEAN]

\* bcmd has a socket that hears of links.
Listening == pc \in {"dumps", "loop", "resync groups", "resync acls"}

LinkTypeOK == sock \in Seq(LinkMsg)

\* The last message about port p in queue q says that it is up if and only if
\* it is in S.
LastSays(q, p, S) ==
  \A i \in 1..Len(q) :
    q[i].port = p /\ (\A j \in (i + 1)..Len(q) : q[j].port # p) => (q[i].up <=> p \in S)

Silent(q, p) == \A i \in 1..Len(q) : q[i].port # p

\* What the socket holds, and what bcmd has done, is the admin state of every
\* port whose events have not been missed.
SockTells ==
  Listening =>
    \A p \in Netdevs \ missed :
      /\ LastSays(sock, p, admin)
      /\ Silent(sock, p) => (p \in enabled <=> p \in admin)

\* A message about port r makes r the one that is spoken of last.
LEMMA LastOfAppend ==
  ASSUME NEW q \in Seq(LinkMsg), NEW e \in LinkMsg, NEW p, NEW S,
         p = e.port => (e.up <=> p \in S),
         p # e.port => LastSays(q, p, S)
  PROVE  /\ LastSays(Append(q, e), p, S)
         /\ Silent(Append(q, e), p) => Silent(q, p) /\ p # e.port
<1> DEFINE n == Len(q)
           a == Append(q, e)
<1>1. n \in Nat /\ Len(a) = n + 1 /\ a[n + 1] = e /\ \A i \in 1..n : a[i] = q[i]
  OBVIOUS
<1> HIDE DEF n, a
<1>2. ASSUME NEW i \in 1..(n + 1), a[i].port = p,
             \A j \in (i + 1)..(n + 1) : a[j].port # p
      PROVE  a[i].up <=> p \in S
  <2>1. CASE i = n + 1
    BY <1>1, <1>2, <2>1
  <2>2. CASE i # n + 1
    <3>1. i \in 1..n /\ n + 1 \in (i + 1)..(n + 1) /\ a[i] = q[i]
      BY <1>1, <2>2
    <3>2. p # e.port
      BY <1>1, <1>2, <3>1
    <3>3. \A j \in (i + 1)..n : q[j].port # p
      <4>1. ASSUME NEW j \in (i + 1)..n PROVE q[j].port # p
        <5>1. j \in (i + 1)..(n + 1) /\ j \in 1..n
          BY <1>1, <3>1
        <5> QED
          BY <1>1, <1>2, <5>1
      <4> QED
        BY <4>1
    <3>4. LastSays(q, p, S)
      BY <3>2
    <3> QED
      BY <1>2, <3>1, <3>3, <3>4 DEF LastSays, n
  <2> QED
    BY <2>1, <2>2
<1>3. LastSays(a, p, S)
  BY <1>1, <1>2 DEF LastSays
<1>4. ASSUME Silent(a, p) PROVE Silent(q, p) /\ p # e.port
  <2>1. \A i \in 1..n : i \in 1..(n + 1) /\ a[i] = q[i]
    BY <1>1
  <2>2. n + 1 \in 1..(n + 1)
    BY <1>1
  <2> QED
    BY <1>1, <1>4, <2>1, <2>2 DEF Silent, n
<1> QED
  BY <1>3, <1>4 DEF a

\* The last message about a port stays the last one when the first message is
\* read, unless that was it.
LEMMA LastOfTail ==
  ASSUME NEW q \in Seq(LinkMsg), q # <<>>, NEW p, NEW S, LastSays(q, p, S)
  PROVE  /\ LastSays(Tail(q), p, S)
         /\ Silent(Tail(q), p) =>
              IF Head(q).port = p THEN Head(q).up <=> p \in S ELSE Silent(q, p)
<1> DEFINE n == Len(q)
           t == Tail(q)
<1>1. n \in Nat /\ n >= 1 /\ Len(t) = n - 1 /\ \A i \in 1..(n - 1) : t[i] = q[i + 1]
  OBVIOUS
<1>2. Head(q) = q[1]
  OBVIOUS
<1> HIDE DEF n, t
<1>3. ASSUME NEW i \in 1..(n - 1), t[i].port = p,
             \A j \in (i + 1)..(n - 1) : t[j].port # p
      PROVE  t[i].up <=> p \in S
  <2>1. i + 1 \in 1..n /\ t[i] = q[i + 1]
    BY <1>1
  <2>2. ASSUME NEW j \in ((i + 1) + 1)..n PROVE q[j].port # p
    <3>1. j - 1 \in (i + 1)..(n - 1) /\ j - 1 \in 1..(n - 1) /\ (j - 1) + 1 = j
      BY <1>1
    <3> QED
      BY <1>1, <1>3, <3>1
  <2> QED
    BY <1>3, <2>1, <2>2 DEF LastSays, n
<1>4. LastSays(t, p, S)
  BY <1>1, <1>3 DEF LastSays
<1>5. ASSUME Silent(t, p) PROVE \A j \in 2..n : q[j].port # p
  <2>1. ASSUME NEW j \in 2..n PROVE q[j].port # p
    <3>1. j - 1 \in 1..(n - 1) /\ (j - 1) + 1 = j
      BY <1>1
    <3> QED
      BY <1>1, <1>5, <3>1 DEF Silent
  <2> QED
    BY <2>1
<1>6. ASSUME Silent(t, p), q[1].port = p PROVE q[1].up <=> p \in S
  <2>1. 1 \in 1..n /\ \A j \in (1 + 1)..n : q[j].port # p
    BY <1>1, <1>5, <1>6
  <2> QED
    BY <1>6, <2>1 DEF LastSays, n
<1>7. ASSUME Silent(t, p), q[1].port # p PROVE Silent(q, p)
  <2>1. \A j \in 1..n : j = 1 \/ j \in 2..n
    BY <1>1
  <2> QED
    BY <1>5, <1>7, <2>1 DEF Silent, n
<1> QED
  BY <1>2, <1>4, <1>6, <1>7 DEF t

\* An event that is posted, or dropped, leaves the socket telling the truth.
LEMMA PostTells ==
  ASSUME LinkTypeOK, SockTells, NEW r \in FrontPorts, NEW up \in BOOLEAN, Post(r, up),
         UNCHANGED <<pc, knet, enabled>>, up <=> r \in admin',
         \A p : p # r => (p \in admin' <=> p \in admin)
  PROVE  LinkTypeOK' /\ SockTells'
<1> DEFINE open == pc \in {"dumps"} \cup {"loop", "resync groups", "resync acls"}
                     /\ Len(sock) < SockMax
<1>1. PICK e \in LinkMsg : e = [port |-> r, up |-> up]
  BY DEF LinkMsg
<1>2. e.port = r /\ e.up = up
  BY <1>1
<1>3. \/ open /\ sock' = Append(sock, e) /\ missed' = missed \ {r}
      \/ ~open /\ sock' = sock /\ missed' = missed \cup {r}
  BY <1>1 DEF Post
<1> HIDE DEF open
<1>4. LinkTypeOK'
  BY <1>1, <1>3 DEF LinkTypeOK
<1>5. ASSUME Listening', NEW p \in Netdevs', p \notin missed'
      PROVE  /\ LastSays(sock', p, admin')
             /\ Silent(sock', p) => (p \in enabled' <=> p \in admin')
  <2>1. p # r => (p \notin missed /\ (p \in admin' <=> p \in admin))
    BY <1>3, <1>5
  <2>2. p # r => /\ LastSays(sock, p, admin)
                 /\ Silent(sock, p) => (p \in enabled <=> p \in admin)
    BY <1>5, <2>1 DEF SockTells, Listening, Netdevs
  <2>3. p # r => LastSays(sock, p, admin')
    BY <2>1, <2>2, Zenon DEF LastSays
  <2>4. CASE open /\ sock' = Append(sock, e)
    <3>1. p = e.port => (e.up <=> p \in admin')
      BY <1>2
    <3>2. /\ LastSays(Append(sock, e), p, admin')
          /\ Silent(Append(sock, e), p) => Silent(sock, p) /\ p # e.port
      BY <1>2, <2>3, <3>1, LastOfAppend DEF LinkTypeOK
    <3> QED
      BY <1>2, <2>1, <2>2, <2>4, <3>2
  <2>5. CASE sock' = sock /\ missed' = missed \cup {r}
    <3>1. p # r
      BY <1>5, <2>5
    <3> QED
      BY <2>1, <2>2, <2>3, <2>5, <3>1
  <2> QED
    BY <1>3, <2>4, <2>5
<1> QED
  BY <1>4, <1>5 DEF SockTells

LEMMA LinkStep ==
  LinkTypeOK /\ SockTells /\ [Next]_vars => (LinkTypeOK /\ SockTells)'
<1> SUFFICES ASSUME LinkTypeOK, SockTells, [Next]_vars
             PROVE  LinkTypeOK' /\ SockTells'
  OBVIOUS
<1>a. ASSUME UNCHANGED <<sock, missed, admin, enabled, knet>>, Listening' => Listening
      PROVE  LinkTypeOK' /\ SockTells'
  BY <1>a DEF LinkTypeOK, SockTells, Netdevs, LastSays, Silent
<1>b. ASSUME sock' = <<>> \/ sock' = sock, ~Listening'
      PROVE  LinkTypeOK' /\ SockTells'
  <2>1. LinkTypeOK'
    <3>1. <<>> \in Seq(LinkMsg)
      OBVIOUS
    <3> QED
      BY <1>b, <3>1 DEF LinkTypeOK
  <2>2. SockTells'
    BY <1>b, Zenon DEF SockTells
  <2> QED
    BY <2>1, <2>2
<1>1. CASE CmdOpen \/ CmdWrite \/ CmdHup
  <2>1. UNCHANGED <<sock, missed, admin, enabled, knet>>
    BY <1>1 DEF CmdOpen, CmdWrite, CmdHup, chipVars, linkVars
  <2>2. pc' = pc \/ pc' = "dead"
    BY <1>1 DEF CmdOpen, CmdWrite, CmdHup
  <2> QED
    BY <1>a, <2>1, <2>2 DEF Listening
<1>2. ASSUME NEW r \in FrontPorts, SetAdmin(r) PROVE LinkTypeOK' /\ SockTells'
  <2>1. /\ Post(r, r \in admin') /\ UNCHANGED <<pc, knet, enabled>>
        /\ \A p : p # r => (p \in admin' <=> p \in admin)
    BY <1>2 DEF SetAdmin, chipVars
  <2>2. CASE r \in admin'
    <3>1. (r \in admin') = TRUE
      BY <2>2
    <3>2. Post(r, TRUE)
      BY <2>1, <3>1
    <3> QED
      BY <2>1, <2>2, <3>2, PostTells
  <2>3. CASE r \notin admin'
    <3>1. (r \in admin') = FALSE
      BY <2>3
    <3>2. Post(r, FALSE)
      BY <2>1, <3>1
    <3> QED
      BY <2>1, <2>3, <3>2, PostTells
  <2> QED
    BY <2>2, <2>3
<1>3. CASE ChipInit \/ PortsUp \/ BootGroups \/ BootAcls \/ Clear \/ Netifs \/ Filters
             \/ CatchAll \/ NetdevsUp \/ Restart \/ Crash
  <2>1. sock' = <<>> \/ sock' = sock
    BY <1>3 DEF ChipInit, PortsUp, BootGroups, BootAcls, Clear, Netifs, Filters,
                CatchAll, NetdevsUp, Restart, Crash, linkVars
  <2>2. ~Listening'
    BY <1>3 DEF ChipInit, PortsUp, BootGroups, BootAcls, Clear, Netifs, Filters,
                CatchAll, NetdevsUp, Restart, Crash, At, Listening
  <2> QED
    BY <1>b, <2>1, <2>2
<1>4. CASE NlOpen
  <2>1. /\ sock' = <<>> /\ UNCHANGED <<knet, admin, enabled>>
        /\ missed' = {p \in Netdevs : (p \in admin) # (p \in enabled)}
    BY <1>4 DEF NlOpen, chipVars
  <2>2. Len(<<>>) = 0
    OBVIOUS
  <2>3. \A p \in Netdevs' \ missed' : p \in enabled' <=> p \in admin'
    BY <2>1, Zenon DEF Netdevs
  <2> QED
    BY <2>1, <2>2, <2>3 DEF LinkTypeOK, SockTells, LastSays, Silent
<1>5. CASE Handlers \/ Resync \/ ResyncGroups \/ ResyncAcls
  <2>1. UNCHANGED <<sock, missed, admin, enabled, knet>>
    BY <1>5 DEF Handlers, Resync, ResyncGroups, ResyncAcls, chipVars, linkVars
  <2>2. Listening
    BY <1>5 DEF Handlers, Resync, ResyncGroups, ResyncAcls, At, Listening
  <2> QED
    BY <1>a, <2>1, <2>2
<1>6. CASE HandleLink
  <2> DEFINE m == Head(sock)
  <2>1. /\ sock # <<>> /\ sock' = Tail(sock) /\ Listening
        /\ UNCHANGED <<knet, admin, missed, pc>>
        /\ enabled' = IF m.port \notin Netdevs THEN enabled
                      ELSE (enabled \ {m.port}) \cup {p \in {m.port} : m.up}
    BY <1>6 DEF HandleLink, Listening
  <2> HIDE DEF m
  <2>2. LinkTypeOK'
    BY <2>1 DEF LinkTypeOK
  <2>3. ASSUME NEW p \in Netdevs', p \notin missed'
        PROVE  /\ LastSays(sock', p, admin')
               /\ Silent(sock', p) => (p \in enabled' <=> p \in admin')
    <3>1. /\ LastSays(sock, p, admin)
          /\ Silent(sock, p) => (p \in enabled <=> p \in admin)
      BY <2>1, <2>3 DEF SockTells, Netdevs
    <3>2. /\ LastSays(Tail(sock), p, admin)
          /\ Silent(Tail(sock), p) =>
               IF m.port = p THEN m.up <=> p \in admin ELSE Silent(sock, p)
      BY <2>1, <3>1, LastOfTail DEF LinkTypeOK, m
    <3>3. IF m.port = p THEN p \in enabled' <=> m.up ELSE p \in enabled' <=> p \in enabled
      BY <2>1, <2>3 DEF Netdevs
    <3> QED
      BY <2>1, <3>1, <3>2, <3>3
  <2> QED
    BY <2>2, <2>3 DEF SockTells
<1>7. CASE UNCHANGED vars
  BY <1>7, <1>a DEF vars, chipVars, linkVars, Listening
<1> QED
  BY <1>1, <1>2, <1>3, <1>4, <1>5, <1>6, <1>7 DEF Next, Boot, Loop, Command

\* A port is enabled as its netdev is up once bcmd has read its socket: of
\* several messages about a port the last one counts, and what comes later than
\* a dropped one makes it good.
THEOREM AdminIsFollowed == Spec => []AdminFollowed
<1>1. Init => LinkTypeOK /\ SockTells
  BY DEF Init, LinkTypeOK, SockTells, Listening
<1>2. SockTells => AdminFollowed
  <2>1. Len(<<>>) = 0
    OBVIOUS
  <2> QED
    BY <2>1 DEF SockTells, AdminFollowed, Silent, Listening
<1> QED
  BY <1>1, <1>2, LinkStep, PTL DEF Spec

-----------------------------------------------------------------------------
(* The VLANs of the ports.                                                 *)

\* A set of naturals that is not empty has a least element.
LEMMA LeastOfNats ==
  ASSUME NEW T, T \subseteq Nat, T # {}
  PROVE  Min(T) \in T /\ \A y \in T : Min(T) <= y
<1> DEFINE R == OpToRel(<, Nat)
<1>1. \E x \in T : \A y \in T : ~ (<<y, x>> \in R)
  BY NatLessThanWellFounded, WFMin, Zenon
<1>2. \A x, y \in T : <<y, x>> \in R <=> y < x
  BY DEF OpToRel
<1> HIDE DEF R
<1>3. PICK x \in T : \A y \in T : ~ (y < x)
  BY <1>1, <1>2, Zenon
<1>4. \A y \in T : x <= y
  BY <1>3
<1> QED
  BY <1>4 DEF Min

\* One that is bounded has a greatest.
LEMMA GreatestOfNats ==
  ASSUME NEW T, NEW n \in Nat, T \subseteq 0..n, T # {}
  PROVE  Max(T) \in T
<1> DEFINE U == {n - x : x \in T}
<1>1. U \subseteq Nat /\ U # {}
  <2>1. \A x \in T : n - x \in Nat
    OBVIOUS
  <2> QED
    BY <2>1
<1>2. Min(U) \in U /\ \A y \in U : Min(U) <= y
  BY <1>1, LeastOfNats
<1>3. PICK x \in T : Min(U) = n - x
  BY <1>2
<1>4. \A y \in T : x >= y
  <2>1. ASSUME NEW y \in T PROVE x >= y
    <3>1. n - y \in U
      OBVIOUS
    <3>2. n - x <= n - y /\ x \in 0..n /\ y \in 0..n
      BY <1>2, <1>3, <3>1
    <3> QED
      BY <3>2
  <2> QED
    BY <2>1
<1> QED
  BY <1>4 DEF Max

\* The files name no port in two groups (or the later one and the earlier one
\* would both have it), and in no VLAN that is the port's own.
PlainGroups(lines) ==
  \A p \in FrontPorts : \A i, j \in LinesOf(lines, p) :
    lines[i].vid = lines[j].vid /\ lines[i].vid # OwnVlan(p)

PlainFiles == \A f \in GroupFiles : PlainGroups(f)

Lines == Seq([vid : Nat, ports : SUBSET Nat])

VlanFields(v) == v = [member |-> v.member, pvid |-> v.pvid, group |-> v.group]

\* Port p is an untagged member of VLAN u only, and what it receives goes there.
Sits(v, p, u) ==
  u \in Vlans /\ v.pvid[p] = u /\ \A w \in Vlans : p \in v.member[w] <=> w = u

\* Every port sits in the group that bcmd_port_group has, or else in its own
\* VLAN or in VLAN 1.
PortSits(v, p) ==
  IF v.group[p] = 0 THEN Sits(v, p, 1) \/ Sits(v, p, OwnVlan(p))
  ELSE Sits(v, p, v.group[p]) /\ v.group[p] \notin {1, OwnVlan(p)}

VlansOK(v) == VlanFields(v) /\ \A p \in FrontPorts : PortSits(v, p)
Ungrouped(v) == \A p \in FrontPorts : v.group[p] = 0

LEMMA PortVlans ==
  ASSUME NEW p \in FrontPorts
  PROVE  OwnVlan(p) \in Vlans /\ 1 \in Vlans /\ OwnVlan(p) \in 2..VidMax
BY SwitchAssumption DEF OwnVlan, Vlans

LEMMA ChipVlansOK == VlansOK(ChipVlans) /\ Ungrouped(ChipVlans)
<1> DEFINE v == ChipVlans
<1>1. /\ VlanFields(v)
      /\ \A u \in Vlans : v.member[u] = IF u = 1 THEN FrontPorts ELSE {}
      /\ \A p \in FrontPorts : v.pvid[p] = 1 /\ v.group[p] = 0
  BY DEF ChipVlans, VlanFields
<1> HIDE DEF v
<1>2. ASSUME NEW p \in FrontPorts PROVE Sits(v, p, 1)
  BY <1>1, <1>2, PortVlans DEF Sits
<1> QED
  BY <1>1, <1>2 DEF VlansOK, PortSits, Ungrouped, v

\* A port that is isolated leaves the VLAN where it is for its own.
LEMMA IsolateOK ==
  ASSUME NEW v, VlanFields(v), NEW S, S \subseteq FrontPorts, NEW from,
         \A p \in S : \E u \in {1, OwnVlan(p), from[p]} : Sits(v, p, u),
         NEW w, w = IsolateFrom(v, S, from)
  PROVE  /\ VlanFields(w) /\ w.group = v.group
         /\ \A p \in S : Sits(w, p, OwnVlan(p))
         /\ \A p \in FrontPorts \ S : \A u : Sits(v, p, u) => Sits(w, p, u)
<1>1. /\ VlanFields(w) /\ w.group = v.group
      /\ \A u \in Vlans : w.member[u] =
           {p \in v.member[u] : p \in S => u \notin {1, from[p]}} \cup {p \in S : u = OwnVlan(p)}
      /\ \A p \in FrontPorts : w.pvid[p] = IF p \in S THEN OwnVlan(p) ELSE v.pvid[p]
  BY DEF IsolateFrom, VlanFields
<1>2. ASSUME NEW p \in S PROVE Sits(w, p, OwnVlan(p))
  <2>1. p \in FrontPorts
    OBVIOUS
  <2>2. PICK u \in {1, OwnVlan(p), from[p]} : Sits(v, p, u)
    BY Zenon
  <2>3. ASSUME NEW x \in Vlans PROVE p \in w.member[x] <=> x = OwnVlan(p)
    BY <1>1, <2>2, <2>3 DEF Sits
  <2> QED
    BY <1>1, <2>1, <2>3, PortVlans DEF Sits
<1>3. ASSUME NEW p \in FrontPorts \ S, NEW u, Sits(v, p, u) PROVE Sits(w, p, u)
  BY <1>1, <1>3 DEF Sits
<1> QED
  BY <1>1, <1>2, <1>3

\* bcmd_port_up, on the chip's VLANs after its reset.
LEMMA BootIsolates ==
  ASSUME NEW v, VlansOK(v), Ungrouped(v), NEW S, S \subseteq FrontPorts
  PROVE  VlansOK(Isolate(v, S)) /\ Ungrouped(Isolate(v, S))
<1> DEFINE from == [p \in S |-> 1]
           w == Isolate(v, S)
<1>1. w = IsolateFrom(v, S, from)
  BY DEF Isolate
<1>2. \A p \in FrontPorts : v.group[p] = 0 /\ (Sits(v, p, 1) \/ Sits(v, p, OwnVlan(p)))
  BY DEF VlansOK, Ungrouped, PortSits
<1>3. \A p \in S : \E u \in {1, OwnVlan(p), from[p]} : Sits(v, p, u)
  BY <1>2, Zenon
<1> HIDE DEF w, from
<1>4. /\ VlanFields(w) /\ w.group = v.group
      /\ \A p \in S : Sits(w, p, OwnVlan(p))
      /\ \A p \in FrontPorts \ S : \A u : Sits(v, p, u) => Sits(w, p, u)
  <2>1. VlanFields(v) /\ S \subseteq FrontPorts
    BY DEF VlansOK
  <2>2. PICK f, y : f = from /\ y = w
    OBVIOUS
  <2>3. y = IsolateFrom(v, S, f)
    BY <1>1, <2>2
  <2>4. \A p \in S : \E u \in {1, OwnVlan(p), f[p]} : Sits(v, p, u)
    BY <1>3, <2>2
  <2>5. /\ VlanFields(y) /\ y.group = v.group
        /\ \A p \in S : Sits(y, p, OwnVlan(p))
        /\ \A p \in FrontPorts \ S : \A u : Sits(v, p, u) => Sits(y, p, u)
    BY <2>1, <2>3, <2>4, IsolateOK
  <2> QED
    BY <2>2, <2>5
<1>5. ASSUME NEW p \in FrontPorts PROVE w.group[p] = 0 /\ PortSits(w, p)
  <2>1. w.group[p] = 0
    BY <1>2, <1>4
  <2>2. Sits(w, p, 1) \/ Sits(w, p, OwnVlan(p))
    BY <1>2, <1>4
  <2> QED
    BY <2>1, <2>2 DEF PortSits
<1> QED
  BY <1>4, <1>5 DEF VlansOK, Ungrouped, w

\* bcmd_l2_reset: the ports leave the groups that bcmd_port_group has.
LEMMA ResetUngroups ==
  ASSUME NEW v, VlansOK(v)
  PROVE  VlansOK(ResetGroups(v)) /\ Ungrouped(ResetGroups(v))
<1> DEFINE S == {p \in FrontPorts : v.group[p] # 0}
           x == IsolateFrom(v, S, v.group)
           w == ResetGroups(v)
<1>1. VlanFields(v) /\ \A p \in FrontPorts : PortSits(v, p)
  BY DEF VlansOK
<1>2. \A p \in S : \E u \in {1, OwnVlan(p), v.group[p]} : Sits(v, p, u)
  BY <1>1, Zenon DEF PortSits
<1>3. /\ VlanFields(x)
      /\ \A p \in S : Sits(x, p, OwnVlan(p))
      /\ \A p \in FrontPorts \ S : \A u : Sits(v, p, u) => Sits(x, p, u)
  <2>1. PICK y : y = x
    OBVIOUS
  <2> HIDE DEF S
  <2>2. S \subseteq FrontPorts
    BY DEF S
  <2>3. /\ VlanFields(y)
        /\ \A p \in S : Sits(y, p, OwnVlan(p))
        /\ \A p \in FrontPorts \ S : \A u : Sits(v, p, u) => Sits(y, p, u)
    BY <1>1, <1>2, <2>1, <2>2, IsolateOK
  <2> QED
    BY <2>1, <2>3
<1>4. w = [x EXCEPT !.group = [p \in FrontPorts |-> 0]]
  BY DEF ResetGroups
<1> HIDE DEF x, w
<1>5. /\ VlanFields(w) /\ w.member = x.member /\ w.pvid = x.pvid
      /\ \A p \in FrontPorts : w.group[p] = 0
  BY <1>3, <1>4 DEF VlanFields
<1>6. ASSUME NEW p \in FrontPorts PROVE Sits(w, p, 1) \/ Sits(w, p, OwnVlan(p))
  <2>1. Sits(x, p, 1) \/ Sits(x, p, OwnVlan(p))
    <3>1. CASE p \in S
      BY <1>3, <3>1
    <3>2. CASE p \notin S
      <4>1. v.group[p] = 0
        BY <3>2
      <4>2. Sits(v, p, 1) \/ Sits(v, p, OwnVlan(p))
        BY <1>1, <4>1 DEF PortSits
      <4> QED
        BY <1>3, <3>2, <4>2
    <3> QED
      BY <3>1, <3>2
  <2>2. \A u : Sits(x, p, u) => Sits(w, p, u)
    BY <1>5 DEF Sits
  <2> QED
    BY <2>1, <2>2
<1> QED
  BY <1>5, <1>6 DEF VlansOK, PortSits, Ungrouped, w

\* The lines that name a port, the last of which counts.
LEMMA LastLine ==
  ASSUME NEW lines \in Lines, PlainGroups(lines), NEW p \in FrontPorts,
         LinesOf(lines, p) # {}
  PROVE  \E u \in 2..VidMax :
           /\ u # OwnVlan(p) /\ lines[Max(LinesOf(lines, p))].vid = u
           /\ \A i \in LinesOf(lines, p) : lines[i].vid = u
<1> DEFINE L == LinesOf(lines, p)
<1>1. Len(lines) \in Nat /\ DOMAIN lines = 1..Len(lines)
  BY DEF Lines
<1>2. L \subseteq 0..Len(lines)
  BY <1>1 DEF LinesOf
<1>3. Max(L) \in L
  BY <1>1, <1>2, GreatestOfNats
<1>4. lines[Max(L)].vid \in 2..VidMax
  BY <1>3 DEF LinesOf
<1> HIDE DEF L
<1>5. \A i \in L : lines[i].vid = lines[Max(L)].vid /\ lines[Max(L)].vid # OwnVlan(p)
  BY <1>3 DEF PlainGroups, L
<1> QED
  BY <1>3, <1>4, <1>5 DEF L

\* bcmd_load_l2_groups, on ports that are in no group: each port of a line
\* leaves where it was for the group, and the other ports stay.
LEMMA LoadOK ==
  ASSUME NEW v, VlansOK(v), Ungrouped(v), NEW lines \in Lines, PlainGroups(lines),
         NEW w, w = LoadGroups(v, lines)
  PROVE  /\ VlansOK(w)
         /\ \A p \in FrontPorts :
              IF LinesOf(lines, p) = {} THEN w.group[p] = 0
              ELSE Sits(w, p, lines[Max(LinesOf(lines, p))].vid)
<1> DEFINE grouped == {p \in FrontPorts : LinesOf(lines, p) # {}}
           joined(p) == {lines[i].vid : i \in LinesOf(lines, p)}
<1>1. /\ VlanFields(w)
      /\ \A u \in Vlans : w.member[u] =
           {p \in v.member[u] \cup {p \in grouped : u \in joined(p)} :
              p \in grouped => u \notin {1, OwnVlan(p)}}
      /\ \A p \in FrontPorts :
           /\ w.pvid[p] = IF p \in grouped THEN lines[Max(LinesOf(lines, p))].vid ELSE v.pvid[p]
           /\ w.group[p] = IF p \in grouped THEN lines[Max(LinesOf(lines, p))].vid ELSE v.group[p]
  BY DEF LoadGroups, VlanFields
<1>2. \A p \in FrontPorts : v.group[p] = 0 /\ (Sits(v, p, 1) \/ Sits(v, p, OwnVlan(p)))
  BY DEF VlansOK, Ungrouped, PortSits
<1>3. ASSUME NEW p \in FrontPorts, LinesOf(lines, p) = {}
      PROVE  w.group[p] = 0 /\ PortSits(w, p)
  <2>1. p \notin grouped
    BY <1>3
  <2> HIDE DEF grouped, joined
  <2>2. w.group[p] = 0 /\ \A u : Sits(v, p, u) => Sits(w, p, u)
    BY <1>1, <1>2, <2>1 DEF Sits
  <2> QED
    BY <1>2, <2>2 DEF PortSits
<1>4. ASSUME NEW p \in FrontPorts, LinesOf(lines, p) # {}
      PROVE  /\ Sits(w, p, lines[Max(LinesOf(lines, p))].vid)
             /\ PortSits(w, p)
  <2>1. PICK u \in 2..VidMax :
          /\ u # OwnVlan(p) /\ lines[Max(LinesOf(lines, p))].vid = u
          /\ \A i \in LinesOf(lines, p) : lines[i].vid = u
    BY <1>4, LastLine
  <2>2. p \in grouped /\ joined(p) = {u}
    BY <1>4, <2>1
  <2> HIDE DEF grouped, joined
  <2>3. w.group[p] = u /\ w.pvid[p] = u
    BY <1>1, <2>1, <2>2
  <2>4. u \in Vlans /\ u # 1 /\ u # 0
    BY <2>1 DEF Vlans
  <2>5. \A x \in Vlans : p \in v.member[x] => x \in {1, OwnVlan(p)}
    BY <1>2 DEF Sits
  <2>6. ASSUME NEW x \in Vlans PROVE p \in w.member[x] <=> x = u
    BY <1>1, <2>1, <2>2, <2>4, <2>5
  <2>7. Sits(w, p, u)
    BY <2>3, <2>4, <2>6 DEF Sits
  <2> QED
    BY <2>1, <2>3, <2>4, <2>7 DEF PortSits
<1> QED
  BY <1>1, <1>3, <1>4 DEF VlansOK

\* The files are of those there are, or empty.
FileTypeOK ==
  /\ groups \in GroupFiles \cup {<<>>} /\ acls \in AclFiles \cup {<<>>}
  /\ cmd = [pc |-> cmd.pc, file |-> cmd.file, new |-> cmd.new]
  /\ cmd.pc = "open" => IF cmd.file = "groups" THEN cmd.new \in GroupFiles
                                              ELSE cmd.new \in AclFiles

LEMMA FileInit == Init => FileTypeOK
<1> SUFFICES ASSUME Init PROVE FileTypeOK
  OBVIOUS
<1>1. PICK s \in StartFiles : groups = s[1] /\ acls = s[2]
  BY DEF Init
<1>2. s[1] \in GroupFiles /\ s[2] \in AclFiles
  BY BcmdConfigAssumption
<1>3. /\ cmd = [pc |-> cmd.pc, file |-> cmd.file, new |-> cmd.new]
      /\ cmd.pc = "none"
  BY DEF Init, NoCmd
<1> QED
  BY <1>1, <1>2, <1>3 DEF FileTypeOK

LEMMA FileStep == FileTypeOK /\ [Next]_vars => FileTypeOK'
<1> SUFFICES ASSUME FileTypeOK, [Next]_vars PROVE FileTypeOK'
  OBVIOUS
<1>1. CASE CmdOpen
  <2>1. CASE \E f \in GroupFiles :
               cmd' = [pc |-> "open", file |-> "groups", new |-> f] /\ groups' = <<>>
               /\ UNCHANGED acls
    BY <2>1 DEF FileTypeOK
  <2>2. CASE \E f \in AclFiles :
               cmd' = [pc |-> "open", file |-> "acls", new |-> f] /\ acls' = <<>>
               /\ UNCHANGED groups
    BY <2>2 DEF FileTypeOK
  <2> QED
    BY <1>1, <2>1, <2>2 DEF CmdOpen
<1>2. CASE CmdWrite
  <2>1. /\ cmd.pc = "open"
        /\ IF cmd.file = "groups" THEN groups' = cmd.new /\ UNCHANGED acls
                                  ELSE acls' = cmd.new /\ UNCHANGED groups
    BY <1>2 DEF CmdWrite
  <2>2. cmd' = [cmd EXCEPT !.pc = "written"]
    BY <1>2 DEF CmdWrite
  <2>3. /\ cmd' = [pc |-> cmd'.pc, file |-> cmd'.file, new |-> cmd'.new]
        /\ cmd'.pc = "written"
    BY <2>2 DEF FileTypeOK
  <2> QED
    BY <2>1, <2>3 DEF FileTypeOK
<1>3. CASE CmdHup
  BY <1>3 DEF CmdHup, NoCmd, FileTypeOK
<1>4. CASE UNCHANGED fileVars
  BY <1>4 DEF fileVars, FileTypeOK
<1>5. CASE Boot \/ Loop \/ Crash \/ \E p \in FrontPorts : SetAdmin(p)
  BY <1>4, <1>5 DEF Boot, Loop, ChipInit, PortsUp, BootGroups, BootAcls, Clear, Netifs,
       Filters, CatchAll, NetdevsUp, NlOpen, Handlers, Restart, HandleLink, Resync,
       ResyncGroups, ResyncAcls, Crash, SetAdmin, At
<1> QED
  BY <1>1, <1>2, <1>3, <1>4, <1>5 DEF Next, Command, vars

\* The VLAN that a file puts port p in, or 0.
FileVlan(lines, p) ==
  IF LinesOf(lines, p) = {} THEN 0 ELSE lines[Max(LinesOf(lines, p))].vid

Applied(v, lines) ==
  \A p \in FrontPorts :
    Sits(v, p, IF FileVlan(lines, p) # 0 THEN FileVlan(lines, p)
               ELSE IF v.pvid[p] = 1 THEN 1 ELSE OwnVlan(p))

LEMMA AppliedMeans == Applied(vlan, groups) => GroupsApplied
<1> SUFFICES ASSUME Applied(vlan, groups), NEW p \in FrontPorts
             PROVE  LET u == IF GroupOf(p) # 0 THEN GroupOf(p)
                             ELSE IF vlan.pvid[p] = 1 THEN 1 ELSE OwnVlan(p)
                    IN  vlan.pvid[p] = u /\ {w \in Vlans : p \in vlan.member[w]} = {u}
  BY DEF GroupsApplied
<1>1. LinesOf(groups, p) =
        {i \in DOMAIN groups : p \in groups[i].ports /\ groups[i].vid \in 2..VidMax}
  BY DEF LinesOf
<1>2. GroupOf(p) = FileVlan(groups, p)
  BY <1>1, Zenon DEF GroupOf, FileVlan
<1> DEFINE u == IF GroupOf(p) # 0 THEN GroupOf(p)
                ELSE IF vlan.pvid[p] = 1 THEN 1 ELSE OwnVlan(p)
<1>3. Sits(vlan, p, u)
  BY <1>2 DEF Applied
<1> HIDE DEF u
<1>4. vlan.pvid[p] = u /\ {w \in Vlans : p \in vlan.member[w]} = {u}
  BY <1>3 DEF Sits
<1> QED
  BY <1>4 DEF u

\* What is loaded is applied.
LEMMA LoadApplies ==
  ASSUME NEW v, VlansOK(v), Ungrouped(v), NEW lines \in Lines, PlainGroups(lines),
         NEW w, w = LoadGroups(v, lines)
  PROVE  VlansOK(w) /\ Applied(w, lines)
<1>1. /\ VlansOK(w)
      /\ \A p \in FrontPorts :
           IF LinesOf(lines, p) = {} THEN w.group[p] = 0
           ELSE Sits(w, p, lines[Max(LinesOf(lines, p))].vid)
  BY LoadOK
<1>2. ASSUME NEW p \in FrontPorts, LinesOf(lines, p) = {}
      PROVE  Sits(w, p, IF w.pvid[p] = 1 THEN 1 ELSE OwnVlan(p))
  <2>1. Sits(w, p, 1) \/ Sits(w, p, OwnVlan(p))
    BY <1>1, <1>2 DEF VlansOK, PortSits
  <2>2. OwnVlan(p) # 1
    BY PortVlans
  <2> QED
    BY <2>1, <2>2 DEF Sits
<1>3. ASSUME NEW p \in FrontPorts, LinesOf(lines, p) # {}
      PROVE  /\ FileVlan(lines, p) # 0 /\ Sits(w, p, FileVlan(lines, p))
  <2>1. FileVlan(lines, p) = lines[Max(LinesOf(lines, p))].vid
    BY <1>3 DEF FileVlan
  <2>2. FileVlan(lines, p) # 0
    BY <1>3, <2>1, LastLine
  <2> QED
    BY <1>1, <1>3, <2>1, <2>2
<1>4. ASSUME NEW p \in FrontPorts, LinesOf(lines, p) = {} PROVE FileVlan(lines, p) = 0
  BY <1>4 DEF FileVlan
<1> QED
  BY <1>1, <1>2, <1>3, <1>4, Zenon DEF Applied

\* bcmd has loaded the groups and is not about to load them again.
GroupsLoaded == pc \in (Booting \ {"exec", "ports", "groups"}) \cup {"loop", "resync acls"}

\* No port is in a group when bcmd loads them; from then on the chip is as the
\* file says, unless a command is at work or has asked for a resync.
VlanIInv ==
  /\ VlansOK(vlan)
  /\ pc \in {"ports", "groups"} => Ungrouped(vlan)
  /\ GroupsLoaded /\ ~resync /\ cmd.pc = "none" => Applied(vlan, groups)

LEMMA PlainNow ==
  ASSUME FileTypeOK, PlainFiles
  PROVE  groups \in Lines /\ PlainGroups(groups)
<1>1. CASE groups = <<>>
  BY <1>1 DEF Lines, PlainGroups, LinesOf
<1>2. CASE groups \in GroupFiles
  BY <1>2, BcmdConfigAssumption DEF Lines, PlainFiles
<1> QED
  BY <1>1, <1>2 DEF FileTypeOK

LEMMA VlanStep ==
  ASSUME PlainFiles
  PROVE  FileTypeOK /\ VlanIInv /\ [Next]_vars => VlanIInv'
<1> SUFFICES ASSUME FileTypeOK, VlanIInv, [Next]_vars PROVE VlanIInv'
  OBVIOUS
<1>a. groups \in Lines /\ PlainGroups(groups)
  BY PlainNow
<1>1. CASE ChipInit
  BY <1>1, ChipVlansOK DEF ChipInit, At, VlanIInv, GroupsLoaded
<1>2. CASE PortsUp
  <2>1. PICK bad \in SUBSET Flaky : vlan' = Isolate(vlan, FrontPorts \ bad)
    BY <1>2 DEF PortsUp
  <2>2. VlansOK(vlan) /\ Ungrouped(vlan)
    BY <1>2 DEF VlanIInv, PortsUp, At
  <2>3. FrontPorts \ bad \subseteq FrontPorts
    OBVIOUS
  <2>4. VlansOK(vlan') /\ Ungrouped(vlan')
    BY <2>1, <2>2, <2>3, BootIsolates
  <2> QED
    BY <1>2, <2>4 DEF VlanIInv, PortsUp, At, GroupsLoaded
<1>3. CASE BootGroups
  <2>1. VlansOK(vlan) /\ Ungrouped(vlan)
    BY <1>3 DEF VlanIInv, BootGroups, At
  <2>2. vlan' = LoadGroups(vlan, groups) /\ groups' = groups /\ pc' = "acls"
    BY <1>3 DEF BootGroups, At, fileVars
  <2>3. VlansOK(vlan') /\ Applied(vlan', groups')
    BY <1>a, <2>1, <2>2, LoadApplies
  <2> QED
    BY <2>2, <2>3 DEF VlanIInv
<1>4. CASE ResyncGroups
  <2> DEFINE v == ResetGroups(vlan)
  <2>1. VlansOK(v) /\ Ungrouped(v)
    BY ResetUngroups DEF VlanIInv
  <2>2. vlan' = LoadGroups(v, groups) /\ groups' = groups /\ pc' = "resync acls"
    BY <1>4 DEF ResyncGroups, At, fileVars
  <2> HIDE DEF v
  <2>3. VlansOK(vlan') /\ Applied(vlan', groups')
    BY <1>a, <2>1, <2>2, LoadApplies
  <2> QED
    BY <2>2, <2>3 DEF VlanIInv
<1>b. ASSUME vlan' = vlan, groups' = groups, pc' \in {"ports", "groups"} => pc' = pc,
             GroupsLoaded' /\ ~resync' /\ cmd'.pc = "none" =>
               GroupsLoaded /\ ~resync /\ cmd.pc = "none"
      PROVE  VlanIInv'
  BY <1>b, Zenon DEF VlanIInv
<1>5. CASE BootAcls \/ Clear \/ Netifs \/ Filters \/ CatchAll \/ NetdevsUp \/ NlOpen
             \/ Handlers \/ Restart \/ HandleLink \/ Resync \/ ResyncAcls \/ Crash
             \/ \E p \in FrontPorts : SetAdmin(p)
  <2>1. vlan' = vlan /\ groups' = groups /\ cmd' = cmd
    BY <1>5 DEF BootAcls, Clear, Netifs, Filters, CatchAll, NetdevsUp, NlOpen, Handlers,
         Restart, HandleLink, Resync, ResyncAcls, Crash, SetAdmin, At, fileVars, chipVars
  <2>2. /\ pc' \in {"ports", "groups"} => pc' = pc
        /\ GroupsLoaded' => GroupsLoaded /\ resync' = resync
    BY <1>5 DEF BootAcls, Clear, Netifs, Filters, CatchAll, NetdevsUp, NlOpen, Handlers,
         Restart, HandleLink, Resync, ResyncAcls, Crash, SetAdmin, At, GroupsLoaded, Booting
  <2>3. GroupsLoaded' /\ ~resync' /\ cmd'.pc = "none" =>
          GroupsLoaded /\ ~resync /\ cmd.pc = "none"
    BY <2>1, <2>2
  <2> QED
    BY <1>b, <2>1, <2>2, <2>3, Zenon
<1>6. CASE CmdOpen \/ CmdWrite
  <2>1. cmd'.pc # "none"
    <3>1. CASE CmdOpen
      BY <3>1 DEF CmdOpen
    <3>2. CASE CmdWrite
      BY <3>2 DEF CmdWrite, FileTypeOK
    <3> QED
      BY <1>6, <3>1, <3>2
  <2>2. UNCHANGED <<vlan, pc>>
    BY <1>6 DEF CmdOpen, CmdWrite, chipVars
  <2> QED
    BY <2>1, <2>2 DEF VlanIInv
<1>7. CASE CmdHup
  <2>1. /\ UNCHANGED <<vlan, groups>> /\ resync' = (resync \/ HasHandler)
        /\ pc' = IF pc \in Booting THEN "dead" ELSE pc
    BY <1>7 DEF CmdHup, chipVars
  <2>2. GroupsLoaded' => resync'
    BY <2>1 DEF GroupsLoaded, Booting, HasHandler
  <2>3. pc' \in {"ports", "groups"} => pc' = pc
    BY <2>1
  <2> QED
    BY <1>b, <2>1, <2>2, <2>3
<1>8. CASE UNCHANGED vars
  BY <1>8, <1>b DEF vars, fileVars, chipVars, GroupsLoaded
<1> QED
  BY <1>1, <1>2, <1>3, <1>4, <1>5, <1>6, <1>7, <1>8 DEF Next, Boot, Loop, Command

\* bcmd bridges the ports as l2-groups.conf says whenever no change of it waits
\* to be taken over, whatever the file said before, in whichever step of the
\* start or of a resync it was changed, and whichever ports failed to come up.
THEOREM BridgedAsTheFileSays ==
  ASSUME PlainFiles
  PROVE  Spec => []BridgedAsFile
<1>1. Init => FileTypeOK /\ VlanIInv
  <2> SUFFICES ASSUME Init PROVE VlanIInv
    BY FileInit
  <2> QED
    BY ChipVlansOK DEF Init, VlanIInv, GroupsLoaded, Booting
<1>2. FileTypeOK /\ VlanIInv /\ [Next]_vars => (FileTypeOK /\ VlanIInv)'
  BY FileStep, VlanStep
<1>3. VlanIInv => BridgedAsFile
  BY AppliedMeans DEF VlanIInv, BridgedAsFile, Quiet, GroupsLoaded
<1> QED
  BY <1>1, <1>2, <1>3, PTL DEF Spec

-----------------------------------------------------------------------------
(* Ranks in an order.                                                      *)

Below(S, R, x) == {y \in S : <<y, x>> \in R}
RankIn(S, R) == [x \in S |-> Cardinality(Below(S, R, x))]

IsOrder(S, R) ==
  /\ \A x \in S : <<x, x>> \notin R
  /\ \A x, y, z \in S : <<x, y>> \in R /\ <<y, z>> \in R => <<x, z>> \in R
  /\ \A x, y \in S : x # y => <<x, y>> \in R \/ <<y, x>> \in R

\* In a finite set every rank from 0 on is that of one member, and members
\* with a smaller rank come before those with a larger one.
LEMMA RankBijection ==
  ASSUME NEW S, IsFiniteSet(S), NEW R, IsOrder(S, R)
  PROVE  /\ RankIn(S, R) \in Injection(S, 0..(Cardinality(S) - 1))
         /\ RankIn(S, R) \in Surjection(S, 0..(Cardinality(S) - 1))
         /\ \A x, y \in S : <<x, y>> \in R <=> RankIn(S, R)[x] < RankIn(S, R)[y]
<1> DEFINE n == Cardinality(S)
           rk == RankIn(S, R)
<1>1. n \in Nat
  BY FS_CardinalityType
<1>2. ASSUME NEW x \in S
      PROVE  /\ rk[x] = Cardinality(Below(S, R, x)) /\ IsFiniteSet(Below(S, R, x))
             /\ rk[x] \in 0..(n - 1)
  <2>1. Below(S, R, x) \in SUBSET (S \ {x})
    BY DEF Below, IsOrder
  <2>2. IsFiniteSet(S \ {x}) /\ Cardinality(S \ {x}) = n - 1
    BY FS_RemoveElement
  <2>3. /\ IsFiniteSet(Below(S, R, x)) /\ Cardinality(Below(S, R, x)) <= n - 1
        /\ Cardinality(Below(S, R, x)) \in Nat
    BY <2>1, <2>2, FS_Subset, FS_CardinalityType
  <2>4. rk[x] = Cardinality(Below(S, R, x))
    BY DEF RankIn
  <2> QED
    BY <1>1, <2>3, <2>4
<1>3. ASSUME NEW x \in S, NEW y \in S, <<x, y>> \in R PROVE rk[x] < rk[y]
  <2>1. Below(S, R, x) \cup {x} \in SUBSET Below(S, R, y) /\ x \notin Below(S, R, x)
    BY <1>3 DEF Below, IsOrder
  <2>2. Cardinality(Below(S, R, x) \cup {x}) = Cardinality(Below(S, R, x)) + 1
    BY <1>2, <2>1, FS_AddElement
  <2>3. Cardinality(Below(S, R, x) \cup {x}) <= Cardinality(Below(S, R, y))
    BY <1>2, <2>1, FS_Subset
  <2>4. rk[x] = Cardinality(Below(S, R, x)) /\ rk[y] = Cardinality(Below(S, R, y))
        /\ rk[x] \in Nat /\ rk[y] \in Nat
    BY <1>2
  <2> HIDE DEF rk
  <2> QED
    BY <2>2, <2>3, <2>4
<1>4. ASSUME NEW x \in S, NEW y \in S, x # y PROVE rk[x] < rk[y] \/ rk[y] < rk[x]
  BY <1>3, <1>4 DEF IsOrder
<1>5. rk \in [S -> 0..(n - 1)]
  <2>1. rk = [x \in S |-> rk[x]]
    BY DEF RankIn
  <2> HIDE DEF rk
  <2> QED
    BY <1>2, <2>1
<1> HIDE DEF rk
<1>6. rk \in Injection(S, 0..(n - 1))
  <2>1. \A x, y \in S : rk[x] = rk[y] => x = y
    BY <1>2, <1>4
  <2> QED
    BY <1>5, <2>1 DEF Injection, IsInjective
<1>7. IsFiniteSet(0..(n - 1)) /\ Cardinality(0..(n - 1)) = n
  BY <1>1, FS_Interval
<1>8. rk \in Surjection(S, 0..(n - 1))
  BY <1>6, <1>7, FS_Injection
<1>9. ASSUME NEW x \in S, NEW y \in S PROVE <<x, y>> \in R <=> rk[x] < rk[y]
  <2>1. CASE x = y
    BY <1>2, <2>1 DEF IsOrder
  <2>2. CASE x # y
    <3>1. <<x, y>> \in R \/ <<y, x>> \in R
      BY <2>2 DEF IsOrder
    <3>2. rk[x] \in Nat /\ rk[y] \in Nat
      BY <1>2
    <3> QED
      BY <1>3, <3>1, <3>2
  <2> QED
    BY <2>1, <2>2
<1> QED
  BY <1>6, <1>8, <1>9 DEF rk, n

\* Those of the first k ranks are k, or all there are.
LEMMA FirstRanks ==
  ASSUME NEW S, IsFiniteSet(S), NEW R, IsOrder(S, R), NEW k \in Nat
  PROVE  LET T == {x \in S : RankIn(S, R)[x] < k}
         IN  /\ IsFiniteSet(T)
             /\ Cardinality(T) = IF k <= Cardinality(S) THEN k ELSE Cardinality(S)
<1> DEFINE n == Cardinality(S)
           rk == RankIn(S, R)
           m == IF k <= n THEN k ELSE n
           T == {x \in S : rk[x] < k}
           f == [x \in T |-> rk[x]]
<1>1. rk \in Injection(S, 0..(n - 1)) /\ rk \in Surjection(S, 0..(n - 1)) /\ n \in Nat
  BY RankBijection, FS_CardinalityType
<1> HIDE DEF rk, n
<1>2. /\ rk \in [S -> 0..(n - 1)]
      /\ \A x, y \in S : rk[x] = rk[y] => x = y
      /\ \A i \in 0..(n - 1) : \E x \in S : rk[x] = i
  BY <1>1 DEF Injection, IsInjective, Surjection
<1>3. m \in Nat /\ m <= n /\ m <= k /\ \A i \in 0..(n - 1) : i < k <=> i \in 0..(m - 1)
  BY <1>1
<1> HIDE DEF m
<1>4. f \in Injection(T, 0..(m - 1))
  <2>1. \A x \in T : f[x] \in 0..(m - 1) /\ f[x] = rk[x] /\ x \in S
    BY <1>2, <1>3
  <2>2. f \in [T -> 0..(m - 1)]
    BY <2>1
  <2> QED
    BY <1>2, <2>1, <2>2 DEF Injection, IsInjective
<1>5. f \in Surjection(T, 0..(m - 1))
  <2>1. ASSUME NEW i \in 0..(m - 1) PROVE \E x \in T : f[x] = i
    <3>1. i \in 0..(n - 1) /\ i < k
      BY <1>1, <1>3
    <3>2. PICK x \in S : rk[x] = i
      BY <1>2, <3>1
    <3>3. x \in T /\ f[x] = i
      BY <3>1, <3>2
    <3> QED
      BY <3>3
  <2> QED
    BY <1>4, <2>1 DEF Surjection, Injection
<1>6. IsFiniteSet(0..(m - 1)) /\ Cardinality(0..(m - 1)) = m
  <2>1. m \in Nat /\ 0 \in Int /\ m - 1 \in Int
    BY <1>3
  <2>2. /\ IsFiniteSet(0..(m - 1))
        /\ Cardinality(0..(m - 1)) = IF 0 > m - 1 THEN 0 ELSE (m - 1) - 0 + 1
    BY <2>1, FS_Interval
  <2> QED
    BY <2>1, <2>2
<1> HIDE DEF f, T
<1>7. IsFiniteSet(T) /\ Cardinality(T) = m
  BY <1>4, <1>5, <1>6, FS_Injection
<1> QED
  BY <1>7 DEF T, m, n, rk

-----------------------------------------------------------------------------
(* The access lists.                                                       *)

LEMMA MinOfTwo ==
  ASSUME NEW a \in Nat, NEW b \in Nat
  PROVE  Min({a, b}) = IF a <= b THEN a ELSE b
<1>1. Min({a, b}) \in {a, b} /\ \A y \in {a, b} : Min({a, b}) <= y
  BY LeastOfNats
<1> QED
  BY <1>1

\* A one-to-one image of a finite set has as many members.
LEMMA ImageCount ==
  ASSUME NEW S, IsFiniteSet(S), NEW f, DOMAIN f = S, IsInjective(f),
         NEW T, T = {f[x] : x \in S}
  PROVE  IsFiniteSet(T) /\ Cardinality(T) = Cardinality(S)
<1>1. ExistsBijection(S, T)
  <2> DEFINE g == [x \in S |-> f[x]]
  <2>1. g \in [S -> T] /\ \A x \in S : g[x] = f[x]
    OBVIOUS
  <2> HIDE DEF g
  <2>2. g \in Injection(S, T)
    BY <2>1 DEF Injection, IsInjective
  <2>3. \A t \in T : \E x \in S : g[x] = t
    BY <2>1
  <2>4. g \in Bijection(S, T)
    BY <2>1, <2>2, <2>3 DEF Bijection, Surjection
  <2> QED
    BY <2>4 DEF ExistsBijection
<1> QED
  BY <1>1, FS_Bijection

\* The rules of a file that are loaded are numbered from 1 on.
LEMMA RulesNumbered ==
  ASSUME NEW lines \in AclFiles \cup {<<>>}
  PROVE  /\ IsFiniteSet(DOMAIN AclRules(lines)) /\ DOMAIN AclRules(lines) \subseteq Nat
<1> DEFINE S == {i \in DOMAIN lines : ~IsBind(lines[i])}
           k == Min({RuleMax, Cardinality(S)})
<1>1. IsFiniteSet(DOMAIN lines)
  <2>1. PICK n \in Nat : DOMAIN lines = 1..n
    <3>1. CASE lines = <<>>
      <4>1. DOMAIN lines = 1..0
        BY <3>1
      <4> QED
        BY <4>1
    <3>2. CASE lines \in AclFiles
      BY <3>2, BcmdConfigAssumption
    <3> QED
      BY <3>1, <3>2
  <2> QED
    BY <2>1, FS_Interval
<1>2. IsFiniteSet(S) /\ Cardinality(S) \in Nat
  <2>1. S \in SUBSET (DOMAIN lines)
    OBVIOUS
  <2> HIDE DEF S
  <2> QED
    BY <1>1, <2>1, FS_Subset, FS_CardinalityType
<1>3. k \in Nat
  <2> DEFINE n == Cardinality(S)
  <2>1. RuleMax \in Nat /\ n \in Nat
    BY <1>2, SwitchAssumption
  <2> HIDE DEF n
  <2> QED
    BY <2>1, MinOfTwo DEF n
<1>4. DOMAIN AclRules(lines) = 1..k
  BY DEF AclRules
<1> HIDE DEF k
<1> QED
  BY <1>3, <1>4, FS_Interval

\* The entries that a file asks for, a rule and a port each, in the order in
\* which they are installed.
Asked(lines) ==
  {x \in (DOMAIN AclRules(lines)) \X FrontPorts :
     x[2] \in BoundTo(lines, AclRules(lines)[x[1]].name)}

Before(W) ==
  {z \in W \X W : z[1][1] < z[2][1] \/ (z[1][1] = z[2][1] /\ z[1][2] < z[2][2])}

\* As many of them as fit.
Fitting(lines) ==
  LET W == Asked(lines) IN {x \in W : RankIn(W, Before(W))[x] < FpMax}

LEMMA AskedOrder ==
  ASSUME NEW lines \in AclFiles \cup {<<>>}
  PROVE  IsFiniteSet(Asked(lines)) /\ IsOrder(Asked(lines), Before(Asked(lines)))
<1> DEFINE W == Asked(lines)
           D == DOMAIN AclRules(lines)
<1>1. IsFiniteSet(D) /\ D \subseteq Nat
  BY RulesNumbered
<1>2. IsFiniteSet(FrontPorts) /\ FrontPorts \subseteq Nat
  BY SwitchAssumption
<1>3. IsFiniteSet(D \X FrontPorts)
  BY <1>1, <1>2, FS_Product
<1>4. W \in SUBSET (D \X FrontPorts)
  BY DEF Asked
<1> HIDE DEF W, D
<1>5. \A x \in W : x[1] \in Nat /\ x[2] \in Nat /\ x = <<x[1], x[2]>>
  <2>1. \A x \in D \X FrontPorts : x[1] \in D /\ x[2] \in FrontPorts /\ x = <<x[1], x[2]>>
    OBVIOUS
  <2> QED
    BY <1>1, <1>2, <1>4, <2>1
<1>6. \A x, y \in W : <<x, y>> \in Before(W) <=>
                        x[1] < y[1] \/ (x[1] = y[1] /\ x[2] < y[2])
  BY DEF Before
<1>7. IsOrder(W, Before(W))
  <2>1. \A x \in W : <<x, x>> \notin Before(W)
    BY <1>5, <1>6
  <2>2. \A x, y, z \in W : <<x, y>> \in Before(W) /\ <<y, z>> \in Before(W) =>
                            <<x, z>> \in Before(W)
    BY <1>5, <1>6
  <2>3. ASSUME NEW x \in W, NEW y \in W, x # y
        PROVE  <<x, y>> \in Before(W) \/ <<y, x>> \in Before(W)
    <3>1. x[1] # y[1] \/ x[2] # y[2]
      BY <1>5, <2>3
    <3> QED
      BY <1>5, <1>6, <3>1
  <2> QED
    BY <2>1, <2>2, <2>3 DEF IsOrder
<1> QED
  BY <1>3, <1>4, <1>7, FS_Subset DEF W

\* bcmd_load_acls on a field processor without entries.
LEMMA LoadedEntries ==
  ASSUME NEW lines \in AclFiles \cup {<<>>}
  PROVE  LET W == Asked(lines)
         IN  LoadAcls({}, lines) =
               {[rule |-> AclRules(lines)[x[1]], port |-> x[2],
                 known |-> RankIn(W, Before(W))[x] < EntryMax] : x \in Fitting(lines)}
<1> DEFINE W == Asked(lines)
           rank(x) == Cardinality({y \in W : y[1] < x[1] \/ (y[1] = x[1] /\ y[2] < x[2])})
           K == {x \in W : Cardinality({}) + rank(x) < FpMax}
<1>1. ASSUME NEW x \in W
      PROVE  rank(x) = RankIn(W, Before(W))[x] /\ rank(x) \in Nat
  <2>1. {y \in W : y[1] < x[1] \/ (y[1] = x[1] /\ y[2] < x[2])} = Below(W, Before(W), x)
    <3> HIDE DEF W
    <3> QED
      BY DEF Below, Before
  <2>2. RankIn(W, Before(W))[x] = Cardinality(Below(W, Before(W), x))
    BY DEF RankIn
  <2>3. Below(W, Before(W), x) \in SUBSET W
    BY DEF Below
  <2>4. Cardinality(Below(W, Before(W), x)) \in Nat
    BY <2>3, AskedOrder, FS_Subset, FS_CardinalityType
  <2> QED
    BY <2>1, <2>2, <2>4
<1>2. Cardinality({}) = 0
  BY FS_EmptySet
<1>3. LoadAcls({}, lines) =
        {[rule |-> AclRules(lines)[x[1]], port |-> x[2], known |-> rank(x) < EntryMax] : x \in K}
  BY DEF LoadAcls, Asked
<1> HIDE DEF W, rank
<1>4. K = {x \in W : RankIn(W, Before(W))[x] < FpMax}
  BY <1>1, <1>2
<1>5. K = Fitting(lines)
  BY <1>4 DEF Fitting, W
<1>6. \A x \in K : (rank(x) < EntryMax) = (RankIn(W, Before(W))[x] < EntryMax)
  BY <1>1
<1> HIDE DEF K
<1>7. {[rule |-> AclRules(lines)[x[1]], port |-> x[2], known |-> rank(x) < EntryMax] : x \in K}
        = {[rule |-> AclRules(lines)[x[1]], port |-> x[2],
            known |-> RankIn(W, Before(W))[x] < EntryMax] : x \in K}
  BY <1>6, Zenon
<1> QED
  BY <1>3, <1>5, <1>7, Zenon DEF W

\* No file has a rule twice, and bcmd has a record for every entry of the chip.
DistinctRules == \A f \in AclFiles : IsInjective(AclRules(f))
EntriesSuffice == FpMax <= EntryMax

\* AclsApplied, of entries e and a file.
Entered(e, lines) ==
  LET on == {x \in ToSet(AclRules(lines)) \X FrontPorts : x[2] \in BoundTo(lines, x[1].name)}
      has == {<<x.rule, x.port>> : x \in e}
  IN  /\ has \subseteq on /\ Cardinality(has) = Cardinality(e)
      /\ Cardinality(e) = Min({FpMax, Cardinality(on)})

LEMMA LoadEnters ==
  ASSUME DistinctRules, EntriesSuffice, NEW lines \in AclFiles \cup {<<>>}
  PROVE  /\ \A x \in LoadAcls({}, lines) : x.known
         /\ Entered(LoadAcls({}, lines), lines)
<1> DEFINE rs == AclRules(lines)
           W == Asked(lines)
           rk == RankIn(W, Before(W))
           K == Fitting(lines)
           e == LoadAcls({}, lines)
           on == {x \in ToSet(rs) \X FrontPorts : x[2] \in BoundTo(lines, x[1].name)}
           has == {<<x.rule, x.port>> : x \in e}
<1>1. /\ IsFiniteSet(W) /\ K \in SUBSET W
      /\ \A x \in W : rk[x] \in Nat
      /\ Cardinality(W) \in Nat
  <2>1. IsFiniteSet(W) /\ IsOrder(W, Before(W))
    BY AskedOrder
  <2>2. rk \in Injection(W, 0..(Cardinality(W) - 1)) /\ Cardinality(W) \in Nat
    BY <2>1, RankBijection, FS_CardinalityType
  <2>3. K \in SUBSET W
    BY DEF Fitting
  <2> HIDE DEF W, rk, K
  <2>4. rk \in [W -> 0..(Cardinality(W) - 1)]
    BY <2>2 DEF Injection
  <2> QED
    BY <2>1, <2>2, <2>3, <2>4
<1>2. IsFiniteSet(K) /\ Cardinality(K) = IF FpMax <= Cardinality(W) THEN FpMax ELSE Cardinality(W)
  <2>1. FpMax \in Nat
    BY SwitchAssumption
  <2> QED
    BY <2>1, AskedOrder, FirstRanks DEF Fitting
<1>3. \A x \in K : (rk[x] < EntryMax) = TRUE
  <2>1. FpMax \in Nat /\ EntryMax \in Nat /\ FpMax <= EntryMax
    BY SwitchAssumption DEF EntriesSuffice
  <2>2. \A x \in K : rk[x] < FpMax
    BY DEF Fitting
  <2> HIDE DEF rk, K, W
  <2> QED
    BY <1>1, <2>1, <2>2
<1>4. e = {[rule |-> rs[x[1]], port |-> x[2], known |-> TRUE] : x \in K}
  <2>1. e = {[rule |-> rs[x[1]], port |-> x[2], known |-> rk[x] < EntryMax] : x \in K}
    BY LoadedEntries
  <2> HIDE DEF rk, K, W, e, rs
  <2> QED
    BY <1>3, <2>1, Zenon
<1>5. \A x \in W : /\ x[1] \in DOMAIN rs /\ x[2] \in FrontPorts /\ x = <<x[1], x[2]>>
                   /\ x[2] \in BoundTo(lines, rs[x[1]].name)
  <2>1. \A x \in (DOMAIN rs) \X FrontPorts :
          x[1] \in DOMAIN rs /\ x[2] \in FrontPorts /\ x = <<x[1], x[2]>>
    OBVIOUS
  <2> QED
    BY <2>1 DEF Asked
<1>6. \A i, j \in DOMAIN rs : rs[i] = rs[j] => i = j
  <2>1. CASE lines \in AclFiles
    BY <2>1 DEF DistinctRules, IsInjective
  <2>2. CASE lines = <<>>
    <3>1. DOMAIN <<>> = 1..0 /\ RuleMax \in Nat
      BY SwitchAssumption
    <3>2. DOMAIN rs = {}
      <4> DEFINE S == {i \in DOMAIN lines : ~IsBind(lines[i])}
      <4>1. S = {}
        BY <2>2, <3>1
      <4>2. Cardinality(S) = 0
        BY <4>1, FS_EmptySet
      <4> HIDE DEF S
      <4>3. Min({RuleMax, Cardinality(S)}) = 0
        BY <3>1, <4>2, MinOfTwo
      <4>4. DOMAIN rs = 1..Min({RuleMax, Cardinality(S)})
        BY DEF AclRules, S
      <4> QED
        BY <4>3, <4>4
    <3> QED
      BY <3>2
  <2> QED
    BY <2>1, <2>2
<1> HIDE DEF rs, W, K, rk, e
<1>7. IsFiniteSet(e) /\ Cardinality(e) = Cardinality(K)
  <2> DEFINE f == [x \in K |-> [rule |-> rs[x[1]], port |-> x[2], known |-> TRUE]]
  <2>1. \A x, y \in K : f[x] = f[y] => x = y
    BY <1>1, <1>5, <1>6
  <2>2. DOMAIN f = K /\ e = {f[x] : x \in K}
    BY <1>4
  <2> HIDE DEF f
  <2> QED
    BY <1>2, <2>1, <2>2, ImageCount DEF IsInjective
<1>8. Cardinality(has) = Cardinality(e)
  <2> DEFINE f == [x \in e |-> <<x.rule, x.port>>]
  <2>1. ASSUME NEW x \in e, NEW y \in e, f[x] = f[y] PROVE x = y
    <3>1. PICK a \in K : x = [rule |-> rs[a[1]], port |-> a[2], known |-> TRUE]
      BY <1>4
    <3>2. PICK b \in K : y = [rule |-> rs[b[1]], port |-> b[2], known |-> TRUE]
      BY <1>4
    <3>3. x.rule = y.rule /\ x.port = y.port
      BY <2>1
    <3>4. rs[a[1]] = rs[b[1]] /\ a[2] = b[2]
      BY <3>1, <3>2, <3>3
    <3> QED
      BY <3>1, <3>2, <3>4
  <2>2. DOMAIN f = e /\ has = {f[x] : x \in e}
    OBVIOUS
  <2> HIDE DEF f, has
  <2> QED
    BY <1>7, <2>1, <2>2, ImageCount DEF IsInjective
<1>9. on = {<<rs[x[1]], x[2]>> : x \in W}
  <2>1. ASSUME NEW x \in W PROVE <<rs[x[1]], x[2]>> \in on
    BY <1>5 DEF ToSet
  <2>2. ASSUME NEW z \in on PROVE \E x \in W : z = <<rs[x[1]], x[2]>>
    <3>1. PICK i \in DOMAIN rs, p \in FrontPorts : z = <<rs[i], p>>
      BY DEF ToSet
    <3>2. <<i, p>> \in W
      BY <3>1 DEF W, rs, Asked
    <3> QED
      BY <3>1, <3>2
  <2> HIDE DEF on
  <2> QED
    BY <2>1, <2>2
<1>10. Cardinality(on) = Cardinality(W)
  <2> DEFINE f == [x \in W |-> <<rs[x[1]], x[2]>>]
  <2>1. \A x, y \in W : f[x] = f[y] => x = y
    BY <1>5, <1>6
  <2>2. DOMAIN f = W /\ on = {f[x] : x \in W}
    BY <1>9
  <2> HIDE DEF f, on
  <2> QED
    BY <1>1, <2>1, <2>2, ImageCount DEF IsInjective
<1>11. has \subseteq on
  <2>1. ASSUME NEW z \in has PROVE z \in on
    <3>1. PICK x \in K : z = <<rs[x[1]], x[2]>>
      BY <1>4
    <3> QED
      BY <1>1, <1>9, <3>1
  <2> QED
    BY <2>1
<1>12. Cardinality(e) = Min({FpMax, Cardinality(on)})
  <2>1. FpMax \in Nat
    BY SwitchAssumption
  <2> HIDE DEF on
  <2> QED
    BY <1>1, <1>2, <1>7, <1>10, <2>1, MinOfTwo
<1>13. \A x \in e : x.known
  BY <1>4
<1> QED
  BY <1>8, <1>11, <1>12, <1>13, Zenon DEF Entered, e, rs

\* bcmd has loaded the access lists and is not about to load them again.
AclsLoaded == pc \in (Booting \ {"exec", "ports", "groups", "acls"}) \cup {"loop"}

\* bcmd has every entry of the chip on record; from the load on they are those
\* of the file, unless a command is at work or has asked for a resync.
AclIInv ==
  /\ \A x \in fp : x.known
  /\ pc \in {"ports", "groups", "acls"} => fp = {}
  /\ AclsLoaded /\ ~resync /\ cmd.pc = "none" => Entered(fp, acls)

LEMMA AclStep ==
  ASSUME DistinctRules, EntriesSuffice
  PROVE  FileTypeOK /\ AclIInv /\ [Next]_vars => AclIInv'
<1> SUFFICES ASSUME FileTypeOK, AclIInv, [Next]_vars PROVE AclIInv'
  OBVIOUS
<1>a. acls \in AclFiles \cup {<<>>}
  BY DEF FileTypeOK
<1>b. ASSUME fp' = fp, acls' = acls, pc' \in {"ports", "groups", "acls"} => fp' = {},
             AclsLoaded' /\ ~resync' /\ cmd'.pc = "none" =>
               AclsLoaded /\ ~resync /\ cmd.pc = "none"
      PROVE  AclIInv'
  BY <1>b, Zenon DEF AclIInv
<1>c. ASSUME fp' = LoadAcls({}, acls), acls' = acls, pc' \notin {"ports", "groups", "acls"}
      PROVE  AclIInv'
  <2>1. (\A x \in fp' : x.known) /\ Entered(fp', acls')
    BY <1>a, <1>c, LoadEnters
  <2> QED
    BY <1>c, <2>1 DEF AclIInv
<1>1. CASE ChipInit
  BY <1>1 DEF ChipInit, At, AclIInv, AclsLoaded
<1>2. CASE BootAcls
  <2>1. fp = {} /\ fp' = LoadAcls(fp, acls) /\ acls' = acls /\ pc' = "clear"
    BY <1>2 DEF BootAcls, At, AclIInv, fileVars
  <2> QED
    BY <1>c, <2>1
<1>3. CASE ResyncAcls
  <2>1. fp' = LoadAcls(AclReset(fp), acls) /\ acls' = acls /\ pc' = "loop"
    BY <1>3 DEF ResyncAcls, At, fileVars
  <2>2. AclReset(fp) = {}
    BY DEF AclIInv, AclReset
  <2> QED
    BY <1>c, <2>1, <2>2
<1>4. CASE PortsUp \/ BootGroups \/ Clear \/ Netifs \/ Filters \/ CatchAll \/ NetdevsUp
             \/ NlOpen \/ Handlers \/ Restart \/ HandleLink \/ Resync \/ ResyncGroups
             \/ Crash \/ \E p \in FrontPorts : SetAdmin(p)
  <2>1. fp' = fp /\ acls' = acls /\ cmd' = cmd
    BY <1>4 DEF PortsUp, BootGroups, Clear, Netifs, Filters, CatchAll, NetdevsUp, NlOpen,
         Handlers, Restart, HandleLink, Resync, ResyncGroups, Crash, SetAdmin, At,
         fileVars, chipVars
  <2>2. /\ pc' \in {"ports", "groups", "acls"} => pc \in {"ports", "groups", "acls"}
        /\ AclsLoaded' => AclsLoaded /\ resync' = resync
    BY <1>4 DEF PortsUp, BootGroups, Clear, Netifs, Filters, CatchAll, NetdevsUp, NlOpen,
         Handlers, Restart, HandleLink, Resync, ResyncGroups, Crash, SetAdmin, At,
         AclsLoaded, Booting
  <2>3. AclsLoaded' /\ ~resync' /\ cmd'.pc = "none" =>
          AclsLoaded /\ ~resync /\ cmd.pc = "none"
    BY <2>1, <2>2
  <2>4. pc' \in {"ports", "groups", "acls"} => fp' = {}
    BY <2>1, <2>2 DEF AclIInv
  <2> QED
    BY <1>b, <2>1, <2>3, <2>4, Zenon
<1>5. CASE CmdOpen \/ CmdWrite
  <2>1. cmd'.pc # "none"
    <3>1. CASE CmdOpen
      BY <3>1 DEF CmdOpen
    <3>2. CASE CmdWrite
      BY <3>2 DEF CmdWrite, FileTypeOK
    <3> QED
      BY <1>5, <3>1, <3>2
  <2>2. UNCHANGED <<fp, pc>>
    BY <1>5 DEF CmdOpen, CmdWrite, chipVars
  <2> QED
    BY <2>1, <2>2 DEF AclIInv
<1>6. CASE CmdHup
  <2>1. /\ UNCHANGED <<fp, acls>> /\ resync' = (resync \/ HasHandler)
        /\ pc' = IF pc \in Booting THEN "dead" ELSE pc
    BY <1>6 DEF CmdHup, chipVars
  <2>2. AclsLoaded' => resync'
    BY <2>1 DEF AclsLoaded, Booting, HasHandler
  <2>3. pc' \in {"ports", "groups", "acls"} => fp' = {}
    BY <2>1 DEF AclIInv
  <2> QED
    BY <1>b, <2>1, <2>2, <2>3
<1>7. CASE UNCHANGED vars
  <2>1. fp' = fp /\ acls' = acls /\ pc' = pc /\ resync' = resync /\ cmd' = cmd
    BY <1>7 DEF vars, fileVars, chipVars
  <2> QED
    BY <1>b, <2>1 DEF AclsLoaded, AclIInv
<1> QED
  BY <1>1, <1>2, <1>3, <1>4, <1>5, <1>6, <1>7 DEF Next, Boot, Loop, Command

\* The chip has an entry for every rule that acls.conf applies and each of its
\* ports, and no other, as far as they fit and whenever no change of the file
\* waits to be taken over: bcmd_acl_reset leaves none behind, as bcmd has all of
\* them on record.
THEOREM AclsAsTheFileSays ==
  ASSUME DistinctRules, EntriesSuffice
  PROVE  Spec => []AclsAsFile
<1>1. Init => FileTypeOK /\ AclIInv
  <2> SUFFICES ASSUME Init PROVE AclIInv
    BY FileInit
  <2> QED
    BY DEF Init, AclIInv, AclsLoaded, Booting
<1>2. FileTypeOK /\ AclIInv /\ [Next]_vars => (FileTypeOK /\ AclIInv)'
  BY FileStep, AclStep
<1>3. AclIInv => AclsAsFile
  <2>1. Entered(fp, acls) => AclsApplied
    BY Zenon DEF Entered, AclsApplied
  <2> QED
    BY <2>1 DEF AclIInv, AclsAsFile, Quiet, AclsLoaded
<1> QED
  BY <1>1, <1>2, <1>3, PTL DEF Spec

-----------------------------------------------------------------------------
(* The netdevs and filters of the kernel module.                           *)

\* InOrder gives every member of a finite set of numbers once, the lowest first.
LEMMA InOrderOnce ==
  ASSUME NEW S, IsFiniteSet(S), S \subseteq Nat
  PROVE  LET o == InOrder(S) IN
         /\ Cardinality(S) \in Nat /\ o \in [1..Cardinality(S) -> S]
         /\ \A i, j \in DOMAIN o : i < j => o[i] < o[j]
         /\ \A i, j \in DOMAIN o : o[i] = o[j] => i = j
         /\ ToSet(o) = S
<1> DEFINE n == Cardinality(S)
           R == {z \in S \X S : z[1] < z[2]}
           rk == RankIn(S, R)
           o == InOrder(S)
<1>1. \A x, y \in S : <<x, y>> \in R <=> x < y
  OBVIOUS
<1>2. \A x \in S : rk[x] = Cardinality({y \in S : y < x})
  <2>1. \A x \in S : {y \in S : y < x} = Below(S, R, x)
    BY <1>1 DEF Below
  <2> QED
    BY <2>1 DEF RankIn
<1> HIDE DEF R
<1>3. IsOrder(S, R)
  BY <1>1 DEF IsOrder
<1>4. /\ rk \in Injection(S, 0..(n - 1)) /\ rk \in Surjection(S, 0..(n - 1)) /\ n \in Nat
      /\ \A x, y \in S : <<x, y>> \in R <=> rk[x] < rk[y]
  BY <1>3, RankBijection, FS_CardinalityType
<1> DEFINE c(i) == CHOOSE x \in S : Cardinality({y \in S : y < x}) = i - 1
<1>5. o = [i \in 1..n |-> c(i)]
  BY DEF InOrder
<1> HIDE DEF rk, n, o, c
<1>6. /\ \A x \in S : rk[x] \in 0..(n - 1)
      /\ \A x, y \in S : rk[x] = rk[y] => x = y
      /\ \A i \in 0..(n - 1) : \E x \in S : rk[x] = i
  BY <1>4 DEF Injection, IsInjective, Surjection
<1>7. ASSUME NEW i \in 1..n PROVE o[i] \in S /\ rk[o[i]] = i - 1
  <2>1. i - 1 \in 0..(n - 1)
    BY <1>4
  <2>2. \E x \in S : Cardinality({y \in S : y < x}) = i - 1
    BY <1>2, <1>6, <2>1
  <2>3. o[i] \in S /\ Cardinality({y \in S : y < o[i]}) = i - 1
    <3>1. o[i] = c(i)
      BY <1>5
    <3> QED
      BY <2>2, <3>1, Zenon DEF c
  <2> QED
    BY <1>2, <2>3
<1>8. o \in [1..n -> S]
  <2>1. DOMAIN o = 1..n /\ o = [i \in 1..n |-> o[i]]
    BY <1>5
  <2> QED
    BY <1>7, <2>1
<1>9. ASSUME NEW i \in 1..n, NEW j \in 1..n, i < j PROVE o[i] < o[j]
  <2>1. rk[o[i]] < rk[o[j]]
    BY <1>4, <1>7, <1>9
  <2> QED
    BY <1>1, <1>4, <1>7, <2>1
<1>10. ASSUME NEW i \in 1..n, NEW j \in 1..n, o[i] = o[j] PROVE i = j
  <2>1. i - 1 = j - 1
    BY <1>7, <1>10
  <2> QED
    BY <1>4, <2>1
<1>11. ASSUME NEW x \in S PROVE \E i \in 1..n : o[i] = x
  <2>1. rk[x] + 1 \in 1..n /\ (rk[x] + 1) - 1 = rk[x]
    BY <1>4, <1>6
  <2>2. rk[o[rk[x] + 1]] = rk[x] /\ o[rk[x] + 1] \in S
    BY <1>7, <2>1
  <2> QED
    BY <1>6, <2>1, <2>2
<1>12. ToSet(o) = S
  BY <1>8, <1>11 DEF ToSet
<1> QED
  BY <1>4, <1>8, <1>9, <1>10, <1>12 DEF o, n

KnetFields(k) == k = [netif |-> k.netif, filter |-> k.filter]

\* The netdevs are those of some of the ports, in the order of the ports.
NetifsOK(k) == \E S \in SUBSET FrontPorts : k.netif = InOrder(S)

\* A filter takes what comes in at a port to the netdev of the port.
PortFilters(k) ==
  /\ k.filter \in Seq([port : FrontPorts, dest : DOMAIN k.netif])
  /\ \A i \in DOMAIN k.filter : k.netif[k.filter[i].dest] = k.filter[i].port

\* OwnNetdev, of a record.
Delivers(k) ==
  ToSet(k.netif) # {} =>
    \A p \in FrontPorts :
      DeliveredTo(k, p) = IF \E i \in DOMAIN k.filter : k.filter[i].port = p
                          THEN p ELSE Min(ToSet(k.netif))

LEMMA NetifsInOrder ==
  ASSUME NEW k, NetifsOK(k)
  PROVE  \E n \in Nat :
           /\ DOMAIN k.netif = 1..n
           /\ \A i \in 1..n : k.netif[i] \in FrontPorts
           /\ ToSet(k.netif) # {} =>
                1 \in 1..n /\ Min(DOMAIN k.netif) = 1 /\ k.netif[1] = Min(ToSet(k.netif))
<1> DEFINE f == k.netif
<1>1. PICK S \in SUBSET FrontPorts : f = InOrder(S)
  BY DEF NetifsOK
<1>2. IsFiniteSet(S) /\ S \subseteq Nat
  BY SwitchAssumption, FS_Subset
<1>3. PICK n \in Nat : n = Cardinality(S)
  BY <1>2, FS_CardinalityType
<1>4. /\ f \in [1..n -> S] /\ ToSet(f) = S
      /\ \A i, j \in 1..n : i < j => f[i] < f[j]
  <2> DEFINE o == InOrder(S)
  <2>1. /\ o \in [1..n -> S] /\ ToSet(o) = S
        /\ \A i, j \in DOMAIN o : i < j => o[i] < o[j]
    BY <1>2, <1>3, InOrderOnce
  <2> HIDE DEF o
  <2>2. DOMAIN o = 1..n
    BY <2>1
  <2>3. f = o
    BY <1>1 DEF o
  <2> QED
    BY <2>1, <2>2, <2>3
<1> HIDE DEF f
<1>5. ASSUME S # {}
      PROVE  1 \in 1..n /\ Min(1..n) = 1 /\ f[1] = Min(S)
  <2>1. 1 \in 1..n
    BY <1>4, <1>5 DEF ToSet
  <2>2. Min(1..n) \in 1..n /\ \A y \in 1..n : Min(1..n) <= y
    <3>1. 1..n \subseteq Nat /\ 1..n # {}
      BY <2>1
    <3> QED
      BY <3>1, LeastOfNats
  <2>3. Min(S) \in S /\ \A y \in S : Min(S) <= y
    BY <1>2, <1>5, LeastOfNats
  <2>4. PICK i \in 1..n : f[i] = Min(S)
    BY <1>4, <2>3 DEF ToSet
  <2>5. f[1] \in S /\ f[1] \in Nat /\ f[i] \in Nat
    BY <1>2, <1>4, <2>1
  <2>6. i = 1
    BY <1>4, <2>1, <2>3, <2>4, <2>5
  <2> QED
    BY <2>1, <2>2, <2>4, <2>6
<1> QED
  BY <1>4, <1>5 DEF f

\* The netdevs that bcmd_knet_setup creates.
LEMMA NetifsMade ==
  ASSUME NEW k, KnetFields(k), NEW bad, NEW h, h = KnetNetifs(k, bad)
  PROVE  KnetFields(h) /\ NetifsOK(h) /\ h.filter = k.filter
<1> DEFINE made == InOrder(FrontPorts \ bad)
<1>1. made = [i \in DOMAIN made |-> made[i]]
  BY DEF InOrder
<1>2. h = [k EXCEPT !.netif = [i \in DOMAIN made |-> made[i]]]
  BY DEF KnetNetifs
<1> HIDE DEF made
<1>3. h.netif = made /\ h.filter = k.filter /\ KnetFields(h)
  BY <1>1, <1>2 DEF KnetFields
<1> QED
  BY <1>3 DEF NetifsOK, made

\* The filters that it creates, on none.
LEMMA FiltersMade ==
  ASSUME NEW k, KnetFields(k), NetifsOK(k), k.filter = <<>>, NEW bad,
         NEW h, h = KnetFilters(k, bad)
  PROVE  KnetFields(h) /\ NetifsOK(h) /\ PortFilters(h)
<1> DEFINE T == {i \in DOMAIN k.netif : k.netif[i] \notin bad}
           ids == InOrder(T)
           F == [port : FrontPorts, dest : DOMAIN k.netif]
           g == [i \in DOMAIN ids |-> [port |-> k.netif[ids[i]], dest |-> ids[i]]]
<1>1. PICK n \in Nat : DOMAIN k.netif = 1..n /\ \A i \in 1..n : k.netif[i] \in FrontPorts
  BY NetifsInOrder
<1>2. IsFiniteSet(T) /\ T \subseteq Nat
  <2>1. IsFiniteSet(1..n)
    BY <1>1, FS_Interval
  <2>2. T \in SUBSET (1..n)
    BY <1>1
  <2> HIDE DEF T
  <2>3. T \subseteq Nat
    BY <2>2
  <2> QED
    BY <2>1, <2>2, <2>3, FS_Subset
<1>3. PICK m \in Nat : ids \in [1..m -> T]
  <2> HIDE DEF T
  <2> QED
    BY <1>2, InOrderOnce
<1>4. h = [k EXCEPT !.filter = @ \o g]
  BY DEF KnetFilters
<1>5. \A i \in 1..m : ids[i] \in DOMAIN k.netif
  <2> HIDE DEF ids
  <2> QED
    BY <1>3
<1> HIDE DEF ids
<1>6. \A i \in 1..m : g[i] \in F /\ k.netif[g[i].dest] = g[i].port
  BY <1>1, <1>3, <1>5
<1>7. g \in Seq(F) /\ DOMAIN g = 1..m
  <2>1. DOMAIN g = 1..m /\ g = [i \in 1..m |-> g[i]]
    BY <1>3
  <2> HIDE DEF g, F
  <2> QED
    BY <1>6, <2>1
<1> HIDE DEF g, F
<1>8. <<>> \o g = g
  BY <1>7
<1>9. KnetFields(h) /\ h.netif = k.netif /\ h.filter = g
  BY <1>4, <1>8 DEF KnetFields
<1> QED
  BY <1>6, <1>7, <1>9 DEF NetifsOK, PortFilters, F

\* With the catch-all behind them the filters deliver.
LEMMA CatchAllDelivers ==
  ASSUME NEW k, KnetFields(k), NetifsOK(k), PortFilters(k), NEW h, h = KnetCatchAll(k)
  PROVE  Delivers(h)
<1>1. PICK n \in Nat :
        /\ DOMAIN k.netif = 1..n
        /\ \A i \in 1..n : k.netif[i] \in FrontPorts
        /\ ToSet(k.netif) # {} =>
             1 \in 1..n /\ Min(DOMAIN k.netif) = 1 /\ k.netif[1] = Min(ToSet(k.netif))
  BY NetifsInOrder
<1>2. CASE k.netif = <<>>
  BY <1>2 DEF KnetCatchAll, Delivers, ToSet
<1>3. ASSUME k.netif # <<>>, ToSet(h.netif) # {}, NEW p \in FrontPorts
      PROVE  DeliveredTo(h, p) = IF \E i \in DOMAIN h.filter : h.filter[i].port = p
                                 THEN p ELSE Min(ToSet(h.netif))
  <2> DEFINE q == k.filter
             F == [port : FrontPorts, dest : DOMAIN k.netif]
             e == [port |-> 0, dest |-> Min(DOMAIN k.netif)]
             f == h.filter
             m == Len(q)
             S == {i \in DOMAIN f : f[i].port \in {0, p}}
  <2>1. h.netif = k.netif /\ f = Append(q, e)
    BY <1>3 DEF KnetCatchAll, KnetFields
  <2>2. /\ q \in Seq(F)
        /\ \A i \in 1..m : k.netif[q[i].dest] = q[i].port
    BY DEF PortFilters
  <2>3. e.port = 0 /\ e.dest = 1 /\ 1 \in DOMAIN h.netif /\ h.netif[1] = Min(ToSet(h.netif))
    BY <1>1, <1>3, <2>1
  <2> HIDE DEF e
  <2>4. /\ m \in Nat /\ DOMAIN f = 1..(m + 1) /\ f[m + 1] = e
        /\ \A i \in 1..m : f[i] = q[i]
    <3> HIDE DEF q, F, f
    <3> QED
      BY <2>1, <2>2
  <2>5. \A i \in 1..m : /\ f[i].port \in FrontPorts /\ f[i].port # 0
                         /\ f[i].dest \in DOMAIN h.netif /\ h.netif[f[i].dest] = f[i].port
    <3>1. \A i \in 1..m : q[i] \in F
      <4> HIDE DEF q, F
      <4> QED
        BY <2>2
    <3>2. \A i \in 1..m : q[i].port \in FrontPorts /\ q[i].dest \in DOMAIN k.netif
      BY <3>1
    <3>3. 0 \notin FrontPorts
      BY SwitchAssumption
    <3> HIDE DEF q, F, f
    <3> QED
      BY <2>1, <2>2, <2>4, <3>2, <3>3
  <2> HIDE DEF q, f, F
  <2>6. m + 1 \in S /\ S \subseteq Nat
    BY <2>3, <2>4
  <2>7. Min(S) \in S /\ \A y \in S : Min(S) <= y
    BY <2>6, LeastOfNats
  <2>8. DeliveredTo(h, p) =
          IF f[Min(S)].dest \notin DOMAIN h.netif THEN 0 ELSE h.netif[f[Min(S)].dest]
    BY <2>6 DEF DeliveredTo, f
  <2> DEFINE c == Min(S)
  <2>9. c \in 1..(m + 1) /\ f[c].port \in {0, p}
    BY <2>4, <2>7
  <2>10. CASE \E i \in DOMAIN f : f[i].port = p
    <3>1. PICK i \in 1..(m + 1) : f[i].port = p
      BY <2>4, <2>10
    <3>2. p # 0 /\ i # m + 1
      BY <2>3, <2>4, <3>1, SwitchAssumption
    <3>3. i \in S /\ c <= i
      BY <2>4, <2>7, <3>1
    <3> HIDE DEF c, S
    <3>4. c \in 1..m
      BY <2>4, <2>9, <3>2, <3>3
    <3>5. f[c].port = p
      BY <2>5, <2>9, <3>4
    <3> QED
      BY <2>5, <2>8, <2>10, <3>4, <3>5 DEF c, f
  <2>11. CASE ~\E i \in DOMAIN f : f[i].port = p
    <3>1. f[c].port = 0
      BY <2>4, <2>9, <2>11
    <3>2. c = m + 1
      <4> HIDE DEF c, S
      <4> QED
        BY <2>4, <2>5, <2>9, <3>1
    <3> HIDE DEF c
    <3> QED
      BY <2>3, <2>4, <2>8, <2>11, <3>2 DEF c, f
  <2> QED
    BY <2>10, <2>11 DEF f
<1> QED
  BY <1>2, <1>3 DEF Delivers

\* What the kernel module holds at each step of bcmd_knet_setup, and from its
\* end on as long as bcmd runs.
KnetIInv ==
  /\ pc = "netifs" => knet = KnetNone
  /\ pc \in {"filters", "catch-all"} => KnetFields(knet) /\ NetifsOK(knet)
  /\ pc = "filters" => knet.filter = <<>>
  /\ pc = "catch-all" => PortFilters(knet)
  /\ pc \in {"netdevs", "open", "dumps", "loop", "resync groups", "resync acls"} =>
       Delivers(knet)

LEMMA KnetStep == KnetIInv /\ [Next]_vars => KnetIInv'
<1> SUFFICES ASSUME KnetIInv, [Next]_vars PROVE KnetIInv'
  OBVIOUS
<1>1. CASE Clear
  BY <1>1 DEF Clear, At, KnetClear, KnetIInv
<1>2. CASE Netifs
  <2>1. PICK bad \in SUBSET Flaky : knet' = KnetNetifs(knet, bad)
    BY <1>2 DEF Netifs
  <2>2. knet = KnetNone /\ pc' = "filters"
    BY <1>2 DEF Netifs, At, KnetIInv
  <2>3. KnetFields(knet) /\ knet.filter = <<>>
    BY <2>2 DEF KnetNone, KnetFields
  <2>4. KnetFields(knet') /\ NetifsOK(knet') /\ knet'.filter = <<>>
    BY <2>1, <2>3, NetifsMade
  <2> QED
    BY <2>2, <2>4 DEF KnetIInv
<1>3. CASE Filters
  <2>1. PICK bad \in SUBSET Flaky : knet' = KnetFilters(knet, bad)
    BY <1>3 DEF Filters
  <2>2. KnetFields(knet) /\ NetifsOK(knet) /\ knet.filter = <<>> /\ pc' = "catch-all"
    BY <1>3 DEF Filters, At, KnetIInv
  <2>3. KnetFields(knet') /\ NetifsOK(knet') /\ PortFilters(knet')
    BY <2>1, <2>2, FiltersMade
  <2> QED
    BY <2>2, <2>3 DEF KnetIInv
<1>4. CASE CatchAll
  <2>1. KnetFields(knet) /\ NetifsOK(knet) /\ PortFilters(knet) /\ pc' = "netdevs"
    BY <1>4 DEF CatchAll, At, KnetIInv
  <2>2. Delivers(knet')
    BY <1>4, <2>1, CatchAllDelivers DEF CatchAll
  <2> QED
    BY <2>1, <2>2 DEF KnetIInv
<1>a. ASSUME knet' = knet, pc' = pc PROVE KnetIInv'
  BY <1>a, Zenon DEF KnetIInv
<1>5. CASE CmdOpen \/ CmdWrite \/ HandleLink \/ (\E p \in FrontPorts : SetAdmin(p))
             \/ UNCHANGED vars
  <2>1. knet' = knet /\ pc' = pc
    BY <1>5 DEF CmdOpen, CmdWrite, HandleLink, SetAdmin, vars
  <2> QED
    BY <1>a, <2>1
<1>6. CASE CmdHup
  <2>1. knet' = knet /\ (pc' = pc \/ pc' = "dead")
    BY <1>6 DEF CmdHup
  <2> QED
    BY <1>a, <2>1 DEF KnetIInv
<1>7. CASE NetdevsUp \/ NlOpen \/ Handlers \/ Resync \/ ResyncGroups \/ ResyncAcls
  <2>1. /\ knet' = knet /\ pc \in {"netdevs", "open", "dumps", "loop", "resync groups", "resync acls"}
        /\ pc' \in {"open", "dumps", "loop", "resync groups", "resync acls"}
    BY <1>7 DEF NetdevsUp, NlOpen, Handlers, Resync, ResyncGroups, ResyncAcls, At
  <2>2. Delivers(knet)
    BY <2>1 DEF KnetIInv
  <2> QED
    BY <2>1, <2>2 DEF KnetIInv
<1>8. CASE ChipInit \/ PortsUp \/ BootGroups \/ BootAcls \/ Restart \/ Crash
  <2>1. pc' \in {"exec", "ports", "groups", "acls", "clear", "down"}
    BY <1>8 DEF ChipInit, PortsUp, BootGroups, BootAcls, Restart, Crash, At
  <2> QED
    BY <2>1 DEF KnetIInv
<1> QED
  BY <1>1, <1>2, <1>3, <1>4, <1>5, <1>6, <1>7, <1>8 DEF Next, Boot, Loop, Command

\* Frames reach the host on the netdev of the port they came in at, whatever
\* netdevs and filters an earlier bcmd has left, and whichever of its own could
\* not be created.
THEOREM FramesReachOwnNetdev == Spec => []OwnNetdev
<1>1. Init => KnetIInv
  BY DEF Init, KnetIInv
<1>2. KnetIInv => OwnNetdev
  BY Zenon DEF KnetIInv, OwnNetdev, Delivers, Netdevs
<1> QED
  BY <1>1, <1>2, KnetStep, PTL DEF Spec
=============================================================================
