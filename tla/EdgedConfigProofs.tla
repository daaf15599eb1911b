------------------------- MODULE EdgedConfigProofs -------------------------
(***************************************************************************)
(* How operator configuration reaches the chip (EdgedConfig), for any      *)
(* number of commands and crashes, any files and any ports whose adds may  *)
(* fail: what port_group_vid says is so, and when nothing is under way the *)
(* chip bridges its ports as l2-groups.conf says and its access lists are  *)
(* those of acls.conf.                                                     *)
(***************************************************************************)
EXTENDS EdgedConfig, SequenceTheorems, FiniteSetTheorems, FunctionTheorems,
        WellFoundedInduction, TLAPS

\* No line of l2-groups.conf is longer than the buffer it is read into.
LinesFit ==
  /\ \A s \in PortLists : Len(s) <= LineMax
  /\ \A f \in L2Files : \A u \in DOMAIN f : Len(f[u]) <= LineMax
-----------------------------------------------------------------------------
(* The VLANs.                                                              *)

\* What is known of a port, from port_group_vid: one that is in a group is a
\* member there and not of its service VLAN; one that is in none and can be
\* added is back at home.
Tracked(v) ==
  \A p \in Ports :
    /\ v.group[p] # 0 => /\ GroupVid(v.group[p]) /\ p \in v.member[v.group[p]]
                        /\ v.pvid[p] = v.group[p] /\ p \notin v.member[ResvVid(p)]
    /\ v.group[p] = 0 /\ p \notin BadPorts =>
         p \in v.member[ResvVid(p)] /\ v.pvid[p] = ResvVid(p)

NoGroups(v) == \A p \in Ports : v.group[p] = 0

LEMMA Vids ==
  /\ \A p \in Ports : ResvVid(p) \in Vlans /\ ResvVid(p) # 1 /\ ~GroupVid(ResvVid(p))
  /\ \A u : GroupVid(u) => u \in Vlans /\ u # 0 /\ u # 1 /\ u <= VidMax
<1>1. \A p \in Ports : p \in 1..(ResvHi - ResvLo)
  BY VlanAssumption
<1> QED
  BY <1>1, VlanAssumption DEF ResvVid, Vlans, GroupVid

\* vlan_init_resv_per_port.
LEMMA FreshTracked == Tracked(VlanInit) /\ NoGroups(VlanInit)
BY Vids DEF VlanInit, Tracked, NoGroups

\* vlan_l2_group_apply.
LEMMA ApplyTracked ==
  ASSUME NEW v, Tracked(v), NEW vid, NEW ports, NEW bad \in SUBSET BadPorts
  PROVE  LET w == Apply(v, vid, ports, bad)
         IN  /\ Tracked(w)
             /\ \A p \in Ports \ BadPorts :
                  w.group[p] = IF GroupVid(vid) /\ p \in ports THEN vid ELSE v.group[p]
<1>1. CASE ~GroupVid(vid)
  BY <1>1 DEF Apply
<1>2. CASE GroupVid(vid)
  <2> DEFINE S == (ports \cap Ports) \ bad
             w == Apply(v, vid, ports, bad)
  <2>1. /\ w.member = [u \in Vlans |->
                          {p \in v.member[u] : p \in ports \cap Ports => u \notin {1, ResvVid(p)}}
                            \cup (IF u = vid THEN S ELSE {})]
        /\ w.pvid = [p \in Ports |-> IF p \in S THEN vid ELSE v.pvid[p]]
        /\ w.group = [p \in Ports |-> IF p \in S THEN vid ELSE v.group[p]]
    BY <1>2 DEF Apply
  <2>2. vid \in Vlans /\ \A p \in Ports : ResvVid(p) # vid
    BY <1>2, Vids
  <2>3. \A p \in S : p \in ports /\ p \in Ports /\ p \notin bad
    OBVIOUS
  <2>4. \A p \in Ports : p \notin S => p \notin ports \/ (p \in bad /\ p \in BadPorts)
    OBVIOUS
  <2> HIDE DEF w, S
  <2>5. ASSUME NEW p \in S
        PROVE  /\ w.group[p] = vid /\ w.pvid[p] = vid
               /\ p \in w.member[vid] /\ p \notin w.member[ResvVid(p)]
    <3>1. p \in ports /\ p \in Ports /\ ResvVid(p) \in Vlans
      BY <2>3, Vids
    <3> QED
      BY <2>1, <2>2, <3>1
  <2>6. ASSUME NEW p \in Ports, p \notin S
        PROVE  /\ w.group[p] = v.group[p] /\ w.pvid[p] = v.pvid[p]
               /\ \A u \in Vlans : p \in w.member[u] <=>
                    p \in v.member[u] /\ (p \in ports => u \notin {1, ResvVid(p)})
    BY <2>1, <2>2, <2>6
  <2>7. Tracked(w)
    <3> SUFFICES ASSUME NEW p \in Ports
                 PROVE  /\ w.group[p] # 0 =>
                             /\ GroupVid(w.group[p]) /\ p \in w.member[w.group[p]]
                             /\ w.pvid[p] = w.group[p] /\ p \notin w.member[ResvVid(p)]
                        /\ w.group[p] = 0 /\ p \notin BadPorts =>
                             p \in w.member[ResvVid(p)] /\ w.pvid[p] = ResvVid(p)
      BY Zenon DEF Tracked
    <3>1. CASE p \in S
      BY <1>2, <2>5, <3>1, Vids
    <3>2. CASE p \notin S
      <4>1. /\ v.group[p] # 0 => /\ GroupVid(v.group[p]) /\ p \in v.member[v.group[p]]
                                /\ v.pvid[p] = v.group[p] /\ p \notin v.member[ResvVid(p)]
            /\ v.group[p] = 0 /\ p \notin BadPorts =>
                 p \in v.member[ResvVid(p)] /\ v.pvid[p] = ResvVid(p)
        BY DEF Tracked
      <4>2. p \notin BadPorts => p \notin ports
        BY <2>4, <3>2
      <4>3. GroupVid(v.group[p]) =>
              v.group[p] \in Vlans /\ v.group[p] # 1 /\ v.group[p] # ResvVid(p)
        BY Vids
      <4> QED
        BY <2>6, <3>2, <4>1, <4>2, <4>3, Vids
    <3> QED
      BY <3>1, <3>2
  <2>8. \A p \in Ports \ BadPorts :
          w.group[p] = IF GroupVid(vid) /\ p \in ports THEN vid ELSE v.group[p]
    <3> SUFFICES ASSUME NEW p \in Ports \ BadPorts
                 PROVE  w.group[p] = IF p \in ports THEN vid ELSE v.group[p]
      BY <1>2
    <3>1. p \in S <=> p \in ports
      BY <2>3, <2>4
    <3> QED
      BY <2>5, <2>6, <3>1
  <2> QED
    BY <2>7, <2>8 DEF w
<1> QED
  BY <1>1, <1>2

\* vlan_l2_reset.
LEMMA ResetTracked ==
  ASSUME NEW v, Tracked(v), NEW bad \in SUBSET BadPorts
  PROVE  Tracked(Reset(v, bad)) /\ NoGroups(Reset(v, bad))
<1> DEFINE w == Reset(v, bad)
<1>1. /\ w.member = [u \in Vlans |->
                 {p \in v.member[u] : v.group[p] # u}
                   \cup {p \in Ports \ bad : v.group[p] # 0 /\ u = ResvVid(p)}]
      /\ w.pvid = [p \in Ports |-> IF v.group[p] # 0 THEN ResvVid(p) ELSE v.pvid[p]]
      /\ w.group = [p \in Ports |-> 0]
  BY DEF Reset
<1> HIDE DEF w
<1>2. NoGroups(w)
  BY <1>1 DEF NoGroups
<1>3. ASSUME NEW p \in Ports, p \notin BadPorts
      PROVE  p \in w.member[ResvVid(p)] /\ w.pvid[p] = ResvVid(p)
  <2>1. ResvVid(p) \in Vlans /\ ResvVid(p) # 0
    BY Vids, VlanAssumption DEF Vlans
  <2> QED
    BY <1>1, <1>3, <2>1 DEF Tracked
<1>4. Tracked(w)
  BY <1>2, <1>3 DEF Tracked, NoGroups
<1> QED
  BY <1>2, <1>4 DEF w

\* A set of numbers that is not empty has a least.
LEMMA LeastOfNats ==
  ASSUME NEW T, T \subseteq Nat, T # {}
  PROVE  Min(T) \in T /\ \A y \in T : Min(T) <= y
<1> DEFINE R == OpToRel(<, Nat)
<1>1. \E x \in T : \A y \in T : ~ (<<y, x>> \in R)
  BY NatLessThanWellFounded, WFMin, Zenon
<1>2. \A x, y \in T : <<y, x>> \in R <=> y < x
  BY DEF OpToRel
<1> HIDE DEF R
<1>3. PICK x \in T : \A y \in T : ~ (y < x)
  BY <1>1, <1>2, Zenon
<1>4. \A y \in T : x <= y
  BY <1>3
<1> QED
  BY <1>4 DEF Min

\* vlan_load_l2_groups up to the line of VLAN u, of which the lines before it
\* have made r.
Read(r, u, v, l2f, bad) ==
  IF u = 0 THEN v
  ELSE IF u \in DOMAIN l2f THEN LoadLine(r[u - 1], u, l2f[u], bad)
  ELSE r[u - 1]

\* The lines are read one by one: there is what each of them makes of v, and the
\* last one's is what the file does.  (A least number of lines for which there
\* is no such function would have one less that has it.)
LEMMA LoadIsRead ==
  ASSUME NEW v, NEW l2f, NEW bad
  PROVE  \E r : /\ Load(v, l2f, bad) = r[VidMax]
                /\ \A u \in 0..VidMax : r[u] = Read(r, u, v, l2f, bad)
<1> DEFINE Has(m) == \E r : r = [u \in 0..m |-> Read(r, u, v, l2f, bad)]
           T == {m \in Nat : ~Has(m)}
<1>1. ASSUME T # {} PROVE FALSE
  <2> DEFINE m == Min(T)
  <2>1. m \in T /\ \A y \in T : m <= y
    BY <1>1, LeastOfNats
  <2> HIDE DEF m
  <2>2. m \in Nat /\ ~Has(m)
    BY <2>1
  <2>3. m # 0
    <3> DEFINE r == [u \in 0..0 |-> v]
    <3>1. r = [u \in 0..0 |-> Read(r, u, v, l2f, bad)]
      BY DEF Read
    <3> HIDE DEF r
    <3> QED
      BY <2>2, <3>1
  <2>4. m - 1 \in Nat /\ m - 1 \notin T
    BY <2>1, <2>2, <2>3
  <2>5. Has(m - 1)
    BY <2>4
  <2>6. PICK r : r = [u \in 0..(m - 1) |-> Read(r, u, v, l2f, bad)]
    BY <2>5
  <2> DEFINE s == [u \in 0..m |-> IF u = m THEN Read(r, m, v, l2f, bad) ELSE r[u]]
  <2>7. \A u \in 0..m : u # m => u \in 0..(m - 1) /\ s[u] = r[u]
    BY <2>2
  <2>8. \A u \in 0..m : u # 0 => u - 1 \in 0..(m - 1) /\ s[u - 1] = r[u - 1]
    BY <2>2
  <2>9. s[m] = Read(r, m, v, l2f, bad) /\ DOMAIN s = 0..m
    BY <2>2
  <2>10. s = [u \in 0..m |-> s[u]]
    OBVIOUS
  <2> HIDE DEF s
  <2>11. ASSUME NEW u \in 0..m PROVE s[u] = Read(s, u, v, l2f, bad)
    <3>1. Read(s, u, v, l2f, bad) = Read(r, u, v, l2f, bad)
      BY <2>8, Zenon DEF Read
    <3>2. CASE u = m
      BY <2>9, <3>1, <3>2
    <3>3. CASE u # m
      BY <2>6, <2>7, <3>1, <3>3
    <3> QED
      BY <3>2, <3>3
  <2>12. s = [u \in 0..m |-> Read(s, u, v, l2f, bad)]
    BY <2>10, <2>11
  <2> QED
    BY <2>2, <2>12
<1>2. VidMax \in Nat
  BY VlanAssumption
<1>3. Has(VidMax)
  BY <1>1, <1>2
<1> DEFINE f == CHOOSE r : r = [u \in 0..VidMax |-> Read(r, u, v, l2f, bad)]
<1>4. f = [u \in 0..VidMax |-> Read(f, u, v, l2f, bad)]
  BY <1>3, Zenon
<1>5. Load(v, l2f, bad) = f[VidMax]
  BY Zenon DEF Load, Read
<1> HIDE DEF f
<1> QED
  BY <1>4, <1>5

\* The group that the lines up to that of VLAN m put p in: the last one's.
InGroup(l2f, p, m, g) ==
  LET G == {u \in DOMAIN l2f : GroupVid(u) /\ p \in ToSet(l2f[u]) /\ u <= m}
  IN  IF g = 0 THEN G = {} ELSE g \in G /\ \A u \in G : u <= g

\* What a line does, and whether the file has one for VLAN m at all.
LEMMA LineTracked ==
  ASSUME NEW v, Tracked(v), NEW l2f, NEW bad \in SUBSET BadPorts, NEW m \in DOMAIN l2f
  PROVE  LET w == LoadLine(v, m, l2f[m], bad)
         IN  /\ Tracked(w)
             /\ Len(l2f[m]) <= LineMax =>
                  \A p \in Ports \ BadPorts :
                    w.group[p] = IF GroupVid(m) /\ p \in ToSet(l2f[m]) THEN m ELSE v.group[p]
<1> DEFINE ports == l2f[m]
           rest == SubSeq(ports, LineMax + 1, Len(ports))
           half == Apply(v, m, ToSet(SubSeq(ports, 1, LineMax)), bad)
<1>1. Tracked(half) /\ Tracked(Apply(half, Head(rest), ToSet(Tail(rest)), bad))
  <2>1. Tracked(half)
    BY ApplyTracked
  <2> HIDE DEF half
  <2> QED
    BY <2>1, ApplyTracked
<1>2. LoadLine(v, m, ports, bad) =
        IF Len(ports) <= LineMax THEN Apply(v, m, ToSet(ports), bad)
        ELSE Apply(half, Head(rest), ToSet(Tail(rest)), bad)
  BY DEF LoadLine
<1> HIDE DEF half, rest
<1>3. CASE Len(ports) <= LineMax
  <2>1. LoadLine(v, m, ports, bad) = Apply(v, m, ToSet(ports), bad)
    BY <1>2, <1>3
  <2> QED
    BY <2>1, ApplyTracked
<1>4. CASE ~(Len(ports) <= LineMax)
  <2>1. Tracked(LoadLine(v, m, ports, bad))
    BY <1>1, <1>2, <1>4
  <2> QED
    BY <1>4, <2>1
<1> QED
  BY <1>3, <1>4

\* vlan_load_l2_groups keeps track, and from no groups makes those of the file.
LEMMA LoadTracked ==
  ASSUME NEW v, Tracked(v), NEW l2f, NEW bad \in SUBSET BadPorts
  PROVE  /\ Tracked(Load(v, l2f, bad))
         /\ NoGroups(v) /\ (\A u \in DOMAIN l2f : Len(l2f[u]) <= LineMax) =>
              \A p \in Ports \ BadPorts :
                InGroup(l2f, p, VidMax, Load(v, l2f, bad).group[p])
<1>1. PICK r : /\ Load(v, l2f, bad) = r[VidMax]
              /\ \A u \in 0..VidMax : r[u] = Read(r, u, v, l2f, bad)
  BY LoadIsRead
<1> DEFINE Fit == NoGroups(v) /\ \A u \in DOMAIN l2f : Len(l2f[u]) <= LineMax
           OK(u) == /\ Tracked(r[u])
                    /\ Fit => \A p \in Ports \ BadPorts : InGroup(l2f, p, u, r[u].group[p])
           T == {u \in 0..VidMax : ~OK(u)}
<1>2. VidMax \in Nat
  BY VlanAssumption
<1>3. ASSUME T # {} PROVE FALSE
  <2> DEFINE m == Min(T)
  <2>1. m \in T /\ \A y \in T : m <= y
    <3>1. T \subseteq Nat
      BY <1>2
    <3> HIDE DEF T
    <3> QED
      BY <1>3, <3>1, LeastOfNats
  <2> HIDE DEF m
  <2>2. m \in 0..VidMax /\ ~OK(m)
    BY <2>1
  <2>3. r[m] = Read(r, m, v, l2f, bad)
    BY <1>1, <2>2
  <2>4. m # 0
    <3> SUFFICES ASSUME m = 0 PROVE FALSE
      OBVIOUS
    <3>1. r[m] = v
      BY <2>3 DEF Read
    <3>2. ASSUME NEW p \in Ports \ BadPorts, NoGroups(v) PROVE InGroup(l2f, p, m, v.group[p])
      <4>1. \A u : GroupVid(u) => ~(u <= 0)
        BY VlanAssumption DEF GroupVid
      <4> QED
        BY <3>2, <4>1 DEF InGroup, NoGroups
    <3> QED
      BY <2>2, <3>1, <3>2
  <2>5. m - 1 \in 0..VidMax /\ m - 1 \notin T
    BY <1>2, <2>1, <2>2, <2>4
  <2>6. OK(m - 1)
    BY <2>5
  <2>7. CASE m \in DOMAIN l2f
    <3>1. r[m] = LoadLine(r[m - 1], m, l2f[m], bad)
      BY <2>3, <2>4, <2>7 DEF Read
    <3> DEFINE w == r[m - 1]
    <3>a. Tracked(w)
      BY <2>6
    <3> HIDE DEF w
    <3>b. Tracked(LoadLine(w, m, l2f[m], bad))
      BY <2>7, <3>a, LineTracked
    <3>2. Tracked(r[m])
      BY <3>1, <3>b DEF w
    <3>3. ASSUME Fit, NEW p \in Ports \ BadPorts PROVE InGroup(l2f, p, m, r[m].group[p])
      <4>1. r[m].group[p] =
              IF GroupVid(m) /\ p \in ToSet(l2f[m]) THEN m ELSE r[m - 1].group[p]
        BY <2>6, <2>7, <3>1, <3>3, LineTracked
      <4>2. InGroup(l2f, p, m - 1, r[m - 1].group[p])
        BY <2>6, <3>3
      <4>3. \A u : GroupVid(u) => u \in Nat
        BY VlanAssumption DEF GroupVid
      <4> QED
        BY <1>2, <2>2, <2>4, <2>7, <4>1, <4>2, <4>3 DEF InGroup
    <3> QED
      BY <2>2, <3>2, <3>3
  <2>8. CASE m \notin DOMAIN l2f
    <3>1. r[m] = r[m - 1]
      BY <2>3, <2>4, <2>8 DEF Read
    <3>2. ASSUME Fit, NEW p \in Ports \ BadPorts PROVE InGroup(l2f, p, m, r[m].group[p])
      <4>1. InGroup(l2f, p, m - 1, r[m].group[p])
        BY <2>6, <3>1, <3>2
      <4>2. \A u : GroupVid(u) => u \in Nat
        BY VlanAssumption DEF GroupVid
      <4> QED
        BY <1>2, <2>2, <2>8, <4>1, <4>2 DEF InGroup
    <3> QED
      BY <2>2, <2>6, <3>1, <3>2
  <2> QED
    BY <2>7, <2>8
<1>4. VidMax \in 0..VidMax
  BY <1>2
<1>5. OK(VidMax)
  BY <1>3, <1>4
<1> QED
  BY <1>1, <1>5

\* A chip whose groups are those of the file is as the file says.
LEMMA GroupsMean ==
  ASSUME NEW v, Tracked(v), NEW l2f,
         \A p \in Ports \ BadPorts : InGroup(l2f, p, VidMax, v.group[p])
  PROVE  AsConfigured(v, l2f, Ports \ BadPorts)
<1> SUFFICES ASSUME NEW p \in Ports \ BadPorts
             PROVE  LET u == IF GroupOf(l2f, p) = 0 THEN ResvVid(p) ELSE GroupOf(l2f, p)
                    IN  /\ p \in v.member[u] /\ v.pvid[p] = u
                        /\ u # ResvVid(p) => p \notin v.member[ResvVid(p)]
  BY DEF AsConfigured
<1> DEFINE S == {u \in DOMAIN l2f : GroupVid(u) /\ p \in ToSet(l2f[u])}
           G == {u \in DOMAIN l2f : GroupVid(u) /\ p \in ToSet(l2f[u]) /\ u <= VidMax}
<1>1. S = G
  BY Vids
<1>2. IF v.group[p] = 0 THEN G = {} ELSE v.group[p] \in G /\ \A u \in G : u <= v.group[p]
  BY DEF InGroup
<1>3. \A u \in G : u \in Nat
  BY VlanAssumption DEF GroupVid
<1>4. GroupOf(l2f, p) = IF S = {} THEN 0 ELSE Max(S)
  BY DEF GroupOf
<1> HIDE DEF S, G
<1>5. G # {} => Max(G) = v.group[p]
  <2> SUFFICES ASSUME G # {} PROVE Max(G) = v.group[p]
    OBVIOUS
  <2>1. v.group[p] \in G /\ \A u \in G : u <= v.group[p] /\ u \in Nat
    BY <1>2, <1>3
  <2>2. \A x \in G : (\A y \in G : x >= y) => x = v.group[p]
    BY <2>1
  <2>3. \A y \in G : v.group[p] >= y
    BY <2>1
  <2> QED
    BY <2>1, <2>2, <2>3, Zenon DEF Max
<1>6. GroupOf(l2f, p) = v.group[p]
  BY <1>1, <1>2, <1>4, <1>5
<1> QED
  BY <1>6 DEF Tracked
-----------------------------------------------------------------------------
(* The commands.                                                           *)

CmdTypeOK ==
  /\ cmd = [w \in Cmd |-> cmd[w]]
  /\ \A w \in Cmd :
       /\ cmd[w] = [pc |-> cmd[w].pc, file |-> cmd[w].file, new |-> cmd[w].new]
       /\ cmd[w].pc \in {"none", "read", "open", "written"}
       /\ cmd[w].file \in {"l2", "acl"}
  /\ epc \in Places

\* Something is under way: edged is at one of the places, or about to take a
\* change over, or a command is between its change of a file and its signal.
Waiting(places) ==
  epc \in places \/ resync \/ \E w \in Cmd : cmd[w].pc \in {"open", "written"}

\* A command goes on.
LEMMA CmdMoves ==
  ASSUME CmdTypeOK, NEW w \in Cmd, NEW at \in {"none", "read", "open", "written"},
         cmd' = [cmd EXCEPT ![w].pc = at], epc' = epc
  PROVE  /\ CmdTypeOK'
         /\ cmd'[w].pc = at /\ cmd'[w].file = cmd[w].file /\ cmd'[w].new = cmd[w].new
         /\ \A x \in Cmd : x # w => cmd'[x] = cmd[x]
<1> DEFINE c == [pc |-> at, file |-> cmd[w].file, new |-> cmd[w].new]
<1>1. cmd[w] = [pc |-> cmd[w].pc, file |-> cmd[w].file, new |-> cmd[w].new]
  BY DEF CmdTypeOK
<1>2. [cmd[w] EXCEPT !.pc = at] = c
  BY <1>1
<1>3. cmd' = [cmd EXCEPT ![w] = c]
  BY <1>2
<1>4. c.pc = at /\ c.file = cmd[w].file /\ c.new = cmd[w].new
      /\ c = [pc |-> c.pc, file |-> c.file, new |-> c.new]
  OBVIOUS
<1> HIDE DEF c
<1>5. cmd'[w] = c /\ (\A x \in Cmd : x # w => cmd'[x] = cmd[x])
      /\ cmd' = [x \in Cmd |-> cmd'[x]]
  <2>1. cmd = [x \in Cmd |-> cmd[x]]
    BY DEF CmdTypeOK
  <2> QED
    BY <1>3, <2>1
<1>6. CmdTypeOK'
  <2>1. \A x \in Cmd :
          /\ cmd'[x] = [pc |-> cmd'[x].pc, file |-> cmd'[x].file, new |-> cmd'[x].new]
          /\ cmd'[x].pc \in {"none", "read", "open", "written"}
          /\ cmd'[x].file \in {"l2", "acl"}
    BY <1>4, <1>5 DEF CmdTypeOK
  <2> QED
    BY <1>5, <2>1 DEF CmdTypeOK
<1> QED
  BY <1>4, <1>5, <1>6

\* A command starts, or ends.
LEMMA CmdSet ==
  ASSUME CmdTypeOK, NEW w \in Cmd, NEW at \in {"none", "read"}, NEW file \in {"l2", "acl"},
         NEW new, cmd' = [cmd EXCEPT ![w] = [pc |-> at, file |-> file, new |-> new]],
         epc' \in Places
  PROVE  /\ CmdTypeOK'
         /\ cmd'[w].pc = at /\ cmd'[w].file = file /\ cmd'[w].new = new
         /\ \A x \in Cmd : x # w => cmd'[x] = cmd[x]
<1> DEFINE c == [pc |-> at, file |-> file, new |-> new]
<1>1. c.pc = at /\ c.file = file /\ c.new = new
      /\ c = [pc |-> c.pc, file |-> c.file, new |-> c.new]
  OBVIOUS
<1>2. cmd' = [cmd EXCEPT ![w] = c]
  OBVIOUS
<1> HIDE DEF c
<1>3. cmd'[w] = c /\ (\A x \in Cmd : x # w => cmd'[x] = cmd[x])
      /\ cmd' = [x \in Cmd |-> cmd'[x]]
  <2>1. cmd = [x \in Cmd |-> cmd[x]]
    BY DEF CmdTypeOK
  <2> QED
    BY <1>2, <2>1
<1>4. CmdTypeOK'
  BY <1>1, <1>3 DEF CmdTypeOK
<1> QED
  BY <1>1, <1>3, <1>4

LEMMA CmdInit == Init => CmdTypeOK
BY DEF Init, CmdTypeOK, NoCmd, Places

\* What a step of a command does: it starts and changes no file; or it is then,
\* or goes on being, between its change of a file and its signal; or it gives
\* the signal.
LEMMA CmdStep ==
  ASSUME CmdTypeOK, NEW w \in Cmd, Command(w)
  PROVE  /\ CmdTypeOK' /\ UNCHANGED <<vlan, fp>>
         /\ \/ CmdRead(w) /\ UNCHANGED <<fileVars, epc, resync>> /\ cmd'[w].pc = "read"
            \/ /\ CmdOpen(w) \/ CmdWrite(w) \/ CmdRemove(w)
               /\ UNCHANGED <<epc, resync>> /\ cmd'[w].pc \in {"open", "written"}
               /\ cmd'[w].file = cmd[w].file /\ cmd'[w].new = cmd[w].new
            \/ /\ CmdHup(w) /\ UNCHANGED fileVars /\ cmd'[w] = NoCmd
               /\ epc' = epc \/ epc' = "dead"
               /\ resync' \/ epc' \in {"dead", "down"}
         /\ \A x \in Cmd : x # w => cmd'[x] = cmd[x]
<1> USE DEF edgedVars, fileVars
<1>1. CASE CmdRead(w)
  <2>1. PICK file \in {"l2", "acl"} :
          \E new : cmd' = [cmd EXCEPT ![w] = [pc |-> "read", file |-> file, new |-> new]]
    BY <1>1 DEF CmdRead
  <2>2. PICK new : cmd' = [cmd EXCEPT ![w] = [pc |-> "read", file |-> file, new |-> new]]
    BY <2>1
  <2>3. UNCHANGED <<fileVars, edgedVars>>
    BY <1>1 DEF CmdRead
  <2>4. epc' \in Places
    BY <2>3 DEF CmdTypeOK
  <2>5. CmdTypeOK' /\ cmd'[w].pc = "read" /\ \A x \in Cmd : x # w => cmd'[x] = cmd[x]
    BY <2>2, <2>4, CmdSet
  <2> QED
    BY <1>1, <2>3, <2>5
<1>2. CASE CmdOpen(w) \/ CmdWrite(w) \/ CmdRemove(w)
  <2>1. PICK at \in {"open", "written"} : cmd' = [cmd EXCEPT ![w].pc = at]
    BY <1>2 DEF CmdOpen, CmdWrite, CmdRemove
  <2>2. UNCHANGED edgedVars
    BY <1>2 DEF CmdOpen, CmdWrite, CmdRemove
  <2>3. epc' = epc
    BY <2>2
  <2>4. /\ CmdTypeOK' /\ cmd'[w].pc = at /\ cmd'[w].file = cmd[w].file
        /\ cmd'[w].new = cmd[w].new /\ \A x \in Cmd : x # w => cmd'[x] = cmd[x]
    BY <2>1, <2>3, CmdMoves
  <2> QED
    BY <1>2, <2>2, <2>4
<1>3. CASE CmdHup(w)
  <2>1. cmd' = [cmd EXCEPT ![w] = [pc |-> "none", file |-> "l2", new |-> <<>>]]
    BY <1>3 DEF CmdHup, NoCmd
  <2>2. UNCHANGED <<fileVars, vlan, fp>>
    BY <1>3 DEF CmdHup
  <2>3. /\ epc' = epc \/ epc' = "dead"
        /\ resync' \/ epc' \in {"dead", "down"}
    BY <1>3 DEF CmdHup, Running, HasHandler
  <2>4. epc' \in Places
    BY <2>3 DEF CmdTypeOK, Places
  <2>5. /\ CmdTypeOK' /\ cmd'[w].pc = "none" /\ cmd'[w].file = "l2" /\ cmd'[w].new = <<>>
        /\ \A x \in Cmd : x # w => cmd'[x] = cmd[x]
    BY <2>1, <2>4, CmdSet
  <2>6. cmd'[w] = NoCmd
    BY <2>5 DEF CmdTypeOK, NoCmd
  <2> QED
    BY <1>3, <2>2, <2>3, <2>5, <2>6
<1> QED
  BY <1>1, <1>2, <1>3 DEF Command

\* A step of a command leaves something under way that was, and whatever it
\* does to a file is under way.
LEMMA CmdWaits ==
  ASSUME CmdTypeOK, NEW w \in Cmd, Command(w), NEW places, {"dead", "down"} \subseteq places
  PROVE  /\ Waiting(places) => Waiting(places)'
         /\ Waiting(places)' \/ UNCHANGED fileVars
<1>1. CASE CmdRead(w)
  <2>1. cmd[w].pc = "none" /\ UNCHANGED <<fileVars, epc, resync>>
        /\ \A x \in Cmd : x # w => cmd'[x] = cmd[x]
    BY <1>1, CmdStep DEF CmdRead, edgedVars
  <2> QED
    BY <2>1 DEF Waiting
<1>2. CASE CmdOpen(w) \/ CmdWrite(w) \/ CmdRemove(w)
  <2>1. cmd'[w].pc \in {"open", "written"}
    <3>1. PICK at \in {"open", "written"} : cmd' = [cmd EXCEPT ![w].pc = at]
      BY <1>2 DEF CmdOpen, CmdWrite, CmdRemove
    <3>2. epc' = epc
      BY <1>2 DEF CmdOpen, CmdWrite, CmdRemove, edgedVars
    <3> QED
      BY <3>1, <3>2, CmdMoves
  <2> QED
    BY <2>1 DEF Waiting
<1>3. CASE CmdHup(w)
  <2>1. UNCHANGED fileVars /\ (resync' \/ epc' \in {"dead", "down"})
    BY <1>3 DEF CmdHup, Running, HasHandler
  <2> QED
    BY <2>1 DEF Waiting
<1> QED
  BY <1>1, <1>2, <1>3 DEF Command
-----------------------------------------------------------------------------
(* l2-groups.conf.                                                         *)

VlanIInv == CmdTypeOK /\ Tracked(vlan) /\ (epc = "boot l2" => NoGroups(vlan))

LEMMA VlanStart == Init => VlanIInv
BY CmdInit, FreshTracked DEF VlanIInv, Init

\* The steps of edged, and nothing at all.
EdgedStep == Boot \/ Loop \/ Crash \/ Restart \/ UNCHANGED vars

\* edged goes to where it can be, and its step changes neither file nor command.
LEMMA EdgedMoves ==
  ASSUME CmdTypeOK, EdgedStep
  PROVE  CmdTypeOK' /\ UNCHANGED <<l2, acl, cmd>>
<1>1. UNCHANGED <<l2, acl, cmd>>
  BY DEF EdgedStep, Boot, Loop, BootChip, BootL2, BootAcl, BootTraps, Resync, ResyncL2,
         ResyncAcl, Crash, Restart, At, vars, fileVars, cmdVars
<1>2. epc' \in Places
  BY DEF EdgedStep, Boot, Loop, BootChip, BootL2, BootAcl, BootTraps, Resync, ResyncL2,
         ResyncAcl, Crash, Restart, At, vars, edgedVars, CmdTypeOK, Places
<1> QED
  BY <1>1, <1>2 DEF CmdTypeOK

LEMMA VlanStep == VlanIInv /\ [Next]_vars => VlanIInv'
<1> SUFFICES ASSUME VlanIInv, [Next]_vars PROVE VlanIInv'
  OBVIOUS
<1> USE DEF VlanIInv
<1>1. ASSUME NEW w \in Cmd, Command(w) PROVE VlanIInv'
  <2>1. CmdTypeOK' /\ vlan' = vlan
    BY <1>1, CmdStep
  <2>2. epc' = "boot l2" => epc = "boot l2"
    BY <1>1, CmdStep DEF edgedVars
  <2> QED
    BY <2>1, <2>2 DEF Tracked, NoGroups
<1>2. ASSUME EdgedStep PROVE CmdTypeOK'
  BY <1>2, EdgedMoves
<1>3. CASE BootChip
  <2>1. vlan' = VlanInit
    BY <1>3 DEF BootChip
  <2> QED
    BY <1>2, <1>3, <2>1, FreshTracked DEF EdgedStep, Boot
<1>4. CASE BootL2
  <2>1. PICK bad \in SUBSET BadPorts : vlan' = Load(vlan, l2, bad)
    BY <1>4 DEF BootL2
  <2>2. Tracked(vlan') /\ epc' = "boot acl"
    BY <1>4, <2>1, LoadTracked DEF BootL2, At
  <2> QED
    BY <1>2, <1>4, <2>2 DEF EdgedStep, Boot
<1>5. CASE ResyncL2
  <2>1. PICK bad \in SUBSET BadPorts : vlan' = Load(Reset(vlan, bad), l2, bad)
    BY <1>5 DEF ResyncL2
  <2>2. Tracked(Reset(vlan, bad))
    BY ResetTracked
  <2>3. Tracked(vlan') /\ epc' = "acl"
    BY <1>5, <2>1, <2>2, LoadTracked DEF ResyncL2, At
  <2> QED
    BY <1>2, <1>5, <2>3 DEF EdgedStep, Loop
<1>6. CASE BootAcl \/ BootTraps \/ Resync \/ ResyncAcl \/ Crash \/ Restart \/ UNCHANGED vars
  <2>1. vlan' = vlan /\ (epc' = "boot l2" => epc = "boot l2")
    BY <1>6 DEF BootAcl, BootTraps, Resync, ResyncAcl, Crash, Restart, At, vars, edgedVars
  <2>2. CmdTypeOK'
    BY <1>2, <1>6 DEF EdgedStep, Boot, Loop
  <2> QED
    BY <2>1, <2>2 DEF Tracked, NoGroups
<1> QED
  BY <1>1, <1>3, <1>4, <1>5, <1>6 DEF Next, Boot, Loop

\* port_group_vid tells the truth whatever adds fail, lines overlap or name the
\* same port, and wherever edged crashes: vlan_l2_reset takes a port out of the
\* group it is in.
THEOREM GroupsAreTracked == Spec => []GroupTracked
<1>1. VlanIInv => GroupTracked
  BY DEF VlanIInv, Tracked, GroupTracked
<1> QED
  BY <1>1, VlanStart, VlanStep, PTL DEF Spec

\* Every line there is or will be fits.
FileFits(f) == \A u \in DOMAIN f : Len(f[u]) <= LineMax
AllFit == FileFits(l2) /\ \A w \in Cmd : cmd[w].file = "l2" => FileFits(cmd[w].new)

\* The groups are those of the file, or their turn is still to come.
GroupsApplied ==
  \/ Waiting({"exec", "boot l2", "l2", "down", "dead"})
  \/ \A p \in Ports \ BadPorts : InGroup(l2, p, VidMax, vlan.group[p])

LEMMA FitStart == LinesFit /\ Init => AllFit
BY DEF LinesFit, Init, AllFit, FileFits, NoCmd

LEMMA FitStep ==
  ASSUME LinesFit, CmdTypeOK, AllFit, [Next]_vars
  PROVE  AllFit'
<1> USE DEF AllFit
<1>1. ASSUME NEW w \in Cmd, CmdRead(w) PROVE AllFit'
  <2>1. l2' = l2 /\ epc' = epc
    BY <1>1 DEF CmdRead, fileVars, edgedVars
  <2>2. CASE \E new \in L2Edits(l2) :
               cmd' = [cmd EXCEPT ![w] = [pc |-> "read", file |-> "l2", new |-> new]]
    <3>1. PICK new \in L2Edits(l2) :
            cmd' = [cmd EXCEPT ![w] = [pc |-> "read", file |-> "l2", new |-> new]]
      BY <2>2
    <3>2. FileFits(new)
      <4>1. ASSUME NEW line \in Groups \X PortLists, new = With(l2, line[1], line[2])
            PROVE  FileFits(new)
        <5>1. line[2] \in PortLists
          OBVIOUS
        <5> QED
          BY <4>1, <5>1 DEF With, FileFits, LinesFit
      <4>2. ASSUME NEW vid \in Groups, new = Without(l2, {vid}) PROVE FileFits(new)
        BY <4>2 DEF Without, Restrict, FileFits
      <4>3. CASE new = <<>>
        BY <4>3 DEF FileFits
      <4> QED
        BY <3>1, <4>1, <4>2, <4>3 DEF L2Edits
    <3>3. /\ cmd'[w].file = "l2" /\ cmd'[w].new = new
          /\ \A x \in Cmd : x # w => cmd'[x] = cmd[x]
      <4>1. epc' \in Places
        BY <2>1 DEF CmdTypeOK
      <4> QED
        BY <3>1, <4>1, CmdSet
    <3> QED
      BY <2>1, <3>2, <3>3
  <2>3. CASE \E new \in AclEdits(acl) :
               cmd' = [cmd EXCEPT ![w] = [pc |-> "read", file |-> "acl", new |-> new]]
    <3>1. PICK new \in AclEdits(acl) :
            cmd' = [cmd EXCEPT ![w] = [pc |-> "read", file |-> "acl", new |-> new]]
      BY <2>3
    <3>2. cmd'[w].file = "acl" /\ \A x \in Cmd : x # w => cmd'[x] = cmd[x]
      <4>1. epc' \in Places
        BY <2>1 DEF CmdTypeOK
      <4> QED
        BY <3>1, <4>1, CmdSet
    <3> QED
      BY <2>1, <3>2
  <2> QED
    BY <1>1, <2>2, <2>3 DEF CmdRead
<1>2. ASSUME NEW w \in Cmd, CmdOpen(w) \/ CmdWrite(w) \/ CmdRemove(w) PROVE AllFit'
  <2>1. /\ cmd'[w].file = cmd[w].file /\ cmd'[w].new = cmd[w].new
        /\ \A x \in Cmd : x # w => cmd'[x] = cmd[x]
    <3>1. PICK at \in {"open", "written"} : cmd' = [cmd EXCEPT ![w].pc = at]
      BY <1>2 DEF CmdOpen, CmdWrite, CmdRemove
    <3>2. epc' = epc
      BY <1>2 DEF CmdOpen, CmdWrite, CmdRemove, edgedVars
    <3> QED
      BY <3>1, <3>2, CmdMoves
  <2>2. FileFits(l2')
    <3>1. CASE CmdOpen(w) \/ CmdRemove(w)
      BY <3>1 DEF CmdOpen, CmdRemove, FileFits
    <3>2. CASE CmdWrite(w)
      <4> DEFINE new == cmd[w].new
      <4>1. CASE cmd[w].file = "l2"
        <5>1. PICK K \in SUBSET (DOMAIN l2 \ DOMAIN new) :
                l2' = [u \in K \cup DOMAIN new |-> IF u \in K THEN l2[u] ELSE new[u]]
          BY <3>2, <4>1 DEF CmdWrite
        <5>2. FileFits(new) /\ FileFits(l2)
          BY <4>1
        <5> HIDE DEF new
        <5> QED
          BY <5>1, <5>2 DEF FileFits
      <4>2. CASE cmd[w].file # "l2"
        BY <3>2, <4>2 DEF CmdWrite
      <4> QED
        BY <4>1, <4>2
    <3> QED
      BY <1>2, <3>1, <3>2
  <2> QED
    BY <2>1, <2>2
<1>3. ASSUME NEW w \in Cmd, CmdHup(w) PROVE AllFit'
  <2>1. /\ cmd'[w] = NoCmd /\ l2' = l2 /\ \A x \in Cmd : x # w => cmd'[x] = cmd[x]
    BY <1>3 DEF CmdHup, fileVars, CmdTypeOK
  <2> QED
    BY <2>1 DEF NoCmd, FileFits
<1>4. ASSUME EdgedStep PROVE AllFit'
  BY <1>4, EdgedMoves
<1> QED
  BY <1>1, <1>2, <1>3, <1>4 DEF Next, Command, EdgedStep

LEMMA AppliedStep ==
  ASSUME VlanIInv, AllFit, GroupsApplied, [Next]_vars
  PROVE  GroupsApplied'
<1> DEFINE places == {"exec", "boot l2", "l2", "down", "dead"}
<1> USE DEF VlanIInv
<1>1. ASSUME NEW w \in Cmd, Command(w) PROVE GroupsApplied'
  <2>1. /\ Waiting(places) => Waiting(places)'
        /\ Waiting(places)' \/ UNCHANGED fileVars
    BY <1>1, CmdWaits
  <2>2. vlan' = vlan
    BY <1>1, CmdStep
  <2> HIDE DEF places
  <2> QED
    BY <2>1, <2>2 DEF GroupsApplied, fileVars, places
<1>2. CASE BootL2
  <2>1. PICK bad \in SUBSET BadPorts : vlan' = Load(vlan, l2, bad)
    BY <1>2 DEF BootL2
  <2>2. NoGroups(vlan) /\ FileFits(l2) /\ l2' = l2
    BY <1>2 DEF BootL2, At, AllFit, fileVars
  <2> QED
    BY <2>1, <2>2, LoadTracked DEF GroupsApplied, FileFits
<1>3. CASE ResyncL2
  <2>1. PICK bad \in SUBSET BadPorts : vlan' = Load(Reset(vlan, bad), l2, bad)
    BY <1>3 DEF ResyncL2
  <2>2. Tracked(Reset(vlan, bad)) /\ NoGroups(Reset(vlan, bad))
    BY ResetTracked
  <2>3. FileFits(l2) /\ l2' = l2
    BY <1>3 DEF ResyncL2, At, AllFit, fileVars
  <2> QED
    BY <2>1, <2>2, <2>3, LoadTracked DEF GroupsApplied, FileFits
<1>4. CASE BootChip \/ Resync \/ Crash \/ Restart
  BY <1>4 DEF BootChip, Resync, Crash, Restart, At, GroupsApplied, Waiting
<1>5. CASE BootAcl \/ BootTraps \/ ResyncAcl \/ UNCHANGED vars
  <2>1. /\ vlan' = vlan /\ l2' = l2 /\ cmd' = cmd /\ resync' = resync
        /\ epc' = epc \/ epc \notin places
    BY <1>5 DEF BootAcl, BootTraps, ResyncAcl, At, vars, edgedVars, fileVars, cmdVars
  <2> QED
    BY <2>1 DEF GroupsApplied, Waiting
<1> QED
  BY <1>1, <1>2, <1>3, <1>4, <1>5 DEF Next, Boot, Loop

\* When nothing is under way the chip bridges the ports that take part as
\* l2-groups.conf says, whichever commands overlapped, with each other, with a
\* resync or with the start of edged, and wherever edged crashed.
THEOREM GroupsAsTheFileSays ==
  ASSUME LinesFit
  PROVE  Spec => []L2Applied
<1>1. Init => VlanIInv /\ AllFit /\ GroupsApplied
  <2>1. Init => GroupsApplied
    BY DEF Init, GroupsApplied, Waiting
  <2> QED
    BY <2>1, VlanStart, FitStart
<1>2. VlanIInv /\ AllFit /\ GroupsApplied /\ [Next]_vars
        => (VlanIInv /\ AllFit /\ GroupsApplied)'
  BY VlanStep, FitStep, AppliedStep DEF VlanIInv
<1>3. VlanIInv /\ GroupsApplied => L2Applied
  <2> SUFFICES ASSUME VlanIInv, GroupsApplied, Quiet
               PROVE  AsConfigured(vlan, l2, Ports \ BadPorts)
    BY DEF L2Applied
  <2>1. \A p \in Ports \ BadPorts : InGroup(l2, p, VidMax, vlan.group[p])
    BY DEF GroupsApplied, Waiting, Quiet
  <2> QED
    BY <2>1, GroupsMean DEF VlanIInv
<1> QED
  BY <1>1, <1>2, <1>3, PTL DEF Spec
-----------------------------------------------------------------------------
(* Ranks in an order.                                                      *)

Below(S, R, x) == {y \in S : <<y, x>> \in R}
RankIn(S, R) == [x \in S |-> Cardinality(Below(S, R, x))]

IsOrder(S, R) ==
  /\ \A x \in S : <<x, x>> \notin R
  /\ \A x, y, z \in S : <<x, y>> \in R /\ <<y, z>> \in R => <<x, z>> \in R
  /\ \A x, y \in S : x # y => <<x, y>> \in R \/ <<y, x>> \in R

\* In a finite set every rank from 0 on is that of one member, and members
\* with a smaller rank come before those with a larger one.
LEMMA RankBijection ==
  ASSUME NEW S, IsFiniteSet(S), NEW R, IsOrder(S, R)
  PROVE  /\ RankIn(S, R) \in Injection(S, 0..(Cardinality(S) - 1))
         /\ RankIn(S, R) \in Surjection(S, 0..(Cardinality(S) - 1))
         /\ \A x, y \in S : <<x, y>> \in R <=> RankIn(S, R)[x] < RankIn(S, R)[y]
<1> DEFINE n == Cardinality(S)
           rk == RankIn(S, R)
<1>1. n \in Nat
  BY FS_CardinalityType
<1>2. ASSUME NEW x \in S
      PROVE  /\ rk[x] = Cardinality(Below(S, R, x)) /\ IsFiniteSet(Below(S, R, x))
             /\ rk[x] \in 0..(n - 1)
  <2>1. Below(S, R, x) \in SUBSET (S \ {x})
    BY DEF Below, IsOrder
  <2>2. IsFiniteSet(S \ {x}) /\ Cardinality(S \ {x}) = n - 1
    BY FS_RemoveElement
  <2>3. /\ IsFiniteSet(Below(S, R, x)) /\ Cardinality(Below(S, R, x)) <= n - 1
        /\ Cardinality(Below(S, R, x)) \in Nat
    BY <2>1, <2>2, FS_Subset, FS_CardinalityType
  <2>4. rk[x] = Cardinality(Below(S, R, x))
    BY DEF RankIn
  <2> QED
    BY <1>1, <2>3, <2>4
<1>3. ASSUME NEW x \in S, NEW y \in S, <<x, y>> \in R PROVE rk[x] < rk[y]
  <2>1. Below(S, R, x) \cup {x} \in SUBSET Below(S, R, y) /\ x \notin Below(S, R, x)
    BY <1>3 DEF Below, IsOrder
  <2>2. Cardinality(Below(S, R, x) \cup {x}) = Cardinality(Below(S, R, x)) + 1
    BY <1>2, <2>1, FS_AddElement
  <2>3. Cardinality(Below(S, R, x) \cup {x}) <= Cardinality(Below(S, R, y))
    BY <1>2, <2>1, FS_Subset
  <2>4. rk[x] = Cardinality(Below(S, R, x)) /\ rk[y] = Cardinality(Below(S, R, y))
        /\ rk[x] \in Nat /\ rk[y] \in Nat
    BY <1>2
  <2> HIDE DEF rk
  <2> QED
    BY <2>2, <2>3, <2>4
<1>4. ASSUME NEW x \in S, NEW y \in S, x # y PROVE rk[x] < rk[y] \/ rk[y] < rk[x]
  BY <1>3, <1>4 DEF IsOrder
<1>5. rk \in [S -> 0..(n - 1)]
  <2>1. rk = [x \in S |-> rk[x]]
    BY DEF RankIn
  <2> HIDE DEF rk
  <2> QED
    BY <1>2, <2>1
<1> HIDE DEF rk
<1>6. rk \in Injection(S, 0..(n - 1))
  <2>1. \A x, y \in S : rk[x] = rk[y] => x = y
    BY <1>2, <1>4
  <2> QED
    BY <1>5, <2>1 DEF Injection, IsInjective
<1>7. IsFiniteSet(0..(n - 1)) /\ Cardinality(0..(n - 1)) = n
  BY <1>1, FS_Interval
<1>8. rk \in Surjection(S, 0..(n - 1))
  BY <1>6, <1>7, FS_Injection
<1>9. ASSUME NEW x \in S, NEW y \in S PROVE <<x, y>> \in R <=> rk[x] < rk[y]
  <2>1. CASE x = y
    BY <1>2, <2>1 DEF IsOrder
  <2>2. CASE x # y
    <3>1. <<x, y>> \in R \/ <<y, x>> \in R
      BY <2>2 DEF IsOrder
    <3>2. rk[x] \in Nat /\ rk[y] \in Nat
      BY <1>2
    <3> QED
      BY <1>3, <3>1, <3>2
  <2> QED
    BY <2>1, <2>2
<1> QED
  BY <1>6, <1>8, <1>9 DEF rk, n

\* The members of a set by their rank, as Ordered lists them.
ByRank(S, R) ==
  [i \in 1..Cardinality(S) |-> CHOOSE x \in S : Cardinality(Below(S, R, x)) = i - 1]

LEMMA OrderedList ==
  ASSUME NEW S, IsFiniteSet(S), NEW R, IsOrder(S, R), NEW q, q = ByRank(S, R)
  PROVE  /\ \A i \in 1..Cardinality(S) : q[i] \in S
         /\ \A x \in S : \E i \in 1..Cardinality(S) : q[i] = x
         /\ \A i, j \in 1..Cardinality(S) : i < j <=> <<q[i], q[j]>> \in R
         /\ \A i, j \in 1..Cardinality(S) : q[i] = q[j] => i = j
<1> DEFINE n == Cardinality(S)
           rk == RankIn(S, R)
<1>1. /\ rk \in Injection(S, 0..(n - 1)) /\ rk \in Surjection(S, 0..(n - 1)) /\ n \in Nat
      /\ \A x, y \in S : <<x, y>> \in R <=> rk[x] < rk[y]
  BY RankBijection, FS_CardinalityType
<1>2. \A x \in S : rk[x] = Cardinality(Below(S, R, x))
  BY DEF RankIn
<1> HIDE DEF rk
<1>3. /\ \A x \in S : rk[x] \in 0..(n - 1)
      /\ \A x, y \in S : rk[x] = rk[y] => x = y
      /\ \A i \in 0..(n - 1) : \E x \in S : rk[x] = i
  BY <1>1 DEF Injection, IsInjective, Surjection
<1> HIDE DEF n
<1>4. ASSUME NEW i \in 1..n PROVE q[i] \in S /\ rk[q[i]] = i - 1
  <2>1. i - 1 \in 0..(n - 1)
    BY <1>1
  <2>2. PICK x \in S : rk[x] = i - 1
    BY <1>3, <2>1
  <2>3. Cardinality(Below(S, R, x)) = i - 1
    BY <1>2, <2>2
  <2>4. q[i] \in S /\ Cardinality(Below(S, R, q[i])) = i - 1
    <3>1. q[i] = CHOOSE y \in S : Cardinality(Below(S, R, y)) = i - 1
      BY DEF n, ByRank
    <3> QED
      BY <2>3, <3>1
  <2> QED
    BY <1>2, <2>4
<1>5. ASSUME NEW x \in S PROVE \E i \in 1..n : q[i] = x
  <2>1. rk[x] + 1 \in 1..n /\ (rk[x] + 1) - 1 = rk[x]
    BY <1>1, <1>3
  <2>2. q[rk[x] + 1] \in S /\ rk[q[rk[x] + 1]] = rk[x]
    BY <1>4, <2>1
  <2> QED
    BY <1>3, <2>1, <2>2
<1>6. \A i, j \in 1..n : i < j <=> <<q[i], q[j]>> \in R
  <2> SUFFICES ASSUME NEW i \in 1..n, NEW j \in 1..n PROVE i < j <=> <<q[i], q[j]>> \in R
    OBVIOUS
  <2>1. <<q[i], q[j]>> \in R <=> i - 1 < j - 1
    BY <1>1, <1>4
  <2> QED
    BY <2>1
<1>7. \A i, j \in 1..n : q[i] = q[j] => i = j
  <2> SUFFICES ASSUME NEW i \in 1..n, NEW j \in 1..n, q[i] = q[j] PROVE i = j
    OBVIOUS
  <2>1. i - 1 = j - 1
    BY <1>4
  <2> QED
    BY <2>1
<1> QED
  BY <1>4, <1>5, <1>6, <1>7 DEF n

LEMMA MinOfTwo ==
  ASSUME NEW a \in Nat, NEW b \in Nat
  PROVE  Min({a, b}) = IF a <= b THEN a ELSE b
<1>1. Min({a, b}) \in {a, b} /\ \A y \in {a, b} : Min({a, b}) <= y
  BY LeastOfNats
<1> QED
  BY <1>1

\* A one-to-one image of a finite set has as many members.
LEMMA ImageCount ==
  ASSUME NEW S, IsFiniteSet(S), NEW f, DOMAIN f = S, IsInjective(f),
         NEW T, \A t : t \in T <=> \E x \in S : f[x] = t
  PROVE  IsFiniteSet(T) /\ Cardinality(T) = Cardinality(S)
<1>1. ExistsBijection(S, T)
  <2> DEFINE g == [x \in S |-> f[x]]
  <2>1. g \in [S -> T] /\ \A x \in S : g[x] = f[x]
    OBVIOUS
  <2> HIDE DEF g
  <2>2. g \in Injection(S, T)
    BY <2>1 DEF Injection, IsInjective
  <2>3. \A t \in T : \E x \in S : g[x] = t
    BY <2>1
  <2>4. g \in Bijection(S, T)
    BY <2>1, <2>2, <2>3 DEF Bijection, Surjection
  <2> QED
    BY <2>4 DEF ExistsBijection
<1> QED
  BY <1>1, FS_Bijection
-----------------------------------------------------------------------------
(* The access lists.                                                       *)

\* acls.conf as edgenos writes it.
AclFile(a) ==
  /\ a = [rules |-> a.rules, binds |-> a.binds]
  /\ IsFiniteSet(DOMAIN a.rules) /\ DOMAIN a.rules \subseteq (Nat \ {0}) \X Int

\* Its rules as edged reads them: no two are the same.
RuleSeq(rs) ==
  /\ \E n \in Nat : DOMAIN rs = 1..n /\ Len(rs) = n
  /\ \A i \in DOMAIN rs : rs[i].name \in Nat \ {0} /\ rs[i].seq \in Int
  /\ \A i, j \in DOMAIN rs : rs[i] = rs[j] => i = j

\* _acl_write: one line for every rule.
LEMMA ContentRules ==
  ASSUME NEW a, AclFile(a), a # NoAcls
  PROVE  RuleSeq(AclContent(a).rules)
<1> DEFINE S == DOMAIN a.rules
           R == {z \in S \X S : InOrder(z[1], z[2])}
           q == Ordered(S, InOrder)
           n == Cardinality(S)
<1>1. IsFiniteSet(S) /\ n \in Nat /\ S \subseteq (Nat \ {0}) \X Int
  BY FS_CardinalityType DEF AclFile
<1>2. \A k \in S : k[1] \in Nat \ {0} /\ k[2] \in Int /\ k = <<k[1], k[2]>>
  BY <1>1
<1>3. \A x, y \in S : <<x, y>> \in R <=> x[1] < y[1] \/ (x[1] = y[1] /\ x[2] < y[2])
  BY DEF InOrder
<1> DEFINE rules == [i \in DOMAIN q |->
                       [name |-> q[i][1], seq |-> q[i][2], ok |-> a.rules[q[i]]]]
<1>4. AclContent(a).rules = rules
  BY DEF AclContent
<1> HIDE DEF R, S
<1>5. IsOrder(S, R)
  <2>1. \A x \in S : <<x, x>> \notin R
    BY <1>2, <1>3
  <2>2. \A x, y, z \in S : <<x, y>> \in R /\ <<y, z>> \in R => <<x, z>> \in R
    BY <1>2, <1>3
  <2>3. ASSUME NEW x \in S, NEW y \in S, x # y PROVE <<x, y>> \in R \/ <<y, x>> \in R
    <3>1. x[1] # y[1] \/ x[2] # y[2]
      BY <1>2, <2>3
    <3> QED
      BY <1>2, <1>3, <3>1
  <2> QED
    BY <2>1, <2>2, <2>3 DEF IsOrder
<1>6. q = ByRank(S, R)
  <2>1. \A x \in S : {y \in S : InOrder(y, x)} = Below(S, R, x)
    BY DEF Below, R
  <2>2. ASSUME NEW i \in 1..n
        PROVE  (CHOOSE x \in S : Cardinality({y \in S : InOrder(y, x)}) = i - 1)
                 = CHOOSE x \in S : Cardinality(Below(S, R, x)) = i - 1
    BY <2>1
  <2>3. q = [i \in 1..n |-> CHOOSE x \in S : Cardinality({y \in S : InOrder(y, x)}) = i - 1]
    BY DEF Ordered
  <2> QED
    BY <2>2, <2>3 DEF ByRank
<1> HIDE DEF q
<1>7. /\ \A i \in 1..n : q[i] \in S
      /\ \A i, j \in 1..n : q[i] = q[j] => i = j
  BY <1>1, <1>5, <1>6, OrderedList
<1>8. DOMAIN q = 1..n
  BY <1>6 DEF ByRank
<1> HIDE DEF n
<1>9. rules = [i \in 1..n |-> [name |-> q[i][1], seq |-> q[i][2], ok |-> a.rules[q[i]]]]
  BY <1>8
<1>10. DOMAIN rules = 1..n /\ Len(rules) = n
  BY <1>1, <1>9
<1>11. \A i \in 1..n : rules[i].name = q[i][1] /\ rules[i].seq = q[i][2]
  BY <1>9
<1> HIDE DEF rules
<1>12. \A i, j \in 1..n : rules[i] = rules[j] => i = j
  <2> SUFFICES ASSUME NEW i \in 1..n, NEW j \in 1..n, rules[i] = rules[j] PROVE i = j
    OBVIOUS
  <2>1. q[i][1] = q[j][1] /\ q[i][2] = q[j][2]
    BY <1>11
  <2> QED
    BY <1>2, <1>7, <2>1
<1>13. RuleSeq(rules)
  <2>1. \A i \in 1..n : rules[i].name \in Nat \ {0} /\ rules[i].seq \in Int
    BY <1>2, <1>7, <1>11
  <2> QED
    BY <1>1, <1>10, <1>12, <2>1 DEF RuleSeq
<1> QED
  BY <1>4, <1>13

\* The parser takes the first of them.
LEMMA ParsedRules ==
  ASSUME NEW c, RuleSeq(c.rules)
  PROVE  RuleSeq(Parsed(c))
<1> DEFINE n == Len(c.rules)
           m == Min({AclMaxRules, n})
           T == {c.rules[i] : i \in DOMAIN c.rules}
           p == SubSeq(c.rules, 1, m)
<1>1. n \in Nat /\ DOMAIN c.rules = 1..n
  BY DEF RuleSeq
<1> HIDE DEF n
<1>2. m \in Nat /\ m <= n
  <2>1. AclMaxRules \in Nat
    BY AclAssumption
  <2> QED
    BY <1>1, <2>1, MinOfTwo
<1> HIDE DEF m
<1>3. \A i \in 1..m : c.rules[i] \in T /\ i \in DOMAIN c.rules
  BY <1>1, <1>2
<1> HIDE DEF T
<1>4. p \in Seq(T) /\ Len(p) = m /\ \A i \in 1..m : p[i] = c.rules[i]
  <2>1. /\ p \in Seq(T) /\ Len(p) = (IF 1 <= m THEN m - 1 + 1 ELSE 0)
        /\ \A i \in 1..(m - 1 + 1) : p[i] = c.rules[1 + i - 1]
    BY <1>2, <1>3, SubSeqProperties
  <2>2. m - 1 + 1 = m /\ \A i \in 1..m : 1 + i - 1 = i
    BY <1>2
  <2> HIDE DEF p
  <2> QED
    BY <1>2, <2>1, <2>2
<1>5. DOMAIN p = 1..m
  BY <1>4, LenProperties
<1>6. Parsed(c) = p
  BY DEF Parsed, m, n
<1> HIDE DEF p
<1>7. RuleSeq(p)
  BY <1>2, <1>3, <1>4, <1>5 DEF RuleSeq
<1> QED
  BY <1>6, <1>7

\* The rules that are to go to the chip.
Applied(c) == {r \in ToSet(Parsed(c)) : r.name \in c.binds /\ r.seq >= 0 /\ r.ok}

\* edged_acl_load takes them one after the other, each of them once, lower
\* numbers first.
LEMMA ChosenRules ==
  ASSUME NEW c, RuleSeq(c.rules)
  PROVE  LET L == Len(Chosen(c))
         IN  /\ L \in Nat /\ DOMAIN Chosen(c) = 1..L
             /\ \A k \in 1..L : Chosen(c)[k] \in Applied(c)
             /\ \A r \in Applied(c) : \E k \in 1..L : Chosen(c)[k] = r
             /\ \A i, j \in 1..L : Chosen(c)[i] = Chosen(c)[j] => i = j
             /\ \A i, j \in 1..L : i < j => Chosen(c)[i].seq <= Chosen(c)[j].seq
             /\ \A r \in Applied(c) : r.name \in Nat \ {0} /\ r.seq \in Int
<1> DEFINE rs == Parsed(c)
           S == {i \in DOMAIN rs : rs[i].name \in c.binds /\ rs[i].seq >= 0 /\ rs[i].ok}
           first(i, j) == rs[i].seq < rs[j].seq \/ (rs[i].seq = rs[j].seq /\ i < j)
           R == {z \in S \X S : first(z[1], z[2])}
           q == Ordered(S, first)
           n == Cardinality(S)
           ch == [k \in DOMAIN q |-> rs[q[k]]]
<1>1. Chosen(c) = ch
  BY DEF Chosen
<1>2. RuleSeq(rs)
  BY ParsedRules
<1> HIDE DEF rs
<1>3. PICK m \in Nat : DOMAIN rs = 1..m
  BY <1>2 DEF RuleSeq
<1>4. IsFiniteSet(S) /\ n \in Nat
  <2>1. S \in SUBSET (1..m)
    BY <1>3
  <2>2. IsFiniteSet(1..m)
    BY <1>3, FS_Interval
  <2> HIDE DEF S
  <2> QED
    BY <2>1, <2>2, FS_Subset, FS_CardinalityType
<1>5. \A i \in S : i \in Nat /\ rs[i].seq \in Int /\ rs[i].name \in Nat \ {0} /\ i \in DOMAIN rs
  BY <1>2, <1>3 DEF RuleSeq
<1>6. \A r : r \in Applied(c) <=> \E i \in S : r = rs[i]
  BY DEF Applied, ToSet, rs
<1> HIDE DEF S
<1>7. \A x, y \in S : <<x, y>> \in R <=> first(x, y)
  OBVIOUS
<1>8. \A x \in S : {y \in S : first(y, x)} = Below(S, R, x)
  BY DEF Below
<1> HIDE DEF R
<1>9. IsOrder(S, R)
  <2>1. \A x \in S : <<x, x>> \notin R
    BY <1>5, <1>7
  <2>2. \A x, y, z \in S : <<x, y>> \in R /\ <<y, z>> \in R => <<x, z>> \in R
    BY <1>5, <1>7
  <2>3. ASSUME NEW x \in S, NEW y \in S, x # y PROVE <<x, y>> \in R \/ <<y, x>> \in R
    BY <1>5, <1>7, <2>3
  <2> QED
    BY <2>1, <2>2, <2>3 DEF IsOrder
<1>10. q = ByRank(S, R)
  <2>1. ASSUME NEW i \in 1..n
        PROVE  (CHOOSE x \in S : Cardinality({y \in S : first(y, x)}) = i - 1)
                 = CHOOSE x \in S : Cardinality(Below(S, R, x)) = i - 1
    BY <1>8
  <2>2. q = [i \in 1..n |-> CHOOSE x \in S : Cardinality({y \in S : first(y, x)}) = i - 1]
    BY DEF Ordered
  <2> QED
    BY <2>1, <2>2 DEF ByRank
<1> HIDE DEF q
<1>11. /\ \A i \in 1..n : q[i] \in S
       /\ \A x \in S : \E i \in 1..n : q[i] = x
       /\ \A i, j \in 1..n : i < j <=> <<q[i], q[j]>> \in R
       /\ \A i, j \in 1..n : q[i] = q[j] => i = j
  BY <1>4, <1>9, <1>10, OrderedList
<1>12. DOMAIN q = 1..n
  BY <1>10 DEF ByRank
<1> HIDE DEF n
<1>13. ch = [k \in 1..n |-> rs[q[k]]]
  BY <1>12
<1>14. DOMAIN ch = 1..n /\ Len(ch) = n /\ \A k \in 1..n : ch[k] = rs[q[k]]
  BY <1>4, <1>13
<1> HIDE DEF ch
<1>15. \A k \in 1..n : ch[k] \in Applied(c)
  BY <1>6, <1>11, <1>14
<1>16. ASSUME NEW r \in Applied(c) PROVE \E k \in 1..n : ch[k] = r
  <2>1. PICK i \in S : r = rs[i]
    BY <1>6
  <2>2. PICK k \in 1..n : q[k] = i
    BY <1>11
  <2> QED
    BY <1>14, <2>1, <2>2
<1>17. ASSUME NEW i \in 1..n, NEW j \in 1..n, ch[i] = ch[j] PROVE i = j
  <2>1. rs[q[i]] = rs[q[j]] /\ q[i] \in DOMAIN rs /\ q[j] \in DOMAIN rs
    BY <1>5, <1>11, <1>14, <1>17
  <2>2. q[i] = q[j]
    BY <1>2, <2>1 DEF RuleSeq
  <2> QED
    BY <1>11, <2>2
<1>18. ASSUME NEW i \in 1..n, NEW j \in 1..n, i < j PROVE ch[i].seq <= ch[j].seq
  <2>1. q[i] \in S /\ q[j] \in S /\ <<q[i], q[j]>> \in R
    BY <1>11, <1>18
  <2>2. first(q[i], q[j])
    BY <1>7, <2>1
  <2>3. rs[q[i]].seq \in Int /\ rs[q[j]].seq \in Int
    BY <1>5, <2>1
  <2> QED
    BY <1>14, <2>2, <2>3
<1>19. \A r \in Applied(c) : r.name \in Nat \ {0} /\ r.seq \in Int
  BY <1>5, <1>6
<1> QED
  BY <1>1, <1>4, <1>14, <1>15, <1>16, <1>17, <1>18, <1>19

LEMMA ProbesFit ==
  ASSUME NEW c
  PROVE  Probing(c) \in Seq(Nat) /\ Len(Probing(c)) \in 0..AclMax
<1> DEFINE m == Min({AclMax, Len(ProbeIdx)})
           p == SubSeq(ProbeIdx, 1, m)
<1>1. AclMax \in Nat /\ ProbeIdx \in Seq(Nat) /\ Len(ProbeIdx) \in Nat
  BY AclAssumption
<1>2. m \in Nat /\ m <= AclMax /\ m <= Len(ProbeIdx)
  BY <1>1, MinOfTwo
<1> HIDE DEF m
<1>3. \A i \in 1..m : ProbeIdx[i] \in Nat
  BY <1>1, <1>2
<1>4. p \in Seq(Nat) /\ Len(p) = IF 1 <= m THEN m - 1 + 1 ELSE 0
  BY <1>2, <1>3, SubSeqProperties
<1> HIDE DEF p
<1>5. Len(p) \in 0..AclMax
  BY <1>1, <1>2, <1>4
<1>6. <<>> \in Seq(Nat) /\ Len(<<>>) = 0 /\ 0 \in 0..AclMax
  BY <1>1
<1>7. Probing(c) = p \/ Probing(c) = <<>>
  BY DEF Probing, p, m
<1> QED
  BY <1>4, <1>5, <1>6, <1>7
-----------------------------------------------------------------------------
(* The TCAM.                                                               *)

\* What is neither a trap nor a probe is where rules go, and edged_acl_reset
\* would find it.
TcamOK(a) ==
  /\ a = [tcam |-> a.tcam, used |-> a.used, lookup |-> a.lookup]
  /\ AclEntries(a) \subseteq ToSet(a.used) \cap (AclBase .. (AclBase + AclMax - 1))

LEMMA EmptyTcam ==
  ASSUME NEW a, AclEntries(a) = {}
  PROVE  AclsAsConfigured(a, NoAcls)
<1>1. {a.tcam[i] : i \in AclEntries(a)} = {}
  OBVIOUS
<1>2. Cardinality({}) = 0
  BY FS_EmptySet
<1>3. Min({AclMax, 0}) = 0
  <2>1. AclMax \in Nat /\ 0 \in Nat
    BY AclAssumption
  <2> QED
    BY <2>1, MinOfTwo
<1> QED
  BY <1>1, <1>2, <1>3 DEF AclsAsConfigured

LEMMA FreshTcam == TcamOK(AclInit) /\ AclEntries(AclInit) = {}
<1>1. AclInit.tcam = <<>> /\ AclInit = [tcam |-> AclInit.tcam, used |-> AclInit.used,
                                        lookup |-> AclInit.lookup]
  BY DEF AclInit
<1>2. DOMAIN AclInit.tcam = {}
  BY <1>1
<1> QED
  BY <1>1, <1>2 DEF TcamOK, AclEntries

\* edged_acl_reset.
LEMMA ResetTcam ==
  ASSUME NEW a, TcamOK(a)
  PROVE  TcamOK(AclReset(a)) /\ AclEntries(AclReset(a)) = {}
<1> DEFINE r == AclReset(a)
           D == DOMAIN a.tcam \ ToSet(a.used)
<1>1. r.tcam = [i \in D |-> a.tcam[i]] /\ r = [tcam |-> r.tcam, used |-> r.used, lookup |-> r.lookup]
  <2>1. a = [tcam |-> a.tcam, used |-> a.used, lookup |-> a.lookup]
    BY DEF TcamOK
  <2> DEFINE T == Restrict(a.tcam, D)
  <2>2. r = [a EXCEPT !.tcam = T, !.used = <<>>]
    BY DEF AclReset
  <2>3. T = [i \in D |-> a.tcam[i]]
    BY DEF Restrict
  <2> HIDE DEF r, T, D
  <2>4. r = [tcam |-> T, used |-> <<>>, lookup |-> a.lookup]
    BY <2>1, <2>2
  <2> QED
    BY <2>3, <2>4
<1>2. DOMAIN r.tcam = D /\ \A i \in D : r.tcam[i] = a.tcam[i]
  BY <1>1
<1> HIDE DEF r
<1>3. AclEntries(r) = {}
  <2> SUFFICES ASSUME NEW i \in AclEntries(r) PROVE FALSE
    OBVIOUS
  <2>1. i \in D /\ r.tcam[i] # Trap /\ r.tcam[i] # MatchAll
    BY <1>2 DEF AclEntries, Probes
  <2>2. i \in AclEntries(a) /\ i \notin ToSet(a.used)
    BY <1>2, <2>1 DEF AclEntries, Probes
  <2> QED
    BY <2>2 DEF TcamOK
<1> QED
  BY <1>1, <1>3 DEF TcamOK, r

\* An interval has as many members as its upper end says.
LEMMA CountTo ==
  ASSUME NEW n \in Nat
  PROVE  IsFiniteSet(1..n) /\ Cardinality(1..n) = n
BY FS_Interval

\* edged_acl_load, on a chip that has no rules.
LEMMA LoadTcam ==
  ASSUME NEW a, TcamOK(a), AclEntries(a) = {}, NEW c, c = NoAcls \/ RuleSeq(c.rules)
  PROVE  TcamOK(AclLoad(a, c)) /\ AclsAsConfigured(AclLoad(a, c), c)
<1>1. CASE c = NoAcls
  BY <1>1, EmptyTcam DEF AclLoad
<1>2. CASE c # NoAcls
  <2> DEFINE P == Probing(c)
             ch == Chosen(c)
             n == Len(P)
             L == Len(ch)
             fit == Min({AclMax - n, L})
             first == AclBase + n
             place == first .. first + fit - 1
             t == [i \in ToSet(P) \cup place |->
                     IF i \in place THEN ch[i - first + 1] ELSE MatchAll]
             u == [k \in 1..fit |-> first + k - 1]
             r == [tcam |-> t, used |-> P \o u, lookup |-> TRUE]
             rs == Applied(c)
  <2>1. AclLoad(a, c) = r
    BY <1>2 DEF AclLoad
  <2>2. r.tcam = t /\ r.used = P \o u /\ r = [tcam |-> r.tcam, used |-> r.used, lookup |-> r.lookup]
    OBVIOUS
  <2> HIDE DEF r
  <2>3. /\ L \in Nat /\ DOMAIN ch = 1..L
        /\ \A k \in 1..L : ch[k] \in rs
        /\ \A x \in rs : \E k \in 1..L : ch[k] = x
        /\ \A i, j \in 1..L : ch[i] = ch[j] => i = j
        /\ \A i, j \in 1..L : i < j => ch[i].seq <= ch[j].seq
        /\ \A x \in rs : x.name \in Nat \ {0} /\ x.seq \in Int
    BY <1>2, ChosenRules
  <2>4. P \in Seq(Nat) /\ n \in 0..AclMax
    BY ProbesFit
  <2> HIDE DEF P, ch, L, n, rs
  <2>5. AclMax \in Nat /\ AclBase \in Nat /\ n \in Nat /\ AclMax - n \in Nat
    BY <2>4, AclAssumption
  <2>6. fit \in Nat /\ fit <= L /\ fit <= AclMax - n /\ fit = (IF AclMax - n <= L THEN AclMax - n ELSE L)
    BY <2>3, <2>5, MinOfTwo
  <2> HIDE DEF fit
  <2>7. first \in Nat /\ \A k \in 1..fit : first + k - 1 \in place /\ (first + k - 1) - first + 1 = k
    BY <2>5, <2>6
  <2>8. \A i \in place : i \in Nat /\ i - first + 1 \in 1..fit /\ i \in AclBase .. (AclBase + AclMax - 1)
                         /\ first + (i - first + 1) - 1 = i
    <3>1. first \in Nat /\ AclBase <= first /\ first + fit - 1 <= AclBase + AclMax - 1
      BY <2>5, <2>6
    <3> HIDE DEF first
    <3>2. \A i \in place : i \in Nat /\ i - first + 1 \in 1..fit /\ first + (i - first + 1) - 1 = i
      BY <2>6, <3>1
    <3>3. \A i \in place : i \in AclBase .. (AclBase + AclMax - 1)
      BY <2>5, <2>6, <3>1
    <3> QED
      BY <3>2, <3>3
  <2>9. /\ DOMAIN t = ToSet(P) \cup place
        /\ \A i \in place : t[i] = ch[i - first + 1]
        /\ \A i \in DOMAIN t : i \notin place => t[i] = MatchAll
    OBVIOUS
  <2> HIDE DEF t
  <2>10. \A k \in 1..fit : ch[k] \in rs /\ ch[k] # Trap /\ ch[k] # MatchAll
    <3>1. \A k \in 1..fit : k \in 1..L
      BY <2>3, <2>6
    <3>2. Trap.name = 0 /\ MatchAll.name = 0
      BY DEF Trap, MatchAll
    <3> QED
      BY <2>3, <3>1, <3>2
  <2>11. AclEntries(r) = place
    <3>1. ASSUME NEW i \in place PROVE i \in AclEntries(r)
      <4>1. i \in DOMAIN t /\ t[i] # Trap /\ t[i] # MatchAll
        BY <2>8, <2>9, <2>10
      <4> QED
        BY <2>2, <4>1 DEF AclEntries, Probes
    <3>2. ASSUME NEW i \in AclEntries(r) PROVE i \in place
      <4>1. i \in DOMAIN t /\ t[i] # MatchAll
        BY <2>2 DEF AclEntries, Probes
      <4> QED
        BY <2>9, <4>1
    <3> QED
      BY <3>1, <3>2
  <2>12. \A i \in place : i \in ToSet(P \o u)
    <3>1. u \in Seq(Nat) /\ Len(u) = fit
      <4>1. \A k \in 1..fit : first + k - 1 \in Nat
        BY <2>7, <2>8
      <4>2. u \in [1..fit -> Nat]
        BY <4>1
      <4>3. DOMAIN u = 1..fit
        OBVIOUS
      <4> HIDE DEF u
      <4> QED
        BY <2>6, <4>2, <4>3
    <3>2. \A k \in 1..fit : u[k] = first + k - 1
      OBVIOUS
    <3> HIDE DEF u
    <3>3. /\ P \o u \in Seq(Nat) /\ Len(P \o u) = n + fit
          /\ \A i \in 1..(n + fit) : (P \o u)[i] = IF i <= n THEN P[i] ELSE u[i - n]
      BY <2>4, <3>1, ConcatProperties DEF n
    <3>4. DOMAIN (P \o u) = 1..(n + fit)
      BY <3>3
    <3> DEFINE w == P \o u
    <3> HIDE DEF w, place, first
    <3>5. ASSUME NEW k \in 1..fit PROVE n + k \in DOMAIN w /\ w[n + k] = u[k]
      <4>1. n + k \in 1..(n + fit) /\ ~(n + k <= n) /\ (n + k) - n = k
        BY <2>5, <2>6
      <4> QED
        BY <3>3, <3>4, <4>1 DEF w
    <3>6. ASSUME NEW k \in 1..fit PROVE first + k - 1 \in ToSet(w)
      BY <3>2, <3>5 DEF ToSet
    <3> QED
      BY <2>8, <3>6 DEF w
  <2> HIDE DEF u
  <2>13. TcamOK(r)
    BY <2>2, <2>8, <2>11, <2>12 DEF TcamOK
  <2> DEFINE on == {r.tcam[i] : i \in AclEntries(r)}
             f == [k \in 1..fit |-> ch[k]]
  <2>14. \A i \in place : r.tcam[i] = ch[i - first + 1]
    BY <2>2, <2>9
  <2>15. on = {f[k] : k \in 1..fit}
    <3>1. ASSUME NEW i \in place PROVE r.tcam[i] \in {f[k] : k \in 1..fit}
      BY <2>8, <2>14
    <3>2. ASSUME NEW k \in 1..fit PROVE f[k] \in on
      <4>1. first + k - 1 \in place /\ r.tcam[first + k - 1] = ch[k]
        BY <2>7, <2>14
      <4> QED
        BY <2>11, <4>1
    <3> QED
      BY <2>11, <3>1, <3>2
  <2> HIDE DEF place, first
  <2>16. Cardinality(on) = fit
    <3>1. DOMAIN f = 1..fit /\ IsInjective(f)
      BY <2>3, <2>6 DEF IsInjective
    <3>2. IsFiniteSet(1..fit) /\ Cardinality(1..fit) = fit
      BY <2>6, CountTo
    <3> HIDE DEF f, on
    <3>3. \A z : z \in on <=> \E k \in 1..fit : f[k] = z
      BY <2>15
    <3> DEFINE I == 1..fit
    <3>4. IsFiniteSet(I) /\ Cardinality(I) = fit /\ DOMAIN f = I /\ IsInjective(f)
          /\ \A z : z \in on <=> \E k \in I : f[k] = z
      BY <3>1, <3>2, <3>3
    <3> HIDE DEF I
    <3> QED
      BY <3>4, ImageCount
  <2>17. Cardinality(rs) = L
    <3>1. \A x : x \in rs <=> \E k \in 1..L : ch[k] = x
      BY <2>3
    <3>2. IsInjective(ch)
      BY <2>3 DEF IsInjective
    <3>3. IsFiniteSet(1..L) /\ Cardinality(1..L) = L
      BY <2>3, CountTo
    <3> QED
      BY <2>3, <3>1, <3>2, <3>3, ImageCount
  <2>18. on \subseteq rs
    BY <2>10, <2>15
  <2>19. ASSUME NEW i \in AclEntries(r), NEW j \in AclEntries(r), i < j
         PROVE  r.tcam[i].seq <= r.tcam[j].seq
    <3>1. i \in Nat /\ j \in Nat /\ i - first + 1 \in 1..fit /\ j - first + 1 \in 1..fit
      BY <2>8, <2>11
    <3>2. i - first + 1 < j - first + 1
      BY <2>7, <2>19, <3>1
    <3>3. i - first + 1 \in 1..L /\ j - first + 1 \in 1..L
      BY <2>3, <2>6, <3>1
    <3> QED
      BY <2>3, <2>11, <2>14, <3>2, <3>3
  <2>20. ASSUME NEW x \in on, NEW y \in rs \ on PROVE x.seq <= y.seq
    <3>1. PICK k \in 1..fit : x = ch[k]
      BY <2>15
    <3>2. PICK j \in 1..L : y = ch[j]
      BY <2>3
    <3>3. j \notin 1..fit
      BY <2>15, <3>2
    <3>4. k < j /\ k \in 1..L
      BY <2>3, <2>6, <3>3
    <3> QED
      BY <2>3, <3>1, <3>2, <3>4
  <2>21. Cardinality(on) = Min({AclMax - n, Cardinality(rs)})
    BY <2>16, <2>17 DEF fit
  <2>22. AclsAsConfigured(r, c)
    <3> HIDE DEF on, f
    <3>1. rs = {x \in ToSet(Parsed(c)) : x.name \in c.binds /\ x.seq >= 0 /\ x.ok}
      BY DEF rs, Applied
    <3> HIDE DEF rs
    <3> QED
      BY <1>2, <2>18, <2>19, <2>20, <2>21, <3>1 DEF AclsAsConfigured, on, n, P
  <2> QED
    BY <2>1, <2>13, <2>22
<1> QED
  BY <1>1, <1>2

\* cumulus_replicate_fp: the traps are no rules, and not where rules go.
LEMMA ReplicateTcam ==
  ASSUME NEW a, TcamOK(a), NEW c
  PROVE  /\ TcamOK(Replicate(a))
         /\ AclsAsConfigured(a, c) => AclsAsConfigured(Replicate(a), c)
<1> DEFINE t == [i \in DOMAIN a.tcam \cup TrapIdx |-> IF i \in TrapIdx THEN Trap ELSE a.tcam[i]]
           r == [a EXCEPT !.tcam = t, !.lookup = FALSE]
<1>1. Replicate(a) = r
  BY DEF Replicate
<1>2. a = [tcam |-> a.tcam, used |-> a.used, lookup |-> a.lookup]
  BY DEF TcamOK
<1>3. /\ DOMAIN t = DOMAIN a.tcam \cup TrapIdx
      /\ \A i \in DOMAIN t : t[i] = IF i \in TrapIdx THEN Trap ELSE a.tcam[i]
  OBVIOUS
<1> HIDE DEF t
<1>4. r = [tcam |-> t, used |-> a.used, lookup |-> FALSE]
  <2> HIDE DEF t
  <2>1. r = [a EXCEPT !.tcam = t, !.lookup = FALSE]
    OBVIOUS
  <2> HIDE DEF r
  <2> QED
    BY <1>2, <2>1
<1>5. r.tcam = t /\ r.used = a.used /\ r = [tcam |-> r.tcam, used |-> r.used, lookup |-> r.lookup]
  BY <1>4
<1> HIDE DEF r
<1>6. \A i \in AclEntries(a) : i \in DOMAIN a.tcam /\ i \notin TrapIdx
  BY AclAssumption DEF TcamOK, AclEntries, Probes
<1>7. AclEntries(r) = AclEntries(a) /\ \A i \in AclEntries(a) : r.tcam[i] = a.tcam[i]
  <2>1. ASSUME NEW i \in AclEntries(a) PROVE i \in AclEntries(r) /\ r.tcam[i] = a.tcam[i]
    <3>1. i \in DOMAIN t /\ t[i] = a.tcam[i]
      BY <1>3, <1>6
    <3> QED
      BY <1>5, <3>1 DEF AclEntries, Probes
  <2>2. ASSUME NEW i \in AclEntries(r) PROVE i \in AclEntries(a)
    <3>1. i \in DOMAIN t /\ t[i] # Trap /\ t[i] # MatchAll
      BY <1>5 DEF AclEntries, Probes
    <3>2. i \in DOMAIN a.tcam /\ t[i] = a.tcam[i]
      BY <1>3, <3>1
    <3> QED
      BY <3>1, <3>2 DEF AclEntries, Probes
  <2> QED
    BY <2>1, <2>2
<1>8. {r.tcam[i] : i \in AclEntries(r)} = {a.tcam[i] : i \in AclEntries(a)}
  BY <1>7
<1>9. TcamOK(r)
  BY <1>5, <1>7 DEF TcamOK
<1>10. ASSUME AclsAsConfigured(a, c) PROVE AclsAsConfigured(r, c)
  <2>1. \A i, j \in AclEntries(r) : i < j => r.tcam[i].seq <= r.tcam[j].seq
    BY <1>7, <1>10 DEF AclsAsConfigured
  <2> QED
    BY <1>8, <1>10, <2>1 DEF AclsAsConfigured
<1> QED
  BY <1>1, <1>9, <1>10
-----------------------------------------------------------------------------
(* acls.conf.                                                              *)

\* The commands write nothing else, and the file is there while one does.
AclTypeOK ==
  /\ acl = NoAcls \/ AclFile(acl)
  /\ \A w \in Cmd :
       cmd[w].file = "acl" =>
         AclFile(cmd[w].new) /\ (cmd[w].pc = "open" => AclFile(acl))

LEMMA FileOf ==
  ASSUME NEW f, IsFiniteSet(DOMAIN f), DOMAIN f \subseteq (Nat \ {0}) \X Int, NEW B
  PROVE  AclFile([rules |-> f, binds |-> B])
BY DEF AclFile

LEMMA EmptyFile == AclFile(EmptyAcl)
<1>1. DOMAIN <<>> = {}
  OBVIOUS
<1>2. IsFiniteSet(DOMAIN <<>>) /\ DOMAIN <<>> \subseteq (Nat \ {0}) \X Int
  BY <1>1, FS_EmptySet
<1> QED
  BY <1>2, FileOf DEF EmptyAcl

LEMMA EditedFile ==
  ASSUME NEW a, a = NoAcls \/ AclFile(a), NEW new \in AclEdits(a)
  PROVE  AclFile(new)
<1> DEFINE r == IF a = NoAcls THEN EmptyAcl ELSE a
           f == r.rules
<1>1. AclFile(r)
  BY EmptyFile
<1>2. IsFiniteSet(DOMAIN f) /\ DOMAIN f \subseteq (Nat \ {0}) \X Int
  BY <1>1 DEF AclFile
<1>3. \/ \E rule \in Rules \X BOOLEAN : new = [rules |-> With(f, rule[1], rule[2]), binds |-> r.binds]
      \/ \E k \in Rules : new = [rules |-> Without(f, {k}), binds |-> r.binds]
      \/ \E n \in Names : new = [rules |-> Without(f, {k \in Rules : k[1] = n}),
                                 binds |-> r.binds \ {n}]
      \/ \E n \in Names : \/ new = [rules |-> f, binds |-> r.binds \cup {n}]
                         \/ new = [rules |-> f, binds |-> r.binds \ {n}]
      \/ new = EmptyAcl
  <2>1. \/ new \in {[rules |-> With(f, rule[1], rule[2]), binds |-> r.binds] :
                     rule \in Rules \X BOOLEAN}
        \/ new \in {[rules |-> Without(f, {k}), binds |-> r.binds] : k \in Rules}
        \/ new \in {[rules |-> Without(f, {k \in Rules : k[1] = n}),
                     binds |-> r.binds \ {n}] : n \in Names}
        \/ new \in {[rules |-> f, binds |-> r.binds \cup {n}] : n \in Names}
        \/ new \in {[rules |-> f, binds |-> r.binds \ {n}] : n \in Names}
        \/ new \in {EmptyAcl}
    BY DEF AclEdits
  <2> HIDE DEF r, f
  <2> QED
    BY <2>1
<1> HIDE DEF r, f
<1>4. CASE \E rule \in Rules \X BOOLEAN : new = [rules |-> With(f, rule[1], rule[2]), binds |-> r.binds]
  <2>1. PICK rule \in Rules \X BOOLEAN : new = [rules |-> With(f, rule[1], rule[2]), binds |-> r.binds]
    BY <1>4
  <2>2. rule[1] \in (Nat \ {0}) \X Int
    BY <2>1, ConfigAssumption
  <2>3. DOMAIN With(f, rule[1], rule[2]) = DOMAIN f \cup {rule[1]}
    BY DEF With
  <2>4. IsFiniteSet(DOMAIN f \cup {rule[1]})
    BY <1>2, FS_AddElement
  <2> QED
    BY <1>2, <2>1, <2>2, <2>3, <2>4, FileOf
<1>5. ASSUME NEW K, NEW B, new = [rules |-> Without(f, K), binds |-> B]
      PROVE  AclFile(new)
  <2>1. DOMAIN Without(f, K) = DOMAIN f \ K
    BY DEF Without, Restrict
  <2>2. IsFiniteSet(DOMAIN f \ K)
    BY <1>2, FS_Subset
  <2> QED
    BY <1>2, <1>5, <2>1, <2>2, FileOf
<1>6. CASE \E n \in Names : \/ new = [rules |-> f, binds |-> r.binds \cup {n}]
                           \/ new = [rules |-> f, binds |-> r.binds \ {n}]
  BY <1>2, <1>6, FileOf
<1> QED
  BY <1>3, <1>4, <1>5, <1>6, EmptyFile

LEMMA AclTypeStart == Init => AclTypeOK
BY ConfigAssumption DEF Init, AclTypeOK, AclFile, NoCmd

LEMMA AclTypeStep ==
  ASSUME CmdTypeOK, AclTypeOK, [Next]_vars
  PROVE  AclTypeOK'
<1>1. ASSUME NEW w \in Cmd, Command(w) PROVE AclTypeOK'
  <2>0. \A x \in Cmd : x # w => cmd'[x] = cmd[x]
    BY <1>1, CmdStep
  <2>1. CASE CmdRead(w)
    <3>1. acl' = acl /\ cmd'[w].pc = "read"
      <4>1. cmd'[w].pc = "read"
        BY <2>1 DEF CmdRead, CmdTypeOK
      <4> QED
        BY <2>1, <4>1 DEF CmdRead, fileVars
    <3>2. cmd'[w].file = "acl" => AclFile(cmd'[w].new)
      <4>1. CASE \E new \in L2Edits(l2) :
                   cmd' = [cmd EXCEPT ![w] = [pc |-> "read", file |-> "l2", new |-> new]]
        BY <4>1 DEF CmdTypeOK
      <4>2. CASE \E new \in AclEdits(acl) :
                   cmd' = [cmd EXCEPT ![w] = [pc |-> "read", file |-> "acl", new |-> new]]
        <5>1. PICK new \in AclEdits(acl) :
                cmd' = [cmd EXCEPT ![w] = [pc |-> "read", file |-> "acl", new |-> new]]
          BY <4>2
        <5>2. AclFile(new)
          BY EditedFile DEF AclTypeOK
        <5>3. cmd'[w].new = new
          BY <5>1 DEF CmdTypeOK
        <5> QED
          BY <5>2, <5>3
      <4> QED
        BY <2>1, <4>1, <4>2 DEF CmdRead
    <3> QED
      BY <2>0, <3>1, <3>2 DEF AclTypeOK, AclFile
  <2>2. CASE CmdOpen(w)
    <3>1. /\ acl' = acl \/ AclFile(acl')
          /\ cmd[w].file = "acl" => AclFile(acl')
      BY <2>2, EmptyFile DEF CmdOpen
    <3>2. cmd'[w].file = cmd[w].file /\ cmd'[w].new = cmd[w].new
      BY <1>1, <2>2, CmdMoves DEF CmdOpen, edgedVars
    <3>3. ASSUME NEW x \in Cmd, cmd'[x].file = "acl"
          PROVE  AclFile(cmd'[x].new) /\ (cmd'[x].pc = "open" => AclFile(acl'))
      BY <2>0, <3>1, <3>2, <3>3 DEF AclTypeOK
    <3> QED
      BY <3>1, <3>3 DEF AclTypeOK, AclFile
  <2>3. CASE CmdWrite(w)
    <3>1. cmd'[w].file = cmd[w].file /\ cmd'[w].new = cmd[w].new
      BY <1>1, <2>3, CmdMoves DEF CmdWrite, edgedVars
    <3>2. acl' = acl \/ AclFile(acl')
      <4>1. CASE cmd[w].file = "l2"
        BY <2>3, <4>1 DEF CmdWrite
      <4>2. CASE cmd[w].file = "acl"
        <5> DEFINE new == cmd[w].new
        <5>1. AclFile(acl) /\ AclFile(new)
          BY <2>3, <4>2 DEF CmdWrite, AclTypeOK
        <5>2. PICK K \in SUBSET (DOMAIN acl.rules \ DOMAIN new.rules) :
                acl' = [rules |-> [k \in K \cup DOMAIN new.rules |->
                                     IF k \in K THEN acl.rules[k] ELSE new.rules[k]],
                        binds |-> new.binds]
          BY <2>3, <4>2 DEF CmdWrite
        <5> DEFINE f == [k \in K \cup DOMAIN new.rules |->
                           IF k \in K THEN acl.rules[k] ELSE new.rules[k]]
        <5>3. DOMAIN f = K \cup DOMAIN new.rules
          OBVIOUS
        <5> HIDE DEF new, f
        <5>4. IsFiniteSet(K)
          BY <5>1, FS_Subset DEF AclFile
        <5>5. IsFiniteSet(DOMAIN f) /\ DOMAIN f \subseteq (Nat \ {0}) \X Int
          <6>1. IsFiniteSet(K \cup DOMAIN new.rules)
            BY <5>1, <5>4, FS_Union DEF AclFile
          <6>2. K \subseteq (Nat \ {0}) \X Int /\ DOMAIN new.rules \subseteq (Nat \ {0}) \X Int
            BY <5>1 DEF AclFile
          <6> QED
            BY <5>3, <6>1, <6>2
        <5> QED
          BY <5>2, <5>5, FileOf DEF f
      <4> QED
        BY <4>1, <4>2 DEF CmdTypeOK
    <3>3. cmd'[w].pc = "written"
      BY <1>1, <2>3, CmdMoves DEF CmdWrite, edgedVars
    <3>4. ASSUME NEW x \in Cmd, cmd'[x].file = "acl"
          PROVE  AclFile(cmd'[x].new) /\ (cmd'[x].pc = "open" => AclFile(acl'))
      BY <2>0, <3>1, <3>2, <3>3, <3>4 DEF AclTypeOK
    <3> QED
      BY <3>2, <3>4 DEF AclTypeOK, AclFile
  <2>4. CASE CmdRemove(w)
    <3>1. acl' = NoAcls /\ \A x \in Cmd : cmd[x].pc = "none"
      BY <2>4 DEF CmdRemove
    <3>2. cmd'[w].file = cmd[w].file /\ cmd'[w].new = cmd[w].new /\ cmd'[w].pc = "written"
      BY <1>1, <2>4, CmdMoves DEF CmdRemove, edgedVars
    <3> QED
      BY <2>0, <3>1, <3>2 DEF AclTypeOK
  <2>5. CASE CmdHup(w)
    <3>1. acl' = acl /\ cmd'[w] = NoCmd
      BY <1>1, <2>5, CmdStep DEF CmdHup, fileVars, CmdTypeOK
    <3>2. cmd'[w].file = "l2"
      BY <3>1 DEF NoCmd
    <3> QED
      BY <2>0, <3>1, <3>2 DEF AclTypeOK, AclFile
  <2> QED
    BY <1>1, <2>1, <2>2, <2>3, <2>4, <2>5 DEF Command
<1>2. ASSUME EdgedStep PROVE AclTypeOK'
  BY <1>2, EdgedMoves DEF AclTypeOK, AclFile
<1> QED
  BY <1>1, <1>2 DEF Next, EdgedStep

\* The rules are those of the file, or their turn is still to come.
RulesApplied ==
  \/ Waiting({"exec", "boot l2", "boot acl", "l2", "acl", "down", "dead"})
  \/ AclsAsConfigured(fp, AclContent(acl))

AclIInv ==
  /\ CmdTypeOK /\ AclTypeOK /\ TcamOK(fp) /\ RulesApplied
  /\ epc \in {"boot l2", "boot acl"} => AclEntries(fp) = {}

LEMMA AclStart == Init => AclIInv
BY CmdInit, AclTypeStart, FreshTcam DEF AclIInv, RulesApplied, Waiting, Init

\* What edged reads from the file can be loaded.
LEMMA FileIsRead ==
  ASSUME AclTypeOK
  PROVE  AclContent(acl) = NoAcls \/ RuleSeq(AclContent(acl).rules)
<1>1. CASE acl = NoAcls
  BY <1>1 DEF AclContent
<1>2. CASE acl # NoAcls
  <2>1. AclFile(acl)
    BY <1>2 DEF AclTypeOK
  <2> QED
    BY <1>2, <2>1, ContentRules
<1> QED
  BY <1>1, <1>2

LEMMA AclStep == AclIInv /\ [Next]_vars => AclIInv'
<1> SUFFICES ASSUME AclIInv, [Next]_vars PROVE AclIInv'
  OBVIOUS
<1> USE DEF AclIInv
<1> DEFINE places == {"exec", "boot l2", "boot acl", "l2", "acl", "down", "dead"}
<1>0. AclTypeOK'
  BY AclTypeStep
<1>1. ASSUME NEW w \in Cmd, Command(w) PROVE AclIInv'
  <2>1. /\ Waiting(places) => Waiting(places)'
        /\ Waiting(places)' \/ UNCHANGED fileVars
    BY <1>1, CmdWaits
  <2>2. CmdTypeOK' /\ fp' = fp
    BY <1>1, CmdStep
  <2>3. epc' = epc \/ epc' = "dead"
    BY <1>1 DEF Command, CmdRead, CmdOpen, CmdWrite, CmdRemove, CmdHup, edgedVars
  <2> HIDE DEF places
  <2>4. RulesApplied'
    BY <2>1, <2>2 DEF RulesApplied, fileVars, places
  <2> QED
    BY <1>0, <2>2, <2>3, <2>4 DEF TcamOK
<1>2. ASSUME EdgedStep PROVE CmdTypeOK' /\ UNCHANGED <<acl, cmd>>
  BY <1>2, EdgedMoves
<1>3. CASE BootChip
  <2>1. fp' = AclInit /\ epc' = "boot l2"
    BY <1>3 DEF BootChip, At
  <2>2. CmdTypeOK'
    BY <1>2, <1>3 DEF EdgedStep, Boot
  <2>3. RulesApplied'
    BY <2>1 DEF RulesApplied, Waiting
  <2> QED
    BY <1>0, <2>1, <2>2, <2>3, FreshTcam
<1>4. CASE BootAcl \/ ResyncAcl
  <2>1. PICK a : TcamOK(a) /\ AclEntries(a) = {} /\ fp' = AclLoad(a, AclContent(acl))
    <3>1. CASE BootAcl
      BY <3>1 DEF BootAcl, At
    <3>2. CASE ResyncAcl
      BY <3>2, ResetTcam DEF ResyncAcl
    <3> QED
      BY <1>4, <3>1, <3>2
  <2>2. TcamOK(fp') /\ AclsAsConfigured(fp', AclContent(acl))
    BY <2>1, FileIsRead, LoadTcam
  <2>3. CmdTypeOK' /\ acl' = acl
    BY <1>2, <1>4 DEF EdgedStep, Boot, Loop
  <2>4. RulesApplied'
    BY <2>2, <2>3 DEF RulesApplied
  <2>5. epc' \notin {"boot l2", "boot acl"}
    BY <1>4 DEF BootAcl, ResyncAcl, At
  <2> QED
    BY <1>0, <2>2, <2>3, <2>4, <2>5
<1>5. CASE BootTraps
  <2>1. fp' = Replicate(fp) /\ epc = "boot traps" /\ epc' = "loop" /\ resync' = resync
    BY <1>5 DEF BootTraps, At
  <2>2. CmdTypeOK' /\ acl' = acl /\ cmd' = cmd
    BY <1>2, <1>5 DEF EdgedStep, Boot
  <2>3. TcamOK(fp')
    BY <2>1, ReplicateTcam
  <2>4. RulesApplied'
    <3>1. CASE Waiting(places)
      BY <2>1, <2>2, <3>1 DEF RulesApplied, Waiting
    <3>2. CASE AclsAsConfigured(fp, AclContent(acl))
      BY <2>1, <2>2, <3>2, ReplicateTcam DEF RulesApplied
    <3> QED
      BY <3>1, <3>2 DEF RulesApplied
  <2> QED
    BY <1>0, <2>1, <2>2, <2>3, <2>4
<1>6. CASE BootL2 \/ Resync \/ ResyncL2 \/ Crash \/ Restart
  <2>1. /\ fp' = fp /\ epc' \in places
        /\ epc' \in {"boot l2", "boot acl"} => epc = "boot l2"
    BY <1>6 DEF BootL2, Resync, ResyncL2, Crash, Restart, At
  <2>2. CmdTypeOK'
    BY <1>2, <1>6 DEF EdgedStep, Boot, Loop
  <2>3. RulesApplied'
    BY <2>1 DEF RulesApplied, Waiting
  <2> QED
    BY <1>0, <2>1, <2>2, <2>3 DEF TcamOK
<1>7. CASE UNCHANGED vars
  <2>1. fp' = fp /\ epc' = epc /\ resync' = resync /\ acl' = acl /\ cmd' = cmd
    BY <1>7 DEF vars, edgedVars, fileVars, cmdVars
  <2>2. RulesApplied' /\ CmdTypeOK' /\ TcamOK(fp')
    BY <2>1 DEF RulesApplied, Waiting, CmdTypeOK, TcamOK
  <2> QED
    BY <1>0, <2>1, <2>2
<1> QED
  BY <1>1, <1>3, <1>4, <1>5, <1>6, <1>7 DEF Next, Boot, Loop

\* When nothing is under way the chip has the rules of acls.conf that are
\* applied and no other, as many as fit and lower numbers first, whichever
\* commands overlapped, with each other, with a resync or with the start of
\* edged, and wherever edged crashed.
THEOREM AclsAsTheFileSays == Spec => []AclsApplied
<1>1. AclIInv => AclsApplied
  BY DEF AclIInv, RulesApplied, Waiting, Quiet, AclsApplied
<1> QED
  BY <1>1, AclStart, AclStep, PTL DEF Spec
=============================================================================
