---------------------------- MODULE PacketProofs ----------------------------
(***************************************************************************)
(* What the DMA pool of edged keeps for every size of the pool, of frames, *)
(* descriptors and ring, every alignment and every order in which the SDK  *)
(* takes and gives back blocks: no memory has two users, and no turn of    *)
(* the main loop leaves anything in the pool.                              *)
(*                                                                         *)
(* Then what becomes of packets, for every number of ports, every lane map *)
(* and every content of l2-groups.conf: the service VLANs of the ports     *)
(* stay apart, so that no frame changes its port and none that names its   *)
(* port is kept from its interface, and a port's own address is punted     *)
(* wherever it is in no group.                                             *)
(***************************************************************************)
EXTENDS PacketIo, WellFoundedInduction, TLAPS

Blocks == [at : Nat, len : Nat \ {0}, use : {"table", "ring", "frame", "dcb"}]
PoolType(q) == q \in [size : Nat, offset : Nat, live : SUBSET Blocks]
PoolGood(q) == PoolType(q) /\ PoolOK(q)

\* A block takes at least its length.
LEMMA AlignedCovers ==
  ASSUME NEW n \in Nat \ {0}
  PROVE  Aligned(n) \in Nat \ {0}
<1> DEFINE x == n + CacheLine - 1
           k == x \div CacheLine
<1>1. CacheLine \in Nat \ {0} /\ x \in Nat /\ x >= CacheLine
  BY PoolAssumption
<1>2. k \in Nat /\ k >= 1
  BY <1>1, SMT
<1> HIDE DEF k
<1>3. k * CacheLine \in Nat \ {0}
  BY <1>1, <1>2, SMT
<1> QED
  BY <1>3 DEF Aligned, k

LEMMA BlockEnds ==
  ASSUME NEW b \in Blocks
  PROVE  BlockEnd(b) \in Nat /\ b.at \in Nat /\ b.at < BlockEnd(b)
<1>1. b.at \in Nat /\ b.len \in Nat \ {0}
  BY DEF Blocks
<1>2. Aligned(b.len) \in Nat \ {0}
  BY <1>1, AlignedCovers
<1> QED
  BY <1>1, <1>2 DEF BlockEnd

\* _bde_dma_alloc: the new block is above all that is held.
LEMMA AllocKeeps ==
  ASSUME NEW q, PoolGood(q), NEW n \in Nat \ {0}, HasRoom(q, n),
         NEW use \in {"table", "ring", "frame", "dcb"}
  PROVE  /\ PoolGood(Alloc(q, n, use))
         /\ Top(q, n, use) \in Blocks
         /\ Top(q, n, use) \notin q.live
         /\ Top(q, n, use).at = q.offset
         /\ Alloc(q, n, use).live = q.live \cup {Top(q, n, use)}
         /\ Alloc(q, n, use).offset = BlockEnd(Top(q, n, use))
<1> DEFINE t == Top(q, n, use)
           a == Alloc(q, n, use)
<1>1. q \in [size : Nat, offset : Nat, live : SUBSET Blocks]
  BY DEF PoolGood, PoolType
<1>2. t = [at |-> q.offset, len |-> n, use |-> use]
  BY DEF Top, Block
<1>3. t \in Blocks
  BY <1>1, <1>2 DEF Blocks
<1>4. Aligned(n) \in Nat \ {0}
  BY AlignedCovers
<1>5. BlockEnd(t) = q.offset + Aligned(n)
  BY <1>2 DEF BlockEnd
<1>6. a.size = q.size /\ a.offset = q.offset + Aligned(n) /\ a.live = q.live \cup {t}
  BY <1>1 DEF Alloc
<1>7. PoolType(a)
  <2>1. a = [q EXCEPT !.offset = q.offset + Aligned(n), !.live = q.live \cup {t}]
    BY DEF Alloc
  <2>2. q.offset + Aligned(n) \in Nat /\ q.live \cup {t} \in SUBSET Blocks
    BY <1>1, <1>3, <1>4
  <2> HIDE DEF a, t
  <2> QED
    BY <1>1, <2>1, <2>2 DEF PoolType
<1>8. \A b \in q.live : /\ BlockEnd(b) \in Nat /\ b.at \in Nat
                        /\ b.at < BlockEnd(b) /\ BlockEnd(b) <= q.offset
  BY <1>1, BlockEnds DEF PoolGood, PoolOK
<1>9. \A b \in q.live : b # t /\ Apart(b, t) /\ Apart(t, b)
  BY <1>2, <1>8, <1>1 DEF Apart
<1>10. PoolOK(a)
  <2>1. a.offset <= a.size
    BY <1>6 DEF HasRoom
  <2>2. ASSUME NEW b \in a.live PROVE BlockEnd(b) <= a.offset
    BY <1>1, <1>4, <1>5, <1>6, <1>8
  <2>3. ASSUME NEW b \in a.live, NEW c \in a.live, b # c PROVE Apart(b, c)
    BY <1>6, <1>9, <2>3 DEF PoolGood, PoolOK
  <2> QED
    BY <2>1, <2>2, <2>3 DEF PoolOK
<1> QED
  BY <1>2, <1>3, <1>5, <1>6, <1>7, <1>9, <1>10 DEF PoolGood

\* _bde_dma_free: the offset comes down to the block that was topmost, and what
\* is still held lies below it.
LEMMA FreeKeeps ==
  ASSUME NEW q, PoolGood(q), NEW b \in q.live
  PROVE  /\ PoolGood(Free(q, b))
         /\ Free(q, b).live = q.live \ {b}
         /\ BlockEnd(b) = q.offset => Free(q, b).offset = b.at
<1> DEFINE f == Free(q, b)
<1>1. q \in [size : Nat, offset : Nat, live : SUBSET Blocks]
  BY DEF PoolGood, PoolType
<1>2. /\ f.size = q.size /\ f.live = q.live \ {b}
      /\ f.offset = IF BlockEnd(b) = q.offset THEN b.at ELSE q.offset
  BY <1>1 DEF Free
<1>3. \A c \in q.live : /\ BlockEnd(c) \in Nat /\ c.at \in Nat
                        /\ c.at < BlockEnd(c) /\ BlockEnd(c) <= q.offset
  BY <1>1, BlockEnds DEF PoolGood, PoolOK
<1>4. PoolType(f)
  BY <1>1, <1>2, <1>3 DEF PoolType, Free
<1>5. f.offset <= f.size
  BY <1>1, <1>2, <1>3 DEF PoolGood, PoolOK
<1>6. ASSUME NEW c \in f.live PROVE BlockEnd(c) <= f.offset
  <2>1. c \in q.live /\ c # b
    BY <1>2
  <2>2. Apart(b, c)
    BY <2>1 DEF PoolGood, PoolOK
  <2> QED
    BY <1>1, <1>2, <1>3, <2>1, <2>2 DEF Apart
<1>7. \A c, d \in f.live : c # d => Apart(c, d)
  BY <1>2 DEF PoolGood, PoolOK
<1> QED
  BY <1>2, <1>4, <1>5, <1>6, <1>7 DEF PoolGood, PoolOK
-----------------------------------------------------------------------------
\* The ring of the chip is held by edged from bmd_reset on, and by nobody
\* before that; packet_io_init finds the pool empty.
RingOK ==
  /\ pc \in {"down", "bde"} => pool.live = {}
  /\ pc \notin {"down", "bde"} => ring \subseteq pool.live
  /\ pc \in {"reset", "ports", "vlans", "pool", "packets"} => ring = {}
  /\ pc \in {"ports", "vlans", "pool", "packets"} => pool.live = {}
  /\ pc = "l2" => pool.live \subseteq ring

\* Above the base of the loop there are the buffer of the frame that is being
\* sent and, above that, its descriptor.
TxStack ==
  /\ pc = "tx"
  /\ tx = [port |-> tx.port, directed |-> tx.directed, buf |-> tx.buf, dcb |-> tx.dcb]
  /\ tx.buf \in pool.live \ ring /\ tx.buf.at = base
  /\ \/ /\ tx.dcb = {} /\ BlockEnd(tx.buf) = pool.offset
        /\ pool.live \subseteq ring \cup {tx.buf}
     \/ \E d \in pool.live \ ring :
          /\ tx.dcb = {d} /\ d # tx.buf
          /\ BlockEnd(tx.buf) = d.at /\ BlockEnd(d) = pool.offset
          /\ pool.live \subseteq ring \cup {tx.buf, d}

NoStack == tx = NoTx /\ (pc \in InLoop => pool.offset = base /\ pool.live \subseteq ring)

PacketIInv == PoolGood(pool) /\ RingOK /\ (NoStack \/ TxStack)

LEMMA StackHasFrame == TxStack => tx # NoTx
<1> SUFFICES ASSUME TxStack, tx = NoTx PROVE FALSE
  OBVIOUS
<1>1. DOMAIN tx = {"port", "directed", "buf", "dcb"}
  BY DEF TxStack
<1>2. DOMAIN NoTx = {"port"}
  BY DEF NoTx
<1> QED
  BY <1>1, <1>2

LEMMA PacketInit == Init => PacketIInv
<1> SUFFICES ASSUME Init PROVE PacketIInv
  OBVIOUS
<1>1. pool = [size |-> 0, offset |-> 0, live |-> {}]
  BY DEF Init, NoPool, PoolOpen
<1>2. PoolGood(pool)
  BY <1>1 DEF PoolGood, PoolType, PoolOK
<1> QED
  BY <1>1, <1>2 DEF Init, PacketIInv, RingOK, NoStack, InLoop

LEMMA OpenGood == \A size \in Nat : PoolGood(PoolOpen(size)) /\ PoolOpen(size).live = {}
BY DEF PoolGood, PoolType, PoolOK, PoolOpen

\* bde_open to l2_init.
LEMMA BootStep == PacketIInv /\ Boot => PacketIInv'
<1> SUFFICES ASSUME PacketIInv, Boot PROVE PacketIInv'
  OBVIOUS
<1> USE DEF PacketIInv, RingOK, NoStack, TxStack, InLoop, procVars, chipVars, At
<1>1. CASE BdeOpen
  <2>1. PICK size \in {0, PoolSize} : pool' = PoolOpen(size)
    BY <1>1 DEF BdeOpen
  <2>2. PoolGood(pool') /\ pool'.live = {}
    BY <2>1, OpenGood, PoolAssumption
  <2> QED
    BY <1>1, <2>2 DEF BdeOpen
<1>2. CASE BmdReset
  BY <1>2 DEF BmdReset
<1>3. CASE InitAlloc
  <2>1. PICK n \in InitSizes : HasRoom(pool, n) /\ pool' = Alloc(pool, n, "table")
    BY <1>3 DEF InitAlloc
  <2>2. PoolGood(pool')
    BY <2>1, AllocKeeps, PacketAssumption
  <2> QED
    BY <1>3, <2>2 DEF InitAlloc
<1>4. CASE InitFree
  <2>1. PICK b \in pool.live : pool' = Free(pool, b)
    BY <1>4 DEF InitFree
  <2>2. PoolGood(pool')
    BY <2>1, FreeKeeps
  <2> QED
    BY <1>4, <2>2 DEF InitFree
<1>5. CASE InitDone
  BY <1>5 DEF InitDone
<1>6. CASE ConfigurePorts
  BY <1>6 DEF ConfigurePorts
<1>7. CASE ConfigureVlans
  BY <1>7 DEF ConfigureVlans
<1>8. CASE ResetPool
  <2>1. pool' = [pool EXCEPT !.offset = 0] /\ pool.live = {}
    BY <1>8 DEF ResetPool, PoolReset
  <2>2. PoolGood(pool') /\ pool'.live = {}
    BY <2>1 DEF PoolGood, PoolType, PoolOK
  <2> QED
    BY <1>8, <2>2 DEF ResetPool
<1>9. CASE PacketIoInit
  <2>1. CASE HasRoom(pool, RingSize)
    <3>1. ring' = {Top(pool, RingSize, "ring")} /\ pool' = Alloc(pool, RingSize, "ring")
      BY <1>9, <2>1 DEF PacketIoInit
    <3>2. PoolGood(pool') /\ pool'.live = pool.live \cup ring'
      BY <2>1, <3>1, AllocKeeps, PacketAssumption
    <3> QED
      BY <1>9, <3>2 DEF PacketIoInit
  <2>2. CASE ~HasRoom(pool, RingSize)
    BY <1>9, <2>2 DEF PacketIoInit
  <2> QED
    BY <2>1, <2>2
<1>10. CASE L2Init
  BY <1>10 DEF L2Init
<1> QED
  BY <1>1, <1>2, <1>3, <1>4, <1>5, <1>6, <1>7, <1>8, <1>9, <1>10 DEF Boot

\* handle_tun_tx takes a buffer and bmd_tx a descriptor; both are given back in
\* the opposite order.
LEMMA TxStep ==
  PacketIInv /\ (TunRead \/ TxDescriptor \/ TxDone) => PacketIInv'
<1> SUFFICES ASSUME PacketIInv, TunRead \/ TxDescriptor \/ TxDone PROVE PacketIInv'
  OBVIOUS
<1> USE DEF chipVars, At
<1>1. CASE TunRead
  <2>1. PICK n \in FrameSizes :
          LET p == Min(todo)
              size == n + IF p \in linkUp THEN 0 ELSE TagSize
          IN  IF HasRoom(pool, size)
              THEN /\ pool' = Alloc(pool, size, "frame")
                   /\ tx' = [port |-> p, directed |-> p \in linkUp,
                             buf |-> Top(pool, size, "frame"), dcb |-> {}]
              ELSE UNCHANGED <<pool, tx>>
    BY <1>1 DEF TunRead
  <2> DEFINE p == Min(todo)
             size == n + IF p \in linkUp THEN 0 ELSE TagSize
             t == Top(pool, size, "frame")
  <2>2. size \in Nat \ {0}
    BY PacketAssumption
  <2>3. NoStack /\ pc = "tx" /\ pc' = "tx" /\ UNCHANGED <<ring, base>>
    BY <1>1, StackHasFrame DEF TunRead, PacketIInv
  <2> HIDE DEF size
  <2>4. CASE HasRoom(pool, size)
    <3>1. pool' = Alloc(pool, size, "frame")
      BY <2>1, <2>4 DEF size
    <3>2. tx' = [port |-> p, directed |-> p \in linkUp, buf |-> t, dcb |-> {}]
      BY <2>1, <2>4 DEF size
    <3>3. /\ PoolGood(pool') /\ t \notin pool.live /\ t.at = pool.offset
          /\ pool'.live = pool.live \cup {t} /\ pool'.offset = BlockEnd(t)
      BY <2>2, <2>4, <3>1, AllocKeeps DEF PacketIInv
    <3>4. ring \subseteq pool.live /\ pool.live \subseteq ring /\ pool.offset = base
      BY <2>3 DEF PacketIInv, RingOK, NoStack, InLoop
    <3>5. TxStack'
      BY <2>3, <3>2, <3>3, <3>4 DEF TxStack
    <3>6. RingOK'
      BY <2>3, <3>3, <3>4 DEF RingOK
    <3> QED
      BY <3>3, <3>5, <3>6 DEF PacketIInv
  <2>5. CASE ~HasRoom(pool, size)
    <3>1. UNCHANGED <<pool, tx>>
      BY <2>1, <2>5 DEF size
    <3> QED
      BY <2>3, <3>1 DEF PacketIInv, RingOK, NoStack, InLoop
  <2> QED
    BY <2>4, <2>5
<1>2. CASE TxDescriptor
  <2> DEFINE t == Top(pool, DcbSize, "dcb")
  <2>1. /\ pc = "tx" /\ pc' = "tx" /\ UNCHANGED <<ring, base>>
        /\ HasRoom(pool, DcbSize) /\ pool' = Alloc(pool, DcbSize, "dcb")
        /\ tx # NoTx /\ tx.dcb = {} /\ tx' = [tx EXCEPT !.dcb = {t}]
    BY <1>2 DEF TxDescriptor
  <2>2. TxStack /\ BlockEnd(tx.buf) = pool.offset /\ pool.live \subseteq ring \cup {tx.buf}
    BY <2>1 DEF PacketIInv, NoStack, TxStack
  <2>3. /\ PoolGood(pool') /\ t \notin pool.live /\ t.at = pool.offset
        /\ pool'.live = pool.live \cup {t} /\ pool'.offset = BlockEnd(t)
    BY <2>1, AllocKeeps, PacketAssumption DEF PacketIInv
  <2>4. tx' = [port |-> tx.port, directed |-> tx.directed, buf |-> tx.buf, dcb |-> {t}]
    BY <2>1, <2>2 DEF TxStack
  <2>5. ring \subseteq pool.live
    BY <2>1 DEF PacketIInv, RingOK
  <2>6. TxStack'
    BY <2>1, <2>2, <2>3, <2>4, <2>5 DEF TxStack
  <2>7. RingOK'
    BY <2>1, <2>3, <2>5 DEF RingOK
  <2> QED
    BY <2>3, <2>6, <2>7 DEF PacketIInv
<1>3. CASE TxDone
  <2>1. /\ pc = "tx" /\ pc' = "tx" /\ UNCHANGED <<ring, base>>
        /\ tx # NoTx /\ tx' = NoTx /\ pool' = Freed(pool)
    BY <1>3 DEF TxDone
  <2>2. TxStack /\ ring \subseteq pool.live /\ PoolGood(pool)
    BY <2>1 DEF PacketIInv, NoStack, RingOK
  <2>3. /\ PoolGood(pool') /\ pool'.offset = base
        /\ pool'.live \subseteq ring /\ ring \subseteq pool'.live
    <3>1. CASE tx.dcb = {}
      <4>1. pool' = Free(pool, tx.buf) /\ BlockEnd(tx.buf) = pool.offset
        BY <2>1, <2>2, <3>1 DEF Freed, TxStack
      <4>2. /\ PoolGood(pool') /\ pool'.live = pool.live \ {tx.buf}
            /\ pool'.offset = tx.buf.at
        BY <2>2, <4>1, FreeKeeps DEF TxStack
      <4> QED
        BY <2>2, <3>1, <4>2 DEF TxStack
    <3>2. CASE tx.dcb # {}
      <4>1. PICK d \in pool.live \ ring :
              /\ tx.dcb = {d} /\ d # tx.buf
              /\ BlockEnd(tx.buf) = d.at /\ BlockEnd(d) = pool.offset
              /\ pool.live \subseteq ring \cup {tx.buf, d}
        BY <2>2, <3>2 DEF TxStack
      <4>2. pool' = Free(Free(pool, d), tx.buf)
        BY <2>1, <4>1 DEF Freed
      <4>3. /\ PoolGood(Free(pool, d)) /\ Free(pool, d).live = pool.live \ {d}
            /\ Free(pool, d).offset = d.at
        BY <2>2, <4>1, FreeKeeps
      <4>4. tx.buf \in Free(pool, d).live
        BY <2>2, <4>1, <4>3 DEF TxStack
      <4>5. /\ PoolGood(pool') /\ pool'.live = Free(pool, d).live \ {tx.buf}
            /\ pool'.offset = tx.buf.at
        BY <4>1, <4>2, <4>3, <4>4, FreeKeeps
      <4> QED
        BY <2>2, <4>1, <4>3, <4>5 DEF TxStack
    <3> QED
      BY <3>1, <3>2
  <2>4. NoStack' /\ RingOK'
    BY <2>1, <2>3 DEF NoStack, RingOK, InLoop
  <2> QED
    BY <2>3, <2>4 DEF PacketIInv
<1> QED
  BY <1>1, <1>2, <1>3

LEMMA PacketStep == PacketIInv /\ [Next]_vars => PacketIInv'
<1> SUFFICES ASSUME PacketIInv, [Next]_vars PROVE PacketIInv'
  OBVIOUS
<1>1. CASE Boot
  BY <1>1, BootStep
<1>2. CASE TunRead \/ TxDescriptor \/ TxDone
  BY <1>2, TxStep
<1> USE DEF PacketIInv, RingOK, NoStack, TxStack, InLoop, procVars, chipVars, At
<1>3. CASE Crash \/ Stop
  <2>1. pc' = "down" /\ pool' = PoolOpen(0) /\ tx' = NoTx
    BY <1>3 DEF Crash, Stop, Ended, NoPool
  <2>2. PoolGood(pool') /\ pool'.live = {}
    BY <2>1, OpenGood
  <2> QED
    BY <2>1, <2>2
<1>4. CASE Select
  BY <1>4 DEF Select
<1>5. CASE TxAll
  BY <1>5, StackHasFrame DEF TxAll
<1>6. CASE AsicRx
  BY <1>6 DEF AsicRx
<1>7. ASSUME NEW p \in Ports, NEW mac \in Macs, L2MacAdd(p, mac) \/ L2MacDel(p, mac)
      PROVE  PacketIInv'
  BY <1>7 DEF L2MacAdd, L2MacDel
<1>8. CASE Resync \/ LinkPoll
  BY <1>8 DEF Resync, LinkPoll
<1>9. CASE NextTurn
  BY <1>9 DEF NextTurn
<1>10. ASSUME NEW p \in Ports, WireFrame(p) PROVE PacketIInv'
  BY <1>10 DEF WireFrame
<1>11. CASE UNCHANGED vars
  BY <1>11 DEF vars
<1> QED
  BY <1>1, <1>2, <1>3, <1>4, <1>5, <1>6, <1>7, <1>8, <1>9, <1>10, <1>11
  DEF Next, Poll, Turn

\* The bump allocator with its last-in first-out reclaim, bde_dma_pool_reset and
\* a crash that leaves the chip writing give no memory to two users.
THEOREM NoMemoryShared == Spec => []PoolIntact
<1>1. Init => PacketIInv
  BY PacketInit
<1>2. PacketIInv /\ [Next]_vars => PacketIInv'
  BY PacketStep
<1>3. ASSUME PacketIInv PROVE PoolIntact
  <2>1. PoolOK(pool)
    BY <1>3 DEF PacketIInv, PoolGood
  <2>2. ASSUME NEW b \in pool.live, NEW r \in ring PROVE b = r \/ Apart(b, r)
    <3>1. r \in pool.live
      BY <1>3, <2>2 DEF PacketIInv, RingOK
    <3> QED
      BY <2>1, <3>1 DEF PoolOK
  <2> QED
    BY <2>1, <2>2 DEF PoolIntact
<1> QED
  BY <1>1, <1>2, <1>3, PTL DEF Spec

\* Whatever edged sent, dropped or failed to send, the pool is as full at the
\* head of the loop as it was when the loop was entered.
THEOREM PoolNeverDrains == Spec => []NothingLeaks
<1>1. Init => PacketIInv
  BY PacketInit
<1>2. PacketIInv /\ [Next]_vars => PacketIInv'
  BY PacketStep
<1>3. PacketIInv => NothingLeaks
  BY DEF PacketIInv, NoStack, TxStack, NothingLeaks, InLoop
<1> QED
  BY <1>1, <1>2, <1>3, PTL DEF Spec
-----------------------------------------------------------------------------
(* The VLANs of VlanGroups.                                                *)

\* A service VLAN has no port but its own, as member and by PVID.
OwnVlans(v) ==
  /\ \A p \in Ports : v.pvid[p] \in Vlans /\ v.member[ResvVid(p)] \subseteq {p}
  /\ \A p, q \in Ports : v.pvid[p] = ResvVid(q) => p = q

\* A port that is in no group classifies into its service VLAN.
AtHome(v) == \A p \in Ports : v.group[p] = 0 => v.pvid[p] = ResvVid(p)

LEMMA ReservedVids ==
  ASSUME NEW p \in Ports
  PROVE  /\ ResvVid(p) \in Vlans /\ ResvVid(p) # 1 /\ ~GroupVid(ResvVid(p))
         /\ p \in Nat \ {0}
         /\ \A q \in Ports : ResvVid(p) = ResvVid(q) => p = q
<1>1. p \in 1..(ResvHi - ResvLo) /\ \A q \in Ports : q \in 1..(ResvHi - ResvLo)
  BY VlanAssumption
<1> QED
  BY <1>1, VlanAssumption DEF ResvVid, Vlans, GroupVid

LEMMA FreshVlans ==
  /\ OwnVlans(VlanInit) /\ AtHome(VlanInit) /\ OwnVlans(VlanDefault)
<1>1. 1 \in Vlans
  BY VlanAssumption DEF Vlans
<1> QED
  BY <1>1, ReservedVids DEF VlanInit, VlanDefault, OwnVlans, AtHome

\* vlan_l2_group_apply accepts no VLAN of a port's own.
LEMMA ApplyKeepsOwn ==
  ASSUME NEW v, OwnVlans(v), NEW vid, NEW ports, NEW bad
  PROVE  /\ OwnVlans(Apply(v, vid, ports, bad))
         /\ AtHome(v) => AtHome(Apply(v, vid, ports, bad))
<1>1. CASE ~GroupVid(vid)
  BY <1>1 DEF Apply
<1>2. CASE GroupVid(vid)
  <2> DEFINE S == (ports \cap Ports) \ bad
             w == Apply(v, vid, ports, bad)
  <2>1. /\ w.member = [u \in Vlans |->
                          {p \in v.member[u] : p \in ports \cap Ports => u \notin {1, ResvVid(p)}}
                            \cup (IF u = vid THEN S ELSE {})]
        /\ w.pvid = [p \in Ports |-> IF p \in S THEN vid ELSE v.pvid[p]]
        /\ w.group = [p \in Ports |-> IF p \in S THEN vid ELSE v.group[p]]
    BY <1>2 DEF Apply
  <2> HIDE DEF w, S
  <2>2. \A q \in Ports : ResvVid(q) # vid /\ ResvVid(q) \in Vlans
    BY <1>2, ReservedVids
  <2>3. \A q \in Ports : w.member[ResvVid(q)] \subseteq v.member[ResvVid(q)]
    BY <2>1, <2>2
  <2> vid \in Vlans
    BY <1>2, VlanAssumption DEF GroupVid, Vlans
  <2>4. \A p \in Ports : w.pvid[p] = vid \/ w.pvid[p] = v.pvid[p]
    BY <2>1
  <2>5. OwnVlans(w)
    BY <2>2, <2>3, <2>4 DEF OwnVlans
  <2>6. vid # 0
    BY <1>2, VlanAssumption DEF GroupVid
  <2>7. \A p \in Ports : w.group[p] = 0 => v.group[p] = 0 /\ w.pvid[p] = v.pvid[p]
    BY <2>1, <2>6
  <2>8. AtHome(v) => AtHome(w)
    BY <2>7 DEF AtHome
  <2> QED
    BY <2>5, <2>8 DEF w
<1> QED
  BY <1>1, <1>2

\* vlan_l2_reset takes ports out of VLANs, and puts them into their own.
LEMMA ResetKeepsOwn ==
  ASSUME NEW v, OwnVlans(v), AtHome(v), NEW bad
  PROVE  OwnVlans(Reset(v, bad)) /\ AtHome(Reset(v, bad))
<1> DEFINE w == Reset(v, bad)
<1>1. /\ w.member = [u \in Vlans |->
                 {p \in v.member[u] : v.group[p] # u}
                   \cup {p \in Ports \ bad : v.group[p] # 0 /\ u = ResvVid(p)}]
      /\ w.pvid = [p \in Ports |-> IF v.group[p] # 0 THEN ResvVid(p) ELSE v.pvid[p]]
      /\ w.group = [p \in Ports |-> 0]
  BY DEF Reset
<1> HIDE DEF w
<1>2. \A p \in Ports : w.pvid[p] = ResvVid(p)
  BY <1>1 DEF AtHome
<1>3. ASSUME NEW q \in Ports, NEW p \in w.member[ResvVid(q)] PROVE p = q
  <2>1. p \in v.member[ResvVid(q)] \/ (p \in Ports /\ ResvVid(q) = ResvVid(p))
    BY <1>1, <1>3, ReservedVids
  <2> QED
    BY <2>1, ReservedVids DEF OwnVlans
<1>4. OwnVlans(w) /\ AtHome(w)
  BY <1>2, <1>3, ReservedVids DEF OwnVlans, AtHome
<1> QED
  BY <1>4 DEF w

\* A set of numbers that is not empty has a least.
LEMMA LeastOfNats ==
  ASSUME NEW T, T \subseteq Nat, T # {}
  PROVE  Min(T) \in T /\ \A y \in T : Min(T) <= y
<1> DEFINE R == OpToRel(<, Nat)
<1>1. \E x \in T : \A y \in T : ~ (<<y, x>> \in R)
  BY NatLessThanWellFounded, WFMin, Zenon
<1>2. \A x, y \in T : <<y, x>> \in R <=> y < x
  BY DEF OpToRel
<1> HIDE DEF R
<1>3. PICK x \in T : \A y \in T : ~ (y < x)
  BY <1>1, <1>2, Zenon
<1>4. \A y \in T : x <= y
  BY <1>3
<1> QED
  BY <1>4 DEF Min

\* vlan_load_l2_groups up to the line of VLAN u, of which the lines before it
\* have made r.
Read(r, u, v, l2f, bad) ==
  IF u = 0 THEN v
  ELSE IF u \in DOMAIN l2f THEN LoadLine(r[u - 1], u, l2f[u], bad)
  ELSE r[u - 1]

\* The lines are read one by one: there is what each of them makes of v, and the
\* last one's is what the file does.  (A least number of lines for which there
\* is no such function would have one less that has it.)
LEMMA LoadIsRead ==
  ASSUME NEW v, NEW l2f, NEW bad
  PROVE  \E r : /\ Load(v, l2f, bad) = r[VidMax]
                /\ \A u \in 0..VidMax : r[u] = Read(r, u, v, l2f, bad)
<1> DEFINE Has(m) == \E r : r = [u \in 0..m |-> Read(r, u, v, l2f, bad)]
           T == {m \in Nat : ~Has(m)}
<1>1. ASSUME T # {} PROVE FALSE
  <2> DEFINE m == Min(T)
  <2>1. m \in T /\ \A y \in T : m <= y
    BY <1>1, LeastOfNats
  <2> HIDE DEF m
  <2>2. m \in Nat /\ ~Has(m)
    BY <2>1
  <2>3. m # 0
    <3> DEFINE r == [u \in 0..0 |-> v]
    <3>1. r = [u \in 0..0 |-> Read(r, u, v, l2f, bad)]
      BY DEF Read
    <3> HIDE DEF r
    <3> QED
      BY <2>2, <3>1
  <2>4. m - 1 \in Nat /\ m - 1 \notin T
    BY <2>1, <2>2, <2>3
  <2>5. Has(m - 1)
    BY <2>4
  <2>6. PICK r : r = [u \in 0..(m - 1) |-> Read(r, u, v, l2f, bad)]
    BY <2>5
  <2> DEFINE s == [u \in 0..m |-> IF u = m THEN Read(r, m, v, l2f, bad) ELSE r[u]]
  <2>7. \A u \in 0..m : u # m => u \in 0..(m - 1) /\ s[u] = r[u]
    BY <2>2
  <2>8. \A u \in 0..m : u # 0 => u - 1 \in 0..(m - 1) /\ s[u - 1] = r[u - 1]
    BY <2>2
  <2>9. s[m] = Read(r, m, v, l2f, bad) /\ DOMAIN s = 0..m
    BY <2>2
  <2>10. s = [u \in 0..m |-> s[u]]
    OBVIOUS
  <2> HIDE DEF s
  <2>11. ASSUME NEW u \in 0..m PROVE s[u] = Read(s, u, v, l2f, bad)
    <3>1. Read(s, u, v, l2f, bad) = Read(r, u, v, l2f, bad)
      BY <2>8, Zenon DEF Read
    <3>2. CASE u = m
      BY <2>9, <3>1, <3>2
    <3>3. CASE u # m
      BY <2>6, <2>7, <3>1, <3>3
    <3> QED
      BY <3>2, <3>3
  <2>12. s = [u \in 0..m |-> Read(s, u, v, l2f, bad)]
    BY <2>10, <2>11
  <2> QED
    BY <2>2, <2>12
<1>2. VidMax \in Nat
  BY VlanAssumption
<1>3. Has(VidMax)
  BY <1>1, <1>2
<1> DEFINE f == CHOOSE r : r = [u \in 0..VidMax |-> Read(r, u, v, l2f, bad)]
<1>4. f = [u \in 0..VidMax |-> Read(f, u, v, l2f, bad)]
  BY <1>3, Zenon
<1>5. Load(v, l2f, bad) = f[VidMax]
  BY Zenon DEF Load, Read
<1> HIDE DEF f
<1> QED
  BY <1>4, <1>5

\* So what every line keeps the file keeps.
LEMMA LoadKeepsOwn ==
  ASSUME NEW v, OwnVlans(v), AtHome(v), NEW l2f, NEW bad
  PROVE  OwnVlans(Load(v, l2f, bad)) /\ AtHome(Load(v, l2f, bad))
<1>1. PICK r : /\ Load(v, l2f, bad) = r[VidMax]
              /\ \A u \in 0..VidMax : r[u] = Read(r, u, v, l2f, bad)
  BY LoadIsRead
<1> DEFINE OK(u) == OwnVlans(r[u]) /\ AtHome(r[u])
           T == {u \in 0..VidMax : ~OK(u)}
<1>2. ASSUME T # {} PROVE FALSE
  <2> DEFINE m == Min(T)
  <2>1. m \in T /\ \A y \in T : m <= y
    BY <1>2, LeastOfNats, VlanAssumption
  <2> HIDE DEF m
  <2>2. m \in 0..VidMax /\ ~OK(m) /\ VidMax \in Nat
    BY <2>1, VlanAssumption
  <2>3. r[m] = Read(r, m, v, l2f, bad)
    BY <1>1, <2>2
  <2>4. m # 0
    BY <2>2, <2>3 DEF Read
  <2>5. m - 1 \in 0..VidMax /\ m - 1 \notin T
    BY <2>1, <2>2, <2>4
  <2>6. OK(m - 1)
    BY <2>5
  <2>7. r[m] = r[m - 1] \/ r[m] = LoadLine(r[m - 1], m, l2f[m], bad)
    BY <2>3, <2>4 DEF Read
  <2>8. ASSUME NEW ports PROVE OwnVlans(LoadLine(r[m - 1], m, ports, bad))
                              /\ AtHome(LoadLine(r[m - 1], m, ports, bad))
    BY <2>6, ApplyKeepsOwn DEF LoadLine
  <2> QED
    BY <2>2, <2>6, <2>7, <2>8
<1>3. VidMax \in 0..VidMax
  BY VlanAssumption
<1> QED
  BY <1>1, <1>2, <1>3
-----------------------------------------------------------------------------
(* Packets.                                                                *)

\* A frame in the ring comes from the lane of its port, or from no port that the
\* chip tells.  In a service VLAN only its own port is; that is where a frame is
\* whose port was in no group.
Frames ==
  {f \in [src : {LaneOf[p] : p \in Ports} \cup Unmapped, vid : Vlans, from : Ports,
          alone : BOOLEAN] :
     /\ f.src = LaneOf[f.from] \/ f.src \in Unmapped
     /\ \A q \in Ports : f.vid = ResvVid(q) => q = f.from
     /\ f.alone => f.vid = ResvVid(f.from)}

Punted ==
  \A p \in taps : /\ <<ResvVid(p), OwnMac(p)>> \in DOMAIN l2
                  /\ l2[<<ResvVid(p), OwnMac(p)>>] = Cpu

FramesIInv ==
  /\ OwnVlans(vlan) /\ (pc \in {"pool", "packets", "l2"} \cup InLoop => AtHome(vlan))
  /\ ring # {} => AtHome(vlan)
  /\ taps \subseteq Ports /\ todo \subseteq Ports
  /\ tx = NoTx \/ tx.port \in Ports
  /\ wire \in Seq(Frames)
  /\ pc \in {"l2"} \cup InLoop => Punted
  /\ FramesStayHome

\* portmap_phys_to_swp finds the port of a lane, and of a source that is of no
\* front panel port at most an entry that is not valid.
LEMMA LaneFinds ==
  /\ \A p \in Ports : PhysToSwp(LaneOf[p]) = p /\ Lane(p) = LaneOf[p]
  /\ \A phys \in Unmapped : PhysToSwp(phys) \notin Ports
  /\ \A phys \in Unmapped :
       (phys = 0 => Ports = 1..MaxPorts) => PhysToSwp(phys) = -1
<1>1. Ports \subseteq 1..MaxPorts /\ MaxPorts \in Nat
  BY PacketAssumption
<1>2. ASSUME NEW p \in Ports PROVE PhysToSwp(LaneOf[p]) = p /\ Lane(p) = LaneOf[p]
  <2> DEFINE S == {q \in 1..MaxPorts : Lane(q) = LaneOf[p]}
  <2>1. LaneOf[p] # 0
    BY PacketAssumption
  <2>2. S = {p}
    BY <1>1, <2>1, PacketAssumption DEF Lane
  <2>3. p \in Nat
    BY <1>1
  <2> HIDE DEF S
  <2>4. Min(S) = p
    BY <2>2, <2>3, LeastOfNats
  <2> QED
    BY <2>2, <2>4 DEF PhysToSwp, S, Lane
<1>3. ASSUME NEW phys \in Unmapped
      PROVE  /\ PhysToSwp(phys) \notin Ports
             /\ (phys = 0 => Ports = 1..MaxPorts) => PhysToSwp(phys) = -1
  <2> DEFINE S == {q \in 1..MaxPorts : Lane(q) = phys}
  <2>1. S \cap Ports = {}
    BY PacketAssumption DEF Lane
  <2>2. (phys = 0 => Ports = 1..MaxPorts) => S = {}
    BY PacketAssumption DEF Lane
  <2>3. S \subseteq Nat
    BY <1>1
  <2>4. PhysToSwp(phys) = IF S = {} THEN -1 ELSE Min(S)
    BY DEF PhysToSwp
  <2>5. -1 \notin Ports
    BY <1>1
  <2> HIDE DEF S
  <2>6. S # {} => Min(S) \in S
    BY <2>3, LeastOfNats
  <2> QED
    BY <2>1, <2>2, <2>4, <2>5, <2>6
<1> QED
  BY <1>2, <1>3

\* The source port of a flooded frame is never that of an entry of ports[] that
\* is not valid: physical_lane of those is 0.
SourcesTell == 0 \in Unmapped => Ports = 1..MaxPorts

\* handle_asic_rx finds the port that a frame came in at, or none that has an
\* interface; it does find it when the chip tells it, or the service VLAN.
LEMMA PortFound ==
  ASSUME NEW f \in Frames
  PROVE  /\ f.from \in Ports
         /\ PortOf(f) \in Ports => PortOf(f) = f.from
         /\ f.src = Lane(f.from) => PortOf(f) = f.from
         /\ SourcesTell /\ f.alone => PortOf(f) = f.from
<1>1. f.from \in Ports /\ f.from \in 1..MaxPorts /\ MaxPorts \in Nat /\ ResvLo \in Nat
  BY PacketAssumption, VlanAssumption DEF Frames
<1>2. Lane(f.from) = LaneOf[f.from]
  BY <1>1, LaneFinds
<1>3. CASE f.src = LaneOf[f.from]
  BY <1>1, <1>2, <1>3, LaneFinds DEF PortOf
<1>4. CASE f.src \in Unmapped
  <2>1. f.src # Lane(f.from)
    BY <1>1, <1>2, <1>4, PacketAssumption
  <2>2. PhysToSwp(f.src) \notin Ports
    BY <1>4, LaneFinds
  <2>3. SourcesTell => PhysToSwp(f.src) = -1
    BY <1>4, LaneFinds DEF SourcesTell
  <2>4. -1 \notin 1..MaxPorts /\ -1 \notin Ports
    BY <1>1, PacketAssumption
  <2>5. f.vid \in ResvLo + 1..ResvLo + MaxPorts /\ f.vid - ResvLo \in Ports
          => f.vid - ResvLo = f.from
    <3>1. \A q \in Ports : f.vid = ResvLo + q => q = f.from
      BY DEF Frames, ResvVid
    <3> QED
      BY <1>1, <3>1
  <2>6. f.alone => f.vid \in ResvLo + 1..ResvLo + MaxPorts /\ f.vid - ResvLo = f.from
    BY <1>1 DEF Frames, ResvVid
  <2>7. PortOf(f) = IF PhysToSwp(f.src) \in 1..MaxPorts THEN PhysToSwp(f.src)
                    ELSE IF f.vid \in ResvLo + 1..ResvLo + MaxPorts THEN f.vid - ResvLo
                    ELSE -1
    BY DEF PortOf
  <2>8. PortOf(f) \in Ports => PortOf(f) = f.from
    BY <2>2, <2>4, <2>5, <2>7
  <2>9. SourcesTell /\ f.alone => PortOf(f) = f.from
    BY <2>3, <2>4, <2>6, <2>7
  <2> QED
    BY <1>1, <2>1, <2>8, <2>9
<1> QED
  BY <1>3, <1>4 DEF Frames

\* The loop of packet_io_init and l2_init over the ports.
LEMMA PuntPunts ==
  ASSUME NEW t, NEW S, NEW p,
         p \in S \/ (/\ <<ResvVid(p), OwnMac(p)>> \in DOMAIN t
                    /\ t[<<ResvVid(p), OwnMac(p)>>] = Cpu)
  PROVE  /\ <<ResvVid(p), OwnMac(p)>> \in DOMAIN Punt(t, S)
         /\ Punt(t, S)[<<ResvVid(p), OwnMac(p)>>] = Cpu
<1> DEFINE keys == {<<ResvVid(q), OwnMac(q)>> : q \in S}
<1>1. Punt(t, S) = [k \in DOMAIN t \cup keys |-> IF k \in keys THEN Cpu ELSE t[k]]
  BY DEF Punt
<1>2. p \in S => <<ResvVid(p), OwnMac(p)>> \in keys
  OBVIOUS
<1> HIDE DEF keys
<1> QED
  BY <1>1, <1>2

\* l2_mac_add and l2_mac_del write to VLAN 1, which is no port's own.
LEMMA OthersStay ==
  ASSUME NEW p \in Ports, NEW mac, NEW to
  PROVE  /\ <<ResvVid(p), OwnMac(p)>> # <<1, mac>>
         /\ (/\ <<ResvVid(p), OwnMac(p)>> \in DOMAIN l2
             /\ l2[<<ResvVid(p), OwnMac(p)>>] = Cpu)
              => /\ <<ResvVid(p), OwnMac(p)>> \in DOMAIN Put(l2, <<1, mac>>, to)
                 /\ Put(l2, <<1, mac>>, to)[<<ResvVid(p), OwnMac(p)>>] = Cpu
<1>1. <<ResvVid(p), OwnMac(p)>> # <<1, mac>>
  BY ReservedVids
<1> QED
  BY <1>1 DEF Put

LEMMA FramesInit == Init => FramesIInv
BY FreshVlans DEF Init, FramesIInv, FramesStayHome, InLoop

\* bde_open to l2_init.
LEMMA FramesBoot == PacketIInv /\ FramesIInv /\ Boot => FramesIInv'
<1> SUFFICES ASSUME PacketIInv, FramesIInv, Boot PROVE FramesIInv'
  OBVIOUS
<1> USE DEF FramesIInv, FramesStayHome, InLoop, procVars, chipVars, At
<1>1. CASE BdeOpen \/ InitAlloc \/ InitFree
  BY <1>1 DEF BdeOpen, InitAlloc, InitFree, Punted
<1>2. CASE BmdReset
  BY <1>2 DEF BmdReset
<1>3. CASE InitDone
  BY <1>3, FreshVlans DEF InitDone, PacketIInv, RingOK
<1>4. CASE ConfigurePorts \/ ResetPool
  BY <1>4 DEF ConfigurePorts, ResetPool, Punted
<1>5. CASE ConfigureVlans
  <2>1. OwnVlans(vlan') /\ AtHome(vlan')
    BY <1>5, FreshVlans, LoadKeepsOwn DEF ConfigureVlans
  <2> QED
    BY <1>5, <2>1 DEF ConfigureVlans
<1>6. CASE PacketIoInit
  <2>1. taps' \subseteq Ports /\ l2' = Punt(l2, taps')
    BY <1>6 DEF PacketIoInit
  <2>2. ASSUME NEW p \in taps'
        PROVE  /\ <<ResvVid(p), OwnMac(p)>> \in DOMAIN Punt(l2, taps')
               /\ Punt(l2, taps')[<<ResvVid(p), OwnMac(p)>>] = Cpu
    BY <2>2, PuntPunts
  <2>3. Punted'
    BY <2>1, <2>2, Zenon DEF Punted
  <2> QED
    BY <1>6, <2>1, <2>3 DEF PacketIoInit
<1>7. CASE L2Init
  <2> DEFINE t == Put(l2, <<1, MgmtMac>>, Cpu)
             S == enabled \cap taps
  <2>1. l2' = Punt(t, S) /\ taps' = taps /\ Punted /\ taps \subseteq Ports
    BY <1>7 DEF L2Init
  <2>2. ASSUME NEW p \in taps
        PROVE  /\ <<ResvVid(p), OwnMac(p)>> \in DOMAIN t
               /\ t[<<ResvVid(p), OwnMac(p)>>] = Cpu
    <3>1. /\ p \in Ports /\ <<ResvVid(p), OwnMac(p)>> \in DOMAIN l2
          /\ l2[<<ResvVid(p), OwnMac(p)>>] = Cpu
      BY <2>1 DEF Punted
    <3> QED
      BY <3>1, OthersStay, Zenon
  <2> HIDE DEF t, S
  <2>3. ASSUME NEW p \in taps
        PROVE  /\ <<ResvVid(p), OwnMac(p)>> \in DOMAIN Punt(t, S)
               /\ Punt(t, S)[<<ResvVid(p), OwnMac(p)>>] = Cpu
    BY <2>2, PuntPunts
  <2>4. Punted'
    BY <2>1, <2>3, Zenon DEF Punted
  <2> QED
    BY <1>7, <2>4 DEF L2Init
<1> QED
  BY <1>1, <1>2, <1>3, <1>4, <1>5, <1>6, <1>7 DEF Boot

\* packet_io_rx_poll: a frame that is sent leaves by its own port, and one that
\* is received goes to its own interface.
LEMMA FramesPoll == PacketIInv /\ FramesIInv /\ Poll => FramesIInv'
<1> SUFFICES ASSUME PacketIInv, FramesIInv, Poll PROVE FramesIInv'
  OBVIOUS
<1> USE DEF FramesIInv, FramesStayHome, InLoop, procVars, chipVars, At
<1>1. CASE Select \/ TxAll
  BY <1>1 DEF Select, TxAll, Punted
<1>2. CASE TunRead
  <2>1. todo # {} /\ todo' \subseteq todo
    BY <1>2 DEF TunRead
  <2>2. Min(todo) \in Ports
    <3>1. Ports \subseteq Nat
      BY VlanAssumption
    <3> QED
      BY <2>1, <3>1, LeastOfNats
  <2>3. tx' = tx \/ tx'.port = Min(todo)
    BY <1>2 DEF TunRead
  <2> QED
    BY <1>2, <2>1, <2>2, <2>3 DEF TunRead, Punted
<1>3. CASE TxDescriptor
  <2>1. TxStack
    BY <1>3 DEF TxDescriptor, PacketIInv, NoStack
  <2>2. tx'.port = tx.port
    BY <1>3, <2>1 DEF TxDescriptor, TxStack
  <2> QED
    BY <1>3, <2>2 DEF TxDescriptor, Punted
<1>4. CASE TxDone
  <2>1. tx.port \in Ports
    BY <1>4 DEF TxDone
  <2>2. Leaves \subseteq {tx.port}
    BY <2>1, LaneFinds DEF Leaves, OwnVlans
  <2>3. moved' \subseteq {[from |-> tx.port, to |-> q, ok |-> TRUE] : q \in Leaves}
    BY <1>4 DEF TxDone
  <2>4. \A m \in moved' : m.from = m.to
    BY <2>2, <2>3
  <2>5. tx' = NoTx /\ todo' \subseteq todo
    BY <1>4 DEF TxDone
  <2> QED
    BY <1>4, <2>4, <2>5 DEF TxDone, Punted
<1>5. CASE AsicRx
  <2>1. CASE rxInit /\ wire # <<>>
    <3>1. Head(wire) \in Frames /\ Tail(wire) \in Seq(Frames)
      BY <2>1
    <3>2. PICK taken \in BOOLEAN :
            moved' = {[from |-> Head(wire).from, to |-> q, ok |-> taken] :
                        q \in taps \cap {PortOf(Head(wire))}}
      BY <1>5, <2>1 DEF AsicRx
    <3>3. \A q \in taps \cap {PortOf(Head(wire))} : q = Head(wire).from
      BY <3>1, PortFound
    <3>4. \A m \in moved' : m.from = m.to
      BY <3>2, <3>3
    <3> QED
      BY <1>5, <2>1, <3>1, <3>4 DEF AsicRx, Punted
  <2>2. CASE ~(rxInit /\ wire # <<>>)
    BY <1>5, <2>2 DEF AsicRx, Punted
  <2> QED
    BY <2>1, <2>2
<1> QED
  BY <1>1, <1>2, <1>3, <1>4, <1>5 DEF Poll

\* What the chip receives is of the port's own service VLAN, or of a group's.
LEMMA FramesArrive ==
  ASSUME FramesIInv, NEW p \in Ports, WireFrame(p)
  PROVE  FramesIInv'
<1>1. PICK src \in Unmapped \cup {Lane(p)} :
        wire' = Append(wire, [src |-> src, vid |-> vlan.pvid[p],
                              from |-> p, alone |-> vlan.group[p] = 0])
  BY DEF WireFrame
<1> DEFINE f == [src |-> src, vid |-> vlan.pvid[p], from |-> p, alone |-> vlan.group[p] = 0]
<1>2. f \in Frames
  <2>1. vlan.pvid[p] \in Vlans /\ \A q \in Ports : vlan.pvid[p] = ResvVid(q) => q = p
    BY DEF FramesIInv, OwnVlans
  <2>2. vlan.group[p] = 0 => vlan.pvid[p] = ResvVid(p)
    BY DEF FramesIInv, AtHome, WireFrame
  <2>3. Lane(p) = LaneOf[p]
    BY LaneFinds
  <2> QED
    BY <2>1, <2>2, <2>3 DEF Frames
<1> HIDE DEF f
<1>3. wire' = Append(wire, f)
  BY <1>1 DEF f
<1>4. wire' \in Seq(Frames)
  BY <1>2, <1>3 DEF FramesIInv
<1> QED
  BY <1>4 DEF WireFrame, FramesIInv, FramesStayHome, InLoop, procVars, Punted

LEMMA FramesStep == PacketIInv /\ FramesIInv /\ [Next]_vars => FramesIInv'
<1> SUFFICES ASSUME PacketIInv, FramesIInv, [Next]_vars PROVE FramesIInv'
  OBVIOUS
<1>1. CASE Boot
  BY <1>1, FramesBoot
<1>2. CASE Poll
  BY <1>2, FramesPoll
<1>3. ASSUME NEW p \in Ports, WireFrame(p) PROVE FramesIInv'
  BY <1>3, FramesArrive
<1> USE DEF FramesIInv, FramesStayHome, InLoop, procVars, chipVars, At
<1>4. CASE Crash
  BY <1>4 DEF Crash, Ended
<1>5. ASSUME NEW p \in Ports, NEW mac \in Macs, L2MacAdd(p, mac) PROVE FramesIInv'
  <2>1. Punted'
    BY <1>5, OthersStay DEF L2MacAdd, Punted
  <2> QED
    BY <1>5, <2>1 DEF L2MacAdd
<1>6. ASSUME NEW p \in Ports, NEW mac \in Macs, L2MacDel(p, mac) PROVE FramesIInv'
  <2>1. l2' = [k \in DOMAIN l2 \ {<<1, mac>>} |-> l2[k]] /\ taps' = taps /\ Punted
    BY <1>6 DEF L2MacDel
  <2>2. \A q \in taps : <<ResvVid(q), OwnMac(q)>> # <<1, mac>>
    BY OthersStay
  <2>3. Punted'
    BY <2>1, <2>2 DEF Punted
  <2> QED
    BY <1>6, <2>3 DEF L2MacDel
<1>7. CASE Resync
  <2>1. OwnVlans(vlan') /\ AtHome(vlan')
    BY <1>7, ResetKeepsOwn, LoadKeepsOwn DEF Resync
  <2> QED
    BY <1>7, <2>1 DEF Resync, Punted
<1>8. CASE LinkPoll \/ NextTurn
  BY <1>8 DEF LinkPoll, NextTurn, Punted
<1>9. CASE Stop
  <2>1. pc' = "down" /\ taps' = {} /\ todo' = {} /\ tx' = NoTx /\ moved' = {} /\ vlan' = vlan
    BY <1>9 DEF Stop, Ended
  <2>2. wire' = wire \/ wire' = <<>>
    BY <1>9 DEF Stop
  <2>3. wire' \in Seq(Frames)
    <3>1. wire \in Seq(Frames) /\ <<>> \in Seq(Frames)
      OBVIOUS
    <3> QED
      BY <2>2, <3>1, Zenon
  <2>4. ring' = ring \/ ring' = {}
    BY <1>9 DEF Stop
  <2>5. ring' # {} => AtHome(vlan')
    BY <2>1, <2>4
  <2> QED
    BY <2>1, <2>3, <2>5 DEF Punted
<1>10. CASE UNCHANGED vars
  BY <1>10 DEF vars, Punted
<1> QED
  BY <1>1, <1>2, <1>3, <1>4, <1>5, <1>6, <1>7, <1>8, <1>9, <1>10 DEF Next, Turn

\* Whatever groups there are and were, and wherever edged stopped before: a frame
\* that the kernel sends on an interface leaves by no other port, and one that
\* comes in at a port goes to no other interface.
THEOREM NoFrameStrays == Spec => []FramesStayHome
<1>1. Init => PacketIInv /\ FramesIInv
  BY PacketInit, FramesInit
<1>2. PacketIInv /\ FramesIInv /\ [Next]_vars => PacketIInv' /\ FramesIInv'
  BY PacketStep, FramesStep
<1>3. FramesIInv => FramesStayHome
  BY DEF FramesIInv
<1> QED
  BY <1>1, <1>2, <1>3, PTL DEF Spec

\* No neighbour, group or resync takes the entry that punts a port's own address
\* away, and a port that is in no group is looked up in the VLAN it is in.
THEOREM OwnMacReachesHost == Spec => []OwnMacPunted
<1>1. Init => PacketIInv /\ FramesIInv
  BY PacketInit, FramesInit
<1>2. PacketIInv /\ FramesIInv /\ [Next]_vars => PacketIInv' /\ FramesIInv'
  BY PacketStep, FramesStep
<1>3. FramesIInv => OwnMacPunted
  BY DEF FramesIInv, OwnMacPunted, Punted, AtHome
<1> QED
  BY <1>1, <1>2, <1>3, PTL DEF Spec

\* No frame is kept from the interface of its port that names it, by its source or
\* by the service VLAN it came in by, also when the port has been put into a group
\* since; what is lost is what the kernel refuses, and copies of grouped ports'
\* frames.  Source ports must tell the frames of a port from those of no port.
THEOREM FramesAreHanded ==
  ASSUME SourcesTell
  PROVE  Spec => FramesHanded
<1> DEFINE Hands ==
             wire # <<>> /\ wire' = Tail(wire) /\ pc' = "work" =>
               LET f == Head(wire) IN
               f.from \in taps /\ (f.src = Lane(f.from) \/ f.alone) => moved' # {}
<1>1. Init => PacketIInv /\ FramesIInv
  BY PacketInit, FramesInit
<1>2. PacketIInv /\ FramesIInv /\ [Next]_vars => PacketIInv' /\ FramesIInv'
  BY PacketStep, FramesStep
<1>3. FramesIInv /\ [Next]_vars => [Hands]_vars
  <2> SUFFICES ASSUME FramesIInv, Next, wire # <<>>, wire' = Tail(wire), pc' = "work",
                      Head(wire).from \in taps,
                      Head(wire).src = Lane(Head(wire).from) \/ Head(wire).alone
               PROVE  moved' # {}
    OBVIOUS
  <2>1. wire \in Seq(Frames) /\ Head(wire) \in Frames /\ wire' # wire
    <3>1. wire \in Seq(Frames)
      BY DEF FramesIInv
    <3>2. Len(Tail(wire)) # Len(wire)
      BY <3>1
    <3> QED
      BY <3>1, <3>2
  <2>2. AsicRx
    <3>1. ~Boot /\ ~Crash /\ ~Select /\ ~TunRead /\ ~TxDescriptor /\ ~TxDone /\ ~TxAll
      BY <2>1 DEF Boot, BdeOpen, BmdReset, InitAlloc, InitFree, InitDone, ConfigurePorts,
                  ConfigureVlans, ResetPool, PacketIoInit, L2Init, Crash, Select, TunRead,
                  TxDescriptor, TxDone, TxAll, At
    <3>2. ~Resync /\ ~LinkPoll /\ ~NextTurn /\ ~Stop
      BY <2>1 DEF Resync, LinkPoll, NextTurn, Stop, At, chipVars
    <3>3. \A p \in Ports, mac \in Macs : ~L2MacAdd(p, mac) /\ ~L2MacDel(p, mac)
      BY <2>1 DEF L2MacAdd, L2MacDel
    <3>4. ASSUME NEW p \in Ports, WireFrame(p) PROVE FALSE
      <4>1. PICK f : wire' = Append(wire, f)
        BY <3>4 DEF WireFrame
      <4>2. Len(wire') = Len(wire) + 1 /\ Len(Tail(wire)) = Len(wire) - 1
        BY <2>1, <4>1
      <4> QED
        BY <2>1, <4>2
    <3> QED
      BY <3>1, <3>2, <3>3, <3>4 DEF Next, Poll, Turn
  <2>3. PICK taken \in BOOLEAN :
          moved' = {[from |-> Head(wire).from, to |-> q, ok |-> taken] :
                      q \in taps \cap {PortOf(Head(wire))}}
    BY <2>1, <2>2 DEF AsicRx
  <2>4. PortOf(Head(wire)) = Head(wire).from
    BY <2>1, PortFound
  <2> QED
    BY <2>3, <2>4
<1> QED
  BY <1>1, <1>2, <1>3, PTL DEF Spec, FramesHanded
=============================================================================
