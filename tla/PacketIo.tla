----------------------------- MODULE PacketIo ------------------------------
(***************************************************************************)
(* The life of edged on a BCM56846 switch, as its packets see it: start of *)
(* the chip (bde_interface.c, portmap.c, vlan.c), core/datapath/packet_io.c*)
(* and l2.c, and the order in which edged.c calls them.                    *)
(*                                                                         *)
(* edged is one thread.  Beside it run the chip, which puts frames from    *)
(* the wire into the receive ring as long as the ring is on, and whoever   *)
(* ends edged.  A process that ends leaves the ring on, and the chip goes  *)
(* on writing to the memory of its pool until the next bmd_reset.          *)
(*                                                                         *)
(* External: the SDK (bmd calls), which takes blocks of the pool in any    *)
(* order while it starts the chip, one block for the ring and one          *)
(* descriptor for each frame it sends; the chip; the kernel behind the     *)
(* TAP interfaces.                                                         *)
(* Frames come untagged from the wire.  Writes to the chip's L2 and VLAN   *)
(* tables work here; EdgedConfig has those that do not.                    *)
(***************************************************************************)
EXTENDS VlanGroups, DmaPool

CONSTANTS
  MaxPorts,    \* EDGED_MAX_PORTS
  LaneOf,      \* physical_lane of each valid port
  Unmapped,    \* source ports of copies for the CPU that are of no front panel port
  PeerMacs,    \* MAC addresses of neighbours, other than those of edged
  FrameSizes, TagSize,  \* lengths of frames to send, of a VLAN tag
  RingSize, DcbSize,    \* what bmd_rx_start and bmd_tx take from the pool
  InitSizes,   \* what the SDK takes while it starts the chip
  L2Files,     \* contents of l2-groups.conf
  RingMax,     \* frames that the ring holds, 64
  MaxStarts, MaxFrames, MaxChanges  \* bounds of the model

ASSUME PacketAssumption ==
  /\ MaxPorts \in Nat /\ Ports \subseteq 1..MaxPorts
  /\ LaneOf \in [Ports -> Nat \ {0}]
  /\ \A p, q \in Ports : LaneOf[p] = LaneOf[q] => p = q
  /\ \A p \in Ports : LaneOf[p] \notin Unmapped
  /\ FrameSizes \subseteq Nat \ {0} /\ InitSizes \subseteq Nat \ {0}
  /\ TagSize \in Nat /\ RingSize \in Nat \ {0} /\ DcbSize \in Nat \ {0}
  /\ \A f \in L2Files : DOMAIN f \subseteq Vlans

VARIABLES
  pc,       \* where edged is
  pool,     \* edged: the DMA pool
  rxInit,   \* edged: rx_initialized
  taps,     \* edged: ports whose tun_fd is open
  enabled,  \* edged: ports that portmap_configure_ports has enabled
  linkUp,   \* edged: ports whose link_up is set
  todo,     \* edged: TAPs that select has found readable, not yet served
  tx,       \* edged: the frame being sent, NoTx between frames
  base,     \* pool.offset when the main loop was entered
  vlan,     \* edged and chip: VlanGroups
  ring,     \* chip: the blocks that its receive DMA writes to
  wire,     \* chip: frames in the ring, [src, vid] and, as history, where each came
            \* in (from) and whether that port was in no group then (alone)
  l2,       \* chip: static L2 entries, <<VLAN, MAC>> -> port
  moved,    \* ports [from, to] between which the last step moved a frame, and
            \* whether it was taken there (ok)
  starts, frames, changes  \* counters of the bounds

procVars  == <<pool, rxInit, taps, enabled, linkUp, todo, tx, base>>
chipVars  == <<vlan, ring, wire, l2>>
countVars == <<starts, frames, changes>>
vars == <<pc, procVars, chipVars, moved, countVars>>

Booting == {"bde", "reset", "ports", "vlans", "pool", "packets", "l2"}
InLoop == {"select", "tx", "rx", "work"}

Cpu == 0
NoTx == [port |-> 0]

(***************************************************************************)
(* The numbers of a port.  The entries of ports[] that are not valid have  *)
(* lane 0.  TUN addresses: the MAC of a port is base + its number, that of *)
(* the management port, the base, is 0 here.                               *)
(***************************************************************************)
Lane(p) == IF p \in Ports THEN LaneOf[p] ELSE 0

\* portmap_phys_to_swp.
PhysToSwp(phys) ==
  LET S == {p \in 1..MaxPorts : Lane(p) = phys} IN IF S = {} THEN -1 ELSE Min(S)

MgmtMac == 0
OwnMac(p) == p
Macs == 0..MaxPorts \cup PeerMacs

\* A process that has ended holds nothing; what it did to the chip stays.
Ended ==
  /\ pool' = NoPool /\ rxInit' = FALSE /\ taps' = {} /\ enabled' = {}
  /\ linkUp' = {} /\ todo' = {} /\ tx' = NoTx /\ base' = 0

Init ==
  /\ pc = "down" /\ pool = NoPool /\ rxInit = FALSE /\ taps = {}
  /\ enabled = {} /\ linkUp = {} /\ todo = {} /\ tx = NoTx /\ base = 0
  /\ vlan = VlanInit /\ ring = {} /\ wire = <<>> /\ l2 = <<>> /\ moved = {}
  /\ starts = 0 /\ frames = 0 /\ changes = 0

At(here, there) == pc = here /\ pc' = there /\ moved' = {}
-----------------------------------------------------------------------------
(* The start of edged: asic_init and main.                                 *)

\* bde_open; the kernel module may have no pool to give.
BdeOpen ==
  /\ At("down", "bde")
  /\ starts < MaxStarts /\ starts' = starts + 1
  /\ \E size \in {0, PoolSize} : pool' = PoolOpen(size)
  /\ UNCHANGED <<rxInit, taps, enabled, linkUp, todo, tx, base, chipVars,
                 frames, changes>>

\* cdk_init attaches the driver, and bmd_reset stops the chip.
BmdReset ==
  /\ At("bde", "reset")
  /\ ring' = {} /\ wire' = <<>> /\ l2' = <<>>
  /\ UNCHANGED <<procVars, vlan, countVars>>

\* bmd_init and bmd_switching_init write tables through the pool.
InitAlloc ==
  /\ At("reset", "reset") /\ Cardinality(pool.live) < 2
  /\ \E n \in InitSizes :
       /\ HasRoom(pool, n)
       /\ Top(pool, n, "table") \notin pool.live
       /\ pool' = Alloc(pool, n, "table")
  /\ UNCHANGED <<rxInit, taps, enabled, linkUp, todo, tx, base, chipVars, countVars>>

InitFree ==
  /\ At("reset", "reset")
  /\ \E b \in pool.live : pool' = Free(pool, b)
  /\ UNCHANGED <<rxInit, taps, enabled, linkUp, todo, tx, base, chipVars, countVars>>

\* VLAN 1 has all ports, as bmd_switching_init leaves it.
VlanDefault ==
  [member |-> [u \in Vlans |-> IF u = 1 THEN Ports ELSE {}],
   pvid |-> [p \in Ports |-> 1], group |-> [p \in Ports |-> 0]]

InitDone ==
  /\ At("reset", "ports") /\ pool.live = {} /\ vlan' = VlanDefault
  /\ UNCHANGED <<procVars, ring, wire, l2, countVars>>

\* portmap_configure_ports: a port whose mode cannot be set is not enabled.
ConfigurePorts ==
  /\ At("ports", "vlans") /\ enabled' \in SUBSET Ports
  /\ UNCHANGED <<pool, rxInit, taps, linkUp, todo, tx, base, chipVars, countVars>>

\* vlan_init_default, vlan_init_resv_per_port and vlan_load_l2_groups.
ConfigureVlans ==
  /\ At("vlans", "pool")
  /\ \E f \in L2Files : vlan' = Load(VlanInit, f, {})
  /\ UNCHANGED <<procVars, ring, wire, l2, countVars>>

\* bde_dma_pool_reset, between asic_init and packet_io_init.
ResetPool ==
  /\ At("pool", "packets") /\ pool' = PoolReset(pool)
  /\ UNCHANGED <<rxInit, taps, enabled, linkUp, todo, tx, base, chipVars, countVars>>

Put(t, key, to) == [k \in DOMAIN t \cup {key} |-> IF k = key THEN to ELSE t[k]]

\* Own MAC addresses go to the CPU in the service VLAN of their port.
Punt(t, S) ==
  LET keys == {<<ResvVid(p), OwnMac(p)>> : p \in S}
  IN  [k \in DOMAIN t \cup keys |-> IF k \in keys THEN Cpu ELSE t[k]]

\* packet_io_init: some TAPs cannot be made; rx_dma_init fails where the pool
\* has no room, and receiving is off.
PacketIoInit ==
  /\ At("packets", "l2")
  /\ taps' \in SUBSET Ports
  /\ l2' = Punt(l2, taps')
  /\ rxInit' = HasRoom(pool, RingSize)
  /\ IF rxInit' THEN /\ ring' = {Top(pool, RingSize, "ring")}
                     /\ pool' = Alloc(pool, RingSize, "ring")
                ELSE UNCHANGED <<ring, pool>>
  /\ UNCHANGED <<enabled, linkUp, todo, tx, base, vlan, wire, countVars>>

\* l2_init, after packet_io_init has not failed for want of any TAP.
L2Init ==
  /\ At("l2", "select") /\ taps # {} /\ base' = pool.offset
  /\ l2' = Punt(Put(l2, <<1, MgmtMac>>, Cpu), enabled \cap taps)
  /\ UNCHANGED <<pool, rxInit, taps, enabled, linkUp, todo, tx, vlan, ring,
                 wire, countVars>>

\* A step of the start that fails, packet_io_init without a TAP among them (its
\* ring is on by then), and a crash anywhere: edged ends and leaves the chip on.
Crash ==
  /\ pc # "down" /\ pc' = "down" /\ moved' = {} /\ Ended
  /\ UNCHANGED <<chipVars, countVars>>
-----------------------------------------------------------------------------
(* packet_io_rx_poll: the TAPs that select finds readable, one after the   *)
(* other, and then one frame of the ring.                                  *)

Select ==
  /\ At("select", "tx") /\ todo' \in SUBSET taps
  /\ UNCHANGED <<pool, rxInit, taps, enabled, linkUp, tx, base, chipVars, countVars>>

\* handle_tun_tx reads a frame, tags it if its port is down, and takes a buffer
\* for it; a frame that finds no room is dropped.
TunRead ==
  /\ At("tx", "tx") /\ todo # {} /\ tx = NoTx
  /\ LET p == Min(todo) IN
     \E n \in FrameSizes :
       LET size == n + IF p \in linkUp THEN 0 ELSE TagSize
       IN  IF HasRoom(pool, size)
           THEN /\ pool' = Alloc(pool, size, "frame")
                /\ tx' = [port |-> p, directed |-> p \in linkUp,
                          buf |-> Top(pool, size, "frame"), dcb |-> {}]
                /\ UNCHANGED todo
           ELSE todo' = todo \ {p} /\ UNCHANGED <<pool, tx>>
  /\ UNCHANGED <<rxInit, taps, enabled, linkUp, base, chipVars, countVars>>

\* bmd_tx takes a descriptor.
TxDescriptor ==
  /\ At("tx", "tx") /\ tx # NoTx /\ tx.dcb = {} /\ HasRoom(pool, DcbSize)
  /\ pool' = Alloc(pool, DcbSize, "dcb")
  /\ tx' = [tx EXCEPT !.dcb = {Top(pool, DcbSize, "dcb")}]
  /\ UNCHANGED <<rxInit, taps, enabled, linkUp, todo, base, chipVars, countVars>>

\* Where the chip sends a frame: a directed one out of the lane it names, a
\* tagged one to the members of its VLAN.
Leaves ==
  IF tx.directed THEN {PhysToSwp(Lane(tx.port))} ELSE vlan.member[ResvVid(tx.port)]

Freed(q) == Free(IF tx.dcb = {} THEN q ELSE Free(q, CHOOSE d \in tx.dcb : TRUE), tx.buf)

\* bmd_tx has sent the frame, or failed, for want of a descriptor or later; it
\* has given the descriptor back, and handle_tun_tx gives the buffer back.
TxDone ==
  /\ pc = "tx" /\ pc' = pc /\ tx # NoTx
  /\ tx.dcb = {} => ~HasRoom(pool, DcbSize)
  /\ pool' = Freed(pool) /\ tx' = NoTx /\ todo' = todo \ {tx.port}
  /\ \E sent \in BOOLEAN :
       moved' = IF sent /\ tx.dcb # {}
                THEN {[from |-> tx.port, to |-> q, ok |-> TRUE] : q \in Leaves} ELSE {}
  /\ UNCHANGED <<rxInit, taps, enabled, linkUp, base, chipVars, countVars>>

TxAll ==
  /\ At("tx", "rx") /\ todo = {} /\ tx = NoTx /\ UNCHANGED <<procVars, chipVars, countVars>>

\* Mutant of PortOf: no fallback to the service VLAN.
PortByLane(f) == PhysToSwp(f.src)

\* handle_asic_rx: the port of a frame by its source, else by its tag.
PortOf(f) ==
  IF PhysToSwp(f.src) \in 1..MaxPorts THEN PhysToSwp(f.src)
  ELSE IF f.vid \in ResvLo + 1..ResvLo + MaxPorts THEN f.vid - ResvLo
  ELSE -1

\* Writing to the TAP fails while the interface is down or its queue is full;
\* the frame is gone then.
AsicRx ==
  /\ pc = "rx" /\ pc' = "work"
  /\ IF rxInit /\ wire # <<>>
     THEN LET f == Head(wire) IN
          /\ wire' = Tail(wire)
          /\ \E taken \in BOOLEAN :
               moved' = {[from |-> f.from, to |-> q, ok |-> taken] :
                           q \in taps \cap {PortOf(f)}}
     ELSE moved' = {} /\ UNCHANGED wire
  /\ UNCHANGED <<procVars, vlan, ring, l2, countVars>>
-----------------------------------------------------------------------------
(* The rest of a turn of the main loop.                                    *)

Changes == changes < MaxChanges /\ changes' = changes + 1 /\ UNCHANGED <<starts, frames>>

\* l2_mac_add, from handle_neigh: a neighbour behind port p, which may be
\* another port of this switch at the end of a cable.
L2MacAdd(p, mac) ==
  /\ At("work", "work") /\ Changes /\ p \in taps
  /\ l2' = Put(l2, <<1, mac>>, p)
  /\ UNCHANGED <<procVars, vlan, ring, wire>>

\* Mutant of L2MacDel: the address goes in every VLAN.
L2MacDelAll(p, mac) ==
  /\ At("work", "work") /\ Changes /\ p \in taps
  /\ l2' = [k \in {k \in DOMAIN l2 : k[2] # mac} |-> l2[k]]
  /\ UNCHANGED <<procVars, vlan, ring, wire>>

\* l2_mac_del.
L2MacDel(p, mac) ==
  /\ At("work", "work") /\ Changes /\ p \in taps
  /\ l2' = [k \in DOMAIN l2 \ {<<1, mac>>} |-> l2[k]]
  /\ UNCHANGED <<procVars, vlan, ring, wire>>

\* SIGHUP: vlan_l2_resync with what the file now says.
Resync ==
  /\ At("work", "work") /\ Changes
  /\ \E f \in L2Files : vlan' = Load(Reset(vlan, {}), f, {})
  /\ UNCHANGED <<procVars, ring, wire, l2>>

\* portmap_link_poll, of enabled ports.
LinkPoll ==
  /\ At("work", "work") /\ Changes
  /\ \E p \in enabled : linkUp' = (linkUp \ {p}) \cup ({p} \ linkUp)
  /\ UNCHANGED <<pool, rxInit, taps, enabled, todo, tx, base, chipVars>>

NextTurn == At("work", "select") /\ UNCHANGED <<procVars, chipVars, countVars>>

\* SIGTERM ends the loop at its head: bmd_rx_stop stops the ring and gives its
\* block back, then the TAPs and the pool are closed.
Stop ==
  /\ At("select", "down") /\ Ended
  /\ IF rxInit THEN ring' = {} /\ wire' = <<>> ELSE UNCHANGED <<ring, wire>>
  /\ UNCHANGED <<vlan, l2, countVars>>
-----------------------------------------------------------------------------
(* The chip.                                                               *)

\* A frame that comes in at port p goes to the CPU: punted by its address,
\* flooded in the service VLAN, or copied in any VLAN, as ARP is.  What is
\* flooded or copied need not say where it comes from.
WireFrame(p) ==
  /\ ring # {} /\ Len(wire) < RingMax
  /\ frames < MaxFrames /\ frames' = frames + 1
  /\ \E src \in Unmapped \cup {Lane(p)} :
       wire' = Append(wire, [src |-> src, vid |-> vlan.pvid[p],
                             from |-> p, alone |-> vlan.group[p] = 0])
  /\ moved' = {}
  /\ UNCHANGED <<pc, procVars, vlan, ring, l2, starts, changes>>

Boot == \/ BdeOpen \/ BmdReset \/ InitAlloc \/ InitFree \/ InitDone
        \/ ConfigurePorts \/ ConfigureVlans \/ ResetPool \/ PacketIoInit \/ L2Init
Poll == Select \/ TunRead \/ TxDescriptor \/ TxDone \/ TxAll \/ AsicRx
Turn == \/ \E p \in Ports, mac \in Macs : L2MacAdd(p, mac) \/ L2MacDel(p, mac)
        \/ Resync \/ LinkPoll \/ NextTurn \/ Stop

Next == Boot \/ Crash \/ Poll \/ Turn \/ \E p \in Ports : WireFrame(p)

Spec == Init /\ [][Next]_vars
-----------------------------------------------------------------------------
\* No memory has two users: not two callers of _bde_dma_alloc, and not a caller
\* and the chip's receive DMA, be it that of an edged that has crashed.
PoolIntact ==
  /\ PoolOK(pool)
  /\ \A b \in pool.live, r \in ring : b = r \/ Apart(b, r)

\* The pool never runs dry: whatever frames were sent, dropped or failed, a turn
\* of the loop begins with the pool as it was when the loop was entered.
NothingLeaks == pc = "select" => pool.offset = base /\ pool.live \subseteq ring

\* A frame that the kernel sends on an interface leaves by its port, if at all,
\* and one that comes in at a port goes to its interface, also when it was in
\* the ring while the groups changed, and when the chip does not say where it
\* comes from.
FramesStayHome == \A m \in moved : m.from = m.to

\* A frame of a port that has an interface is handed to it, if the kernel takes
\* it or not, when the chip tells where it came in and also when it does not, but
\* the port was in no group when it came in, whatever became of the groups since.
\* (A copy of a grouped port's frame without its source is dropped.)
FramesHanded ==
  [][wire # <<>> /\ wire' = Tail(wire) /\ pc' = "work" =>
       LET f == Head(wire) IN
       f.from \in taps /\ (f.src = Lane(f.from) \/ f.alone) => moved' # {}]_vars

\* Unicast for a port's own MAC address reaches the host wherever the port is in
\* no group, whatever neighbours came and went: also those that are ports of
\* this switch themselves.
OwnMacPunted ==
  pc \in InLoop =>
    \A p \in taps : vlan.group[p] = 0 =>
      /\ <<vlan.pvid[p], OwnMac(p)>> \in DOMAIN l2
      /\ l2[<<vlan.pvid[p], OwnMac(p)>>] = Cpu
=============================================================================
