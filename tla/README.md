# EdgeNOS: the datapath in TLA+

EdgeNOS runs a white-box switch: `edged` (Accton AS5610-52X, BCM56846) or
`bcmd` (AS4610-54, BCM56340) gives every front-panel port a Linux interface,
follows the kernel's neighbours and routes over netlink and programs the
switch chip, so that packets are forwarded in hardware.  This directory has
TLA+ models of that code, TLC configurations that check them, and theorems that
TLAPS proves.

## 1. The system

| Component | Source | State | Operations |
|---|---|---|---|
| L3 tables | `core/datapath/l3.c` | `l3_neigh_nh`, `route_tab`, `ecmp_tab`, free lists of next-hop indices, DEFIP slots, ECMP slots and group ids; the chip's `ING/EGR_L3_NEXT_HOP`, `L3_ENTRY`, `L3_DEFIP(_128)`, `L3_ECMP(_COUNT)` | `l3_host_add/del`, `l3_route_add_paths/del` and their IPv6 twins, `l3_local_host_add` |
| Kernel synchronisation | `core/datapath/netlink.c` | one netlink socket, the turn of the re-dump | `netlink_init`, `netlink_poll`, `netlink_redump_routes`, one handler per message |
| Main loop | `core/datapath/edged.c` | flags set by signals, time of the last re-dump, poll counter | `asic_init`, loop, `signal_handler` |
| VLANs | `core/datapath/vlan.c` | `port_group_vid`; the chip's VLAN and PVID tables | `vlan_init_resv_per_port`, `vlan_l2_group_apply`, `vlan_l2_reset`, `vlan_load_l2_groups` |
| Access lists | `asic/bcm56846/acl.c`, `cumulus_replicate.c` | `acl_idx_used`; the chip's FP_TCAM and FP_SLICE_ENABLE | `edged_acl_load`, `edged_acl_reset`, `cumulus_replicate_fp` |
| Commands | `core/cli/edgenos`, `core/webui` | `l2-groups.conf`, `acls.conf` | read, change, write the file; SIGHUP |
| Ports | `portmap.c`, `led.c`, `handle_link` of `netlink.c` | `edged.ports[]`, retry state of QSFP ports, carrier of the TAPs, LEDs | `portmap_link_poll`, `handle_link`, `led_update` |
| Packet I/O | `packet_io.c`, `bde_interface.c` | DMA pool (bump allocator), RX ring | `handle_tun_tx`, `handle_asic_rx` |
| L2 table | `l2.c` | the chip's L2 table | `l2_init`, `l2_mac_add/del` |
| bcmd, forwarding | `asic/bcm56340/bcmd.c` | next-hop cache, SDK objects, a netlink loop of its own | as for edged, over Broadcom's SDK |
| bcmd, switching | `asic/bcm56340/bcmd.c` | `bcmd_port_group`, `bcmd_acl_entries`; the chip's VLANs and field processor; KNET netdevs and filters in a kernel module | start, `bcmd_l2_reset`, `bcmd_load_l2_groups`, `bcmd_load_acls`, `bcmd_knet_setup`, RTM_NEWLINK |
| Fan controller | `fan-controller.sh` | PWM, emergency counter | one turn of its loop |
| Packages | `packaging/pkgtool/epkg.py` | manifests, files | install, remove |
| Addresses | `swp-l3-config.sh`, `edged.c`, RTM_NEWADDR of `netlink.c` | `/run/edged.ready`, the addresses of the TAPs | set and clear the sentinel, wait for it, assign addresses |

How they interact.  edged is a single thread: its loop polls packets, then the
netlink socket, then (every 15 s) sends a dump request, looks at the flags that
signals have set, and every 300 turns polls the links.  So edged's handlers do
not interleave with each other; what they interleave with is the kernel (which
changes its tables, posts events and continues a dump while edged works), the
commands (processes of their own that rewrite configuration files and signal),
systemd (restarts) and the chip (whose writes may fail).  The hard behaviours
are therefore:

* long sequences of legal calls over tables that share indices (l3.c): an index
  or a slot freed while something still uses it, reference counts, tables at
  their limit, one write of several failing;
* a bounded event queue that drops, dumps that are refused while another is in
  flight, and things told in the wrong order (netlink.c);
* a file that is read while somebody writes it, and a signal that comes while
  an earlier one is being served, or before there is a handler (edged.c);
* start-up orders: what a later step of asic_init does to an earlier one, and
  what an edged that has ended leaves behind for the next: a sentinel file, a
  receive ring that is still on, netdevs and filters in a kernel module.

What makes each component correct, in one line: *L3 tables*: an index, slot or
group has one owner, and the chip mirrors the tables; *synchronisation*: the
chip converges to the kernel's tables whatever was dropped; *configuration*:
when things are quiet the chip is as the files say; *ports*: carrier, MAC and
LEDs follow the wire of the ports that are up; *packet I/O*: the pool never
runs dry, no memory has two users, and a frame keeps to its port;
*addresses*: each reaches the kernel once and the chip always; *bcmd*: as for the L3 tables;
*fan controller*: hot means fast, and an emergency is acted on; *packages*:
removal removes what installation put there and no more.

`PROJECT.json` lists the hazards at their lines, each with the properties that
would show it going wrong, or with the reason why none does yet.

## 2. The modules

| Module | What it is |
|---|---|
| `EcmpGroups` | `ecmp_group_ref/unref`, `l3_ecmp_group_create` and the three allocators below, as operators on a record of the group tables |
| `L3Fib` | l3.c: one action per handler, chip writes that may fail (`Faulty`); extends `EcmpGroups` |
| `L3Table` | what l3.c promises netlink.c, as an abstract specification; `L3Fib` implements it |
| `FibSync` | netlink.c and the loop, on top of `L3Table`: kernel, socket and edged |
| `VlanGroups` | vlan.c as operators on a record of VLAN state, and the reader of l2-groups.conf |
| `AclTable` | acl.c and the field processor half of cumulus_replicate.c as operators on a record |
| `EdgedConfig` | commands, configuration files, signals, start-up and resync of edged; extends `VlanGroups` and `AclTable` |
| `BcmdFib` | the neighbours, own addresses and routes of bcmd.c in the objects of the SDK, as operators on a record |
| `BcmdSync` | bcmd's netlink socket, dumps and loop against the kernel; extends `BcmdFib` |
| `BcmdSwitch` | VLANs, access lists and KNET of bcmd.c, as operators on records |
| `BcmdConfig` | bcmd from its start to its resyncs, with commands, files, signals, RTM_NEWLINK and restarts; extends `BcmdSwitch` |
| `DmaPool` | the allocator of bde_interface.c, as operators on a record |
| `PacketIo` | edged as its packets see it: start, TAPs, transmit, receive ring, static L2 entries, crash and the next start; extends `VlanGroups` and `DmaPool` |
| `EdgedStartup` | the sentinel, TAPs, address dump and RTM_NEWADDR of edged against swp-l3-config.sh and systemd |
| `PortLinks` | the link poll, the QSFP retry, `handle_link`, carrier and LEDs, against kernel, peers and clock |
| `MCL3Fib`, `MCFibSync`, `MCEdgedConfig`, `MCBcmdSync`, `MCBcmdConfig`, `MCPacketIo` | values of constants for TLC |
| `L3FibProofs`, `FibSyncProofs`, `EdgedConfigProofs`, `LinkProofs`, `BcmdSyncProofs`, `BcmdConfigProofs`, `PacketProofs`, `StartupProofs` | theorems about the module of that name (`LinkProofs`: `PortLinks`, `PacketProofs`: `PacketIo`, `StartupProofs`: `EdgedStartup`) |

**L3Fib.**  A next-hop index is a number; a MAC address and the port behind it
are one model value, a station, because l3.c never looks at one without the
other; a set of paths is a function from next-hop index to multiplicity (what
`path_sig` hashes and sorts; equal hashes of different sets are left out).  Each
action is a whole call, from the first line to `return`, with the chip writes
in their order: `HostAdd(g, s, at)` ends at the write `at` that fails, or with
all done.  A `Written` write may leave the chip as it was.  Early returns
(`HostDelUntracked`, `RouteAddSkipped`, `RouteDelUntracked`) are actions that
change nothing.  An IPv6 handler is the same action on IPv6 keys: the two
families share the next-hop indices and the groups, and have route tables and
DEFIP slots of their own.

**FibSync.**  The kernel is not in the repository; it is modelled from the way
netlink.c uses it: an event per change, dropped when the buffer is full
(`overrun`, the ENOBUFS of the next read), one dump per socket at a time, a
request meanwhile being refused.  As netlink_dump of the kernel does, a dump puts
its first part into the buffer with the request (`Request`) and goes on when the
socket is read (`Dequeue`), at the latest when that leaves it empty; each part
tells the state at that time.  A poll ends on an empty buffer or an overrun, and
on nothing else: that it has then seen the end of a dump is not assumed.  Every
message is one step of edged, so that kernel changes interleave with each.

**EdgedConfig.**  A command is four steps: read and change, open (which
truncates), write (at close), signal.  Two commands that write the same file may
leave lines of each.  `epc` says where edged is: "exec" is before `signal()`, the
"boot" places are the steps of `asic_init` in their order, and the loop clears
the flag before its work.  A file is read in one step; a content is a function
from VLAN to ports, or from rule to what it can express.  A group line longer
than the buffer of `fgets` is read as two (`LoadLine`), the second one starting with
the digits of a port, the worst place for a cut.  `AclLoad` says in one definition
where the probes and the rules end up; a probe's entry 562 lies where rules go
(512 and up), and a rule that gets there takes its place.

**PortLinks.**  It starts where `netlink_init` returns: a port may have been set
down or up after its TAP was created and before the socket was bound, and as
nothing dumps links that is not heard of.  `missed` is a history variable: the
ports whose last change edged could not hear of, then or because the buffer was
full.  `LinkPoll` is one call of `portmap_link_poll` with the `led_update` at its
end, `HandleLink` one RTM_NEWLINK.  Neither looks at what `bmd_port_mode_set`
returns; `SetModes` lets it fail for the ports of `BadPorts`, at start and at any
later call, which leaves the port as it was or off, and `failed` remembers the
ports whose last call failed.  The kernel (who sets a
port up or down, linkwatch, which tells of the carrier of a port that is up),
the peers and the clock are external.  So are `bmd_port_mode_set`, which
initialises or switches off a port and takes it out of EPC_LINK_BMAP, and
`bmd_port_mode_update`, which lets the MAC follow the link it is told.  That the
four lanes of a QSFP port align only if it was initialised while its peer was
sending is what the comment at portmap.c:765 reports of the hardware; when a
peer stops and starts again they may or may not align.

**BcmdSync.**  bcmd is one thread with one socket, as edged is, but it waits for
the end of each dump before it asks for the next.  `Ask` is the request (refused
while another dump is in flight, which happens once a drop has ended a drain
early), `Drain` one blocking `recv` of `bcmd_nl_drain`, `Turn` one turn of the
loop of `bcmd_run`.  The kernel sends the parts of a dump one by one, the first
with the request and the next when the socket is read, drops every event from
the moment the buffer is full until it has been read, and tells of it once.  The
SDK is external: adding what exists fails, and so does destroying what is in use.
The IPv6 handlers differ from those of IPv4 in two things only, both in
`BcmdFib`: a cache of their own, and no routes for connected subnets.

**BcmdConfig.**  `pc` names the next step of `bcmd_run`, from the reset of the
chip to the loop; a resync is two steps, groups and access lists, between which a
command may write the other file.  The kernel module of KNET keeps what a bcmd
that has ended left there.  `missed` is a history variable: the ports whose
admin state bcmd could not learn, because the event was dropped or came before
the socket (nothing dumps links).  A SIGHUP before `signal()` ends bcmd with a
clean exit ("dead"), after which systemd leaves it alone; a crash or a failing
step is "down", and systemd starts it again.  The chip's VLANs and field
processor are the SDK's; a port in `Flaky` may fail each of its steps.

**PacketIo.**  A block of the pool is its offset, its length and its use; the
pool record is `dma_size`, `dma_offset` and what callers hold, of which the code
keeps no list.  `handle_tun_tx` is three steps, as `bmd_tx` may fail before or
after it has taken a descriptor: `TunRead` (read, tag, take a buffer),
`TxDescriptor`, `TxDone` (send or fail, give back both).  The SDK takes and gives
back blocks in any order while it starts the chip (`InitAlloc`, `InitFree`).  The
ring outlives a process that ends without `bmd_rx_stop`, until `BmdReset` of the
next.  `wire` is what the chip has put in the ring: its source lane, which copies
for the CPU need not name, its VLAN and, for the properties, the port it came in
at and whether that was in no group (`alone`).  Copies come from grouped ports
too; without a source their VLAN says nothing, and `AsicRx` drops them
(g_rx_unmapped).  `moved` tells what a step hands on, and whether the write to the
TAP took it.  Static L2 entries are keyed by VLAN
and MAC as in l2.c; a peer may be another port of the same switch.

**EdgedStartup.**  The TAPs live as long as edged, and with a TAP goes its
address; the sentinel does not.  `TunCreate` makes them one by one, so that the
script can meet half of them.  `NetlinkBind` and `NetlinkDump` are apart, as an
address may be added between them.  The script's waits are not timed: a wait may
run out whenever what it waits for is not there, and `SvcKilled` (systemd's time
limit) needs one that did.  `SetReady` may fail to write the sentinel.  `seen` says that the sentinel was that of the
edged that runs, not one a crash left behind.

## 3. What is checked

Every run is TLC on a small instance; `violation` runs state what a comment or a
document says and the code does not do.

| Run | Shows |
|---|---|
| `fib_routes` | With a chip that takes every write and room in every table: reference counts are the number of routes (`RefCountExact`), equal path sets share a group (`OneGroupPerSet`), DEFIP is the route table (`DefipMirror`) and L3_ENTRY the neighbour table (`HostMirror`), own addresses stay punted (`OwnReachesCpu`), and `L3Fib` implements `L3Table` (`ForwardsAsTold`) |
| `fib_limits` | Both families with one record per table, one L3_DEFIP_128 slot and failing writes: multipath routes point at intact groups (`EcmpRoutesIntact`), indices and slots have one owner (`NextHopOwnership`, `SlotOwnership`), free lists never overflow (`FreeListsSuffice`), a recorded neighbour keeps its index (`StableNextHop`) |
| `fib_dangling` | violation: an index is freed while routes use it, in spite of the comment at l3.c:1168 |
| `sync` | The chip converges to the kernel (`Converges`) under three changes of its tables, over a socket of two messages that drops; nothing stale survives if nothing was dropped (`NothingStale`); a poll sees the end of the dump in flight, so that periodic requests are not refused if nothing was dropped (`OneDumpInFlight`) |
| `config` | Two commands, a crash, failing port adds: when things are quiet the chip is as the files say (`L2Applied`, `AclsApplied`), `port_group_vid` never lies (`GroupTracked`), and things become quiet (`Settles`) |
| `config_acl` | violation: access lists loaded at boot are not looked up until the first SIGHUP |
| `links` | What edged takes for enabled is the port's mode unless the last setting of it failed, and no port receives while it is off (`DisabledIsOff`); ports are enabled as the kernel has them, but for those whose last change could not be heard (`FollowsAdmin`); a port with a peer comes up and one without loses carrier and LED (`LinksComeUp`, `LinksGoDown`) |
| `bcmd` | Under three changes of the kernel's tables, while bcmd starts or dumps again: what the cache says is true (`CacheTrue`), own addresses are punted and nothing outlives its deletion if nothing was dropped (`OwnPunted`, `NoneStale`), and what is missing comes with a re-dump whatever was dropped (`CatchesUp`) |
| `bcmd_mirror` | violation: a neighbour's new MAC and a route's new gateway do not reach the chip |
| `bcmd_config` | Two commands, a link change, a crash and a failing port meet bcmd anywhere: when things are quiet it bridges and filters as the files say (`BridgedAsFile`, `AclsAsFile`), what comes in at a port reaches the netdev of the port whatever an earlier bcmd left (`OwnNetdev`), a port is enabled as its netdev is up (`AdminFollowed`), and no change of a file is lost (`FilesReachChip`) |
| `packets` | Two starts of edged with a stop or a crash anywhere: no memory of the pool has two users, the ring included (`PoolIntact`), a turn of the loop leaves nothing in it (`NothingLeaks`), frames keep to their ports in both directions (`FramesStayHome`), one that names its port by source or service VLAN is handed to its interface (`FramesHanded`), and unicast for an own MAC reaches the host whatever neighbours come and go (`OwnMacPunted`) |
| `startup` | Two crashes and a restart of edged anywhere in its start, two runs of the script: no interface is skipped once the sentinel was seen (`AssignedOnceReady`), and every address is punted, at whichever point of the start it was added (`AddressesPunted`, `AddressesWork`) |

**Bounds.**  Two neighbours and two prefixes are what sharing, replacing and
freeing of a group need (a group with two members, used by two routes, that one
of them leaves); `MaxNh` (indices ever created) leaves room for one leaked
index; a limit of one record per table puts every table at its limit in the
first step, which is where the code differs.  `QueueMax = 2` lets a dump and an
event meet in the queue and overflow; three changes are a neighbour that comes,
goes and comes back while the route waits.  Two commands are the smallest number
that overlap; three ports and two groups make a port change its group, and share
one.  In `config` no line is longer than the buffer (`LineMax`); `BadPorts` are the ports whose add may fail, exempt
from `L2Applied` because the code leaves them where they are.  In `links`, one
SFP and one QSFP port, each of which may fail its configuration (which also
shortens the loop over the LEDs) and any later setting of its mode; two ticks
stand for the 40 s of grace, so that a poll may come before, in and after it; two
retries are the smallest number at which the first is not the last; admin state
and peer of each port are anything at first, and two changes on top of that let
a port go down and up, or its peer come and go; two events overflow.  In `bcmd`, the two
neighbours have the same link-local address behind two ports and together make a
multipath route; five egress objects and one group leave room for what is leaked
by three changes and let the groups run out; two turns of the loop stand for the
fifteen between two re-dumps, so that answers are left over from one to the next.
In `bcmd_config`, three ports make a group of two, a port that stays alone and one
that changes groups; the table of entries holds less than a file can ask for, so
that entries are left out; a socket of one message drops the second; one crash
with files that are not empty at the start gives a restart that finds what the
first run left.  In `packets`, two ports are what a frame can be mixed up between;
the pool of four cache lines has room for the ring (two), a short frame and a
descriptor (one each); a short frame with its tag or a long one takes two and
leaves none for the descriptor, and a long one with its tag does not fit, so that
each path comes to its failing allocation (and the pool may not be there at all, as
after a failing `mmap`); two frames and two changes
let a frame wait in the ring while its port changes its VLAN; two starts give a
crash and what it leaves.  In `startup`, three ports, of which one cannot be
created, let the script meet a start that is half done; two crashes put one
before and one after it; two runs of the script are the one at boot and one that
an operator starts; two messages overflow with three addresses.

**Deadlock** is checked in `fib_*`, `sync`, `links`, `bcmd` and `bcmd_mirror`.  `config*`,
`bcmd_config` and `startup` may stop: nobody has to start a command or a service,
and a signal may end the daemon for good.  So may `packets`, once edged has
been started as often as the bound allows and is down with no frame to come.

**Fairness.**  `L3Fib` has none: its callers need not call.  In `FibSync` the
thread of edged runs (weak fairness of its steps), and the 15 seconds pass again
and again; a dump goes on because edged reads; as other turns of the loop come
in between, the re-dump has strong fairness.  Nothing makes the kernel's tables
change, so they settle.  In `EdgedConfig` edged does not stay where it has a
step to take, systemd restarts it, and a command that has started finishes.
In `PortLinks` the thread runs (its loop reads the socket and polls the links
again and again), the clock goes on while a grace window is open, and the kernel
tells of a carrier that changed; nobody has to change a port or a peer.
In `BcmdSync` bcmd's thread runs: `poll` returns after two seconds at the latest,
and a blocking `recv` returns when there is something to read.  In `BcmdConfig` the
start and the loop run (weak fairness of `Boot`, which has the restart by systemd,
and of `Loop`) and a command that has opened its file ends; links, crashes and
new commands need not come.  In `EdgedStartup` edged boots, leaves its loop when
told to and is started again, the kernel goes on with a dump, and the script runs
and is started once; nothing makes it run again.  `PacketIo` has none: its
properties are about what steps do.

**What the violation runs show.**  `fib_dangling`: l3.c frees the next-hop index of a
neighbour that routes still use and gives it to the next neighbour (l3.c:1170),
until a re-dump finds the route changed.  `config_acl`: the access lists of acls.conf
are in the chip after boot but looked up only after a SIGHUP (edged.c:235).
`bcmd_mirror`: a neighbour's new MAC, and a route's new gateway, are taken for
already done (bcmd.c:1085, 1125).

**Also seen while reading and modelling**, outside what the runs check:

* The transit slots of IPv4 grow past 1024 routes over the slots of own
  addresses that begin at 2560 (l3.c:473, l3.c:818).
* `netlink_init` sends its dump requests at once; all but the first are refused
  while it is in flight (netlink.c:105), which the comment at netlink.c:424 knows
  of the later ones.  `sync` covers it: the re-dump makes it good after 15 s.
* A line of l2-groups.conf longer than 255 characters is read in pieces, the
  second of which may name a VLAN that nobody asked for (vlan.c:505).
* A port that two lines name ends up a member of both groups, on either switch,
  which bridges them (bcmd.c:243, vlan.c:427; docs/guides/l2-switch.md:85 calls
  the groups isolated).
* bcmd accepts the group VIDs 101 to 155 that are the ports' own VLANs
  (bcmd.c:233), reads an address it cannot parse as a wildcard (bcmd.c:1708), and
  forgets entries past 1024, which then stay (bcmd.c:1724).
* `edged_acl_load` clears the whole TCAM, the control-plane traps included, on a
  SIGHUP (acl.c:447).
* fan-controller.sh keeps `cur=$(write_pwm ...)`: after one write that fails `cur`
  is empty, every later comparison is an error, and the speed never changes
  again, however hot it gets (only the emergency shutdown still works).
* The AS4610's edgenos-l3-config.sh looks for a line of bcmd's log, which is
  appended to: one of an earlier run lets it start early, and the netdevs that
  bcmd then destroys take their addresses along.
* The edgenos commands truncate a file before they write it (edgenos:66): one
  that ends in between leaves it empty.
* Two commands (or the web UI and a command) that overlap read, change and write the
  same file: the change of the one that writes first is lost (edgenos:79).  Nothing
  locks the files; `EdgedConfig` has the lost update, and its properties speak of
  the file as it is left.
* A port whose `bmd_port_mode_set` fails in handle_link is noted as enabled
  (netlink.c:189) and not tried again until its next event.
* A link set down while edged starts, after its TAP was created, stays enabled until
  its next event (netlink.c:63): there is no dump of links.
* The LED of a port that was set down keeps its last state (portmap.c:979).

## 4. What is proved

Every invariant and every action property that a passing run checks is also a
theorem, and so is the refinement, for all values of the constants that satisfy
the modules' assumptions: any number of neighbours, prefixes, ports, files,
commands, messages and records, and without the bounds on crashes and changes
(they only restrict the steps).  Left to TLC are the seven properties of
liveness under fairness (`Converges`, `Settles`, `LinksComeUp`, `LinksGoDown`,
`CatchesUp`, `FilesReachChip`, `AddressesWork`), which TLAPS cannot prove.

Some theorems need more than the assumptions.  These hypotheses have names, and
the constants of the runs satisfy each of them (`fib_routes` those of `L3Fib`):

| Hypothesis | Says | In the code |
|---|---|---|
| `NeighRecords`, `RouteRecords` | the tables of l3.c have a record for every neighbour, every prefix | what finds a table full is programmed without a record, or not at all |
| `GroupRecords` | ... and for a group per prefix and one more | a replaced route takes its new group before it leaves the old one |
| `BandSuffices` | IPv4 transit slots stay below `LocalBase` | l3.c does not check it (l3.c:473) |
| `"clear"`, `"defip"` not in `Faulty` | the chip takes the writes that a property is about | l3.c does not undo or repeat them |
| `LinesFit` | no line of l2-groups.conf is longer than the buffer | a longer one is read as two |
| `CacheSuffices` | bcmd_nh and bcmd_nh6 have room for all | what does not fit is in the chip and forgotten |
| `OwnApart` | no own address is also that of another port or of a neighbour | bcmd keys its hosts by address alone |
| `PlainFiles` | no file names a port in two groups or in a VLAN of its own | such a port ends up in both |
| `DistinctRules`, `EntriesSuffice` | no rule twice in a file; a record for each entry of the chip | entries past 1024 are forgotten |
| `SourcesTell` | a flooded frame's source port is not 0 unless every entry of ports[] is valid | entries that are not valid have `physical_lane` 0 |

**`L3FibProofs`.**

* `TypeCorrect`: `Spec => []TypeOK`.
* `EcmpRoutesSafe`, `SharingSafe`: a multipath route's group is intact; no two
  recorded groups have equal members.  The invariant `EcmpIInv` adds what the
  allocators hold (free blocks, free ids and live groups are disjoint, `EcmpInv`)
  and that a count is *at least* the number of routes that use the group
  (`RefsOK`): a route that finds `route_tab` full is programmed without a
  record and its reference is never dropped.  `RefContract` and
  `UnrefContract` say what one call does to the groups.
* `CountsExact`: the count *is* that number where records suffice, whichever
  writes fail.  `Exact` follows it through `Ref` and `Unref` with the reference
  that a handler holds between the two; that there is always a record left for a
  group is a pigeonhole argument (`FewGroups`).
* `NextHopsOwned`, `NextHopsStable`, `OwnAddressesPunted`: a next-hop index has
  one owner, a recorded neighbour keeps its own, an own address stays punted.
  `NhIInv` treats free list, high water and owners together (`Owned`, with one
  lemma for taking and one for giving back) and counts the records (`Room`).
* `SlotsOwned`, `FreeListsFit`: the same for the DEFIP slots of both families,
  and the free lists never overflow, which needs the assumption
  `NhFreeMax >= 2 * NeighMax` (512 and 256 in the code).
* `HostsMirrored`, `RoutesMirrored`: L3_ENTRY is the neighbour table and DEFIP the
  route table.  They rest on the ownership of indices and slots: what a handler
  clears is nobody else's (`SlotsApart`).
* `Implements`: `L3Fib` implements `L3Table`.  Initial states map to initial states;
  each handler maps to one call of `L3Table` or, where it returns early, to a
  stutter.  `PathsIInv` adds that a route with one path forwards to the index it
  has on record.

**`FibSyncProofs`.**  `DumpsAreSerial` and `DeletionsWin`, the two invariants of
`FibSync`: while nothing was dropped no periodic request meets a dump in flight,
and nothing outlives its deletion.  The first rests on `DumpGoesOn`: a dump in
flight always has a message in the socket, which the request put there and each
read renews, so a poll that finds the socket empty has read NLMSG_DONE.  The
second rests on `StaleTold`: the last
message in the socket about what the kernel has deleted is its deletion, and
when none is left the chip does not have it.  The tail of a dump only tells of
what is there, and `LastIs` is kept by appending and by taking the head.

**`EdgedConfigProofs`.**  `GroupsAreTracked` (with no hypothesis), `GroupsAsTheFileSays`
and `AclsAsTheFileSays`.  What a load makes of a file is proved of the recursive
function in `Load` by least counterexample over VLANs, and of the sorted list in
`Chosen` by showing that counting what comes before is a bijection onto the
indices (`RankBijection`); that a load of rules leaves what `AclsAsConfigured`
says is `LoadTcam`.  The invariants say that the chip is as the files say *or*
something is under way (`Waiting`): edged is at a place from which it still reads
the file, the flag is set, or a command is between its change and its signal.
`CmdWaits` is the heart: a command that touches a file is under way from the
moment it truncates it, and its last step sets the flag.  `Tracked` carries
what makes a reset undo a load although adds fail.

**`LinkProofs`.**  `DisabledStaysOff`: for every choice of calls that fail, what
edged takes for enabled is the mode of each port whose last call worked, and a MAC
is on only where the mode is; the retried ports are among the polled ones, so no
retry switches on a port that is disabled.  `AdminFollowed` by `QueueTells`: of a
port that is not in `missed`, the last event in the socket is its admin state, and
without one the port is in step.

**`BcmdSyncProofs`.**  `CacheIsTrue` (invariant `FibOK`: cached neighbours have egress
objects of their own, hosts and routes use them, and what was made for a
neighbour is found again), `NothingOutlives` (`NothingLeft`, as `StaleTold`, for
dumps that arrive in parts) and `OwnAddressesPunted` (`OwnTold`: an own address is
still to be asked for, still to come, told last, or punted; `OneDump`: a dump that
is awaited is in flight or its end is in the socket).

**`BcmdConfigProofs`.**  `AdminIsFollowed` (`SockTells`), `FramesReachOwnNetdev`
(`KnetIInv`: what the kernel module holds at each step of the set-up, whatever was
there before), `BridgedAsTheFileSays` and `AclsAsTheFileSays` (`VlanIInv` and `AclIInv`:
from the load on the chip is as the file says unless a command is at work or has
asked for a resync).

**`PacketProofs`.**  `NoMemoryShared` and `PoolNeverDrains`: two lemmas say what one
call of the allocator keeps (`AllocKeeps`, `FreeKeeps`); the invariant adds who holds the
ring at which step of the start (`RingOK`), and that above the base of the loop there
are the buffer of the frame being sent and, on top of it, its descriptor
(`TxStack`), which is why last-in first-out is enough.  `NoFrameStrays`,
`FramesAreHanded` and `OwnMacReachesHost`: `FramesIInv` says that a service VLAN
has no member but its port and no other port classifies into it (`OwnVlans`), that
a port in no group classifies into its own (`AtHome`), that what is in the ring names
its port by the lane or by the service VLAN, or else came from a grouped port in a
VLAN that is no other port's (`Frames`), and that the own MAC is
punted in the service VLAN whatever entries neighbours move (`Punted`); `LaneFinds` is what portmap_phys_to_swp
finds.

**`StartupProofs`.**  `ReadyMeansAssigned` and `AddressesReachCpu`.  The invariant says
which sentinels are stale (`SentinelOK`), that the interfaces a script has still to
look at are what is missing (`ScriptOK`), and that every address is in the chip, in
the socket or in the dump (`AddressKnown`).

Liveness under fairness and ENABLED are out of TLAPS's reach, and so are the
library's induction theorems, which take an operator as a parameter; where a
proof needs induction it uses a least counterexample (WellFoundedInduction's
`WFMin`) or a bijection instead.  No module uses RECURSIVE.

## 5. What is not modelled, and the plan

Not modelled: the register sequences of `datapath.c` and `cumulus_replicate.c`
(written once, no state), drivers and ONLP (register access), optics and board
preparation of the AS4610, quagga (third party), the web UI (it starts the same
commands), packages and build tools, generated tables.  The fan controller is one
loop without a partner; what there is to say of it is in the list above.  The
AS4610's address script is left out for the same reason.  Within modelled parts:
the longest-prefix order of TCAM entries, hash collisions of `path_sig`, the key
and action layout of an access list entry, spanning tree states, what a frame
contains beyond its addresses and VLAN, the NLMSG_ERROR of a refused dump request
and failing allocations of the kernel, the IPv6 addresses that netlink.c:377 skips
(all addresses are alike in `EdgedStartup`), and lines of bcmd's l2-groups.conf
longer than its buffer (bcmd.c:264; `EdgedConfig` has that of edged).

Worth adding, in this order:

1. More to prove: what one call promises, as action properties (a group is
   reset before it is loaded, a release follows its last use), and the lemmas on
   progress that the liveness properties rest on.
2. `FanController`, with a sensor that fails and a PWM that refuses a write.
3. Static routes of swp-l3-config.sh, and the AS4610's script against bcmd.
