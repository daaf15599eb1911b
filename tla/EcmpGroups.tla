----------------------------- MODULE EcmpGroups -----------------------------
(***************************************************************************)
(* The ECMP group layer of core/datapath/l3.c: the allocators of L3_ECMP   *)
(* member slots and of group ids, the de-duplicating and reference-counted *)
(* table ecmp_tab, and the two chip tables they program.                   *)
(*                                                                         *)
(* Its operations are the operators Ref and Unref on a record e:           *)
(*   next      l3_ecmp_next_slot, high water of the member slots           *)
(*   blkFree   ecmp_blk_free, released blocks of member slots              *)
(*   gidNext   l3_ecmp_next_group_id, high water of the group ids          *)
(*   gidFree   ecmp_gid_free, released group ids (last in, first out)      *)
(*   grp       every group now programmed: [sig, base, count, ref]         *)
(*   tab       the ids of the groups that ecmp_tab has a record of         *)
(*   mem       chip L3_ECMP: slot -> signature of the group that wrote it  *)
(*   cnt       chip L3_ECMP_COUNT: group id -> block of its members        *)
(* A group is in grp but not in tab when it was made while ecmp_tab was    *)
(* full: the chip has it and no later call can find it.                    *)
(*                                                                         *)
(* A signature (path_sig) is taken to identify the sorted next-hop indices *)
(* it is computed from.  Its value is [size, of]: how many there are, and  *)
(* how often each occurs.  A member slot holds the signature of the group  *)
(* it was written for, not the one index out of it: which member sits in   *)
(* which slot of a block is left out.                                      *)
(***************************************************************************)
EXTENDS Integers, FiniteSets, SequencesExt

CONSTANTS
  EcmpSlots,    \* number of L3_ECMP member slots (L3_ECMPm_MAX + 1)
  EcmpGrpMax    \* L3_ECMP_GRP_MAX: records of ecmp_tab and of both free lists

ASSUME EcmpAssumption ==
  /\ EcmpSlots \in Nat
  /\ EcmpGrpMax \in Nat \ {0}

NoGid == -1                       \* the "-1 on error" of the allocators

\* Function update that may add x to the domain, and removal from it.
Put(f, x, v) == [y \in DOMAIN f \cup {x} |-> IF y = x THEN v ELSE f[y]]
Drop(f, x) == Restrict(f, DOMAIN f \ {x})

\* A bounded array used as a stack: what does not fit is dropped in silence.
Push(s, x, max) == IF Len(s) < max THEN Append(s, x) ELSE s

Block(b, n) == b .. (b + n - 1)

EcmpInit ==
  [next |-> 0, blkFree |-> <<>>, gidNext |-> 1, gidFree |-> <<>>,
   grp |-> <<>>, tab |-> {}, mem |-> [s \in 0..(EcmpSlots - 1) |-> <<>>],
   cnt |-> <<>>]
-----------------------------------------------------------------------------
(* Member slots: ecmp_slots_alloc, ecmp_slots_release.                     *)

Fits(e, n) == {i \in DOMAIN e.blkFree : e.blkFree[i].count = n}

SlotsFull(e, n) == Fits(e, n) = {} /\ e.next + n > EcmpSlots

SlotBase(e, n) ==
  IF Fits(e, n) # {} THEN e.blkFree[Min(Fits(e, n))].base ELSE e.next

\* ecmp_blk_free[i] = ecmp_blk_free[--ecmp_blk_free_n]
SwapOut(s, i) == [j \in 1..(Len(s) - 1) |-> IF j = i THEN Last(s) ELSE s[j]]

TakeSlots(e, n) ==
  IF Fits(e, n) # {}
  THEN [e EXCEPT !.blkFree = SwapOut(e.blkFree, Min(Fits(e, n)))]
  ELSE [e EXCEPT !.next = e.next + n]

(* Group ids: ecmp_gid_alloc, ecmp_gid_release.                            *)

NextGid(e) == IF e.gidFree # <<>> THEN Last(e.gidFree) ELSE e.gidNext

TakeGid(e) ==
  IF e.gidFree # <<>> THEN [e EXCEPT !.gidFree = Front(e.gidFree)]
                      ELSE [e EXCEPT !.gidNext = e.gidNext + 1]

Release(e, base, n, gid) ==
  [e EXCEPT !.blkFree = Push(e.blkFree, [base |-> base, count |-> n], EcmpGrpMax),
            !.gidFree = Push(e.gidFree, gid, EcmpGrpMax)]
-----------------------------------------------------------------------------
\* The members of a group with signature sig go into the block of b.
Fill(e, b, n, sig) ==
  [e EXCEPT !.mem = [s \in DOMAIN e.mem |->
                       IF s \in Block(b, n) THEN sig ELSE e.mem[s]]]

\* COUNT gets the group, and ecmp_tab a record of it if it has one left.
Add(e, gid, sig, b, n) ==
  [e EXCEPT
     !.grp = Put(e.grp, gid, [sig |-> sig, base |-> b, count |-> n, ref |-> 1]),
     !.tab = IF Cardinality(e.tab) < EcmpGrpMax THEN e.tab \cup {gid} ELSE e.tab,
     !.cnt = Put(e.cnt, gid, [base |-> b, count |-> n])]

\* The group is gone from ecmp_tab, and from COUNT if the write works.
Forget(e, g, cleared) ==
  [e EXCEPT !.grp = Drop(e.grp, g),
            !.tab = e.tab \ {g},
            !.cnt = IF cleared THEN Drop(e.cnt, g) ELSE e.cnt]

(***************************************************************************)
(* l3_ecmp_group_create for a path set of n members and signature sig, in  *)
(* which the first w of the n + 1 chip writes (n member slots, then the    *)
(* COUNT entry) succeed.  A write that fails releases block and id again.  *)
(***************************************************************************)
Create(e, sig, n, w) ==
  LET base  == SlotBase(e, n)
      gid   == NextGid(e)
      taken == Fill(TakeGid(TakeSlots(e, n)), base, IF w < n THEN w ELSE n, sig)
  IN  IF SlotsFull(e, n) THEN [gid |-> NoGid, e |-> e]
      ELSE IF w <= n THEN [gid |-> NoGid, e |-> Release(taken, base, n, gid)]
      ELSE [gid |-> gid, e |-> Add(taken, gid, sig, base, n)]

\* Mutant of Sharable: the comparison of signatures is left out.
SharableAny(e, sig) == e.tab

\* The groups of ecmp_tab that a path set with this signature can share.
Sharable(e, sig) == {g \in e.tab : e.grp[g].sig = sig}

\* Mutant of Ref: every path set gets a group of its own.
RefNoSharing(e, sig, n, w) == Create(e, sig, n, w)

\* Mutant of Ref: a group that is shared is not counted again.
RefUncounted(e, sig, n, w) ==
  IF Sharable(e, sig) # {}
  THEN [gid |-> CHOOSE x \in Sharable(e, sig) : TRUE, e |-> e]
  ELSE Create(e, sig, n, w)

\* ecmp_group_ref: share an identical group, or else create one.
Ref(e, sig, n, w) ==
  IF Sharable(e, sig) # {}
  THEN LET g == CHOOSE x \in Sharable(e, sig) : TRUE
       IN  [gid |-> g, e |-> [e EXCEPT !.grp[g].ref = e.grp[g].ref + 1]]
  ELSE Create(e, sig, n, w)

\* ecmp_group_unref; cleared says whether the write that clears COUNT works.
Unref(e, g, cleared) ==
  IF g \notin e.tab THEN e
  ELSE IF e.grp[g].ref > 1 THEN [e EXCEPT !.grp[g].ref = e.grp[g].ref - 1]
  ELSE Release(Forget(e, g, cleared), e.grp[g].base, e.grp[g].count, g)
-----------------------------------------------------------------------------
(***************************************************************************)
(* What the operations keep, for the proofs: EcmpInv(e).                   *)
(***************************************************************************)
EcmpFields ==
  {"next", "blkFree", "gidNext", "gidFree", "grp", "tab", "mem", "cnt"}

EcmpType(e) ==
  /\ DOMAIN e = EcmpFields
  /\ e.next \in 0..EcmpSlots
  /\ e.blkFree \in Seq([base : Nat, count : Nat \ {0}])
  /\ e.gidNext \in Nat \ {0}
  /\ e.gidFree \in Seq(Nat)
  /\ \A g \in DOMAIN e.grp : /\ DOMAIN e.grp[g] = {"sig", "base", "count", "ref"}
                            /\ e.grp[g].base \in Nat
                            /\ e.grp[g].count \in Nat \ {0}
                            /\ e.grp[g].ref \in Nat \ {0}
  /\ e.tab \subseteq DOMAIN e.grp
  /\ DOMAIN e.mem = 0..(EcmpSlots - 1)

\* Two blocks of member slots share no slot.
Apart(a, b) == a.base + a.count <= b.base \/ b.base + b.count <= a.base

\* The blocks of the groups and of the free list lie below the high water and
\* are all apart.
EcmpBlocks(e) ==
  /\ \A i \in DOMAIN e.blkFree : e.blkFree[i].base + e.blkFree[i].count <= e.next
  /\ \A g \in DOMAIN e.grp : e.grp[g].base + e.grp[g].count <= e.next
  /\ \A i, j \in DOMAIN e.blkFree : i # j => Apart(e.blkFree[i], e.blkFree[j])
  /\ \A i \in DOMAIN e.blkFree, g \in DOMAIN e.grp : Apart(e.blkFree[i], e.grp[g])
  /\ \A g, h \in DOMAIN e.grp : g # h => Apart(e.grp[g], e.grp[h])

\* A group id is in use or on the free list, not both, and not twice.
EcmpGids(e) ==
  /\ IsInjective(e.gidFree)
  /\ ToSet(e.gidFree) \cap DOMAIN e.grp = {}
  /\ ToSet(e.gidFree) \cup DOMAIN e.grp \subseteq 1..(e.gidNext - 1)

\* The chip has every group: its block in COUNT, its members in the block.
EcmpChip(e) ==
  \A g \in DOMAIN e.grp :
    /\ g \in DOMAIN e.cnt
    /\ e.cnt[g].base = e.grp[g].base /\ e.cnt[g].count = e.grp[g].count
    /\ e.grp[g].count = e.grp[g].sig.size
    /\ \A s \in Block(e.grp[g].base, e.grp[g].count) : e.mem[s] = e.grp[g].sig

\* No two groups that can be shared have the same members.
EcmpShared(e) == \A g, h \in e.tab : e.grp[g].sig = e.grp[h].sig => g = h

EcmpInv(e) ==
  EcmpType(e) /\ EcmpBlocks(e) /\ EcmpGids(e) /\ EcmpChip(e) /\ EcmpShared(e)
=============================================================================
