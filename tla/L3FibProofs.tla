---------------------------- MODULE L3FibProofs ----------------------------
(***************************************************************************)
(* Theorems about L3Fib, for any number of neighbours, prefixes, slots and *)
(* records, and for any set of chip writes that may fail: the lemmas about *)
(* the operators of EcmpGroups, what holds of ECMP groups, and of the two  *)
(* kinds of index that core/datapath/l3.c hands out and takes back, which  *)
(* are next-hop indices and DEFIP slots.  And where every neighbour,       *)
(* prefix and group has a record: the chip tables mirror the software      *)
(* tables, the reference counts are exact, and on a chip that takes every  *)
(* write the whole of core/datapath/l3.c implements L3Table.               *)
(***************************************************************************)
EXTENDS L3Fib, SequenceTheorems, FiniteSetTheorems, WellFoundedInduction, TLAPS

-----------------------------------------------------------------------------
(* What the free lists of EcmpGroups hold, and that Ref and Unref keep the *)
(* group tables in order (EcmpInv), for every number of member slots.      *)

\* Taking the last element: the rest is a list of the same kind.
LEMMA PopSeq ==
  ASSUME NEW S, NEW s \in Seq(S), s # <<>>
  PROVE  /\ Front(s) \in Seq(S)
         /\ Len(s) \in Nat \ {0}
         /\ Len(Front(s)) = Len(s) - 1
         /\ \A i \in 1..(Len(s) - 1) : Front(s)[i] = s[i]
         /\ Last(s) \in S /\ Last(s) \in ToSet(s)
<1>1. Len(s) \in Nat \ {0}
  BY EmptySeq
<1>2. Last(s) \in S /\ Last(s) \in ToSet(s)
  BY <1>1, LenProperties, ElementOfSeq DEF Last, ToSet
<1>3. /\ SubSeq(s, 1, Len(s) - 1) \in Seq(S)
      /\ Len(SubSeq(s, 1, Len(s) - 1)) = Len(s) - 1
      /\ \A i \in 1..(Len(s) - 1) : SubSeq(s, 1, Len(s) - 1)[i] = s[i]
  <2> DEFINE n == Len(s) - 1
  <2>1. n \in Nat /\ \A i \in 1..n : s[i] \in S
    BY <1>1, ElementOfSeq
  <2> HIDE DEF n
  <2>2. /\ SubSeq(s, 1, n) \in Seq(S)
        /\ Len(SubSeq(s, 1, n)) = IF 1 <= n THEN n - 1 + 1 ELSE 0
        /\ \A i \in 1..(n - 1 + 1) : SubSeq(s, 1, n)[i] = s[1 + i - 1]
    BY <2>1, SubSeqProperties
  <2>3. /\ SubSeq(s, 1, n) \in Seq(S)
        /\ Len(SubSeq(s, 1, n)) = n
        /\ \A i \in 1..n : SubSeq(s, 1, n)[i] = s[i]
    BY <2>1, <2>2
  <2> QED BY <2>3 DEF n
<1> QED BY <1>1, <1>2, <1>3 DEF Front

\* Taking the last element of a list without duplicates takes it out of it.
LEMMA PopSet ==
  ASSUME NEW S, NEW s \in Seq(S), s # <<>>, IsInjective(s)
  PROVE  IsInjective(Front(s)) /\ ToSet(Front(s)) = ToSet(s) \ {Last(s)}
<1>1. DOMAIN Front(s) = 1..(Len(s) - 1) /\ DOMAIN s = 1..Len(s)
  BY PopSeq, LenProperties
<1>2. IsInjective(Front(s))
  BY <1>1, PopSeq DEF IsInjective
<1>3. ToSet(Front(s)) = {s[i] : i \in 1..(Len(s) - 1)}
  BY <1>1, PopSeq DEF ToSet
<1>4. ToSet(s) = {s[i] : i \in 1..Len(s)}
  BY <1>1 DEF ToSet
<1>5. \A i \in 1..(Len(s) - 1) : s[i] # s[Len(s)]
  BY <1>1, PopSeq DEF IsInjective
<1>6. 1..Len(s) = 1..(Len(s) - 1) \cup {Len(s)}
  BY PopSeq
<1> QED BY <1>2, <1>3, <1>4, <1>5, <1>6 DEF Last

\* Releasing an element adds at most that element.
LEMMA PushSeq ==
  ASSUME NEW S, NEW s \in Seq(S), NEW x \in S, NEW max
  PROVE  /\ Push(s, x, max) \in Seq(S)
         /\ ToSet(Push(s, x, max)) \subseteq ToSet(s) \cup {x}
         /\ ToSet(s) \subseteq ToSet(Push(s, x, max))
         /\ Len(Push(s, x, max)) <= Len(s) + 1
<1>1. CASE Len(s) < max
  <2>1. Push(s, x, max) = Append(s, x)
    BY <1>1 DEF Push
  <2>2. /\ Append(s, x) \in Seq(S)
        /\ Len(Append(s, x)) = Len(s) + 1
        /\ \A i \in 1..Len(s) : Append(s, x)[i] = s[i]
        /\ Append(s, x)[Len(s) + 1] = x
    BY AppendProperties
  <2>3. /\ DOMAIN s = 1..Len(s) /\ Len(s) \in Nat
        /\ DOMAIN Append(s, x) = 1..(Len(s) + 1)
    BY <2>2, LenProperties
  <2> QED BY <2>1, <2>2, <2>3 DEF ToSet
<1>2. CASE ~ (Len(s) < max)
  BY <1>2, LenProperties DEF Push
<1> QED BY <1>1, <1>2

\* Releasing what is not in a list without duplicates makes none.
LEMMA PushSet ==
  ASSUME NEW S, NEW s \in Seq(S), NEW x \in S, NEW max,
         IsInjective(s), x \notin ToSet(s)
  PROVE  IsInjective(Push(s, x, max))
<1>1. CASE Len(s) < max
  <2>1. Push(s, x, max) = Append(s, x)
    BY <1>1 DEF Push
  <2>2. /\ Append(s, x) \in Seq(S)
        /\ Len(Append(s, x)) = Len(s) + 1
        /\ \A i \in 1..Len(s) : Append(s, x)[i] = s[i]
        /\ Append(s, x)[Len(s) + 1] = x
    BY AppendProperties
  <2>3. /\ DOMAIN s = 1..Len(s) /\ Len(s) \in Nat
        /\ DOMAIN Append(s, x) = 1..(Len(s) + 1)
    BY <2>2, LenProperties
  <2> QED BY <2>1, <2>2, <2>3 DEF ToSet, IsInjective
<1>2. CASE ~ (Len(s) < max)
  BY <1>2 DEF Push
<1> QED BY <1>1, <1>2
-----------------------------------------------------------------------------
\* A set of naturals that is not empty has a least element.
LEMMA MinOfNats ==
  ASSUME NEW T, T \subseteq Nat, T # {}
  PROVE  Min(T) \in T
<1> DEFINE R == OpToRel(<, Nat)
<1>1. \E x \in T : \A y \in T : ~ (<<y, x>> \in R)
  BY NatLessThanWellFounded, WFMin, Zenon
<1>2. \A x, y \in T : <<y, x>> \in R <=> y < x
  BY DEF OpToRel
<1> HIDE DEF R
<1>3. PICK x \in T : \A y \in T : ~ (y < x)
  BY <1>1, <1>2, Zenon
<1>4. \A y \in T : x <= y
  BY <1>3
<1> QED BY <1>4 DEF Min

\* The array without its i-th element: what is left are the others, each
\* once (the last one has moved to place i).
LEMMA SwapOutSeq ==
  ASSUME NEW S, NEW s \in Seq(S), NEW i \in DOMAIN s
  PROVE  /\ SwapOut(s, i) \in Seq(S)
         /\ DOMAIN SwapOut(s, i) = 1..(Len(s) - 1)
         /\ \A j \in 1..(Len(s) - 1) :
              SwapOut(s, i)[j] = s[IF j = i THEN Len(s) ELSE j]
<1>1. DOMAIN s = 1..Len(s) /\ Len(s) \in Nat
  BY LenProperties
<1>2. \A j \in 1..(Len(s) - 1) :
        /\ SwapOut(s, i)[j] = s[IF j = i THEN Len(s) ELSE j]
        /\ (IF j = i THEN Len(s) ELSE j) \in 1..Len(s)
  BY <1>1 DEF SwapOut, Last
<1>3. \A j \in 1..(Len(s) - 1) : SwapOut(s, i)[j] \in S
  BY <1>1, <1>2, ElementOfSeq
<1>4. DOMAIN SwapOut(s, i) = 1..(Len(s) - 1)
  BY DEF SwapOut
<1>5. SwapOut(s, i) = [j \in 1..(Len(s) - 1) |-> SwapOut(s, i)[j]]
  BY DEF SwapOut
<1>6. SwapOut(s, i) \in [1..(Len(s) - 1) -> S]
  BY <1>3, <1>5
<1>7. Len(s) - 1 \in Nat
  BY <1>1
<1> QED BY <1>2, <1>4, <1>6, <1>7, SeqDef

\* Each element of the array left is another element than the i-th, and two
\* of them come from two places.
LEMMA SwapOutElements ==
  ASSUME NEW S, NEW s \in Seq(S), NEW i \in DOMAIN s
  PROVE  /\ \A j \in DOMAIN SwapOut(s, i) :
              \E a \in DOMAIN s : a # i /\ SwapOut(s, i)[j] = s[a]
         /\ \A j, k \in DOMAIN SwapOut(s, i) : j # k =>
              \E a, b \in DOMAIN s : /\ a # b
                                     /\ SwapOut(s, i)[j] = s[a]
                                     /\ SwapOut(s, i)[k] = s[b]
<1> DEFINE from(j) == IF j = i THEN Len(s) ELSE j
           t == SwapOut(s, i)
<1>1. DOMAIN s = 1..Len(s) /\ Len(s) \in Nat
  BY LenProperties
<1>2. DOMAIN t = 1..(Len(s) - 1) /\ \A j \in DOMAIN t : t[j] = s[from(j)]
  BY SwapOutSeq
<1>3. \A j \in DOMAIN t : from(j) \in DOMAIN s /\ from(j) # i
  BY <1>1, <1>2
<1>4. \A j, k \in DOMAIN t : j # k => from(j) # from(k)
  BY <1>1, <1>2
<1> HIDE DEF from, t
<1>5. \A j \in DOMAIN t : \E a \in DOMAIN s : a # i /\ t[j] = s[a]
  BY <1>2, <1>3
<1>6. \A j, k \in DOMAIN t : j # k =>
        \E a, b \in DOMAIN s : a # b /\ t[j] = s[a] /\ t[k] = s[b]
  BY <1>2, <1>3, <1>4
<1> QED BY <1>5, <1>6 DEF t
-----------------------------------------------------------------------------
(***************************************************************************)
(* Between taking a block and an id and making a group of them (or giving  *)
(* them back) the caller holds both: nobody else has them.                 *)
(***************************************************************************)
HoldsBlock(e, b, n) ==
  /\ b \in Nat /\ n \in Nat \ {0} /\ b + n <= e.next
  /\ \A i \in DOMAIN e.blkFree : Apart(e.blkFree[i], [base |-> b, count |-> n])
  /\ \A g \in DOMAIN e.grp : Apart(e.grp[g], [base |-> b, count |-> n])

HoldsGid(e, gid) ==
  /\ gid \in 1..(e.gidNext - 1)
  /\ gid \notin ToSet(e.gidFree) /\ gid \notin DOMAIN e.grp

SameTables(e, f) == f.grp = e.grp /\ f.tab = e.tab /\ f.cnt = e.cnt

\* ecmp_slots_alloc gives a block that nobody has.
LEMMA TakeSlotsHolds ==
  ASSUME NEW e, EcmpInv(e), NEW n \in Nat \ {0}, ~ SlotsFull(e, n)
  PROVE  /\ EcmpInv(TakeSlots(e, n))
         /\ HoldsBlock(TakeSlots(e, n), SlotBase(e, n), n)
         /\ SameTables(e, TakeSlots(e, n))
         /\ TakeSlots(e, n).mem = e.mem
<1> DEFINE S == [base : Nat, count : Nat \ {0}]
           t == TakeSlots(e, n)
<1>0. EcmpType(e) /\ EcmpBlocks(e) /\ EcmpGids(e) /\ EcmpChip(e) /\ EcmpShared(e)
  BY DEF EcmpInv
<1>1. CASE Fits(e, n) # {}
  <2> DEFINE i == Min(Fits(e, n))
             s == e.blkFree
  <2>1. s \in Seq(S) /\ DOMAIN s = 1..Len(s) /\ Len(s) \in Nat
    BY <1>0, LenProperties DEF EcmpType
  <2>2. i \in DOMAIN s /\ s[i].count = n
    <3>1. Fits(e, n) \subseteq Nat
      BY <2>1 DEF Fits
    <3>2. i \in Fits(e, n)
      BY <1>1, <3>1, MinOfNats
    <3> QED BY <3>2 DEF Fits
  <2>3. s[i] \in S
    BY <2>1, <2>2, ElementOfSeq
  <2>4. t = [e EXCEPT !.blkFree = SwapOut(s, i)] /\ SlotBase(e, n) = s[i].base
    BY <1>1 DEF TakeSlots, SlotBase
  <2> HIDE DEF i, S
  <2>5. /\ SwapOut(s, i) \in Seq(S)
        /\ DOMAIN SwapOut(s, i) = 1..(Len(s) - 1)
        /\ \A j \in 1..(Len(s) - 1) :
             SwapOut(s, i)[j] = s[IF j = i THEN Len(s) ELSE j]
    BY <2>1, <2>2, SwapOutSeq
  <2>6. /\ DOMAIN t = DOMAIN e /\ t.blkFree = SwapOut(s, i)
        /\ t.next = e.next /\ t.gidNext = e.gidNext /\ t.gidFree = e.gidFree
        /\ t.grp = e.grp /\ t.tab = e.tab /\ t.mem = e.mem /\ t.cnt = e.cnt
    BY <1>0, <2>4 DEF EcmpType, EcmpFields
  <2> HIDE DEF t
  <2>7. EcmpType(t)
    BY <1>0, <2>5, <2>6 DEF EcmpType, S
  <2> DEFINE f == t.blkFree
  <2>89. /\ \A j \in DOMAIN f : \E a \in DOMAIN s : a # i /\ f[j] = s[a]
         /\ \A j, k \in DOMAIN f : j # k =>
              \E a, b \in DOMAIN s : a # b /\ f[j] = s[a] /\ f[k] = s[b]
    <3>1. f = SwapOut(s, i)
      BY <2>6
    <3>2. s \in Seq(S) /\ i \in DOMAIN s
      BY <2>1, <2>2
    <3> HIDE DEF f, s
    <3> QED BY <3>1, <3>2, SwapOutElements
  <2>8. \A j \in DOMAIN f : \E a \in DOMAIN s : a # i /\ f[j] = s[a]
    BY <2>89
  <2>9. \A j, k \in DOMAIN f : j # k =>
          \E a, b \in DOMAIN s : a # b /\ f[j] = s[a] /\ f[k] = s[b]
    BY <2>89
  <2>10. EcmpBlocks(t)
    BY <1>0, <2>6, <2>8, <2>9 DEF EcmpBlocks
  <2>11. EcmpGids(t) /\ EcmpChip(t) /\ EcmpShared(t)
    BY <1>0, <2>6 DEF EcmpGids, EcmpChip, EcmpShared
  <2>12. HoldsBlock(t, s[i].base, n)
    <3>1. s[i].base \in Nat /\ s[i].base + n <= t.next
      BY <1>0, <2>2, <2>3, <2>6 DEF EcmpBlocks, S
    <3>2. \A j \in DOMAIN t.blkFree : Apart(t.blkFree[j], [base |-> s[i].base, count |-> n])
      BY <1>0, <2>2, <2>8 DEF EcmpBlocks, Apart
    <3>3. \A g \in DOMAIN t.grp : Apart(t.grp[g], [base |-> s[i].base, count |-> n])
      BY <1>0, <2>2, <2>3, <2>6 DEF EcmpBlocks, Apart, EcmpType, S
    <3> QED BY <3>1, <3>2, <3>3 DEF HoldsBlock
  <2> QED BY <2>4, <2>6, <2>7, <2>10, <2>11, <2>12 DEF EcmpInv, SameTables, t
<1>2. CASE Fits(e, n) = {}
  <2>1. t = [e EXCEPT !.next = e.next + n] /\ SlotBase(e, n) = e.next
    BY <1>2 DEF TakeSlots, SlotBase
  <2>2. e.next \in Nat /\ e.next + n <= EcmpSlots
    BY <1>0, <1>2, EcmpAssumption DEF SlotsFull, EcmpType
  <2>3. /\ DOMAIN t = DOMAIN e /\ t.next = e.next + n
        /\ t.blkFree = e.blkFree /\ t.gidNext = e.gidNext /\ t.gidFree = e.gidFree
        /\ t.grp = e.grp /\ t.tab = e.tab /\ t.mem = e.mem /\ t.cnt = e.cnt
    BY <1>0, <2>1 DEF EcmpType, EcmpFields
  <2> HIDE DEF t
  <2>4. EcmpType(t)
    BY <1>0, <2>2, <2>3, EcmpAssumption DEF EcmpType
  <2>5. \A i \in DOMAIN e.blkFree : e.blkFree[i] \in S
    <3>1. e.blkFree \in Seq(S)
      BY <1>0 DEF EcmpType
    <3> HIDE DEF S
    <3> QED BY <3>1, ElementOfSeq, LenProperties
  <2>6. EcmpBlocks(t)
    <3>1. \A i \in DOMAIN e.blkFree : e.blkFree[i].base + e.blkFree[i].count <= t.next
      BY <1>0, <2>2, <2>3, <2>5 DEF EcmpBlocks
    <3>2. \A g \in DOMAIN e.grp : e.grp[g].base + e.grp[g].count <= t.next
      BY <1>0, <2>2, <2>3 DEF EcmpBlocks, EcmpType
    <3> QED BY <1>0, <2>3, <3>1, <3>2 DEF EcmpBlocks
  <2>7. EcmpGids(t) /\ EcmpChip(t) /\ EcmpShared(t)
    BY <1>0, <2>3 DEF EcmpGids, EcmpChip, EcmpShared
  <2>8. HoldsBlock(t, e.next, n)
    BY <1>0, <2>2, <2>3 DEF HoldsBlock, EcmpBlocks, Apart
  <2> QED BY <2>1, <2>3, <2>4, <2>6, <2>7, <2>8 DEF EcmpInv, SameTables, t
<1> QED BY <1>1, <1>2

\* ecmp_gid_alloc gives an id that nobody has, and leaves a held block alone.
LEMMA TakeGidHolds ==
  ASSUME NEW e, EcmpInv(e), NEW b, NEW n, HoldsBlock(e, b, n)
  PROVE  /\ EcmpInv(TakeGid(e))
         /\ HoldsBlock(TakeGid(e), b, n)
         /\ HoldsGid(TakeGid(e), NextGid(e))
         /\ SameTables(e, TakeGid(e))
         /\ TakeGid(e).mem = e.mem
<1> DEFINE t == TakeGid(e)
<1>0. EcmpType(e) /\ EcmpBlocks(e) /\ EcmpGids(e) /\ EcmpChip(e) /\ EcmpShared(e)
  BY DEF EcmpInv
<1>1. CASE e.gidFree # <<>>
  <2>1. t = [e EXCEPT !.gidFree = Front(e.gidFree)] /\ NextGid(e) = Last(e.gidFree)
    BY <1>1 DEF TakeGid, NextGid
  <2>2. /\ DOMAIN t = DOMAIN e /\ t.gidFree = Front(e.gidFree)
        /\ t.next = e.next /\ t.blkFree = e.blkFree /\ t.gidNext = e.gidNext
        /\ t.grp = e.grp /\ t.tab = e.tab /\ t.mem = e.mem /\ t.cnt = e.cnt
    BY <1>0, <2>1 DEF EcmpType, EcmpFields
  <2>3. /\ Front(e.gidFree) \in Seq(Nat) /\ Last(e.gidFree) \in ToSet(e.gidFree)
        /\ IsInjective(Front(e.gidFree))
        /\ ToSet(Front(e.gidFree)) = ToSet(e.gidFree) \ {Last(e.gidFree)}
    BY <1>0, <1>1, PopSeq, PopSet DEF EcmpType, EcmpGids
  <2> HIDE DEF t
  <2>4. EcmpType(t) /\ EcmpGids(t)
    BY <1>0, <2>2, <2>3 DEF EcmpType, EcmpGids
  <2>5. EcmpBlocks(t) /\ EcmpChip(t) /\ EcmpShared(t) /\ HoldsBlock(t, b, n)
    BY <1>0, <2>2 DEF EcmpBlocks, EcmpChip, EcmpShared, HoldsBlock
  <2>6. HoldsGid(t, Last(e.gidFree))
    BY <1>0, <2>2, <2>3 DEF EcmpGids, HoldsGid
  <2> QED BY <2>1, <2>2, <2>4, <2>5, <2>6 DEF EcmpInv, SameTables, t
<1>2. CASE e.gidFree = <<>>
  <2>1. t = [e EXCEPT !.gidNext = e.gidNext + 1] /\ NextGid(e) = e.gidNext
    BY <1>2 DEF TakeGid, NextGid
  <2>2. /\ DOMAIN t = DOMAIN e /\ t.gidNext = e.gidNext + 1 /\ t.gidFree = e.gidFree
        /\ t.next = e.next /\ t.blkFree = e.blkFree
        /\ t.grp = e.grp /\ t.tab = e.tab /\ t.mem = e.mem /\ t.cnt = e.cnt
    BY <1>0, <2>1 DEF EcmpType, EcmpFields
  <2>3. e.gidNext \in Nat \ {0}
    BY <1>0 DEF EcmpType
  <2> HIDE DEF t
  <2>4. EcmpType(t) /\ EcmpGids(t)
    BY <1>0, <2>2, <2>3 DEF EcmpType, EcmpGids
  <2>5. EcmpBlocks(t) /\ EcmpChip(t) /\ EcmpShared(t) /\ HoldsBlock(t, b, n)
    BY <1>0, <2>2 DEF EcmpBlocks, EcmpChip, EcmpShared, HoldsBlock
  <2>6. HoldsGid(t, e.gidNext)
    BY <1>0, <2>2, <2>3 DEF EcmpGids, HoldsGid
  <2> QED BY <2>1, <2>2, <2>4, <2>5, <2>6 DEF EcmpInv, SameTables, t
<1> QED BY <1>1, <1>2

\* Writing into a held block disturbs no group.
LEMMA FillHolds ==
  ASSUME NEW e, EcmpInv(e), NEW b, NEW n, HoldsBlock(e, b, n),
         NEW gid, HoldsGid(e, gid), NEW m \in 0..n, NEW sig
  PROVE  /\ EcmpInv(Fill(e, b, m, sig))
         /\ HoldsBlock(Fill(e, b, m, sig), b, n)
         /\ HoldsGid(Fill(e, b, m, sig), gid)
         /\ SameTables(e, Fill(e, b, m, sig))
         /\ \A s \in Block(b, m) : Fill(e, b, m, sig).mem[s] = sig
<1> DEFINE t == Fill(e, b, m, sig)
<1>0. EcmpType(e) /\ EcmpBlocks(e) /\ EcmpGids(e) /\ EcmpChip(e) /\ EcmpShared(e)
  BY DEF EcmpInv
<1>1. /\ DOMAIN t = DOMAIN e
      /\ t.mem = [s \in DOMAIN e.mem |-> IF s \in Block(b, m) THEN sig ELSE e.mem[s]]
      /\ t.next = e.next /\ t.blkFree = e.blkFree
      /\ t.gidNext = e.gidNext /\ t.gidFree = e.gidFree
      /\ t.grp = e.grp /\ t.tab = e.tab /\ t.cnt = e.cnt
  BY <1>0 DEF Fill, EcmpType, EcmpFields
<1> HIDE DEF t
<1>2. /\ b \in Nat /\ n \in Nat /\ b + n <= EcmpSlots /\ m \in Nat /\ m <= n
      /\ e.next \in Nat /\ e.next <= EcmpSlots
  BY <1>0, EcmpAssumption DEF HoldsBlock, EcmpType
<1>3. EcmpType(t) /\ EcmpBlocks(t) /\ EcmpGids(t) /\ EcmpShared(t)
  BY <1>0, <1>1 DEF EcmpType, EcmpBlocks, EcmpGids, EcmpShared
<1>4. \A g \in DOMAIN e.grp : \A s \in Block(e.grp[g].base, e.grp[g].count) :
        s \in DOMAIN e.mem /\ s \notin Block(b, m)
  <2> SUFFICES ASSUME NEW g \in DOMAIN e.grp,
                      NEW s \in Block(e.grp[g].base, e.grp[g].count)
               PROVE  s \in DOMAIN e.mem /\ s \notin Block(b, m)
    OBVIOUS
  <2> DEFINE gb == e.grp[g].base
             gc == e.grp[g].count
  <2>1. /\ gb \in Nat /\ gc \in Nat /\ gb + gc <= e.next
        /\ gb + gc <= b \/ b + n <= gb
    BY <1>0 DEF EcmpType, EcmpBlocks, HoldsBlock, Apart
  <2>2. s \in gb..(gb + gc - 1)
    BY DEF Block
  <2>3. DOMAIN e.mem = 0..(EcmpSlots - 1)
    BY <1>0 DEF EcmpType
  <2> HIDE DEF gb, gc
  <2> QED BY <1>2, <2>1, <2>2, <2>3, EcmpAssumption DEF Block
<1>5. EcmpChip(t)
  BY <1>0, <1>1, <1>4 DEF EcmpChip
<1>6. \A s \in Block(b, m) : s \in DOMAIN e.mem
  <2>1. DOMAIN e.mem = 0..(EcmpSlots - 1)
    BY <1>0 DEF EcmpType
  <2> QED BY <1>2, <2>1, EcmpAssumption DEF Block
<1>7. HoldsBlock(t, b, n) /\ HoldsGid(t, gid) /\ SameTables(e, t)
  BY <1>1 DEF HoldsBlock, HoldsGid, SameTables
<1>8. \A s \in Block(b, m) : t.mem[s] = sig
  BY <1>1, <1>6
<1> QED BY <1>3, <1>5, <1>7, <1>8 DEF EcmpInv, t

\* The elements of a list after a release: the old ones in their places, and
\* at most one more at the end.
LEMMA PushElements ==
  ASSUME NEW S, NEW s \in Seq(S), NEW x \in S, NEW max
  PROVE  \A i \in DOMAIN Push(s, x, max) :
           \/ i \in DOMAIN s /\ Push(s, x, max)[i] = s[i]
           \/ i = Len(s) + 1 /\ i \notin DOMAIN s /\ Push(s, x, max)[i] = x
<1>0. DOMAIN s = 1..Len(s) /\ Len(s) \in Nat
  BY LenProperties
<1>1. CASE Len(s) < max
  <2>1. Push(s, x, max) = Append(s, x)
    BY <1>1 DEF Push
  <2>2. /\ DOMAIN Append(s, x) = 1..(Len(s) + 1)
        /\ \A i \in 1..Len(s) : Append(s, x)[i] = s[i]
        /\ Append(s, x)[Len(s) + 1] = x
    BY AppendProperties, LenProperties
  <2> QED BY <1>0, <2>1, <2>2
<1>2. CASE ~ (Len(s) < max)
  BY <1>2 DEF Push
<1> QED BY <1>1, <1>2

\* ecmp_slots_release and ecmp_gid_release: the block and the id that are
\* given back were nobody else's, so the free lists stay in order.
LEMMA ReleaseInv ==
  ASSUME NEW e, EcmpInv(e), NEW b, NEW n, HoldsBlock(e, b, n),
         NEW gid, HoldsGid(e, gid)
  PROVE  EcmpInv(Release(e, b, n, gid)) /\ SameTables(e, Release(e, b, n, gid))
<1> DEFINE t == Release(e, b, n, gid)
           S == [base : Nat, count : Nat \ {0}]
           x == [base |-> b, count |-> n]
           s == e.blkFree
<1>0. EcmpType(e) /\ EcmpBlocks(e) /\ EcmpGids(e) /\ EcmpChip(e) /\ EcmpShared(e)
  BY DEF EcmpInv
<1>1. /\ DOMAIN t = DOMAIN e
      /\ t.blkFree = Push(s, x, EcmpGrpMax)
      /\ t.gidFree = Push(e.gidFree, gid, EcmpGrpMax)
      /\ t.next = e.next /\ t.gidNext = e.gidNext
      /\ t.grp = e.grp /\ t.tab = e.tab /\ t.mem = e.mem /\ t.cnt = e.cnt
  BY <1>0 DEF Release, EcmpType, EcmpFields
<1> HIDE DEF t
<1>2. x \in S /\ s \in Seq(S)
  BY <1>0 DEF HoldsBlock, EcmpType
<1>3. e.gidFree \in Seq(Nat) /\ gid \in Nat /\ e.gidNext \in Nat
  BY <1>0 DEF EcmpType, HoldsGid
<1>4. Push(s, x, EcmpGrpMax) \in Seq(S) /\ Push(e.gidFree, gid, EcmpGrpMax) \in Seq(Nat)
  <2> HIDE DEF S, s, x
  <2> QED BY <1>2, <1>3, PushSeq
<1>5. EcmpType(t)
  BY <1>0, <1>1, <1>4 DEF EcmpType
<1>6. EcmpGids(t)
  <2> DEFINE f == e.gidFree
             h == Push(f, gid, EcmpGrpMax)
  <2>1. IsInjective(f) /\ gid \notin ToSet(f) /\ f \in Seq(Nat)
    BY <1>0, <1>3 DEF EcmpGids, HoldsGid
  <2>2. IsInjective(h) /\ ToSet(h) \subseteq ToSet(f) \cup {gid}
    <3> HIDE DEF f
    <3> QED BY <1>3, <2>1, PushSeq, PushSet
  <2> HIDE DEF h
  <2> QED BY <1>0, <1>1, <2>2 DEF EcmpGids, HoldsGid, h
<1>7. \A i \in DOMAIN t.blkFree :
        \/ i \in DOMAIN s /\ t.blkFree[i] = s[i]
        \/ i = Len(s) + 1 /\ i \notin DOMAIN s /\ t.blkFree[i] = x
  <2> HIDE DEF S, s, x
  <2> QED BY <1>1, <1>2, PushElements
<1>8. EcmpBlocks(t)
  <2>1. x.base = b /\ x.count = n /\ b + n <= e.next
    BY DEF HoldsBlock
  <2>2. \A i \in DOMAIN s : Apart(s[i], x) /\ Apart(x, s[i])
    BY DEF HoldsBlock, Apart
  <2>3. \A g \in DOMAIN e.grp : Apart(x, e.grp[g])
    BY DEF HoldsBlock, Apart
  <2> HIDE DEF x
  <2>4. \A i \in DOMAIN t.blkFree : t.blkFree[i].base + t.blkFree[i].count <= t.next
    BY <1>0, <1>1, <1>7, <2>1 DEF EcmpBlocks
  <2>5. \A i, j \in DOMAIN t.blkFree : i # j => Apart(t.blkFree[i], t.blkFree[j])
    BY <1>0, <1>7, <2>2 DEF EcmpBlocks
  <2>6. \A i \in DOMAIN t.blkFree, g \in DOMAIN t.grp : Apart(t.blkFree[i], t.grp[g])
    BY <1>0, <1>1, <1>7, <2>3 DEF EcmpBlocks
  <2> QED BY <1>0, <1>1, <2>4, <2>5, <2>6 DEF EcmpBlocks
<1>9. EcmpChip(t) /\ EcmpShared(t) /\ SameTables(e, t)
  BY <1>0, <1>1 DEF EcmpChip, EcmpShared, SameTables
<1> QED BY <1>5, <1>6, <1>8, <1>9 DEF EcmpInv, t

\* A held block and id make a group, whose members are in the block.
LEMMA AddInv ==
  ASSUME NEW e, EcmpInv(e), NEW b, NEW n, HoldsBlock(e, b, n),
         NEW gid, HoldsGid(e, gid), NEW sig, n = sig.size,
         \A s \in Block(b, n) : e.mem[s] = sig, Sharable(e, sig) = {}
  PROVE  EcmpInv(Add(e, gid, sig, b, n))
<1> DEFINE t == Add(e, gid, sig, b, n)
           x == [sig |-> sig, base |-> b, count |-> n, ref |-> 1]
<1>0. EcmpType(e) /\ EcmpBlocks(e) /\ EcmpGids(e) /\ EcmpChip(e) /\ EcmpShared(e)
  BY DEF EcmpInv
<1>1. /\ DOMAIN t = DOMAIN e
      /\ t.grp = Put(e.grp, gid, x)
      /\ t.tab \subseteq e.tab \cup {gid}
      /\ t.cnt = Put(e.cnt, gid, [base |-> b, count |-> n])
      /\ t.next = e.next /\ t.blkFree = e.blkFree /\ t.mem = e.mem
      /\ t.gidNext = e.gidNext /\ t.gidFree = e.gidFree
  BY <1>0 DEF Add, EcmpType, EcmpFields
<1> HIDE DEF t
<1>2. /\ DOMAIN t.grp = DOMAIN e.grp \cup {gid} /\ gid \notin DOMAIN e.grp
      /\ t.grp[gid] = x /\ \A g \in DOMAIN e.grp : t.grp[g] = e.grp[g]
  BY <1>1 DEF Put, HoldsGid
<1>3. /\ x.sig = sig /\ x.base = b /\ x.count = n /\ x.ref = 1
      /\ DOMAIN x = {"sig", "base", "count", "ref"}
  OBVIOUS
<1>4. b \in Nat /\ n \in Nat \ {0} /\ b + n <= e.next /\ gid \in Nat
  BY <1>0 DEF HoldsBlock, HoldsGid, EcmpType
<1>5. /\ \A i \in DOMAIN e.blkFree : Apart(e.blkFree[i], x)
      /\ \A g \in DOMAIN e.grp : Apart(e.grp[g], x) /\ Apart(x, e.grp[g])
  BY DEF HoldsBlock, Apart
<1> HIDE DEF x
<1>6. EcmpType(t)
  BY <1>0, <1>1, <1>2, <1>3, <1>4 DEF EcmpType
<1>7. EcmpBlocks(t)
  BY <1>0, <1>1, <1>2, <1>3, <1>4, <1>5 DEF EcmpBlocks
<1>8. EcmpGids(t)
  BY <1>0, <1>1, <1>2 DEF EcmpGids, HoldsGid
<1>9. EcmpChip(t)
  <2>1. /\ gid \in DOMAIN t.cnt
        /\ t.cnt[gid].base = b /\ t.cnt[gid].count = n
        /\ \A g \in DOMAIN e.grp : g \in DOMAIN e.cnt => g \in DOMAIN t.cnt /\ t.cnt[g] = e.cnt[g]
    BY <1>1, <1>2 DEF Put
  <2> QED BY <1>0, <1>1, <1>2, <1>3, <2>1 DEF EcmpChip
<1>10. EcmpShared(t)
  <2>1. \A g \in e.tab : e.grp[g].sig # sig
    BY DEF Sharable
  <2>2. \A g \in t.tab : (g = gid /\ t.grp[g].sig = sig)
                         \/ (g \in e.tab /\ t.grp[g].sig = e.grp[g].sig)
    BY <1>0, <1>1, <1>2, <1>3 DEF EcmpType
  <2> QED BY <1>0, <2>1, <2>2 DEF EcmpShared
<1> QED BY <1>6, <1>7, <1>8, <1>9, <1>10 DEF EcmpInv, t
-----------------------------------------------------------------------------
(***************************************************************************)
(* The contracts of Ref and Unref.                                         *)
(***************************************************************************)

\* f is e with one more reference to g, a group with members sig: one of
\* ecmp_tab that was counted up, or one that was not there before.
Refers(e, f, g, sig) ==
  /\ g \in DOMAIN f.grp /\ f.grp[g].sig = sig
  /\ DOMAIN f.grp = DOMAIN e.grp \cup {g}
  /\ \A h \in DOMAIN e.grp : f.grp[h].sig = e.grp[h].sig
  /\ e.tab \subseteq f.tab /\ f.tab \subseteq e.tab \cup {g}
  /\ \A h \in e.tab \ {g} : f.grp[h].ref = e.grp[h].ref
  /\ g \in e.tab => f.grp[g].ref = e.grp[g].ref + 1
  /\ g \notin e.tab => g \notin DOMAIN e.grp /\ f.grp[g].ref = 1
  /\ Cardinality(e.tab) < EcmpGrpMax => g \in f.tab

\* l3_ecmp_group_create keeps the tables in order, whichever write fails, and
\* makes a group that was not there or none.
LEMMA CreateContract ==
  ASSUME NEW e, EcmpInv(e), NEW sig, NEW n \in Nat \ {0}, n = sig.size,
         NEW w \in 0..(n + 1), Sharable(e, sig) = {}
  PROVE  /\ EcmpInv(Create(e, sig, n, w).e)
         /\ \/ /\ Create(e, sig, n, w).gid = NoGid
               /\ SameTables(e, Create(e, sig, n, w).e)
            \/ /\ Create(e, sig, n, w).gid \in Nat
               /\ Refers(e, Create(e, sig, n, w).e, Create(e, sig, n, w).gid, sig)
<1> DEFINE b   == SlotBase(e, n)
           gid == NextGid(e)
           m   == IF w < n THEN w ELSE n
           t1  == TakeSlots(e, n)
           t2  == TakeGid(t1)
           t   == Fill(t2, b, m, sig)
           c   == Create(e, sig, n, w)
<1>1. CASE SlotsFull(e, n)
  <2>1. c = [gid |-> NoGid, e |-> e]
    BY <1>1 DEF Create
  <2> QED BY <2>1 DEF SameTables
<1>2. CASE ~ SlotsFull(e, n)
  <2>1. EcmpInv(t1) /\ HoldsBlock(t1, b, n) /\ SameTables(e, t1) /\ NextGid(t1) = gid
    <3>1. t1.gidFree = e.gidFree /\ t1.gidNext = e.gidNext
      BY DEF TakeSlots, EcmpInv, EcmpType, EcmpFields
    <3> QED BY <1>2, <3>1, TakeSlotsHolds DEF NextGid
  <2> HIDE DEF t1, b, gid
  <2>2. EcmpInv(t2) /\ HoldsBlock(t2, b, n) /\ HoldsGid(t2, gid) /\ SameTables(t1, t2)
    BY <2>1, TakeGidHolds
  <2> HIDE DEF t2
  <2>3. m \in 0..n
    OBVIOUS
  <2> HIDE DEF m
  <2>4. /\ EcmpInv(t) /\ HoldsBlock(t, b, n) /\ HoldsGid(t, gid) /\ SameTables(t2, t)
        /\ \A s \in Block(b, m) : t.mem[s] = sig
    BY <2>2, <2>3, FillHolds
  <2>5. SameTables(e, t)
    BY <2>1, <2>2, <2>4 DEF SameTables
  <2>6. c = IF w <= n THEN [gid |-> NoGid, e |-> Release(t, b, n, gid)]
                      ELSE [gid |-> gid, e |-> Add(t, gid, sig, b, n)]
    BY <1>2 DEF Create, t, t2, t1, m, b, gid
  <2> HIDE DEF t, c
  <2>7. CASE w <= n
    <3>1. EcmpInv(Release(t, b, n, gid)) /\ SameTables(t, Release(t, b, n, gid))
      BY <2>4, ReleaseInv
    <3> QED BY <2>5, <2>6, <2>7, <3>1 DEF SameTables, c
  <2>8. CASE ~ (w <= n)
    <3>1. m = n
      BY <2>8 DEF m
    <3>2. Sharable(t, sig) = {}
      BY <2>5 DEF Sharable, SameTables
    <3>3. EcmpInv(Add(t, gid, sig, b, n))
      BY <2>4, <3>1, <3>2, AddInv
    <3> DEFINE f == Add(t, gid, sig, b, n)
               x == [sig |-> sig, base |-> b, count |-> n, ref |-> 1]
    <3>4. /\ f.grp = Put(e.grp, gid, x)
          /\ f.tab = IF Cardinality(e.tab) < EcmpGrpMax THEN e.tab \cup {gid} ELSE e.tab
      BY <2>4, <2>5 DEF Add, SameTables, EcmpInv, EcmpType, EcmpFields
    <3>5. gid \in Nat /\ gid \notin DOMAIN e.grp /\ e.tab \subseteq DOMAIN e.grp
      BY <2>4, <2>5 DEF HoldsGid, SameTables, EcmpInv, EcmpType
    <3>6. x.sig = sig /\ x.ref = 1
      OBVIOUS
    <3> HIDE DEF f, x
    <3>7. Refers(e, f, gid, sig)
      BY <3>4, <3>5, <3>6 DEF Refers, Put
    <3> QED BY <2>6, <2>8, <3>3, <3>5, <3>7 DEF f, c
  <2> QED BY <2>7, <2>8
<1> QED BY <1>1, <1>2

\* Another count for a group changes nothing else.
LEMMA SetRef ==
  ASSUME NEW e, EcmpInv(e), NEW g \in DOMAIN e.grp, NEW v \in Nat \ {0},
         NEW f, f = [e EXCEPT !.grp[g].ref = v]
  PROVE  /\ EcmpInv(f)
         /\ DOMAIN f.grp = DOMAIN e.grp /\ f.tab = e.tab
         /\ \A h \in DOMAIN e.grp : f.grp[h].sig = e.grp[h].sig
         /\ f.grp[g].ref = v
         /\ \A h \in DOMAIN e.grp \ {g} : f.grp[h].ref = e.grp[h].ref
<1>1. EcmpType(e) /\ EcmpBlocks(e) /\ EcmpGids(e) /\ EcmpChip(e) /\ EcmpShared(e)
  BY DEF EcmpInv
<1>2. /\ DOMAIN f = DOMAIN e /\ DOMAIN f.grp = DOMAIN e.grp
      /\ f.next = e.next /\ f.blkFree = e.blkFree /\ f.gidNext = e.gidNext
      /\ f.gidFree = e.gidFree /\ f.tab = e.tab /\ f.mem = e.mem /\ f.cnt = e.cnt
      /\ f.grp[g] = [e.grp[g] EXCEPT !.ref = v]
      /\ \A h \in DOMAIN e.grp \ {g} : f.grp[h] = e.grp[h]
  BY <1>1 DEF EcmpType, EcmpFields
<1>3. \A h \in DOMAIN e.grp : /\ DOMAIN f.grp[h] = DOMAIN e.grp[h]
                             /\ f.grp[h].sig = e.grp[h].sig
                             /\ f.grp[h].base = e.grp[h].base
                             /\ f.grp[h].count = e.grp[h].count
                             /\ f.grp[h].ref \in Nat \ {0}
                             /\ f.grp[h].ref = IF h = g THEN v ELSE e.grp[h].ref
  <2> TAKE h \in DOMAIN e.grp
  <2>1. DOMAIN e.grp[h] = {"sig", "base", "count", "ref"} /\ e.grp[h].ref \in Nat \ {0}
    BY <1>1 DEF EcmpType
  <2>2. CASE h = g
    BY <1>2, <2>1, <2>2
  <2>3. CASE h # g
    BY <1>2, <2>1, <2>3
  <2> QED BY <2>2, <2>3
<1>4. EcmpType(f)
  <2>1. \A h \in DOMAIN f.grp : /\ DOMAIN f.grp[h] = {"sig", "base", "count", "ref"}
                               /\ f.grp[h].base \in Nat
                               /\ f.grp[h].count \in Nat \ {0}
                               /\ f.grp[h].ref \in Nat \ {0}
    BY <1>1, <1>2, <1>3 DEF EcmpType
  <2> QED BY <1>1, <1>2, <2>1 DEF EcmpType
<1>5. EcmpBlocks(f)
  BY <1>1, <1>2, <1>3 DEF EcmpBlocks, Apart
<1>6. EcmpGids(f) /\ EcmpShared(f)
  BY <1>1, <1>2, <1>3 DEF EcmpGids, EcmpShared, EcmpType
<1>7. EcmpChip(f)
  BY <1>1, <1>2, <1>3 DEF EcmpChip
<1> QED BY <1>2, <1>3, <1>4, <1>5, <1>6, <1>7 DEF EcmpInv

\* ecmp_group_ref returns a group with the members asked for, counted once
\* more than before, or none and leaves the groups alone.
LEMMA RefContract ==
  ASSUME NEW e, EcmpInv(e), NEW sig, NEW n \in Nat \ {0}, n = sig.size,
         NEW w \in 0..(n + 1)
  PROVE  /\ EcmpInv(Ref(e, sig, n, w).e)
         /\ \/ /\ Ref(e, sig, n, w).gid = NoGid
               /\ SameTables(e, Ref(e, sig, n, w).e)
            \/ /\ Ref(e, sig, n, w).gid \in Nat
               /\ Refers(e, Ref(e, sig, n, w).e, Ref(e, sig, n, w).gid, sig)
<1>1. CASE Sharable(e, sig) = {}
  BY <1>1, CreateContract DEF Ref
<1>2. CASE Sharable(e, sig) # {}
  <2> DEFINE g == CHOOSE x \in Sharable(e, sig) : TRUE
             f == [e EXCEPT !.grp[g].ref = e.grp[g].ref + 1]
  <2>1. Ref(e, sig, n, w) = [gid |-> g, e |-> f]
    BY <1>2 DEF Ref
  <2>2. g \in Sharable(e, sig)
    BY <1>2
  <2> HIDE DEF g
  <2>3. EcmpType(e) /\ EcmpGids(e)
    BY DEF EcmpInv
  <2>4. /\ g \in e.tab /\ g \in DOMAIN e.grp /\ e.grp[g].sig = sig /\ g \in Nat
        /\ e.tab \subseteq DOMAIN e.grp /\ e.grp[g].ref + 1 \in Nat \ {0}
    <3>1. g \in e.tab /\ e.grp[g].sig = sig
      BY <2>2 DEF Sharable
    <3>2. e.tab \subseteq DOMAIN e.grp /\ e.grp[g].ref \in Nat \ {0}
      BY <2>3, <3>1 DEF EcmpType
    <3>3. g \in Nat
      BY <2>3, <3>1, <3>2 DEF EcmpGids
    <3> QED BY <3>1, <3>2, <3>3
  <2>5. /\ EcmpInv(f)
        /\ DOMAIN f.grp = DOMAIN e.grp /\ f.tab = e.tab
        /\ \A h \in DOMAIN e.grp : f.grp[h].sig = e.grp[h].sig
        /\ f.grp[g].ref = e.grp[g].ref + 1
        /\ \A h \in DOMAIN e.grp \ {g} : f.grp[h].ref = e.grp[h].ref
    BY <2>4, SetRef
  <2> HIDE DEF f
  <2>6. Refers(e, f, g, sig)
    BY <2>4, <2>5 DEF Refers
  <2> QED BY <2>1, <2>4, <2>5, <2>6
<1> QED BY <1>1, <1>2

\* f is e with one reference to g less: g is counted down, or it was the last
\* one and g is gone; a group that ecmp_tab has no record of stays.
Releases(e, f, g) ==
  /\ f.tab \subseteq e.tab /\ e.tab \cap DOMAIN f.grp \subseteq f.tab
  /\ DOMAIN f.grp \subseteq DOMAIN e.grp
  /\ \A h \in DOMAIN f.grp : f.grp[h].sig = e.grp[h].sig
  /\ \A h \in DOMAIN e.grp \ {g} :
       h \in DOMAIN f.grp /\ f.grp[h].ref = e.grp[h].ref
  /\ g \notin e.tab => f = e
  /\ g \in e.tab => IF e.grp[g].ref > 1
                    THEN g \in DOMAIN f.grp /\ f.grp[g].ref = e.grp[g].ref - 1
                    ELSE g \notin f.tab

\* A group that is forgotten leaves its block and its id to the caller.
LEMMA ForgetHolds ==
  ASSUME NEW e, EcmpInv(e), NEW g \in DOMAIN e.grp, NEW cleared \in BOOLEAN
  PROVE  /\ EcmpInv(Forget(e, g, cleared))
         /\ HoldsBlock(Forget(e, g, cleared), e.grp[g].base, e.grp[g].count)
         /\ HoldsGid(Forget(e, g, cleared), g)
         /\ Forget(e, g, cleared).grp = Drop(e.grp, g)
         /\ Forget(e, g, cleared).tab = e.tab \ {g}
<1> DEFINE f == Forget(e, g, cleared)
<1>1. EcmpType(e) /\ EcmpBlocks(e) /\ EcmpGids(e) /\ EcmpChip(e) /\ EcmpShared(e)
  BY DEF EcmpInv
<1>2. /\ DOMAIN f = DOMAIN e
      /\ f.grp = Drop(e.grp, g) /\ f.tab = e.tab \ {g}
      /\ f.cnt = e.cnt \/ f.cnt = Drop(e.cnt, g)
      /\ f.next = e.next /\ f.blkFree = e.blkFree /\ f.gidNext = e.gidNext
      /\ f.gidFree = e.gidFree /\ f.mem = e.mem
  BY <1>1 DEF Forget, EcmpType, EcmpFields
<1> HIDE DEF f
<1>3. /\ DOMAIN f.grp = DOMAIN e.grp \ {g}
      /\ \A h \in DOMAIN e.grp \ {g} : f.grp[h] = e.grp[h]
      /\ \A h \in DOMAIN e.cnt \ {g} : h \in DOMAIN f.cnt /\ f.cnt[h] = e.cnt[h]
  BY <1>2 DEF Drop, Restrict
<1>4. EcmpType(f)
  BY <1>1, <1>2, <1>3 DEF EcmpType
<1>5. EcmpBlocks(f) /\ EcmpGids(f)
  BY <1>1, <1>2, <1>3 DEF EcmpBlocks, EcmpGids
<1>6. EcmpChip(f)
  BY <1>1, <1>2, <1>3 DEF EcmpChip
<1>7. EcmpShared(f)
  BY <1>1, <1>2, <1>3 DEF EcmpShared, EcmpType
<1>8. HoldsBlock(f, e.grp[g].base, e.grp[g].count)
  BY <1>1, <1>2, <1>3 DEF HoldsBlock, EcmpBlocks, EcmpType, Apart
<1>9. HoldsGid(f, g)
  BY <1>1, <1>2, <1>3 DEF HoldsGid, EcmpGids
<1> QED BY <1>2, <1>4, <1>5, <1>6, <1>7, <1>8, <1>9 DEF EcmpInv, f

\* ecmp_group_unref lets go of one reference and keeps the tables in order.
LEMMA UnrefContract ==
  ASSUME NEW e, EcmpInv(e), NEW g \in DOMAIN e.grp, NEW cleared \in BOOLEAN
  PROVE  EcmpInv(Unref(e, g, cleared)) /\ Releases(e, Unref(e, g, cleared), g)
<1> DEFINE f == Unref(e, g, cleared)
<1>0. EcmpType(e)
  BY DEF EcmpInv
<1>1. e.tab \subseteq DOMAIN e.grp /\ e.grp[g].ref \in Nat \ {0}
  BY <1>0 DEF EcmpType
<1>2. CASE g \notin e.tab
  <2>1. f = e
    BY <1>2 DEF Unref
  <2> QED BY <1>2, <2>1 DEF Releases
<1>3. CASE g \in e.tab /\ e.grp[g].ref > 1
  <2> DEFINE v == e.grp[g].ref - 1
             x == [e EXCEPT !.grp[g].ref = v]
  <2>1. f = x
    BY <1>3 DEF Unref
  <2>2. v \in Nat \ {0}
    BY <1>1, <1>3
  <2> HIDE DEF v
  <2>3. /\ EcmpInv(x)
        /\ DOMAIN x.grp = DOMAIN e.grp /\ x.tab = e.tab
        /\ \A h \in DOMAIN e.grp : x.grp[h].sig = e.grp[h].sig
        /\ x.grp[g].ref = v
        /\ \A h \in DOMAIN e.grp \ {g} : x.grp[h].ref = e.grp[h].ref
    BY <2>2, SetRef
  <2> HIDE DEF x, f
  <2> QED BY <1>3, <2>1, <2>3 DEF Releases, v, f
<1>4. CASE g \in e.tab /\ ~ (e.grp[g].ref > 1)
  <2> DEFINE h == Forget(e, g, cleared)
  <2>1. f = Release(h, e.grp[g].base, e.grp[g].count, g)
    BY <1>4 DEF Unref
  <2>2. /\ EcmpInv(h) /\ HoldsBlock(h, e.grp[g].base, e.grp[g].count)
        /\ HoldsGid(h, g) /\ h.grp = Drop(e.grp, g) /\ h.tab = e.tab \ {g}
    BY ForgetHolds
  <2> HIDE DEF f, h
  <2>3. EcmpInv(f) /\ SameTables(h, f)
    BY <2>1, <2>2, ReleaseInv
  <2>4. /\ DOMAIN f.grp = DOMAIN e.grp \ {g} /\ f.tab = e.tab \ {g}
        /\ \A x \in DOMAIN e.grp \ {g} : f.grp[x] = e.grp[x]
    BY <2>2, <2>3 DEF SameTables, Drop, Restrict
  <2> QED BY <1>4, <2>3, <2>4 DEF Releases, f
<1> QED BY <1>2, <1>3, <1>4

-----------------------------------------------------------------------------
(* The routes and their groups.                                            *)

\* The routes that use a group are finitely many; one route more or less
\* changes their number by at most one.
LEMMA UsersCount ==
  ASSUME NEW r, IsFiniteSet(DOMAIN r), NEW g
  PROVE  /\ IsFiniteSet(UsersOf(r, g)) /\ Cardinality(UsersOf(r, g)) \in Nat
         /\ \A p : p \in UsersOf(r, g) =>
              /\ Cardinality(UsersOf(r, g) \ {p}) = Cardinality(UsersOf(r, g)) - 1
              /\ Cardinality(UsersOf(r, g)) >= 1
              /\ Cardinality(UsersOf(r, g)) = 1 => UsersOf(r, g) = {p}
         /\ \A p : Cardinality(UsersOf(r, g) \cup {p}) <= Cardinality(UsersOf(r, g)) + 1
<1> DEFINE U == UsersOf(r, g)
<1>1. IsFiniteSet(U)
  <2>1. U \subseteq DOMAIN r
    BY DEF UsersOf
  <2> QED BY <2>1, FS_Subset
<1> HIDE DEF U
<1>2. Cardinality(U) \in Nat
  BY <1>1, FS_CardinalityType
<1>3. ASSUME NEW p \in U
      PROVE  /\ Cardinality(U \ {p}) = Cardinality(U) - 1
             /\ Cardinality(U) >= 1
             /\ Cardinality(U) = 1 => U = {p}
  <2>1. Cardinality(U \ {p}) = Cardinality(U) - 1 /\ IsFiniteSet(U \ {p})
    BY <1>1, FS_RemoveElement
  <2>2. Cardinality(U \ {p}) \in Nat
    BY <2>1, FS_CardinalityType
  <2>3. Cardinality(U \ {p}) = 0 => U \ {p} = {}
    BY <2>1, FS_EmptySet
  <2> QED BY <1>2, <2>1, <2>2, <2>3
<1>4. ASSUME NEW p
      PROVE  Cardinality(U \cup {p}) <= Cardinality(U) + 1
  BY <1>1, <1>2, FS_AddElement
<1> QED BY <1>1, <1>2, <1>3, <1>4 DEF U

\* A reference to a group is the caller's to hold.
LEMMA RefHeld ==
  ASSUME NEW r, IsFiniteSet(DOMAIN r), NEW e, EcmpInv(e), RefsOK(r, e, {}),
         NEW f, NEW g, NEW sig, Refers(e, f, g, sig)
  PROVE  RefsOK(r, f, {g})
<1>1. \A p \in DOMAIN r : r[p].ecmp =>
        r[p].ref \in DOMAIN f.grp /\ f.grp[r[p].ref].sig = r[p].sig
  BY DEF RefsOK, Refers
<1>2. ASSUME NEW h \in f.tab
      PROVE  Cardinality(UsersOf(r, h)) + (IF h \in {g} THEN 1 ELSE 0) <= f.grp[h].ref
  <2>0. Cardinality(UsersOf(r, h)) \in Nat
    BY UsersCount
  <2>1. CASE h # g
    <3>1. h \in e.tab /\ f.grp[h].ref = e.grp[h].ref
      BY <2>1 DEF Refers
    <3> QED BY <2>0, <2>1, <3>1 DEF RefsOK
  <2>2. CASE h = g /\ g \in e.tab
    <3>1. f.grp[h].ref = e.grp[h].ref + 1 /\ e.grp[h].ref \in Nat
      BY <2>2 DEF Refers, EcmpInv, EcmpType
    <3>2. Cardinality(UsersOf(r, h)) <= e.grp[h].ref
      BY <2>0, <2>2 DEF RefsOK
    <3> QED BY <2>0, <2>2, <3>1, <3>2
  <2>3. CASE h = g /\ g \notin e.tab
    <3>1. g \notin DOMAIN e.grp /\ f.grp[g].ref = 1
      BY <2>3 DEF Refers
    <3>2. UsersOf(r, h) = {}
      BY <2>3, <3>1 DEF UsersOf, RefsOK
    <3>3. Cardinality(UsersOf(r, h)) = 0
      BY <3>2, FS_EmptySet
    <3> QED BY <2>3, <3>1, <3>3
  <2> QED BY <2>1, <2>2, <2>3
<1>3. {g} \subseteq DOMAIN f.grp
  BY DEF Refers
<1> QED BY <1>1, <1>2, <1>3 DEF RefsOK

\* A reference that is held may be kept by no one (a route that goes
\* unrecorded).
LEMMA HeldLost ==
  ASSUME NEW r, IsFiniteSet(DOMAIN r), NEW e, EcmpInv(e), NEW held, RefsOK(r, e, held)
  PROVE  RefsOK(r, e, {})
<1>1. ASSUME NEW h \in e.tab
      PROVE  Cardinality(UsersOf(r, h)) + (IF h \in {} THEN 1 ELSE 0) <= e.grp[h].ref
  <2>1. Cardinality(UsersOf(r, h)) \in Nat /\ e.grp[h].ref \in Nat
    BY UsersCount DEF EcmpInv, EcmpType
  <2> QED BY <2>1 DEF RefsOK
<1> QED BY <1>1 DEF RefsOK

\* A reference that is held can be let go again.
LEMMA HeldUnref ==
  ASSUME NEW r, IsFiniteSet(DOMAIN r), NEW e, EcmpInv(e), NEW g, RefsOK(r, e, {g}),
         NEW f, Releases(e, f, g)
  PROVE  RefsOK(r, f, {})
<1>1. CASE g \notin e.tab
  BY <1>1, HeldLost DEF Releases
<1>2. CASE g \in e.tab
  <2>1. e.grp[g].ref \in Nat \ {0} /\ Cardinality(UsersOf(r, g)) \in Nat
    BY <1>2, UsersCount DEF EcmpInv, EcmpType
  <2>2. Cardinality(UsersOf(r, g)) + 1 <= e.grp[g].ref
    BY <1>2 DEF RefsOK
  <2>3. ~ (e.grp[g].ref > 1) => UsersOf(r, g) = {}
    <3>1. ~ (e.grp[g].ref > 1) => Cardinality(UsersOf(r, g)) = 0
      BY <2>1, <2>2
    <3> QED BY <3>1, UsersCount, FS_EmptySet
  <2>4. \A p \in DOMAIN r : r[p].ecmp =>
          r[p].ref \in DOMAIN f.grp /\ f.grp[r[p].ref].sig = r[p].sig
    BY <1>2, <2>3 DEF RefsOK, Releases, UsersOf
  <2>5. ASSUME NEW h \in f.tab
        PROVE  Cardinality(UsersOf(r, h)) + (IF h \in {} THEN 1 ELSE 0) <= f.grp[h].ref
    <3>1. h \in e.tab /\ Cardinality(UsersOf(r, h)) \in Nat
      BY UsersCount DEF Releases
    <3>2. CASE h # g
      <4>1. f.grp[h].ref = e.grp[h].ref
        BY <3>1, <3>2 DEF Releases, EcmpInv, EcmpType
      <4> QED BY <3>1, <3>2, <4>1 DEF RefsOK
    <3>3. CASE h = g
      <4>1. f.grp[h].ref = e.grp[g].ref - 1
        BY <1>2, <3>3 DEF Releases
      <4> QED BY <2>1, <2>2, <3>1, <3>3, <4>1
    <3> QED BY <3>2, <3>3
  <2> QED BY <2>4, <2>5 DEF RefsOK
<1> QED BY <1>1, <1>2

LEMMA UsersDrop ==
  ASSUME NEW r, NEW p, NEW g
  PROVE  UsersOf(Drop(r, p), g) = UsersOf(r, g) \ {p}
BY DEF UsersOf, Drop, Restrict

LEMMA UsersPut ==
  ASSUME NEW r, NEW p, NEW x, NEW g
  PROVE  UsersOf(Put(r, p, x), g) =
           IF x.ecmp /\ x.ref = g THEN UsersOf(r, g) \cup {p} ELSE UsersOf(r, g) \ {p}
<1>1. DOMAIN Put(r, p, x) = DOMAIN r \cup {p}
  BY DEF Put
<1>2. \A q \in DOMAIN r \cup {p} : Put(r, p, x)[q] = IF q = p THEN x ELSE r[q]
  BY DEF Put
<1> QED BY <1>1, <1>2 DEF UsersOf

\* A route that goes lets go of its group.
LEMMA RouteUnref ==
  ASSUME NEW r, IsFiniteSet(DOMAIN r), NEW e, EcmpInv(e), NEW held, RefsOK(r, e, held),
         NEW p \in DOMAIN r, r[p].ecmp, NEW f, Releases(e, f, r[p].ref)
  PROVE  RefsOK(Drop(r, p), f, held)
<1> DEFINE g == r[p].ref
           n(h) == Cardinality(UsersOf(r, h)) + (IF h \in held THEN 1 ELSE 0)
<1>1. /\ DOMAIN Drop(r, p) = DOMAIN r \ {p}
      /\ \A q \in DOMAIN r \ {p} : Drop(r, p)[q] = r[q]
  BY DEF Drop, Restrict
<1>2. p \in UsersOf(r, g) /\ g \in DOMAIN e.grp
  BY DEF UsersOf, RefsOK
<1>3. /\ Cardinality(UsersOf(r, g)) \in Nat /\ Cardinality(UsersOf(r, g)) >= 1
      /\ Cardinality(UsersOf(r, g) \ {p}) = Cardinality(UsersOf(r, g)) - 1
      /\ Cardinality(UsersOf(r, g)) = 1 => UsersOf(r, g) = {p}
  BY <1>2, UsersCount
<1>4. e.grp[g].ref \in Nat \ {0}
  BY <1>2 DEF EcmpInv, EcmpType
<1>5. g \in e.tab /\ ~ (e.grp[g].ref > 1) => UsersOf(r, g) = {p} /\ g \notin held
  <2> SUFFICES ASSUME g \in e.tab, ~ (e.grp[g].ref > 1)
               PROVE  UsersOf(r, g) = {p} /\ g \notin held
    OBVIOUS
  <2>1. Cardinality(UsersOf(r, g)) + (IF g \in held THEN 1 ELSE 0) <= e.grp[g].ref
    BY DEF RefsOK
  <2> QED BY <1>3, <1>4, <2>1
<1>6. \A h \in DOMAIN e.grp : h \in DOMAIN f.grp \/ (g \in e.tab /\ ~ (e.grp[g].ref > 1) /\ h = g)
  BY <1>2 DEF Releases
<1>7. \A q \in DOMAIN Drop(r, p) : Drop(r, p)[q].ecmp =>
        /\ Drop(r, p)[q].ref \in DOMAIN f.grp
        /\ f.grp[Drop(r, p)[q].ref].sig = Drop(r, p)[q].sig
  <2> SUFFICES ASSUME NEW q \in DOMAIN r \ {p}, r[q].ecmp
               PROVE  r[q].ref \in DOMAIN f.grp /\ f.grp[r[q].ref].sig = r[q].sig
    BY <1>1
  <2>1. r[q].ref \in DOMAIN e.grp /\ e.grp[r[q].ref].sig = r[q].sig
    BY DEF RefsOK
  <2>2. q \in UsersOf(r, r[q].ref)
    BY DEF UsersOf
  <2>3. r[q].ref \in DOMAIN f.grp
    BY <1>5, <1>6, <2>1, <2>2
  <2> QED BY <2>1, <2>3 DEF Releases
<1>8. held \subseteq DOMAIN f.grp
  BY <1>5, <1>6 DEF RefsOK
<1>9. ASSUME NEW h \in f.tab
      PROVE  Cardinality(UsersOf(Drop(r, p), h)) + (IF h \in held THEN 1 ELSE 0) <= f.grp[h].ref
  <2>1. h \in e.tab /\ h \in DOMAIN e.grp
    BY DEF Releases, EcmpInv, EcmpType
  <2>2. /\ Cardinality(UsersOf(r, h)) + (IF h \in held THEN 1 ELSE 0) <= e.grp[h].ref
        /\ Cardinality(UsersOf(r, h)) \in Nat /\ e.grp[h].ref \in Nat
    BY <2>1, UsersCount DEF RefsOK, EcmpInv, EcmpType
  <2>3. CASE h # g
    <3>1. UsersOf(r, h) \ {p} = UsersOf(r, h)
      BY <2>3 DEF UsersOf
    <3>2. f.grp[h].ref = e.grp[h].ref
      BY <2>1, <2>3 DEF Releases
    <3> QED BY <2>2, <3>1, <3>2, UsersDrop
  <2>4. CASE h = g
    <3>1. f.grp[g].ref = e.grp[g].ref - 1
      BY <2>1, <2>4 DEF Releases
    <3>2. Cardinality(UsersOf(Drop(r, p), g)) = Cardinality(UsersOf(r, g)) - 1
      BY <1>3, UsersDrop
    <3> QED BY <2>2, <2>4, <3>1, <3>2
  <2> QED BY <2>3, <2>4
<1> QED BY <1>7, <1>8, <1>9 DEF RefsOK

\* A route with one path that goes had no group to let go of.
LEMMA RouteDrop ==
  ASSUME NEW r, NEW e, NEW held, RefsOK(r, e, held),
         NEW p \in DOMAIN r, ~ r[p].ecmp
  PROVE  RefsOK(Drop(r, p), e, held)
<1>1. /\ DOMAIN Drop(r, p) = DOMAIN r \ {p}
      /\ \A q \in DOMAIN r \ {p} : Drop(r, p)[q] = r[q]
  BY DEF Drop, Restrict
<1>2. \A g : UsersOf(Drop(r, p), g) = UsersOf(r, g)
  BY <1>1 DEF UsersOf
<1> QED BY <1>1, <1>2 DEF RefsOK

\* A new route with a group takes over the reference that was held for it.
LEMMA RoutePutEcmp ==
  ASSUME NEW r, IsFiniteSet(DOMAIN r), NEW e, EcmpInv(e), NEW x, RefsOK(r, e, {x.ref}),
         NEW p, p \notin DOMAIN r, e.grp[x.ref].sig = x.sig
  PROVE  RefsOK(Put(r, p, x), e, {})
<1>1. /\ DOMAIN Put(r, p, x) = DOMAIN r \cup {p}
      /\ \A q \in DOMAIN r \cup {p} : Put(r, p, x)[q] = IF q = p THEN x ELSE r[q]
  BY DEF Put
<1>2. \A q \in DOMAIN Put(r, p, x) : Put(r, p, x)[q].ecmp =>
        /\ Put(r, p, x)[q].ref \in DOMAIN e.grp
        /\ e.grp[Put(r, p, x)[q].ref].sig = Put(r, p, x)[q].sig
  BY <1>1 DEF RefsOK
<1>3. ASSUME NEW h \in e.tab
      PROVE  Cardinality(UsersOf(Put(r, p, x), h)) + (IF h \in {} THEN 1 ELSE 0) <= e.grp[h].ref
  <2>1. /\ Cardinality(UsersOf(r, h)) + (IF h \in {x.ref} THEN 1 ELSE 0) <= e.grp[h].ref
        /\ Cardinality(UsersOf(r, h)) \in Nat /\ e.grp[h].ref \in Nat
    BY UsersCount DEF RefsOK, EcmpInv, EcmpType
  <2>2. UsersOf(r, h) \ {p} = UsersOf(r, h)
    BY DEF UsersOf
  <2>3. IsFiniteSet(DOMAIN Put(r, p, x))
    BY <1>1, FS_AddElement
  <2>4. Cardinality(UsersOf(Put(r, p, x), h)) \in Nat
    BY <2>3, UsersCount
  <2>5. CASE x.ecmp /\ x.ref = h
    <3>1. Cardinality(UsersOf(Put(r, p, x), h)) <= Cardinality(UsersOf(r, h)) + 1
      <4>1. UsersOf(Put(r, p, x), h) = UsersOf(r, h) \cup {p}
        BY <2>5, UsersPut
      <4> QED BY <4>1, UsersCount
    <3> QED BY <2>1, <2>4, <2>5, <3>1
  <2>6. CASE ~ (x.ecmp /\ x.ref = h)
    <3>1. Cardinality(UsersOf(Put(r, p, x), h)) = Cardinality(UsersOf(r, h))
      <4>1. UsersOf(Put(r, p, x), h) = UsersOf(r, h) \ {p}
        BY <2>6, UsersPut
      <4> QED BY <2>2, <4>1
    <3> QED BY <2>1, <3>1
  <2> QED BY <2>5, <2>6
<1> QED BY <1>2, <1>3 DEF RefsOK

\* A new route with one path.
LEMMA RoutePutSingle ==
  ASSUME NEW r, NEW e, RefsOK(r, e, {}), NEW x, ~ x.ecmp, NEW p, p \notin DOMAIN r
  PROVE  RefsOK(Put(r, p, x), e, {})
<1>1. /\ DOMAIN Put(r, p, x) = DOMAIN r \cup {p}
      /\ \A q \in DOMAIN r \cup {p} : Put(r, p, x)[q] = IF q = p THEN x ELSE r[q]
  BY DEF Put
<1>2. \A g : UsersOf(Put(r, p, x), g) = UsersOf(r, g)
  BY <1>1 DEF UsersOf
<1> QED BY <1>1, <1>2 DEF RefsOK
-----------------------------------------------------------------------------
(***************************************************************************)
(* EcmpIInv is an invariant.                                               *)
(***************************************************************************)

LEMMA EcmpInitInv == Init => EcmpIInv
<1> SUFFICES ASSUME Init PROVE EcmpIInv
  OBVIOUS
<1> DEFINE e == EcmpInit
<1>1. ecmp = e /\ rt = <<>>
  BY DEF Init
<1>2. /\ DOMAIN e = EcmpFields /\ e.next = 0 /\ e.blkFree = <<>>
      /\ e.gidNext = 1 /\ e.gidFree = <<>> /\ e.grp = <<>> /\ e.tab = {}
      /\ e.mem = [s \in 0..(EcmpSlots - 1) |-> <<>>]
  BY DEF EcmpInit, EcmpFields
<1> HIDE DEF e
<1>3. EcmpType(e)
  <2>1. <<>> \in Seq([base : Nat, count : Nat \ {0}]) /\ <<>> \in Seq(Nat)
    BY EmptySeq
  <2> QED BY <1>2, <2>1, EcmpAssumption DEF EcmpType
<1>4. EcmpBlocks(e) /\ EcmpChip(e) /\ EcmpShared(e)
  BY <1>2 DEF EcmpBlocks, EcmpChip, EcmpShared
<1>5. EcmpGids(e)
  BY <1>2 DEF EcmpGids, IsInjective, ToSet
<1>6. RefsOK(rt, e, {}) /\ DOMAIN rt \subseteq Dst
  BY <1>1, <1>2 DEF RefsOK
<1> QED BY <1>1, <1>3, <1>4, <1>5, <1>6 DEF EcmpIInv, EcmpInv

\* Letting go of the group of x, of which e has at least one user.
LEMMA LetGoReleases ==
  ASSUME NEW e, EcmpInv(e), NEW x, x.ecmp, x.ref \in DOMAIN e.grp, NEW f \in LetGo(e, x)
  PROVE  EcmpInv(f) /\ Releases(e, f, x.ref)
<1>1. PICK ok \in Outcome("clear") : f = Unref(e, x.ref, ok)
  BY DEF LetGo
<1>2. ok \in BOOLEAN
  BY DEF Outcome
<1> QED BY <1>1, <1>2, UnrefContract

\* The end of l3_route_add_paths, from the group it has got: the route is
\* replaced or inserted, recorded or not, or the group is let go again.
LEMMA ProgramInv ==
  ASSUME EcmpIInv, NEW p \in Dst, NEW r, NEW e, EcmpInv(e),
         \/ r.ecmp = FALSE /\ e = ecmp
         \/ r.ecmp = TRUE /\ Refers(ecmp, e, r.ref, r.sig),
         Program(p, r, e)
  PROVE  EcmpIInv'
<1> DEFINE held == IF r.ecmp THEN {r.ref} ELSE {}
<1>0. IsFiniteSet(DOMAIN rt) /\ EcmpInv(ecmp) /\ RefsOK(rt, ecmp, {}) /\ DOMAIN rt \subseteq Dst
  BY FibAssumption, FS_Subset DEF EcmpIInv
<1>1. RefsOK(rt, e, held)
  BY <1>0, RefHeld
<1>2. r.ecmp => r.ref \in DOMAIN e.grp /\ e.grp[r.ref].sig = r.sig
  BY DEF Refers
<1>3. ASSUME Replace(p, r, e) PROVE EcmpIInv'
  <2> DEFINE new == AtSlot(rt[p].slot, r)
             d   == Drop(rt, p)
             f   == ecmp'
  <2>1. p \in DOMAIN rt /\ f \in LetGo(e, rt[p]) /\ rt' = Put(rt, p, new)
    BY <1>3 DEF Replace
  <2>2. new.ecmp = r.ecmp /\ new.ref = r.ref /\ new.sig = r.sig
    BY DEF AtSlot
  <2> HIDE DEF new, f
  <2>3. rt' = Put(d, p, new) /\ p \notin DOMAIN d /\ DOMAIN d \subseteq DOMAIN rt
    BY <2>1 DEF Put, Drop, Restrict
  <2>4. /\ EcmpInv(f) /\ RefsOK(d, f, held)
        /\ \A g \in DOMAIN f.grp : f.grp[g].sig = e.grp[g].sig
    <3>1. CASE rt[p].ecmp
      <4>1. rt[p].ref \in DOMAIN e.grp
        BY <1>1, <2>1, <3>1 DEF RefsOK
      <4>2. EcmpInv(f) /\ Releases(e, f, rt[p].ref)
        BY <2>1, <3>1, <4>1, LetGoReleases
      <4>3. RefsOK(d, f, held)
        BY <1>0, <1>1, <2>1, <3>1, <4>2, RouteUnref
      <4> QED BY <4>2, <4>3 DEF Releases
    <3>2. CASE ~ rt[p].ecmp
      <4>1. f = e
        BY <2>1, <3>2 DEF LetGo
      <4> QED BY <1>1, <2>1, <3>2, <4>1, RouteDrop
    <3> QED BY <3>1, <3>2
  <2> HIDE DEF d
  <2>5. IsFiniteSet(DOMAIN d)
    BY <1>0, <2>3, FS_Subset
  <2>6. RefsOK(Put(d, p, new), f, {})
    <3>1. CASE r.ecmp
      <4>1. RefsOK(d, f, {new.ref})
        BY <2>2, <2>4, <3>1
      <4>2. f.grp[new.ref].sig = new.sig
        BY <1>2, <2>2, <2>4, <3>1, <4>1 DEF RefsOK
      <4> QED BY <2>3, <2>4, <2>5, <4>1, <4>2, RoutePutEcmp
    <3>2. CASE ~ r.ecmp
      BY <2>2, <2>3, <2>4, <3>2, RoutePutSingle
    <3> QED BY <3>1, <3>2
  <2>7. DOMAIN rt' \subseteq Dst
    BY <1>0, <2>1 DEF Put
  <2> QED BY <2>3, <2>4, <2>6, <2>7 DEF EcmpIInv, f
<1>4. ASSUME Insert(p, r, e) PROVE EcmpIInv'
  <2> DEFINE new == AtSlot(NextSlot(FamOf(p)), r)
  <2>1. /\ p \notin DOMAIN rt /\ ecmp' = e
        /\ rt' = Put(rt, p, new) \/ rt' = rt
    BY <1>4 DEF Insert
  <2>2. new.ecmp = r.ecmp /\ new.ref = r.ref /\ new.sig = r.sig
    BY DEF AtSlot
  <2> HIDE DEF new
  <2>3. RefsOK(rt, e, {})
    BY <1>0, <1>1, HeldLost
  <2>4. RefsOK(Put(rt, p, new), e, {})
    <3>1. CASE r.ecmp
      <4>1. RefsOK(rt, e, {new.ref}) /\ e.grp[new.ref].sig = new.sig
        BY <1>1, <1>2, <2>2, <3>1
      <4> QED BY <1>0, <2>1, <4>1, RoutePutEcmp
    <3>2. CASE ~ r.ecmp
      BY <2>1, <2>2, <2>3, <3>2, RoutePutSingle
    <3> QED BY <3>1, <3>2
  <2>5. DOMAIN rt' \subseteq Dst
    BY <1>0, <2>1 DEF Put
  <2> QED BY <2>1, <2>3, <2>4, <2>5 DEF EcmpIInv
<1>5. ASSUME NoSlot(p, r, e) PROVE EcmpIInv'
  <2> DEFINE f == ecmp'
  <2>1. f \in LetGo(e, r) /\ rt' = rt
    BY <1>5 DEF NoSlot, rtVars
  <2> HIDE DEF f
  <2>2. EcmpInv(f) /\ RefsOK(rt, f, {})
    <3>1. CASE r.ecmp
      <4>1. EcmpInv(f) /\ Releases(e, f, r.ref)
        BY <1>2, <2>1, <3>1, LetGoReleases
      <4>2. RefsOK(rt, e, {r.ref})
        BY <1>1, <3>1
      <4> QED BY <1>0, <4>1, <4>2, HeldUnref
    <3>2. CASE ~ r.ecmp
      BY <1>1, <2>1, <3>2 DEF LetGo
    <3> QED BY <3>1, <3>2
  <2> QED BY <1>0, <2>1, <2>2 DEF EcmpIInv, f
<1> QED BY <1>3, <1>4, <1>5 DEF Program

\* The number of paths of a message that resolve.
LEMMA ResolvedCount ==
  ASSUME NEW S, NEW gws \in UNION {[1..k -> S] : k \in 1..MaxPaths}
  PROVE  IsFiniteSet(Resolved(gws)) /\ Cardinality(Resolved(gws)) \in Nat
<1>1. PICK k \in 1..MaxPaths : gws \in [1..k -> S]
  OBVIOUS
<1>2. k \in Int
  BY <1>1, FibAssumption
<1>3. IsFiniteSet(1..k)
  BY <1>2, FS_Interval
<1>4. Resolved(gws) \subseteq 1..k
  BY <1>1 DEF Resolved
<1> QED BY <1>3, <1>4, FS_Subset, FS_CardinalityType

LEMMA EcmpStep == EcmpIInv /\ [Next]_vars => EcmpIInv'
<1> SUFFICES ASSUME EcmpIInv, [Next]_vars PROVE EcmpIInv'
  OBVIOUS
<1>0. IsFiniteSet(DOMAIN rt) /\ EcmpInv(ecmp) /\ RefsOK(rt, ecmp, {}) /\ DOMAIN rt \subseteq Dst
  BY FibAssumption, FS_Subset DEF EcmpIInv
<1>1. ASSUME UNCHANGED <<rt, ecmp>> PROVE EcmpIInv'
  BY <1>1 DEF EcmpIInv
<1>2. ASSUME NEW g \in Gw, NEW s \in Station, NEW at \in Ends, HostAdd(g, s, at)
      PROVE  EcmpIInv'
  BY <1>1, <1>2 DEF HostAdd, rtVars
<1>3. ASSUME NEW g \in Gw, HostDel(g) \/ HostDelUntracked(g)
      PROVE  EcmpIInv'
  BY <1>1, <1>3 DEF HostDel, HostDelUntracked, vars, rtVars
<1>4. ASSUME NEW a \in Own, NEW diag \in BOOLEAN, NEW at \in Ends, LocalHostAdd(a, diag, at)
      PROVE  EcmpIInv'
  BY <1>1, <1>4 DEF LocalHostAdd, rtVars
<1>5. ASSUME NEW p \in Dst, NEW gws, RouteAddSingle(p, gws)
      PROVE  EcmpIInv'
  <2>1. PICK nh : Program(p, [ecmp |-> FALSE, ref |-> nh, sig |-> PathSig(gws)], ecmp)
    BY <1>5 DEF RouteAddSingle
  <2> DEFINE r == [ecmp |-> FALSE, ref |-> nh, sig |-> PathSig(gws)]
  <2>2. r.ecmp = FALSE
    OBVIOUS
  <2> HIDE DEF r
  <2> QED BY <1>0, <2>1, <2>2, ProgramInv DEF r
<1>6. ASSUME NEW p \in Dst, NEW gws \in GwLists(FamOf(p)), RouteAddEcmp(p, gws)
      PROVE  EcmpIInv'
  <2> DEFINE n   == Cardinality(Resolved(gws))
             sig == PathSig(gws)
  <2>1. n \in Nat
    BY ResolvedCount DEF GwLists
  <2>2. n > 1 /\ n = sig.size
    BY <1>6 DEF RouteAddEcmp, PathSig
  <2> HIDE DEF n, sig
  <2>3. PICK w \in Writes(n) :
          LET g == Ref(ecmp, sig, n, w) IN
          IF g.gid = NoGid THEN NoGroup(g.e)
          ELSE Program(p, [ecmp |-> TRUE, ref |-> g.gid, sig |-> sig], g.e)
    BY <1>6 DEF RouteAddEcmp, n, sig
  <2>4. w \in 0..(n + 1)
    BY <2>1 DEF Writes
  <2> DEFINE e   == Ref(ecmp, sig, n, w).e
             gid == Ref(ecmp, sig, n, w).gid
  <2>5. /\ EcmpInv(e)
        /\ \/ gid = NoGid /\ SameTables(ecmp, e)
           \/ gid \in Nat /\ Refers(ecmp, e, gid, sig)
    <3>1. n \in Nat \ {0} /\ EcmpInv(ecmp)
      BY <1>0, <2>1, <2>2
    <3> QED BY <2>2, <2>4, <3>1, RefContract
  <2> HIDE DEF e, gid
  <2>6. CASE gid = NoGid
    <3>1. ecmp' = e /\ rt' = rt
      BY <2>3, <2>6 DEF NoGroup, rtVars, e, gid
    <3>2. SameTables(ecmp, e)
      BY <2>5, <2>6 DEF NoGid
    <3>3. RefsOK(rt, e, {})
      BY <1>0, <3>2 DEF RefsOK, SameTables
    <3> QED BY <1>0, <2>5, <3>1, <3>3 DEF EcmpIInv
  <2>7. CASE gid # NoGid
    <3> DEFINE r == [ecmp |-> TRUE, ref |-> gid, sig |-> sig]
    <3>1. Program(p, r, e)
      BY <2>3, <2>7 DEF e, gid
    <3>2. r.ecmp = TRUE /\ r.ref = gid /\ r.sig = sig
      OBVIOUS
    <3> HIDE DEF r
    <3> QED BY <2>5, <2>7, <3>1, <3>2, ProgramInv
  <2> QED BY <2>6, <2>7
<1>7. ASSUME NEW p \in Dst, RouteDel(p)
      PROVE  EcmpIInv'
  <2> DEFINE f == ecmp'
  <2>1. p \in DOMAIN rt /\ f \in LetGo(ecmp, rt[p]) /\ rt' = Drop(rt, p)
    BY <1>7 DEF RouteDel
  <2> HIDE DEF f
  <2>2. EcmpInv(f) /\ RefsOK(Drop(rt, p), f, {})
    <3>1. CASE rt[p].ecmp
      <4>1. EcmpInv(f) /\ Releases(ecmp, f, rt[p].ref)
        BY <1>0, <2>1, <3>1, LetGoReleases DEF RefsOK
      <4> QED BY <1>0, <2>1, <3>1, <4>1, RouteUnref
    <3>2. CASE ~ rt[p].ecmp
      BY <1>0, <2>1, <3>2, RouteDrop DEF LetGo
    <3> QED BY <3>1, <3>2
  <2>3. DOMAIN Drop(rt, p) \subseteq Dst
    BY <1>0 DEF Drop, Restrict
  <2> QED BY <2>1, <2>2, <2>3 DEF EcmpIInv, f
<1>8. ASSUME NEW p, NEW gws, RouteAddSkipped(p, gws) \/ RouteDelUntracked(p)
      PROVE  EcmpIInv'
  BY <1>1, <1>8 DEF RouteAddSkipped, RouteDelUntracked, vars, rtVars
<1>9. CASE UNCHANGED vars
  BY <1>1, <1>9 DEF vars, rtVars
<1> QED BY <1>2, <1>3, <1>4, <1>5, <1>6, <1>7, <1>8, <1>9 DEF Next

THEOREM EcmpInvariant == Spec => []EcmpIInv
<1>1. Init => EcmpIInv
  BY EcmpInitInv
<1>2. EcmpIInv /\ [Next]_vars => EcmpIInv'
  BY EcmpStep
<1> QED BY <1>1, <1>2, PTL DEF Spec

\* l3_route_add_paths and ecmp_group_unref: whatever is added, replaced and
\* deleted, and whichever chip write fails, a multipath route never points at
\* a group that was freed or has become another one.
THEOREM EcmpRoutesSafe == Spec => []EcmpRoutesIntact
<1>1. EcmpIInv => EcmpRoutesIntact
  BY DEF EcmpIInv, EcmpRoutesIntact, RefsOK, EcmpInv, EcmpChip
<1> QED BY <1>1, EcmpInvariant, PTL

\* ecmp_group_ref: identical member sets share one group.
THEOREM SharingSafe == Spec => []OneGroupPerSet
<1>1. EcmpIInv => OneGroupPerSet
  BY DEF EcmpIInv, EcmpInv, EcmpShared, OneGroupPerSet
<1> QED BY <1>1, EcmpInvariant, PTL

-----------------------------------------------------------------------------
(* Next-hop indices and DEFIP slots.                                       *)

(***************************************************************************)
(* Both allocators are a high water "next", a free list "free" used as a   *)
(* stack, and the owners: a function "own" from a key to its index.        *)
(***************************************************************************)
Owned(lo, next, free, own) ==
  /\ next \in Nat /\ lo <= next /\ free \in Seq(Nat)
  /\ IsInjective(own) /\ IsInjective(free)
  /\ \A k \in DOMAIN own : own[k] \in lo..(next - 1) /\ own[k] \notin ToSet(free)
  /\ ToSet(free) \subseteq lo..(next - 1)

\* The free list has room for what the owners will give back.
Room(free, own, max) ==
  /\ IsFiniteSet(DOMAIN own)
  /\ Len(free) + Cardinality(DOMAIN own) <= max

Same(f, g) == DOMAIN f = DOMAIN g /\ \A k \in DOMAIN g : f[k] = g[k]

\* Taking an index: x is the index, next2 and free2 what is left.
Takes(next, free, next2, free2, x) ==
  IF free # <<>>
  THEN next2 = next /\ free2 = Front(free) /\ x = Last(free)
  ELSE next2 = next + 1 /\ free2 = free /\ x = next

\* Owners that stay as they are keep the allocator in order.
LEMMA OwnedSame ==
  ASSUME NEW lo \in Nat, NEW next, NEW free, NEW own, NEW own2,
         Owned(lo, next, free, own), Same(own2, own)
  PROVE  Owned(lo, next, free, own2)
BY DEF Owned, Same, IsInjective

\* An index that is taken is nobody else's, whoever gets it, if anyone.
LEMMA OwnedTakes ==
  ASSUME NEW lo \in Nat, NEW next, NEW free, NEW own, Owned(lo, next, free, own),
         NEW next2, NEW free2, NEW x, Takes(next, free, next2, free2, x)
  PROVE  /\ x \in Nat
         /\ Owned(lo, next2, free2, own)
         /\ \A k : k \notin DOMAIN own => Owned(lo, next2, free2, Put(own, k, x))
<1>1. /\ next2 \in Nat /\ lo <= next2 /\ next <= next2
      /\ free2 \in Seq(Nat) /\ IsInjective(free2)
      /\ x \in lo..(next2 - 1) /\ x \notin ToSet(free2)
      /\ ToSet(free2) \subseteq ToSet(free)
      /\ \A k \in DOMAIN own : own[k] # x
  <2>0. /\ next \in Nat /\ lo <= next /\ free \in Seq(Nat) /\ IsInjective(free)
        /\ ToSet(free) \subseteq lo..(next - 1)
        /\ \A k \in DOMAIN own : own[k] \in lo..(next - 1) /\ own[k] \notin ToSet(free)
    BY DEF Owned
  <2>1. CASE free # <<>>
    <3>1. /\ Front(free) \in Seq(Nat) /\ Last(free) \in ToSet(free)
          /\ IsInjective(Front(free))
          /\ ToSet(Front(free)) = ToSet(free) \ {Last(free)}
      BY <2>0, <2>1, PopSeq, PopSet
    <3>2. next2 = next /\ free2 = Front(free) /\ x = Last(free)
      BY <2>1 DEF Takes
    <3> QED BY <2>0, <3>1, <3>2
  <2>2. CASE free = <<>>
    <3>1. next2 = next + 1 /\ free2 = free /\ x = next
      BY <2>2 DEF Takes
    <3> QED BY <2>0, <3>1
  <2> QED BY <2>1, <2>2
<1>2. x \in Nat
  BY <1>1
<1>3. Owned(lo, next2, free2, own)
  BY <1>1 DEF Owned
<1>4. ASSUME NEW k, k \notin DOMAIN own
      PROVE  Owned(lo, next2, free2, Put(own, k, x))
  <2> DEFINE f == Put(own, k, x)
  <2>1. DOMAIN f = DOMAIN own \cup {k} /\ f[k] = x
    BY DEF Put
  <2>2. \A j \in DOMAIN own : f[j] = own[j]
    BY <1>4 DEF Put
  <2> HIDE DEF f
  <2>3. IsInjective(f)
    BY <1>1, <2>1, <2>2 DEF Owned, IsInjective
  <2>4. \A j \in DOMAIN f : f[j] \in lo..(next2 - 1) /\ f[j] \notin ToSet(free2)
    BY <1>1, <1>3, <2>1, <2>2 DEF Owned
  <2> QED BY <1>3, <2>3, <2>4 DEF Owned, f
<1> QED BY <1>2, <1>3, <1>4

\* An index that is given back goes to the free list, or nowhere.
LEMMA OwnedGives ==
  ASSUME NEW lo \in Nat, NEW next, NEW free, NEW own, Owned(lo, next, free, own),
         NEW k \in DOMAIN own, NEW max
  PROVE  Owned(lo, next, Push(free, own[k], max), Drop(own, k))
<1> DEFINE f == Drop(own, k)
           s == Push(free, own[k], max)
<1>1. free \in Seq(Nat) /\ IsInjective(free) /\ own[k] \in Nat /\ own[k] \notin ToSet(free)
  BY DEF Owned
<1>2. /\ s \in Seq(Nat) /\ ToSet(s) \subseteq ToSet(free) \cup {own[k]}
      /\ IsInjective(s)
  BY <1>1, PushSeq, PushSet
<1>3. DOMAIN f = DOMAIN own \ {k} /\ \A j \in DOMAIN own \ {k} : f[j] = own[j]
  BY DEF Drop, Restrict
<1> HIDE DEF f, s
<1>4. IsInjective(f) /\ \A j \in DOMAIN f : f[j] # own[k] /\ f[j] = own[j] /\ j \in DOMAIN own
  BY <1>3 DEF Owned, IsInjective
<1>5. \A j \in DOMAIN f : f[j] \in lo..(next - 1) /\ f[j] \notin ToSet(s)
  BY <1>2, <1>4 DEF Owned
<1>6. ToSet(s) \subseteq lo..(next - 1)
  BY <1>2 DEF Owned
<1> QED BY <1>2, <1>4, <1>5, <1>6 DEF Owned, f, s

\* The room after an index is taken, or taken by the new owner k.
LEMMA RoomTakes ==
  ASSUME NEW next, NEW free \in Seq(Nat), NEW own, NEW max \in Nat, Room(free, own, max),
         NEW next2, NEW free2, NEW x, Takes(next, free, next2, free2, x)
  PROVE  /\ Room(free2, own, max)
         /\ \A k : Cardinality(DOMAIN own) < max => Room(free2, Put(own, k, x), max)
<1>1. Cardinality(DOMAIN own) \in Nat
  BY FS_CardinalityType DEF Room
<1>2. Len(free2) \in Nat /\ Len(free2) <= Len(free)
      /\ (free2 = <<>> \/ Len(free2) = Len(free) - 1)
  <2>1. CASE free # <<>>
    BY <2>1, PopSeq DEF Takes
  <2>2. CASE free = <<>>
    BY <2>2, LenProperties DEF Takes
  <2> QED BY <2>1, <2>2
<1>3. Len(free) \in Nat
  BY LenProperties
<1>4. Room(free2, own, max)
  BY <1>1, <1>2, <1>3 DEF Room
<1>5. ASSUME NEW k, Cardinality(DOMAIN own) < max
      PROVE  Room(free2, Put(own, k, x), max)
  <2>1. DOMAIN Put(own, k, x) = DOMAIN own \cup {k}
    BY DEF Put
  <2>2. /\ IsFiniteSet(DOMAIN own \cup {k})
        /\ Cardinality(DOMAIN own \cup {k}) \in Nat
        /\ Cardinality(DOMAIN own \cup {k}) <= Cardinality(DOMAIN own) + 1
    <3>1. /\ IsFiniteSet(DOMAIN own \cup {k})
          /\ \/ Cardinality(DOMAIN own \cup {k}) = Cardinality(DOMAIN own)
             \/ Cardinality(DOMAIN own \cup {k}) = Cardinality(DOMAIN own) + 1
      BY FS_AddElement DEF Room
    <3> QED BY <1>1, <3>1
  <2>3. free2 = <<>> => Len(free2) = 0
    OBVIOUS
  <2> QED BY <1>1, <1>2, <1>3, <1>5, <2>1, <2>2, <2>3 DEF Room
<1> QED BY <1>4, <1>5

\* The room after an owner has given its index back.
LEMMA RoomGives ==
  ASSUME NEW free \in Seq(Nat), NEW own, NEW max \in Nat, Room(free, own, max),
         NEW k \in DOMAIN own, own[k] \in Nat, NEW size
  PROVE  Room(Push(free, own[k], size), Drop(own, k), max)
<1>1. DOMAIN Drop(own, k) = DOMAIN own \ {k}
  BY DEF Drop, Restrict
<1>2. /\ IsFiniteSet(DOMAIN own \ {k})
      /\ Cardinality(DOMAIN own \ {k}) = Cardinality(DOMAIN own) - 1
      /\ Cardinality(DOMAIN own) \in Nat
  BY FS_RemoveElement, FS_CardinalityType DEF Room
<1>3. /\ Len(Push(free, own[k], size)) <= Len(free) + 1
      /\ Len(Push(free, own[k], size)) \in Nat /\ Len(free) \in Nat
  BY PushSeq, LenProperties
<1> QED BY <1>1, <1>2, <1>3 DEF Room
-----------------------------------------------------------------------------
(***************************************************************************)
(* Next-hop indices.                                                       *)
(***************************************************************************)

TakesNh == Takes(nhNext, nhFree, nhNext', nhFree', NextNh)

\* The five things that a step can do to the next-hop indices.
NhKeeps == nhNext' = nhNext /\ nhFree' = nhFree /\ Same(neigh', neigh)

NhGrows == nhNext' = nhNext + 1 /\ nhFree' = nhFree /\ neigh' = neigh

NhWasted == TakesNh /\ neigh' = neigh

NhRecorded(g) ==
  /\ g \in Gw \ DOMAIN neigh
  /\ \E f \in Fam : g \in FamGw(f) /\ Cardinality(DOMAIN neigh \cap FamGw(f)) < NeighMax
  /\ TakesNh /\ neigh' = Put(neigh, g, NextNh)

NhReleased(g) ==
  /\ g \in DOMAIN neigh
  /\ nhNext' = nhNext /\ nhFree' = Push(nhFree, neigh[g], NhFreeMax)
  /\ neigh' = Drop(neigh, g)

LEMMA NhSteps ==
  ASSUME [Next]_vars
  PROVE  \/ NhKeeps \/ NhGrows \/ NhWasted
         \/ \E g \in Gw : NhRecorded(g)
         \/ \E g \in DOMAIN neigh : NhReleased(g)
<1>0. Same(neigh, neigh)
  BY DEF Same
<1>1. ASSUME UNCHANGED nhVars PROVE NhKeeps
  BY <1>0, <1>1 DEF nhVars, NhKeeps
<1>2. ASSUME NEW g \in Gw, NEW s \in Station, NEW at \in Ends, HostAdd(g, s, at)
      PROVE  NhKeeps \/ NhWasted \/ NhRecorded(g)
  <2>1. CASE g \in DOMAIN neigh
    <3>1. nhNext' = nhNext /\ nhFree' = nhFree
      BY <1>2, <2>1 DEF HostAdd
    <3>2. neigh' = neigh \/ neigh' = Put(neigh, g, neigh[g])
      BY <1>2, <2>1 DEF HostAdd, HostNh, Recorded
    <3>3. Same(Put(neigh, g, neigh[g]), neigh)
      BY <2>1 DEF Same, Put
    <3> QED BY <1>0, <3>1, <3>2, <3>3 DEF NhKeeps
  <2>2. CASE g \notin DOMAIN neigh
    <3>1. TakesNh
      BY <1>2, <2>2 DEF HostAdd, TakeNh, TakesNh, Takes, NextNh
    <3>2. neigh' = neigh \/ neigh' = Recorded(g, NextNh)
      BY <1>2, <2>2 DEF HostAdd, HostNh
    <3> QED BY <2>2, <3>1, <3>2 DEF NhWasted, NhRecorded, Recorded
  <2> QED BY <2>1, <2>2
<1>3. ASSUME NEW g \in Gw, HostDel(g)
      PROVE  \E h \in DOMAIN neigh : NhReleased(h)
  BY <1>3 DEF HostDel, NhReleased
<1>4. ASSUME NEW g \in Gw, HostDelUntracked(g)
      PROVE  NhKeeps
  BY <1>1, <1>4 DEF HostDelUntracked, vars
<1>5. ASSUME NEW a \in Own, NEW diag \in BOOLEAN, NEW at \in Ends, LocalHostAdd(a, diag, at)
      PROVE  NhGrows
  BY <1>5 DEF LocalHostAdd, NhGrows
<1>6. ASSUME NEW p \in Dst, NEW gws \in GwLists(FamOf(p)),
             RouteAddSingle(p, gws) \/ RouteAddEcmp(p, gws) \/ RouteAddSkipped(p, gws)
      PROVE  NhKeeps
  BY <1>1, <1>6 DEF RouteAddSingle, RouteAddEcmp, RouteAddSkipped, vars
<1>7. ASSUME NEW p \in Dst, RouteDel(p) \/ RouteDelUntracked(p)
      PROVE  NhKeeps
  BY <1>1, <1>7 DEF RouteDel, RouteDelUntracked, vars
<1>8. CASE UNCHANGED vars
  BY <1>1, <1>8 DEF vars
<1> QED BY <1>2, <1>3, <1>4, <1>5, <1>6, <1>7, <1>8 DEF Next

\* The inductive invariant: every index has one owner, each family has at
\* most NeighMax of them, and nh_free has room for all.
NhIInv ==
  /\ Owned(1, nhNext, nhFree, neigh)
  /\ DOMAIN neigh \subseteq Gw
  /\ Room(nhFree, neigh, NhFreeMax)
  /\ \A f \in Fam : Cardinality(DOMAIN neigh \cap FamGw(f)) <= NeighMax

LEMMA NhInit == Init => NhIInv
<1> SUFFICES ASSUME Init PROVE NhIInv
  OBVIOUS
<1>1. nhNext = 1 /\ nhFree = <<>> /\ neigh = <<>> /\ DOMAIN neigh = {}
  BY DEF Init
<1>2. Owned(1, nhNext, nhFree, neigh)
  BY <1>1 DEF Owned, IsInjective, ToSet
<1>3. Cardinality({}) = 0 /\ IsFiniteSet({})
  BY FS_EmptySet
<1>4. Room(nhFree, neigh, NhFreeMax)
  BY <1>1, <1>3, FibAssumption DEF Room
<1>5. \A f \in Fam : DOMAIN neigh \cap FamGw(f) = {}
  BY <1>1
<1>6. \A f \in Fam : Cardinality(DOMAIN neigh \cap FamGw(f)) <= NeighMax
  <2> SUFFICES ASSUME NEW f \in Fam
               PROVE  Cardinality(DOMAIN neigh \cap FamGw(f)) <= NeighMax
    OBVIOUS
  <2>1. DOMAIN neigh \cap FamGw(f) = {}
    BY <1>5
  <2>2. NeighMax \in Nat
    BY FibAssumption
  <2> QED BY <1>3, <2>1, <2>2
<1> QED BY <1>1, <1>2, <1>4, <1>6 DEF NhIInv

\* Fewer than NeighMax neighbours of a family leave room for one more.
LEMMA NeighRoom ==
  ASSUME NhIInv, NEW f \in Fam, Cardinality(DOMAIN neigh \cap FamGw(f)) < NeighMax
  PROVE  Cardinality(DOMAIN neigh) < NhFreeMax
<1> DEFINE A == DOMAIN neigh \cap Gw4
           B == DOMAIN neigh \cap Gw6
<1>1. IsFiniteSet(DOMAIN neigh) /\ DOMAIN neigh = A \cup B /\ A \cap B = {}
  BY FibAssumption DEF NhIInv, Gw, Room
<1>2. A \in SUBSET DOMAIN neigh /\ B \in SUBSET DOMAIN neigh
  OBVIOUS
<1> HIDE DEF A, B
<1>3. IsFiniteSet(A) /\ IsFiniteSet(B) /\ Cardinality(A) \in Nat /\ Cardinality(B) \in Nat
  BY <1>1, <1>2, FS_Subset, FS_CardinalityType
<1>4. Cardinality(A \cup B) = Cardinality(A) + Cardinality(B)
  <2>1. /\ Cardinality(A \cup B) = Cardinality(A) + Cardinality(B) - Cardinality(A \cap B)
        /\ Cardinality(A \cap B) = 0
    BY <1>1, <1>3, FS_Union, FS_EmptySet
  <2> QED BY <1>3, <2>1
<1>5. /\ Cardinality(A) <= NeighMax /\ Cardinality(B) <= NeighMax
      /\ Cardinality(A) < NeighMax \/ Cardinality(B) < NeighMax
  <2>1. "v4" \in Fam /\ "v6" \in Fam /\ f \in {"v4", "v6"}
    BY DEF Fam
  <2>2. FamGw("v4") = Gw4 /\ FamGw("v6") = Gw6
    BY DEF FamGw
  <2> QED BY <2>1, <2>2 DEF NhIInv, A, B
<1> QED BY <1>1, <1>3, <1>4, <1>5, FibAssumption

LEMMA NhStep == NhIInv /\ [Next]_vars => NhIInv'
<1> SUFFICES ASSUME NhIInv, [Next]_vars PROVE NhIInv'
  OBVIOUS
<1>0. /\ Owned(1, nhNext, nhFree, neigh) /\ nhNext \in Nat /\ nhFree \in Seq(Nat)
      /\ DOMAIN neigh \subseteq Gw /\ Room(nhFree, neigh, NhFreeMax)
      /\ IsFiniteSet(DOMAIN neigh) /\ NhFreeMax \in Nat /\ NeighMax \in Nat
  BY FibAssumption DEF NhIInv, Owned, Room
<1>1. ASSUME Owned(1, nhNext', nhFree', neigh'), Room(nhFree', neigh', NhFreeMax),
             DOMAIN neigh' \subseteq DOMAIN neigh
      PROVE  NhIInv'
  <2>1. ASSUME NEW f \in Fam
        PROVE  Cardinality(DOMAIN neigh' \cap FamGw(f)) <= NeighMax
    <3> DEFINE A == DOMAIN neigh' \cap FamGw(f)
               B == DOMAIN neigh \cap FamGw(f)
    <3>1. A \in SUBSET B /\ B \in SUBSET DOMAIN neigh
      BY <1>1
    <3> HIDE DEF A, B
    <3>2. IsFiniteSet(B) /\ Cardinality(A) <= Cardinality(B)
      BY <1>0, <3>1, FS_Subset
    <3>3. IsFiniteSet(A) /\ Cardinality(A) \in Nat /\ Cardinality(B) \in Nat
      BY <3>1, <3>2, FS_Subset, FS_CardinalityType
    <3>4. Cardinality(B) <= NeighMax
      BY DEF NhIInv, B
    <3> QED BY <1>0, <3>2, <3>3, <3>4 DEF A
  <2> QED BY <1>0, <1>1, <2>1 DEF NhIInv
<1>2. CASE NhKeeps
  <2>1. Owned(1, nhNext', nhFree', neigh')
    BY <1>0, <1>2, OwnedSame DEF NhKeeps
  <2>2. DOMAIN neigh' = DOMAIN neigh /\ nhFree' = nhFree
    BY <1>2 DEF NhKeeps, Same
  <2>3. Room(nhFree', neigh', NhFreeMax)
    BY <1>0, <2>2 DEF Room
  <2> QED BY <1>1, <2>1, <2>2, <2>3
<1>3. CASE NhGrows
  <2>1. Owned(1, nhNext', nhFree', neigh')
    BY <1>0, <1>3 DEF Owned, NhGrows
  <2> QED BY <1>0, <1>1, <1>3, <2>1 DEF NhGrows
<1>4. CASE NhWasted
  <2>1. Owned(1, nhNext', nhFree', neigh') /\ Room(nhFree', neigh', NhFreeMax)
    BY <1>0, <1>4, OwnedTakes, RoomTakes DEF NhWasted, TakesNh
  <2> QED BY <1>1, <1>4, <2>1 DEF NhWasted
<1>5. ASSUME NEW g \in Gw, NhRecorded(g)
      PROVE  NhIInv'
  <2>1. PICK f \in Fam : g \in FamGw(f) /\ Cardinality(DOMAIN neigh \cap FamGw(f)) < NeighMax
    BY <1>5 DEF NhRecorded
  <2>2. Cardinality(DOMAIN neigh) < NhFreeMax
    BY <2>1, NeighRoom
  <2>3. g \notin DOMAIN neigh /\ TakesNh /\ neigh' = Put(neigh, g, NextNh)
    BY <1>5 DEF NhRecorded
  <2>4. Owned(1, nhNext', nhFree', neigh') /\ Room(nhFree', neigh', NhFreeMax)
    BY <1>0, <2>2, <2>3, OwnedTakes, RoomTakes DEF TakesNh
  <2>5. DOMAIN neigh' = DOMAIN neigh \cup {g}
    BY <2>3 DEF Put
  <2>6. ASSUME NEW h \in Fam
        PROVE  Cardinality(DOMAIN neigh' \cap FamGw(h)) <= NeighMax
    <3> DEFINE B == DOMAIN neigh \cap FamGw(h)
    <3>1. B \in SUBSET DOMAIN neigh
      OBVIOUS
    <3>2. CASE h = f
      <4>1. DOMAIN neigh' \cap FamGw(h) = B \cup {g} /\ g \notin B
        BY <2>1, <2>3, <2>5, <3>2
      <4>2. Cardinality(B) < NeighMax
        BY <2>1, <3>2
      <4> HIDE DEF B
      <4>3. IsFiniteSet(B)
        BY <1>0, <3>1, FS_Subset
      <4>4. Cardinality(B \cup {g}) = Cardinality(B) + 1 /\ Cardinality(B) \in Nat
        BY <4>1, <4>3, FS_AddElement, FS_CardinalityType
      <4>5. Cardinality(DOMAIN neigh' \cap FamGw(h)) = Cardinality(B \cup {g})
        BY <4>1, Zenon
      <4> QED BY <1>0, <4>2, <4>4, <4>5
    <3>3. CASE h # f
      <4>1. g \notin FamGw(h)
        BY <2>1, <3>3, FibAssumption DEF FamGw, Fam
      <4>2. DOMAIN neigh' \cap FamGw(h) = B
        BY <2>5, <4>1
      <4> QED BY <4>2 DEF NhIInv
    <3> QED BY <3>2, <3>3
  <2> QED BY <1>0, <2>4, <2>5, <2>6 DEF NhIInv
<1>6. ASSUME NEW g \in DOMAIN neigh, NhReleased(g)
      PROVE  NhIInv'
  <2>1. Owned(1, nhNext', nhFree', neigh')
    BY <1>0, <1>6, OwnedGives DEF NhReleased
  <2>2. neigh[g] \in Nat
    BY <1>0 DEF Owned
  <2>3. Room(nhFree', neigh', NhFreeMax)
    BY <1>0, <1>6, <2>2, RoomGives DEF NhReleased
  <2>4. DOMAIN neigh' \subseteq DOMAIN neigh
    BY <1>6 DEF NhReleased, Drop, Restrict
  <2> QED BY <1>1, <2>1, <2>3, <2>4
<1> QED BY <1>2, <1>3, <1>4, <1>5, <1>6, NhSteps

THEOREM NhInvariant == Spec => []NhIInv
<1> QED BY NhInit, NhStep, PTL DEF Spec

\* next_hop_alloc and next_hop_release: whatever is resolved, deleted and
\* failed, a next-hop index has one owner.
THEOREM NextHopsOwned == Spec => []NextHopOwnership
<1>1. NhIInv => NextHopOwnership
  <2> SUFFICES ASSUME NhIInv PROVE NextHopOwnership
    OBVIOUS
  <2>1. Owned(1, nhNext, nhFree, neigh) /\ Range(neigh) = {neigh[g] : g \in DOMAIN neigh}
    BY DEF NhIInv, Range
  <2> QED BY <2>1 DEF Owned, NextHopOwnership
<1> QED BY <1>1, NhInvariant, PTL

\* l3_host_add: the index of a neighbour never changes while it is recorded.
THEOREM NextHopsStable == Spec => StableNextHop
<1> DEFINE Keeps == \A g \in DOMAIN neigh \cap DOMAIN neigh' : neigh'[g] = neigh[g]
<1>1. [Next]_vars => [Keeps]_vars
  <2> SUFFICES ASSUME [Next]_vars PROVE Keeps
    OBVIOUS
  <2>1. CASE NhKeeps \/ NhGrows \/ NhWasted
    BY <2>1 DEF NhKeeps, NhGrows, NhWasted, Same
  <2>2. ASSUME NEW g \in Gw, NhRecorded(g) PROVE Keeps
    BY <2>2 DEF NhRecorded, Put
  <2>3. ASSUME NEW g \in DOMAIN neigh, NhReleased(g) PROVE Keeps
    BY <2>3 DEF NhReleased, Drop, Restrict
  <2> QED BY <2>1, <2>2, <2>3, NhSteps
<1> QED BY <1>1, PTL DEF Spec, StableNextHop
-----------------------------------------------------------------------------
(***************************************************************************)
(* DEFIP slots.                                                            *)
(***************************************************************************)

SlotsOf(r, f) == [p \in DOMAIN r \cap FamDst(f) |-> r[p].slot]

TakesSlot(f) ==
  Takes(defipNext[f], defipFree[f], defipNext'[f], defipFree'[f], NextSlot(f))

\* The four things that a step can do to the slots of family f.
SlotKeeps(f) ==
  /\ defipNext'[f] = defipNext[f] /\ defipFree'[f] = defipFree[f]
  /\ Same(SlotsOf(rt', f), SlotsOf(rt, f))

SlotWasted(f) ==
  /\ \E p \in FamDst(f) \ DOMAIN rt : ~ RoomFor(p)
  /\ TakesSlot(f) /\ Same(SlotsOf(rt', f), SlotsOf(rt, f))

SlotRecorded(f, p) ==
  /\ p \in FamDst(f) /\ p \notin DOMAIN rt
  /\ Cardinality(DOMAIN rt \cap FamDst(f)) < RouteMax[f]
  /\ TakesSlot(f)
  /\ SlotsOf(rt', f) = Put(SlotsOf(rt, f), p, NextSlot(f))

SlotReleased(f, p) ==
  /\ p \in DOMAIN SlotsOf(rt, f)
  /\ defipNext'[f] = defipNext[f]
  /\ defipFree'[f] = Push(defipFree[f], SlotsOf(rt, f)[p], RouteMax[f])
  /\ SlotsOf(rt', f) = Drop(SlotsOf(rt, f), p)

SlotChange(f) ==
  \/ SlotKeeps(f) \/ SlotWasted(f)
  \/ \E p \in Dst : SlotRecorded(f, p) \/ SlotReleased(f, p)

SlotType == defipNext \in [Fam -> Nat] /\ defipFree \in [Fam -> Seq(Nat)]

\* The inductive invariant: every slot has one owner, and the free list of a
\* family has room for the slots of all its recorded routes.
SlotIInv ==
  /\ SlotType
  /\ DOMAIN rt \subseteq Dst
  /\ \A f \in Fam : /\ Owned(0, defipNext[f], defipFree[f], SlotsOf(rt, f))
                    /\ Room(defipFree[f], SlotsOf(rt, f), RouteMax[f])

\* The family of a prefix, and the prefixes of the other family.
LEMMA Families ==
  ASSUME NEW p \in Dst
  PROVE  /\ FamOf(p) \in Fam /\ p \in FamDst(FamOf(p))
         /\ \A f \in Fam : f # FamOf(p) => p \notin FamDst(f)
BY FibAssumption DEF Fam, FamOf, FamDst, Dst

\* What Insert does to the slots of either family.
LEMMA InsertSlots ==
  ASSUME SlotType, NEW p \in Dst, NEW r, NEW e, Insert(p, r, e), NEW f \in Fam
  PROVE  SlotChange(f) /\ SlotType'
<1> DEFINE fp == FamOf(p)
           new == AtSlot(NextSlot(fp), r)
<1>0. fp \in Fam /\ p \in FamDst(fp) /\ (f # fp => p \notin FamDst(f))
  BY Families
<1> HIDE DEF fp
<1>1. p \notin DOMAIN rt /\ TakeSlot(fp)
  BY DEF Insert, fp
<1>2. \/ rt' = rt /\ ~ RoomFor(p)
      \/ Cardinality(DOMAIN rt \cap FamDst(fp)) < RouteMax[fp] /\ rt' = Put(rt, p, new)
  BY DEF Insert, RoomFor, fp
<1>3. TakesSlot(fp) /\ SlotType'
  <2>0. /\ defipNext \in [Fam -> Nat] /\ defipFree \in [Fam -> Seq(Nat)]
        /\ defipFree[fp] \in Seq(Nat) /\ defipNext[fp] \in Nat
    BY <1>0 DEF SlotType
  <2>1. CASE defipFree[fp] # <<>>
    <3>1. defipFree' = [defipFree EXCEPT ![fp] = Front(defipFree[fp])] /\ defipNext' = defipNext
      BY <1>1, <2>1 DEF TakeSlot
    <3>2. Front(defipFree[fp]) \in Seq(Nat)
      BY <2>0, <2>1, PopSeq
    <3>3. NextSlot(fp) = Last(defipFree[fp])
      BY <2>1 DEF NextSlot
    <3>4. defipFree'[fp] = Front(defipFree[fp]) /\ defipFree' \in [Fam -> Seq(Nat)]
      BY <1>0, <2>0, <3>1, <3>2
    <3> QED BY <2>0, <2>1, <3>1, <3>3, <3>4 DEF TakesSlot, Takes, SlotType
  <2>2. CASE defipFree[fp] = <<>>
    <3>1. defipNext' = [defipNext EXCEPT ![fp] = defipNext[fp] + 1] /\ defipFree' = defipFree
      BY <1>1, <2>2 DEF TakeSlot
    <3>2. NextSlot(fp) = defipNext[fp]
      BY <2>2 DEF NextSlot
    <3>3. defipNext'[fp] = defipNext[fp] + 1 /\ defipNext' \in [Fam -> Nat]
      BY <1>0, <2>0, <3>1
    <3> QED BY <2>0, <2>2, <3>1, <3>2, <3>3 DEF TakesSlot, Takes, SlotType
  <2> QED BY <2>1, <2>2
<1>4. CASE f = fp
  <2>1. CASE rt' = rt /\ ~ RoomFor(p)
    BY <1>0, <1>1, <1>3, <1>4, <2>1 DEF SlotChange, SlotWasted, Same
  <2>2. CASE /\ Cardinality(DOMAIN rt \cap FamDst(fp)) < RouteMax[fp]
             /\ rt' = Put(rt, p, new)
    <3>1. SlotsOf(rt', f) = Put(SlotsOf(rt, f), p, NextSlot(f))
      <4>1. DOMAIN rt' = DOMAIN rt \cup {p} /\ rt'[p] = new
            /\ \A q \in DOMAIN rt : rt'[q] = rt[q]
        BY <1>1, <2>2 DEF Put
      <4>2. new.slot = NextSlot(f)
        BY <1>4 DEF AtSlot
      <4> HIDE DEF new
      <4>3. DOMAIN rt' \cap FamDst(f) = (DOMAIN rt \cap FamDst(f)) \cup {p}
        BY <1>0, <1>4, <4>1
      <4> QED BY <1>1, <4>1, <4>2, <4>3 DEF SlotsOf, Put
    <3> QED BY <1>0, <1>1, <1>3, <1>4, <2>2, <3>1 DEF SlotChange, SlotRecorded
  <2> QED BY <1>2, <2>1, <2>2
<1>5. CASE f # fp
  <2>1. defipNext'[f] = defipNext[f] /\ defipFree'[f] = defipFree[f]
    BY <1>0, <1>1, <1>5 DEF TakeSlot, SlotType
  <2>2. Same(SlotsOf(rt', f), SlotsOf(rt, f))
    BY <1>0, <1>2, <1>5 DEF Same, SlotsOf, Put
  <2>3. SlotKeeps(f)
    BY <2>1, <2>2 DEF SlotKeeps
  <2> QED BY <1>3, <2>3 DEF SlotChange
<1> QED BY <1>3, <1>4, <1>5

\* What Program does to the slots of either family.
LEMMA ProgramSlots ==
  ASSUME SlotType, NEW p \in Dst, NEW r, NEW e, Program(p, r, e), NEW f \in Fam
  PROVE  SlotChange(f) /\ SlotType'
<1>1. CASE Replace(p, r, e)
  <2>1. p \in DOMAIN rt /\ rt' = Put(rt, p, AtSlot(rt[p].slot, r))
        /\ defipNext' = defipNext /\ defipFree' = defipFree
    BY <1>1 DEF Replace
  <2>2. AtSlot(rt[p].slot, r).slot = rt[p].slot
    BY DEF AtSlot
  <2>3. Same(SlotsOf(rt', f), SlotsOf(rt, f))
    BY <2>1, <2>2 DEF Same, SlotsOf, Put
  <2> QED BY <2>1, <2>3 DEF SlotChange, SlotKeeps, SlotType
<1>2. CASE Insert(p, r, e)
  BY <1>2, InsertSlots
<1>3. CASE NoSlot(p, r, e)
  BY <1>3 DEF NoSlot, rtVars, SlotChange, SlotKeeps, SlotType, Same
<1> QED BY <1>1, <1>2, <1>3 DEF Program

LEMMA SlotSteps ==
  ASSUME SlotIInv, [Next]_vars, NEW f \in Fam
  PROVE  SlotChange(f) /\ SlotType'
<1>0. SlotType
  BY DEF SlotIInv
<1>1. ASSUME UNCHANGED rtVars PROVE SlotChange(f) /\ SlotType'
  BY <1>0, <1>1 DEF rtVars, SlotChange, SlotKeeps, SlotType, Same
<1>2. ASSUME NEW g \in Gw, NEW s \in Station, NEW at \in Ends, HostAdd(g, s, at)
      PROVE  UNCHANGED rtVars
  BY <1>2 DEF HostAdd
<1>3. ASSUME NEW g \in Gw, HostDel(g) \/ HostDelUntracked(g)
      PROVE  UNCHANGED rtVars
  BY <1>3 DEF HostDel, HostDelUntracked, vars
<1>4. ASSUME NEW a \in Own, NEW diag \in BOOLEAN, NEW at \in Ends, LocalHostAdd(a, diag, at)
      PROVE  UNCHANGED rtVars
  BY <1>4 DEF LocalHostAdd
<1>5. ASSUME NEW p \in Dst, NEW gws, RouteAddSingle(p, gws)
      PROVE  SlotChange(f) /\ SlotType'
  <2>1. PICK nh : Program(p, [ecmp |-> FALSE, ref |-> nh, sig |-> PathSig(gws)], ecmp)
    BY <1>5 DEF RouteAddSingle
  <2> QED BY <1>0, <2>1, ProgramSlots
<1>6. ASSUME NEW p \in Dst, NEW gws, RouteAddEcmp(p, gws)
      PROVE  SlotChange(f) /\ SlotType'
  <2>1. PICK w : LET g == Ref(ecmp, PathSig(gws), Cardinality(Resolved(gws)), w) IN
                 \/ NoGroup(g.e)
                 \/ Program(p, [ecmp |-> TRUE, ref |-> g.gid, sig |-> PathSig(gws)], g.e)
    BY <1>6 DEF RouteAddEcmp
  <2> DEFINE g == Ref(ecmp, PathSig(gws), Cardinality(Resolved(gws)), w)
             r == [ecmp |-> TRUE, ref |-> g.gid, sig |-> PathSig(gws)]
  <2>2. CASE NoGroup(g.e)
    BY <1>1, <2>2 DEF NoGroup
  <2>3. CASE Program(p, r, g.e)
    <3> HIDE DEF g, r
    <3> QED BY <1>0, <2>3, ProgramSlots
  <2> QED BY <2>1, <2>2, <2>3
<1>7. ASSUME NEW p \in Dst, RouteDel(p)
      PROVE  SlotChange(f) /\ SlotType'
  <2> DEFINE fp == FamOf(p)
  <2>0. fp \in Fam /\ p \in FamDst(fp) /\ (f # fp => p \notin FamDst(f))
    BY Families
  <2> HIDE DEF fp
  <2>1. /\ p \in DOMAIN rt /\ rt' = Drop(rt, p) /\ defipNext' = defipNext
        /\ defipFree' = [defipFree EXCEPT ![fp] = Push(defipFree[fp], rt[p].slot, RouteMax[fp])]
    BY <1>7 DEF RouteDel, fp
  <2>2. DOMAIN rt' = DOMAIN rt \ {p} /\ \A q \in DOMAIN rt \ {p} : rt'[q] = rt[q]
    BY <2>1 DEF Drop, Restrict
  <2>3. rt[p].slot \in Nat /\ SlotsOf(rt, fp)[p] = rt[p].slot
    <3>1. p \in DOMAIN SlotsOf(rt, fp) /\ SlotsOf(rt, fp)[p] = rt[p].slot
      BY <2>0, <2>1 DEF SlotsOf
    <3>2. Owned(0, defipNext[fp], defipFree[fp], SlotsOf(rt, fp))
      BY <2>0 DEF SlotIInv
    <3>3. SlotsOf(rt, fp)[p] \in 0..(defipNext[fp] - 1)
      BY <3>1, <3>2 DEF Owned
    <3> QED BY <3>1, <3>3
  <2>4. SlotType'
    <3>1. Push(defipFree[fp], rt[p].slot, RouteMax[fp]) \in Seq(Nat)
      BY <1>0, <2>0, <2>3, PushSeq DEF SlotType
    <3> QED BY <1>0, <2>0, <2>1, <3>1 DEF SlotType
  <2>5. CASE f = fp
    <3>1. SlotsOf(rt', f) = Drop(SlotsOf(rt, f), p)
      BY <2>2 DEF SlotsOf, Drop, Restrict
    <3>2. defipFree'[f] = Push(defipFree[f], SlotsOf(rt, f)[p], RouteMax[f])
      BY <1>0, <2>0, <2>1, <2>3, <2>5 DEF SlotType
    <3>3. p \in DOMAIN SlotsOf(rt, f)
      BY <2>0, <2>1, <2>5 DEF SlotsOf
    <3>4. SlotReleased(f, p)
      BY <2>1, <3>1, <3>2, <3>3 DEF SlotReleased
    <3> QED BY <2>4, <3>4 DEF SlotChange
  <2>6. CASE f # fp
    <3>1. defipNext'[f] = defipNext[f] /\ defipFree'[f] = defipFree[f]
      BY <1>0, <2>0, <2>1, <2>6 DEF SlotType
    <3>2. Same(SlotsOf(rt', f), SlotsOf(rt, f))
      BY <2>0, <2>2, <2>6 DEF Same, SlotsOf
    <3>3. SlotKeeps(f)
      BY <3>1, <3>2 DEF SlotKeeps
    <3> QED BY <2>4, <3>3 DEF SlotChange
  <2> QED BY <2>5, <2>6
<1>8. ASSUME NEW p, NEW gws, RouteAddSkipped(p, gws) \/ RouteDelUntracked(p)
      PROVE  UNCHANGED rtVars
  BY <1>8 DEF RouteAddSkipped, RouteDelUntracked, vars
<1>9. CASE UNCHANGED vars
  BY <1>1, <1>9 DEF vars
<1> QED BY <1>1, <1>2, <1>3, <1>4, <1>5, <1>6, <1>7, <1>8, <1>9 DEF Next

LEMMA SlotInit == Init => SlotIInv
<1> SUFFICES ASSUME Init PROVE SlotIInv
  OBVIOUS
<1>1. /\ defipNext = [v4 |-> TransitBase, v6 |-> 0]
      /\ defipFree = [f \in Fam |-> <<>>]
      /\ rt = <<>> /\ DOMAIN rt = {}
  BY DEF Init
<1>2. SlotType
  BY <1>1, FibAssumption DEF SlotType, Fam
<1>3. ASSUME NEW f \in Fam
      PROVE  /\ Owned(0, defipNext[f], defipFree[f], SlotsOf(rt, f))
             /\ Room(defipFree[f], SlotsOf(rt, f), RouteMax[f])
  <2>1. DOMAIN SlotsOf(rt, f) = {}
    BY <1>1 DEF SlotsOf
  <2>2. defipFree[f] = <<>> /\ defipNext[f] \in Nat /\ RouteMax[f] \in Nat
    BY <1>1, <1>2, FibAssumption DEF SlotType
  <2>3. Owned(0, defipNext[f], defipFree[f], SlotsOf(rt, f))
    BY <2>1, <2>2 DEF Owned, IsInjective, ToSet
  <2>4. Cardinality(DOMAIN SlotsOf(rt, f)) = 0 /\ IsFiniteSet(DOMAIN SlotsOf(rt, f))
    BY <2>1, FS_EmptySet
  <2>5. Len(defipFree[f]) = 0
    BY <2>2
  <2> QED BY <2>2, <2>3, <2>4, <2>5 DEF Room
<1> QED BY <1>1, <1>2, <1>3 DEF SlotIInv

LEMMA SlotStep == SlotIInv /\ EcmpIInv' /\ [Next]_vars => SlotIInv'
<1> SUFFICES ASSUME SlotIInv, EcmpIInv', [Next]_vars PROVE SlotIInv'
  OBVIOUS
<1>1. ASSUME NEW f \in Fam
      PROVE  /\ Owned(0, defipNext'[f], defipFree'[f], SlotsOf(rt', f))
             /\ Room(defipFree'[f], SlotsOf(rt', f), RouteMax[f])
  <2> DEFINE own  == SlotsOf(rt, f)
             own2 == SlotsOf(rt', f)
  <2>0. /\ Owned(0, defipNext[f], defipFree[f], own) /\ Room(defipFree[f], own, RouteMax[f])
        /\ defipFree[f] \in Seq(Nat) /\ RouteMax[f] \in Nat
        /\ DOMAIN own = DOMAIN rt \cap FamDst(f)
    BY FibAssumption DEF SlotIInv, Owned, SlotsOf
  <2> HIDE DEF own, own2
  <2>1. CASE SlotKeeps(f)
    <3>1. Same(own2, own) /\ defipNext'[f] = defipNext[f] /\ defipFree'[f] = defipFree[f]
      BY <2>1 DEF SlotKeeps, own, own2
    <3>2. Owned(0, defipNext'[f], defipFree'[f], own2)
      BY <2>0, <3>1, OwnedSame
    <3>3. Room(defipFree'[f], own2, RouteMax[f])
      BY <2>0, <3>1 DEF Room, Same
    <3> QED BY <3>2, <3>3 DEF own2
  <2>2. CASE SlotWasted(f)
    <3>1. Same(own2, own) /\ TakesSlot(f)
      BY <2>2 DEF SlotWasted, own, own2
    <3>2. /\ Owned(0, defipNext'[f], defipFree'[f], own)
          /\ Room(defipFree'[f], own, RouteMax[f])
      BY <2>0, <3>1, OwnedTakes, RoomTakes DEF TakesSlot
    <3>3. Owned(0, defipNext'[f], defipFree'[f], own2)
      BY <3>1, <3>2, OwnedSame
    <3>4. Room(defipFree'[f], own2, RouteMax[f])
      BY <3>1, <3>2 DEF Room, Same
    <3> QED BY <3>3, <3>4 DEF own2
  <2>3. ASSUME NEW p \in Dst, SlotRecorded(f, p)
        PROVE  /\ Owned(0, defipNext'[f], defipFree'[f], own2)
               /\ Room(defipFree'[f], own2, RouteMax[f])
    <3>1. TakesSlot(f) /\ own2 = Put(own, p, NextSlot(f)) /\ p \notin DOMAIN own
          /\ Cardinality(DOMAIN rt \cap FamDst(f)) < RouteMax[f]
      BY <2>0, <2>3 DEF SlotRecorded, own, own2
    <3>2. Cardinality(DOMAIN own) < RouteMax[f]
      BY <2>0, <3>1
    <3> QED BY <2>0, <3>1, <3>2, OwnedTakes, RoomTakes DEF TakesSlot
  <2>4. ASSUME NEW p \in Dst, SlotReleased(f, p)
        PROVE  /\ Owned(0, defipNext'[f], defipFree'[f], own2)
               /\ Room(defipFree'[f], own2, RouteMax[f])
    <3>1. /\ p \in DOMAIN own /\ own2 = Drop(own, p) /\ defipNext'[f] = defipNext[f]
          /\ defipFree'[f] = Push(defipFree[f], own[p], RouteMax[f])
      BY <2>4 DEF SlotReleased, own, own2
    <3>2. own[p] \in Nat
      BY <2>0, <3>1 DEF Owned
    <3> QED BY <2>0, <3>1, <3>2, OwnedGives, RoomGives
  <2>5. SlotChange(f)
    BY SlotSteps
  <2> QED BY <2>1, <2>2, <2>3, <2>4, <2>5 DEF SlotChange, own2
<1>2. SlotType'
  <2>1. "v4" \in Fam
    BY DEF Fam
  <2> QED BY <2>1, SlotSteps
<1>3. DOMAIN rt' \subseteq Dst
  BY DEF EcmpIInv
<1> QED BY <1>1, <1>2, <1>3 DEF SlotIInv

THEOREM SlotInvariant == Spec => []SlotIInv
<1> QED BY SlotInit, SlotStep, EcmpInvariant, PTL DEF Spec

\* defip_slot_alloc and defip_slot_free, and their twins for L3_DEFIP_128:
\* whatever routes come, change and go, a slot has one owner.
THEOREM SlotsOwned == Spec => []SlotOwnership
<1>1. SlotIInv => SlotOwnership
  <2> SUFFICES ASSUME SlotIInv, NEW f \in Fam
               PROVE  LET D == DOMAIN rt \cap FamDst(f) IN
                      /\ \A p, q \in D : rt[p].slot = rt[q].slot => p = q
                      /\ IsInjective(defipFree[f])
                      /\ \A p \in D : rt[p].slot \notin ToSet(defipFree[f])
                      /\ ToSet(defipFree[f]) \cup {rt[p].slot : p \in D}
                           \subseteq 0..(defipNext[f] - 1)
    BY DEF SlotOwnership
  <2>1. Owned(0, defipNext[f], defipFree[f], SlotsOf(rt, f))
    BY DEF SlotIInv
  <2> QED BY <2>1 DEF Owned, IsInjective, SlotsOf
<1> QED BY <1>1, SlotInvariant, PTL

\* The arrays nh_free, defip_free and defip128_free are large enough.
THEOREM FreeListsFit == Spec => []FreeListsSuffice
<1>1. NhIInv /\ SlotIInv => FreeListsSuffice
  <2> SUFFICES ASSUME NhIInv, SlotIInv, NEW f \in Fam
               PROVE  /\ Len(nhFree) + Cardinality(DOMAIN neigh) <= NhFreeMax
                      /\ Len(defipFree[f]) + Cardinality(DOMAIN rt \cap FamDst(f))
                           <= RouteMax[f]
    BY DEF FreeListsSuffice, Fam
  <2>1. DOMAIN SlotsOf(rt, f) = DOMAIN rt \cap FamDst(f)
    BY DEF SlotsOf
  <2>2. Room(defipFree[f], SlotsOf(rt, f), RouteMax[f])
    BY DEF SlotIInv
  <2> QED BY <2>1, <2>2 DEF NhIInv, Room
<1> QED BY <1>1, NhInvariant, SlotInvariant, PTL
-----------------------------------------------------------------------------
(***************************************************************************)
(* Own addresses.                                                          *)
(***************************************************************************)

\* The inductive invariant: the index of an own address was created, is on no
\* free list and has no neighbour, and still sends to the CPU.
OwnIInv ==
  \A a \in Own \cap DOMAIN host :
    /\ host[a] \in 1..(nhNext - 1) /\ host[a] \notin ToSet(nhFree)
    /\ \A g \in DOMAIN neigh : neigh[g] # host[a]
    /\ host[a] \in DOMAIN ing /\ ing[host[a]] = Cpu
    /\ host[a] \in DOMAIN egr /\ egr[host[a]] = Cpu

LEMMA OwnInit == Init => OwnIInv
<1> SUFFICES ASSUME Init PROVE OwnIInv
  OBVIOUS
<1>1. DOMAIN host = {}
  BY DEF Init
<1> QED BY <1>1 DEF OwnIInv

LEMMA OwnStep == OwnIInv /\ NhIInv /\ NhIInv' /\ [Next]_vars => OwnIInv'
<1> SUFFICES ASSUME OwnIInv, NhIInv, NhIInv', [Next]_vars PROVE OwnIInv'
  OBVIOUS
<1>0. /\ nhNext \in Nat \ {0} /\ nhFree \in Seq(Nat)
      /\ IsInjective(neigh) /\ IsInjective(nhFree)
      /\ \A g \in DOMAIN neigh : neigh[g] \in 1..(nhNext - 1) /\ neigh[g] \notin ToSet(nhFree)
      /\ ToSet(nhFree) \subseteq 1..(nhNext - 1)
  BY DEF NhIInv, Owned
<1>1. ASSUME UNCHANGED nhVars, UNCHANGED chipVars PROVE OwnIInv'
  BY <1>1 DEF nhVars, chipVars, OwnIInv
<1>2. ASSUME NEW g \in Gw, NEW s \in Station, NEW at \in Ends, HostAdd(g, s, at)
      PROVE  OwnIInv'
  <2> DEFINE nh == HostNh(g)
  <2>1. g \notin Own
    BY FibAssumption
  <2>2. \A a \in Own : a \in DOMAIN host' <=> a \in DOMAIN host
    BY <1>2, <2>1 DEF HostAdd, Put
  <2>3. \A a \in Own \cap DOMAIN host : host'[a] = host[a]
    BY <1>2, <2>1 DEF HostAdd, Put
  <2>4. \A i : /\ i # nh /\ i \in DOMAIN ing => i \in DOMAIN ing' /\ ing'[i] = ing[i]
               /\ i # nh /\ i \in DOMAIN egr => i \in DOMAIN egr' /\ egr'[i] = egr[i]
    BY <1>2 DEF HostAdd, Put
  <2>5. /\ nhNext <= nhNext' /\ nhNext' \in Nat
        /\ \A i : i \in ToSet(nhFree') => i \in ToSet(nhFree)
        /\ g \in DOMAIN neigh => nh = neigh[g]
        /\ g \notin DOMAIN neigh => nh \in ToSet(nhFree) \/ nh = nhNext
    <3>1. CASE g \in DOMAIN neigh
      BY <1>0, <1>2, <3>1 DEF HostAdd, HostNh
    <3>2. CASE g \notin DOMAIN neigh /\ nhFree # <<>>
      <4>1. nh = Last(nhFree) /\ nhFree' = Front(nhFree) /\ nhNext' = nhNext
        BY <1>2, <3>2 DEF HostAdd, HostNh, TakeNh, NextNh
      <4>2. Last(nhFree) \in ToSet(nhFree) /\ ToSet(Front(nhFree)) \subseteq ToSet(nhFree)
        BY <1>0, <3>2, PopSeq, PopSet
      <4> HIDE DEF nh
      <4> QED BY <1>0, <3>2, <4>1, <4>2
    <3>3. CASE g \notin DOMAIN neigh /\ nhFree = <<>>
      <4>1. nh = nhNext /\ nhFree' = nhFree /\ nhNext' = nhNext + 1
        BY <1>2, <3>3 DEF HostAdd, HostNh, TakeNh, NextNh
      <4> HIDE DEF nh
      <4> QED BY <1>0, <3>3, <4>1
    <3> QED BY <3>1, <3>2, <3>3
  <2>6. \A h \in DOMAIN neigh' : neigh'[h] = nh \/ (h \in DOMAIN neigh /\ neigh'[h] = neigh[h])
    BY <1>2 DEF HostAdd, Recorded, Put
  <2> HIDE DEF nh
  <2>7. \A a \in Own \cap DOMAIN host : host[a] # nh
    BY <1>0, <2>5 DEF OwnIInv
  <2>8. ASSUME NEW a \in Own \cap DOMAIN host'
        PROVE  /\ host'[a] \in 1..(nhNext' - 1) /\ host'[a] \notin ToSet(nhFree')
               /\ \A h \in DOMAIN neigh' : neigh'[h] # host'[a]
               /\ host'[a] \in DOMAIN ing' /\ ing'[host'[a]] = Cpu
               /\ host'[a] \in DOMAIN egr' /\ egr'[host'[a]] = Cpu
    <3>1. a \in Own \cap DOMAIN host /\ host'[a] = host[a]
      BY <2>2, <2>3
    <3>2. host[a] \in 1..(nhNext' - 1) /\ host[a] \notin ToSet(nhFree')
      BY <1>0, <2>5, <3>1 DEF OwnIInv
    <3>3. \A h \in DOMAIN neigh' : neigh'[h] # host[a]
      BY <2>6, <2>7, <3>1 DEF OwnIInv
    <3>4. /\ host[a] \in DOMAIN ing' /\ ing'[host[a]] = Cpu
          /\ host[a] \in DOMAIN egr' /\ egr'[host[a]] = Cpu
      BY <2>4, <2>7, <3>1 DEF OwnIInv
    <3> QED BY <3>1, <3>2, <3>3, <3>4
  <2> QED BY <2>8 DEF OwnIInv
<1>3. ASSUME NEW g \in Gw, HostDel(g)
      PROVE  OwnIInv'
  <2>1. g \notin Own /\ g \in DOMAIN neigh /\ nhNext' = nhNext
        /\ nhFree' = Push(nhFree, neigh[g], NhFreeMax) /\ neigh' = Drop(neigh, g)
    BY <1>3, FibAssumption DEF HostDel
  <2>2. \A a \in Own : /\ a \in DOMAIN host' => a \in DOMAIN host
                       /\ a \in DOMAIN host' => host'[a] = host[a]
    BY <1>3, <2>1 DEF HostDel, Written, Drop, Restrict
  <2>3. \A i : i # neigh[g] =>
          /\ i \in DOMAIN ing => i \in DOMAIN ing' /\ ing'[i] = ing[i]
          /\ i \in DOMAIN egr => i \in DOMAIN egr' /\ egr'[i] = egr[i]
    BY <1>3 DEF HostDel, Written, Drop, Restrict
  <2>4. ToSet(nhFree') \subseteq ToSet(nhFree) \cup {neigh[g]}
    <3>1. neigh[g] \in Nat
      BY <1>0, <2>1
    <3> QED BY <1>0, <2>1, <3>1, PushSeq
  <2>5. \A h \in DOMAIN neigh' : h \in DOMAIN neigh /\ neigh'[h] = neigh[h]
    BY <2>1 DEF Drop, Restrict
  <2> QED BY <1>0, <2>1, <2>2, <2>3, <2>4, <2>5 DEF OwnIInv
<1>4. ASSUME NEW a \in Own, NEW diag \in BOOLEAN, NEW at \in Ends, LocalHostAdd(a, diag, at)
      PROVE  OwnIInv'
  <2>1. nhNext' = nhNext + 1 /\ nhFree' = nhFree /\ neigh' = neigh
    BY <1>4 DEF LocalHostAdd
  <2>2. \A i : /\ i # nhNext /\ i \in DOMAIN ing => i \in DOMAIN ing' /\ ing'[i] = ing[i]
               /\ i # nhNext /\ i \in DOMAIN egr => i \in DOMAIN egr' /\ egr'[i] = egr[i]
    BY <1>4 DEF LocalHostAdd, Put
  <2>3. \/ host' = host
        \/ /\ host' = Put(host, a, nhNext)
           /\ nhNext \in DOMAIN ing' /\ ing'[nhNext] = Cpu
           /\ nhNext \in DOMAIN egr' /\ egr'[nhNext] = Cpu
    BY <1>4 DEF LocalHostAdd, Put
  <2>4. \A b \in Own : b \in DOMAIN host' =>
          \/ b \in DOMAIN host /\ host'[b] = host[b]
          \/ /\ host'[b] = nhNext
             /\ nhNext \in DOMAIN ing' /\ ing'[nhNext] = Cpu
             /\ nhNext \in DOMAIN egr' /\ egr'[nhNext] = Cpu
    BY <2>3 DEF Put
  <2>5. ASSUME NEW b \in Own \cap DOMAIN host'
        PROVE  /\ host'[b] \in 1..(nhNext' - 1) /\ host'[b] \notin ToSet(nhFree')
               /\ \A h \in DOMAIN neigh' : neigh'[h] # host'[b]
               /\ host'[b] \in DOMAIN ing' /\ ing'[host'[b]] = Cpu
               /\ host'[b] \in DOMAIN egr' /\ egr'[host'[b]] = Cpu
    <3>1. CASE b \in DOMAIN host /\ host'[b] = host[b]
      BY <1>0, <2>1, <2>2, <3>1 DEF OwnIInv
    <3>2. CASE /\ host'[b] = nhNext
               /\ nhNext \in DOMAIN ing' /\ ing'[nhNext] = Cpu
               /\ nhNext \in DOMAIN egr' /\ egr'[nhNext] = Cpu
      BY <1>0, <2>1, <3>2
    <3> QED BY <2>4, <3>1, <3>2
  <2> QED BY <2>5 DEF OwnIInv
<1>5. ASSUME NEW p, NEW gws,
             RouteAddSingle(p, gws) \/ RouteAddEcmp(p, gws) \/ RouteDel(p)
      PROVE  OwnIInv'
  BY <1>1, <1>5 DEF RouteAddSingle, RouteAddEcmp, RouteDel
<1>6. ASSUME NEW g, NEW p, NEW gws,
             HostDelUntracked(g) \/ RouteAddSkipped(p, gws) \/ RouteDelUntracked(p)
      PROVE  OwnIInv'
  BY <1>1, <1>6 DEF HostDelUntracked, RouteAddSkipped, RouteDelUntracked, vars
<1>7. CASE UNCHANGED vars
  BY <1>1, <1>7 DEF vars
<1> QED BY <1>2, <1>3, <1>4, <1>5, <1>6, <1>7 DEF Next

\* l3_local_host_add: an own address that is in L3_ENTRY stays punted to the
\* CPU, whatever neighbours come and go and whichever writes fail.
THEOREM OwnAddressesPunted == Spec => []OwnReachesCpu
<1>1. OwnIInv => OwnReachesCpu
  BY DEF OwnIInv, OwnReachesCpu
<1>2. Spec => []OwnIInv
  BY OwnInit, OwnStep, NhInvariant, PTL DEF Spec
<1> QED BY <1>1, <1>2, PTL
-----------------------------------------------------------------------------
(***************************************************************************)
(* Types.                                                                  *)
(***************************************************************************)

\* What TypeOK says beyond the invariants above, element by element.
TableType ==
  /\ \A p \in DOMAIN rt : rt[p].ecmp \in BOOLEAN /\ (rt[p].ecmp = FALSE => rt[p].ref \in Nat)
  /\ localNext \in Nat
  /\ \A i \in DOMAIN ing : i \in Nat /\ ing[i] \in Station \cup {Cpu}
  /\ \A i \in DOMAIN egr : i \in Nat /\ egr[i] \in Station \cup {Cpu}
  /\ \A a \in DOMAIN host : a \in Gw \cup Own /\ host[a] \in Nat
  /\ DOMAIN defip = Fam
  /\ \A f \in Fam : \A s \in DOMAIN defip[f] : s \in Nat

LEMMA TableInit == Init => TableType
<1> SUFFICES ASSUME Init PROVE TableType
  OBVIOUS
<1>1. DOMAIN rt = {} /\ DOMAIN ing = {} /\ DOMAIN egr = {} /\ DOMAIN host = {}
  BY DEF Init
<1>2. defip = [f \in Fam |-> <<>>] /\ localNext \in Nat
  BY FibAssumption DEF Init
<1>3. \A f \in Fam : DOMAIN defip[f] = {}
  BY <1>2
<1> QED BY <1>1, <1>2, <1>3 DEF TableType

\* What Program does to route_tab and to the DEFIP tables.
LEMMA ProgramTables ==
  ASSUME TableType, SlotIInv, NEW p \in Dst, NEW r, NEW e, Program(p, r, e),
         r.ecmp \in BOOLEAN, r.ecmp = FALSE => r.ref \in Nat
  PROVE  /\ \A q \in DOMAIN rt' : /\ rt'[q].ecmp \in BOOLEAN
                                  /\ rt'[q].ecmp = FALSE => rt'[q].ref \in Nat
         /\ DOMAIN defip' = Fam
         /\ \A f \in Fam : \A s \in DOMAIN defip'[f] : s \in Nat
<1> DEFINE fp == FamOf(p)
<1>0. fp \in Fam /\ p \in FamDst(fp)
  BY Families
<1>1. ASSUME NEW s \in Nat, WriteDefip(fp, s, Entry(p, r))
      PROVE  /\ DOMAIN defip' = Fam
             /\ \A f \in Fam : \A t \in DOMAIN defip'[f] : t \in Nat
  <2>1. defip' = defip \/ defip' = [defip EXCEPT ![fp] = Put(defip[fp], s, Entry(p, r))]
    BY <1>1 DEF WriteDefip, Written
  <2>2. DOMAIN Put(defip[fp], s, Entry(p, r)) = DOMAIN defip[fp] \cup {s}
    BY DEF Put
  <2> QED BY <1>0, <2>1, <2>2 DEF TableType
<1>2. ASSUME NEW s, rt' = rt \/ rt' = Put(rt, p, AtSlot(s, r))
      PROVE  \A q \in DOMAIN rt' : /\ rt'[q].ecmp \in BOOLEAN
                                   /\ rt'[q].ecmp = FALSE => rt'[q].ref \in Nat
  BY <1>2 DEF TableType, Put, AtSlot
<1> HIDE DEF fp
<1>3. CASE Replace(p, r, e)
  <2>1. /\ p \in DOMAIN rt /\ rt' = Put(rt, p, AtSlot(rt[p].slot, r))
        /\ WriteDefip(fp, AtSlot(rt[p].slot, r).slot, Entry(p, r))
    BY <1>3 DEF Replace, fp
  <2>2. AtSlot(rt[p].slot, r).slot = rt[p].slot
    BY DEF AtSlot
  <2>3. SlotsOf(rt, fp)[p] = rt[p].slot /\ p \in DOMAIN SlotsOf(rt, fp)
    BY <1>0, <2>1 DEF SlotsOf
  <2>4. Owned(0, defipNext[fp], defipFree[fp], SlotsOf(rt, fp))
    BY <1>0 DEF SlotIInv
  <2>5. rt[p].slot \in Nat
    <3>1. SlotsOf(rt, fp)[p] \in 0..(defipNext[fp] - 1)
      BY <2>3, <2>4 DEF Owned
    <3> QED BY <2>3, <3>1
  <2> QED BY <1>1, <1>2, <2>1, <2>2, <2>5
<1>4. CASE Insert(p, r, e)
  <2>1. /\ rt' = rt \/ rt' = Put(rt, p, AtSlot(NextSlot(fp), r))
        /\ WriteDefip(fp, AtSlot(NextSlot(fp), r).slot, Entry(p, r))
    BY <1>4 DEF Insert, fp
  <2>2. AtSlot(NextSlot(fp), r).slot = NextSlot(fp)
    BY DEF AtSlot
  <2>3. NextSlot(fp) \in Nat
    <3>1. defipFree[fp] \in Seq(Nat) /\ defipNext[fp] \in Nat
      BY <1>0 DEF SlotIInv, SlotType
    <3> QED BY <3>1, PopSeq DEF NextSlot
  <2> QED BY <1>1, <1>2, <2>1, <2>2, <2>3
<1>5. CASE NoSlot(p, r, e)
  BY <1>5 DEF NoSlot, rtVars, TableType
<1> QED BY <1>3, <1>4, <1>5 DEF Program

LEMMA TableStep == TableType /\ NhIInv /\ SlotIInv /\ [Next]_vars => TableType'
<1> SUFFICES ASSUME TableType, NhIInv, SlotIInv, [Next]_vars PROVE TableType'
  OBVIOUS
<1>0. /\ nhNext \in Nat /\ nhFree \in Seq(Nat)
      /\ \A g \in DOMAIN neigh : neigh[g] \in Nat
  BY DEF NhIInv, Owned
<1>1. ASSUME NEW g \in Gw, NEW s \in Station, NEW at \in Ends, HostAdd(g, s, at)
      PROVE  TableType'
  <2> DEFINE nh == HostNh(g)
  <2>1. nh \in Nat
    BY <1>0, PopSeq DEF HostNh, NextNh
  <2>2. /\ UNCHANGED <<rt, localNext, defip>>
        /\ ing' = ing \/ ing' = Put(ing, nh, s)
        /\ egr' = egr \/ egr' = Put(egr, nh, s)
        /\ host' = host \/ host' = Put(host, g, nh)
    BY <1>1 DEF HostAdd, rtVars
  <2> HIDE DEF nh
  <2> QED BY <2>1, <2>2 DEF TableType, Put
<1>2. ASSUME NEW g \in Gw, HostDel(g)
      PROVE  TableType'
  BY <1>2 DEF HostDel, Written, TableType, Drop, Restrict, rtVars
<1>3. ASSUME NEW a \in Own, NEW diag \in BOOLEAN, NEW at \in Ends, LocalHostAdd(a, diag, at)
      PROVE  TableType'
  <2>1. /\ rt' = rt
        /\ localNext' = localNext \/ localNext' = localNext + 1
        /\ ing' = ing \/ ing' = Put(ing, nhNext, Cpu)
        /\ egr' = egr \/ egr' = Put(egr, nhNext, Cpu)
        /\ host' = host \/ host' = Put(host, a, nhNext)
    BY <1>3 DEF LocalHostAdd, rtVars
  <2>2. DOMAIN defip' = Fam /\ \A f \in Fam : \A s \in DOMAIN defip'[f] : s \in Nat
    <3>1. CASE defip' = defip
      BY <3>1 DEF TableType
    <3>2. CASE at \notin {"ing", "egr"}
      <4> DEFINE entry == [dst |-> a, ecmp |-> FALSE, ref |-> nhNext]
                 slots == {localNext} \cup (IF diag THEN {DiagSlot} ELSE {})
                 new(ok) == [x \in DOMAIN defip["v4"] \cup ok |->
                               IF x \in ok THEN entry ELSE defip["v4"][x]]
      <4>1. PICK ok \in SUBSET slots : defip' = [defip EXCEPT !["v4"] = new(ok)]
        BY <1>3, <3>2 DEF LocalHostAdd
      <4>2. slots \subseteq Nat
        BY FibAssumption DEF TableType
      <4>3. DOMAIN new(ok) = DOMAIN defip["v4"] \cup ok
        OBVIOUS
      <4> HIDE DEF new, slots
      <4>4. "v4" \in Fam
        BY DEF Fam
      <4> QED BY <4>1, <4>2, <4>3, <4>4 DEF TableType
    <3> QED BY <1>3, <3>1, <3>2 DEF LocalHostAdd
  <2> QED BY <1>0, <2>1, <2>2 DEF TableType, Put
<1>4. ASSUME NEW p \in Dst, NEW gws, RouteAddSingle(p, gws)
      PROVE  TableType'
  <2>1. PICK nh \in DOMAIN PathSig(gws).of :
          Program(p, [ecmp |-> FALSE, ref |-> nh, sig |-> PathSig(gws)], ecmp)
    BY <1>4 DEF RouteAddSingle
  <2> DEFINE r == [ecmp |-> FALSE, ref |-> nh, sig |-> PathSig(gws)]
  <2>2. nh \in Nat
    BY <1>0 DEF PathSig, Resolved
  <2>3. r.ecmp = FALSE /\ r.ref = nh
    OBVIOUS
  <2> HIDE DEF r
  <2>4. /\ \A q \in DOMAIN rt' : /\ rt'[q].ecmp \in BOOLEAN
                                 /\ rt'[q].ecmp = FALSE => rt'[q].ref \in Nat
        /\ DOMAIN defip' = Fam
        /\ \A f \in Fam : \A s \in DOMAIN defip'[f] : s \in Nat
    BY <2>1, <2>2, <2>3, ProgramTables DEF r
  <2> QED BY <1>4, <2>4 DEF RouteAddSingle, TableType, chipVars
<1>5. ASSUME NEW p \in Dst, NEW gws, RouteAddEcmp(p, gws)
      PROVE  TableType'
  <2>1. PICK w : LET g == Ref(ecmp, PathSig(gws), Cardinality(Resolved(gws)), w) IN
                 \/ NoGroup(g.e)
                 \/ Program(p, [ecmp |-> TRUE, ref |-> g.gid, sig |-> PathSig(gws)], g.e)
    BY <1>5 DEF RouteAddEcmp
  <2> DEFINE g == Ref(ecmp, PathSig(gws), Cardinality(Resolved(gws)), w)
             r == [ecmp |-> TRUE, ref |-> g.gid, sig |-> PathSig(gws)]
  <2>2. r.ecmp = TRUE
    OBVIOUS
  <2> HIDE DEF r
  <2>3. /\ \A q \in DOMAIN rt' : /\ rt'[q].ecmp \in BOOLEAN
                                 /\ rt'[q].ecmp = FALSE => rt'[q].ref \in Nat
        /\ DOMAIN defip' = Fam
        /\ \A f \in Fam : \A s \in DOMAIN defip'[f] : s \in Nat
    <3>1. CASE NoGroup(g.e)
      BY <3>1 DEF NoGroup, rtVars, TableType
    <3>2. CASE Program(p, r, g.e)
      <4> HIDE DEF g
      <4> QED BY <2>2, <3>2, ProgramTables
    <3> QED BY <2>1, <3>1, <3>2 DEF r
  <2> QED BY <1>5, <2>3 DEF RouteAddEcmp, TableType, chipVars
<1>6. ASSUME NEW p \in Dst, RouteDel(p)
      PROVE  TableType'
  <2>1. /\ defip' = defip
           \/ defip' = [defip EXCEPT ![FamOf(p)] = Drop(defip[FamOf(p)], rt[p].slot)]
        /\ rt' = Drop(rt, p)
    BY <1>6 DEF RouteDel, Written
  <2>2. DOMAIN Drop(defip[FamOf(p)], rt[p].slot) \subseteq DOMAIN defip[FamOf(p)]
    BY DEF Drop, Restrict
  <2>3. DOMAIN defip' = Fam /\ \A f \in Fam : \A s \in DOMAIN defip'[f] : s \in Nat
    BY <2>1, <2>2 DEF TableType
  <2>4. \A q \in DOMAIN rt' : q \in DOMAIN rt /\ rt'[q] = rt[q]
    BY <2>1 DEF Drop, Restrict
  <2> QED BY <1>6, <2>3, <2>4 DEF RouteDel, TableType, chipVars
<1>7. ASSUME NEW g, NEW p, NEW gws,
             HostDelUntracked(g) \/ RouteAddSkipped(p, gws) \/ RouteDelUntracked(p)
      PROVE  UNCHANGED vars
  BY <1>7 DEF HostDelUntracked, RouteAddSkipped, RouteDelUntracked
<1>8. CASE UNCHANGED vars
  BY <1>8 DEF vars, rtVars, chipVars, TableType
<1> QED BY <1>1, <1>2, <1>3, <1>4, <1>5, <1>6, <1>7, <1>8 DEF Next

\* Every allocator, table and chip table holds values of its range.
THEOREM TypeCorrect == Spec => []TypeOK
<1>1. TableType /\ NhIInv /\ SlotIInv /\ EcmpIInv => TypeOK
  <2> SUFFICES ASSUME TableType, NhIInv, SlotIInv, EcmpIInv PROVE TypeOK
    OBVIOUS
  <2>1. /\ nhNext \in Nat \ {0} /\ nhFree \in Seq(Nat)
        /\ DOMAIN neigh \subseteq Gw /\ \A g \in DOMAIN neigh : neigh[g] \in Nat
    BY DEF NhIInv, Owned
  <2>2. defipNext \in [Fam -> Nat] /\ defipFree \in [Fam -> Seq(Nat)] /\ DOMAIN rt \subseteq Dst
    BY DEF SlotIInv, SlotType
  <2>3. ASSUME NEW p \in DOMAIN rt
        PROVE  rt[p].slot \in Nat /\ rt[p].ref \in Nat /\ rt[p].ecmp \in BOOLEAN
    <3>1. FamOf(p) \in Fam /\ p \in FamDst(FamOf(p))
      BY <2>2, Families
    <3>2. Owned(0, defipNext[FamOf(p)], defipFree[FamOf(p)], SlotsOf(rt, FamOf(p)))
      BY <3>1 DEF SlotIInv
    <3>3. p \in DOMAIN SlotsOf(rt, FamOf(p)) /\ SlotsOf(rt, FamOf(p))[p] = rt[p].slot
      BY <3>1 DEF SlotsOf
    <3>4. SlotsOf(rt, FamOf(p))[p] \in 0..(defipNext[FamOf(p)] - 1)
      BY <3>2, <3>3 DEF Owned
    <3>5. rt[p].ecmp => rt[p].ref \in DOMAIN ecmp.grp
      BY DEF EcmpIInv, RefsOK
    <3>6. DOMAIN ecmp.grp \subseteq Nat
      BY DEF EcmpIInv, EcmpInv, EcmpType, EcmpGids
    <3> QED BY <3>3, <3>4, <3>5, <3>6 DEF TableType
  <2>4. /\ Range(ing) \subseteq Station \cup {Cpu} /\ DOMAIN ing \subseteq Nat
        /\ Range(egr) \subseteq Station \cup {Cpu} /\ DOMAIN egr \subseteq Nat
        /\ Range(host) \subseteq Nat /\ DOMAIN host \subseteq Gw \cup Own
    BY DEF TableType, Range
  <2> QED BY <2>1, <2>2, <2>3, <2>4 DEF TypeOK, TableType
<1>2. Spec => []TableType
  BY TableInit, TableStep, NhInvariant, SlotInvariant, PTL DEF Spec
<1> QED BY <1>1, <1>2, NhInvariant, SlotInvariant, EcmpInvariant, PTL
-----------------------------------------------------------------------------
(* Where every neighbour, prefix and group has a record.                   *)

\* l3_neigh_nh and l3_neigh_nh6 have a record for every neighbour.
NeighRecords == \A f \in Fam : Cardinality(FamGw(f)) <= NeighMax

\* route_tab and route6_tab have a record for every prefix.
RouteRecords == \A f \in Fam : Cardinality(FamDst(f)) <= RouteMax[f]

\* ecmp_tab has a record for a group per prefix and one more (a route that is
\* replaced gets its new group before it lets go of the old one).
GroupRecords == Cardinality(Dst) < EcmpGrpMax

\* A table whose records suffice has one left for a key it does not hold.
LEMMA OneLeft ==
  ASSUME NEW S, IsFiniteSet(S), NEW max \in Nat, Cardinality(S) <= max,
         NEW D, NEW x \in S \ D
  PROVE  Cardinality(D \cap S) < max
<1>1. S \ {x} \in SUBSET S /\ D \cap S \in SUBSET (S \ {x})
  OBVIOUS
<1>2. IsFiniteSet(S \ {x}) /\ Cardinality(S \ {x}) = Cardinality(S) - 1
  BY FS_RemoveElement
<1>3. IsFiniteSet(D \cap S) /\ Cardinality(D \cap S) <= Cardinality(S \ {x})
  BY <1>1, <1>2, FS_Subset
<1>4. Cardinality(D \cap S) \in Nat /\ Cardinality(S) \in Nat
  BY <1>3, FS_CardinalityType
<1> QED BY <1>2, <1>3, <1>4
-----------------------------------------------------------------------------
(***************************************************************************)
(* L3_ENTRY is the neighbour table.                                        *)
(***************************************************************************)

\* A neighbour that resolves is recorded.
LEMMA AlwaysRecorded ==
  ASSUME NeighRecords, NEW g \in Gw, NEW nh
  PROVE  Recorded(g, nh) = Put(neigh, g, nh)
<1>1. PICK f \in Fam : g \in FamGw(f)
  BY DEF Fam, FamGw, Gw
<1>2. IsFiniteSet(FamGw(f)) /\ NeighMax \in Nat
  <2>1. FamGw(f) \in SUBSET Gw
    BY DEF FamGw, Gw
  <2> QED BY <2>1, FS_Subset, FibAssumption
<1>3. CASE g \notin DOMAIN neigh
  <2>1. Cardinality(DOMAIN neigh \cap FamGw(f)) < NeighMax
    BY <1>1, <1>2, <1>3, OneLeft DEF NeighRecords
  <2> QED BY <1>1, <2>1 DEF Recorded
<1> QED BY <1>3 DEF Recorded

LEMMA HostInit == Init => HostMirror
BY DEF Init, HostMirror

LEMMA HostStep ==
  ASSUME NeighRecords, "clear" \notin Faulty, HostMirror, NhIInv, [Next]_vars
  PROVE  HostMirror'
<1>1. ASSUME UNCHANGED <<neigh, ing, egr, host>> PROVE HostMirror'
  BY <1>1 DEF HostMirror
<1>2. ASSUME NEW g \in Gw, NEW s \in Station, NEW at \in Ends, HostAdd(g, s, at)
      PROVE  HostMirror'
  <2> DEFINE nh == HostNh(g)
  <2>1. DOMAIN ing \subseteq DOMAIN ing' /\ DOMAIN egr \subseteq DOMAIN egr'
    BY <1>2 DEF HostAdd, Put
  <2>2. CASE at # "done"
    <3>1. neigh' = neigh /\ host' = host
      BY <1>2, <2>2 DEF HostAdd
    <3> QED BY <2>1, <3>1 DEF HostMirror
  <2>3. CASE at = "done"
    <3>1. neigh' = Put(neigh, g, nh) /\ host' = Put(host, g, nh)
      BY <1>2, <2>3, AlwaysRecorded DEF HostAdd
    <3>2. nh \in DOMAIN ing' /\ nh \in DOMAIN egr'
      BY <1>2, <2>3 DEF HostAdd, Put
    <3> HIDE DEF nh
    <3> QED BY <2>1, <3>1, <3>2 DEF HostMirror, Put
  <2> QED BY <2>2, <2>3
<1>3. ASSUME NEW g \in Gw, HostDel(g)
      PROVE  HostMirror'
  <2>1. /\ g \in DOMAIN neigh /\ neigh' = Drop(neigh, g) /\ host' = Drop(host, g)
        /\ ing' = Drop(ing, neigh[g]) /\ egr' = Drop(egr, neigh[g])
    BY <1>3 DEF HostDel, Written
  <2>2. \A h \in DOMAIN neigh \ {g} : neigh[h] # neigh[g]
    BY <2>1 DEF NhIInv, Owned, IsInjective
  <2> QED BY <2>1, <2>2 DEF HostMirror, Drop, Restrict
<1>4. ASSUME NEW a \in Own, NEW diag \in BOOLEAN, NEW at \in Ends, LocalHostAdd(a, diag, at)
      PROVE  HostMirror'
  <2>1. DOMAIN ing \subseteq DOMAIN ing' /\ DOMAIN egr \subseteq DOMAIN egr'
    BY <1>4 DEF LocalHostAdd, Put
  <2>2. neigh' = neigh /\ (host' = host \/ host' = Put(host, a, nhNext))
    BY <1>4 DEF LocalHostAdd
  <2>3. a \notin Gw
    BY FibAssumption
  <2>4. DOMAIN neigh \subseteq Gw
    BY DEF NhIInv
  <2> QED BY <2>1, <2>2, <2>3, <2>4 DEF HostMirror, Put
<1>5. ASSUME NEW p, NEW gws,
             RouteAddSingle(p, gws) \/ RouteAddEcmp(p, gws) \/ RouteDel(p)
      PROVE  HostMirror'
  BY <1>1, <1>5 DEF RouteAddSingle, RouteAddEcmp, RouteDel, nhVars, chipVars
<1>6. ASSUME NEW g, NEW p, NEW gws,
             HostDelUntracked(g) \/ RouteAddSkipped(p, gws) \/ RouteDelUntracked(p)
      PROVE  HostMirror'
  BY <1>1, <1>6 DEF HostDelUntracked, RouteAddSkipped, RouteDelUntracked, vars, nhVars, chipVars
<1>7. CASE UNCHANGED vars
  BY <1>1, <1>7 DEF vars, nhVars, chipVars
<1> QED BY <1>2, <1>3, <1>4, <1>5, <1>6, <1>7 DEF Next

\* l3_host_add and l3_host_del: as long as entries can be cleared and every
\* neighbour has a record, L3_ENTRY holds the recorded neighbours and no
\* other, each with a next-hop that names a port and a MAC, whichever of the
\* other writes fail.
THEOREM HostsMirrored ==
  ASSUME NeighRecords, "clear" \notin Faulty
  PROVE  Spec => []HostMirror
<1>1. HostMirror /\ NhIInv /\ [Next]_vars => HostMirror'
  BY HostStep
<1> QED BY <1>1, HostInit, NhInvariant, PTL DEF Spec
-----------------------------------------------------------------------------
(***************************************************************************)
(* The reference counts of the groups.                                     *)
(***************************************************************************)

\* Every group has a record, and its count is the number of the routes of r
\* that use it, plus one for a reference that the caller holds.
Exact(r, e, held) ==
  /\ DOMAIN e.grp = e.tab /\ held \subseteq e.tab
  /\ \A g \in e.tab :
       e.grp[g].ref = Cardinality(UsersOf(r, g)) + (IF g \in held THEN 1 ELSE 0)

\* Where the counts are exact there are no more groups than routes.
LEMMA FewGroups ==
  ASSUME NEW r, IsFiniteSet(DOMAIN r), NEW e, EcmpInv(e), Exact(r, e, {})
  PROVE  Cardinality(e.tab) <= Cardinality(DOMAIN r) /\ IsFiniteSet(e.tab)
<1> DEFINE user == [g \in e.tab |-> CHOOSE p \in DOMAIN r : p \in UsersOf(r, g)]
<1>1. ASSUME NEW g \in e.tab
      PROVE  user[g] \in DOMAIN r /\ user[g] \in UsersOf(r, g)
  <2>1. e.grp[g].ref \in Nat \ {0} /\ Cardinality(UsersOf(r, g)) \in Nat
    BY UsersCount DEF EcmpInv, EcmpType
  <2>2. Cardinality(UsersOf(r, g)) # 0
    BY <2>1 DEF Exact
  <2>3. UsersOf(r, g) # {}
    BY <2>2, FS_EmptySet
  <2>4. \E p \in DOMAIN r : p \in UsersOf(r, g)
    BY <2>3 DEF UsersOf
  <2> QED BY <2>4
<1>2. DOMAIN user = e.tab
  OBVIOUS
<1>3. user \in [e.tab -> DOMAIN r]
  BY <1>1
<1> HIDE DEF user
<1>4. IsInjective(user)
  BY <1>1, <1>2 DEF IsInjective, UsersOf
<1> QED BY <1>3, <1>4, FS_Injection DEF Injection

\* The reference that ecmp_group_ref returns is the caller's.
LEMMA ExactHeld ==
  ASSUME NEW r, IsFiniteSet(DOMAIN r), NEW e, EcmpInv(e), RefsOK(r, e, {}), Exact(r, e, {}),
         Cardinality(e.tab) < EcmpGrpMax,
         NEW f, NEW g, NEW sig, Refers(e, f, g, sig)
  PROVE  Exact(r, f, {g})
<1>1. DOMAIN f.grp = f.tab /\ {g} \subseteq f.tab
  BY DEF Exact, Refers
<1>2. ASSUME NEW h \in f.tab
      PROVE  f.grp[h].ref = Cardinality(UsersOf(r, h)) + (IF h \in {g} THEN 1 ELSE 0)
  <2>0. Cardinality(UsersOf(r, h)) \in Nat
    BY UsersCount
  <2>1. CASE h # g
    BY <2>0, <2>1 DEF Refers, Exact
  <2>2. CASE h = g /\ g \in e.tab
    BY <2>0, <2>2 DEF Refers, Exact
  <2>3. CASE h = g /\ g \notin e.tab
    <3>1. g \notin DOMAIN e.grp /\ f.grp[g].ref = 1
      BY <2>3 DEF Refers
    <3>2. UsersOf(r, h) = {}
      BY <2>3, <3>1 DEF UsersOf, RefsOK
    <3>3. Cardinality(UsersOf(r, h)) = 0
      BY <3>2, FS_EmptySet
    <3> QED BY <2>3, <3>1, <3>3
  <2> QED BY <2>1, <2>2, <2>3
<1> QED BY <1>1, <1>2 DEF Exact

\* What ecmp_group_unref leaves of the records where every group has one.
LEMMA ReleasedRecords ==
  ASSUME NEW e, EcmpInv(e), DOMAIN e.grp = e.tab, NEW g \in e.tab,
         NEW f, EcmpInv(f), Releases(e, f, g)
  PROVE  /\ DOMAIN f.grp = f.tab
         /\ \A h \in e.tab \ {g} : h \in f.tab /\ f.grp[h].ref = e.grp[h].ref
         /\ f.tab \subseteq e.tab
         /\ g \in f.tab <=> e.grp[g].ref > 1
         /\ g \in f.tab => f.grp[g].ref = e.grp[g].ref - 1
<1>1. f.tab \subseteq DOMAIN f.grp
  BY DEF EcmpInv, EcmpType
<1> QED BY <1>1 DEF Releases

\* A reference that is held is let go.
LEMMA ExactUnref ==
  ASSUME NEW r, IsFiniteSet(DOMAIN r), NEW e, EcmpInv(e), NEW g, Exact(r, e, {g}),
         NEW f, EcmpInv(f), Releases(e, f, g)
  PROVE  Exact(r, f, {})
<1>1. \A h \in e.tab : Cardinality(UsersOf(r, h)) \in Nat
  BY UsersCount
<1>2. g \in e.tab /\ DOMAIN e.grp = e.tab
  BY DEF Exact
<1>3. /\ DOMAIN f.grp = f.tab /\ f.tab \subseteq e.tab
      /\ \A h \in f.tab \ {g} : f.grp[h].ref = e.grp[h].ref
      /\ g \in f.tab => f.grp[g].ref = e.grp[g].ref - 1
  BY <1>2, ReleasedRecords
<1> QED BY <1>1, <1>2, <1>3 DEF Exact

\* A route that goes lets go of its group.
LEMMA ExactRouteUnref ==
  ASSUME NEW r, IsFiniteSet(DOMAIN r), NEW e, EcmpInv(e), NEW held, Exact(r, e, held),
         NEW p \in DOMAIN r, r[p].ecmp, r[p].ref \in e.tab,
         NEW f, EcmpInv(f), Releases(e, f, r[p].ref)
  PROVE  Exact(Drop(r, p), f, held)
<1> DEFINE g == r[p].ref
<1>1. \A h : UsersOf(Drop(r, p), h) = UsersOf(r, h) \ {p}
  BY UsersDrop
<1>2. \A h : h # g => UsersOf(r, h) \ {p} = UsersOf(r, h)
  BY DEF UsersOf
<1>3. /\ Cardinality(UsersOf(r, g)) \in Nat /\ Cardinality(UsersOf(r, g)) >= 1
      /\ Cardinality(UsersOf(r, g) \ {p}) = Cardinality(UsersOf(r, g)) - 1
  <2>1. p \in UsersOf(r, g)
    BY DEF UsersOf
  <2> QED BY <2>1, UsersCount
<1>4. /\ DOMAIN f.grp = f.tab /\ f.tab \subseteq e.tab
      /\ \A h \in e.tab \ {g} : h \in f.tab /\ f.grp[h].ref = e.grp[h].ref
      /\ g \in f.tab <=> e.grp[g].ref > 1
      /\ g \in f.tab => f.grp[g].ref = e.grp[g].ref - 1
  BY ReleasedRecords DEF Exact
<1>5. g \in held => g \in f.tab
  BY <1>3, <1>4 DEF Exact
<1>6. ASSUME NEW h \in f.tab
      PROVE  f.grp[h].ref = Cardinality(UsersOf(Drop(r, p), h)) + (IF h \in held THEN 1 ELSE 0)
  <2>1. CASE h # g
    <3>1. UsersOf(Drop(r, p), h) = UsersOf(r, h)
      BY <1>1, <1>2, <2>1
    <3> QED BY <1>4, <2>1, <3>1 DEF Exact
  <2>2. CASE h = g
    <3>1. e.grp[g].ref = Cardinality(UsersOf(r, g)) + (IF g \in held THEN 1 ELSE 0)
      BY DEF Exact
    <3>2. Cardinality(UsersOf(Drop(r, p), g)) = Cardinality(UsersOf(r, g)) - 1
      BY <1>1, <1>3
    <3> QED BY <1>3, <1>4, <2>2, <3>1, <3>2
  <2> QED BY <2>1, <2>2
<1>7. held \subseteq f.tab
  BY <1>4, <1>5 DEF Exact
<1> QED BY <1>4, <1>6, <1>7 DEF Exact

LEMMA ExactRouteDrop ==
  ASSUME NEW r, NEW e, NEW held, Exact(r, e, held), NEW p \in DOMAIN r, ~ r[p].ecmp
  PROVE  Exact(Drop(r, p), e, held)
<1>1. \A g : UsersOf(Drop(r, p), g) = UsersOf(r, g)
  <2>1. \A g : UsersOf(r, g) \ {p} = UsersOf(r, g)
    BY DEF UsersOf
  <2> QED BY <2>1, UsersDrop
<1> QED BY <1>1 DEF Exact

\* A new route takes over the reference that was held for it.
LEMMA ExactPut ==
  ASSUME NEW r, IsFiniteSet(DOMAIN r), NEW e, NEW x,
         Exact(r, e, IF x.ecmp THEN {x.ref} ELSE {}), NEW p, p \notin DOMAIN r
  PROVE  Exact(Put(r, p, x), e, {})
<1>1. ASSUME NEW g \in e.tab
      PROVE  e.grp[g].ref = Cardinality(UsersOf(Put(r, p, x), g)) + (IF g \in {} THEN 1 ELSE 0)
  <2>1. p \notin UsersOf(r, g) /\ UsersOf(r, g) \ {p} = UsersOf(r, g)
    BY DEF UsersOf
  <2>2. IsFiniteSet(UsersOf(r, g)) /\ Cardinality(UsersOf(r, g)) \in Nat
    BY UsersCount
  <2>3. CASE x.ecmp /\ x.ref = g
    <3>1. UsersOf(Put(r, p, x), g) = UsersOf(r, g) \cup {p}
      BY <2>3, UsersPut
    <3>2. Cardinality(UsersOf(r, g) \cup {p}) = Cardinality(UsersOf(r, g)) + 1
      BY <2>1, <2>2, FS_AddElement
    <3>3. e.grp[g].ref = Cardinality(UsersOf(r, g)) + 1
      BY <2>3 DEF Exact
    <3> QED BY <2>2, <3>1, <3>2, <3>3
  <2>4. CASE ~ (x.ecmp /\ x.ref = g)
    <3>1. UsersOf(Put(r, p, x), g) = UsersOf(r, g)
      BY <2>1, <2>4, UsersPut
    <3>2. e.grp[g].ref = Cardinality(UsersOf(r, g))
      <4>1. g \notin (IF x.ecmp THEN {x.ref} ELSE {})
        BY <2>4
      <4> QED BY <2>2, <4>1 DEF Exact
    <3> QED BY <2>2, <3>1, <3>2
  <2> QED BY <2>3, <2>4
<1> QED BY <1>1 DEF Exact

\* A prefix that is programmed is recorded.
LEMMA AlwaysRoom ==
  ASSUME RouteRecords, NEW p \in Dst, p \notin DOMAIN rt
  PROVE  RoomFor(p)
<1> DEFINE f == FamOf(p)
<1>1. f \in Fam /\ p \in FamDst(f)
  BY Families
<1>2. FamDst(f) \in SUBSET Dst
  BY DEF FamDst, Dst
<1> HIDE DEF f
<1>3. IsFiniteSet(FamDst(f)) /\ RouteMax[f] \in Nat
  BY <1>1, <1>2, FS_Subset, FibAssumption
<1>4. Cardinality(DOMAIN rt \cap FamDst(f)) < RouteMax[f]
  BY <1>1, <1>3, OneLeft DEF RouteRecords
<1> QED BY <1>4 DEF RoomFor, f

\* Letting go of the group of x, if x has one.
LEMMA LetGoExact ==
  ASSUME NEW e, EcmpInv(e), DOMAIN e.grp = e.tab, NEW x, NEW f \in LetGo(e, x),
         x.ecmp => x.ref \in e.tab
  PROVE  /\ EcmpInv(f)
         /\ IF x.ecmp THEN Releases(e, f, x.ref) ELSE f = e
<1>1. CASE x.ecmp
  BY <1>1, LetGoReleases
<1>2. CASE ~ x.ecmp
  BY <1>2 DEF LetGo
<1> QED BY <1>1, <1>2

\* The end of l3_route_add_paths keeps the counts exact.
LEMMA ProgramExact ==
  ASSUME RouteRecords, EcmpIInv, NEW p \in Dst, NEW r, NEW e, EcmpInv(e),
         Exact(rt, e, IF r.ecmp THEN {r.ref} ELSE {}),
         RefsOK(rt, e, IF r.ecmp THEN {r.ref} ELSE {}),
         Program(p, r, e)
  PROVE  Exact(rt', ecmp', {})
<1> DEFINE held == IF r.ecmp THEN {r.ref} ELSE {}
           f    == ecmp'
<1>0. IsFiniteSet(DOMAIN rt) /\ DOMAIN e.grp = e.tab
  BY FibAssumption, FS_Subset DEF EcmpIInv, Exact
<1>1. CASE Replace(p, r, e)
  <2> DEFINE new == AtSlot(rt[p].slot, r)
             d   == Drop(rt, p)
  <2>1. p \in DOMAIN rt /\ f \in LetGo(e, rt[p]) /\ rt' = Put(rt, p, new)
    BY <1>1 DEF Replace
  <2>2. new.ecmp = r.ecmp /\ new.ref = r.ref
    BY DEF AtSlot
  <2> HIDE DEF new, f
  <2>3. rt' = Put(d, p, new) /\ p \notin DOMAIN d /\ DOMAIN d \in SUBSET DOMAIN rt
    BY <2>1 DEF Put, Drop, Restrict
  <2>4. rt[p].ecmp => rt[p].ref \in e.tab
    BY <1>0, <2>1 DEF RefsOK
  <2>5. EcmpInv(f) /\ IF rt[p].ecmp THEN Releases(e, f, rt[p].ref) ELSE f = e
    BY <1>0, <2>1, <2>4, LetGoExact
  <2>6. Exact(d, f, held)
    <3>1. CASE rt[p].ecmp
      BY <1>0, <2>1, <2>4, <2>5, <3>1, ExactRouteUnref
    <3>2. CASE ~ rt[p].ecmp
      BY <2>1, <2>5, <3>2, ExactRouteDrop
    <3> QED BY <3>1, <3>2
  <2> HIDE DEF d
  <2>7. IsFiniteSet(DOMAIN d) /\ Exact(d, f, IF new.ecmp THEN {new.ref} ELSE {})
    BY <1>0, <2>2, <2>3, <2>6, FS_Subset
  <2>8. Exact(Put(d, p, new), f, {})
    BY <2>3, <2>7, ExactPut
  <2> QED BY <2>3, <2>8 DEF f
<1>2. CASE Insert(p, r, e)
  <2> DEFINE new == AtSlot(NextSlot(FamOf(p)), r)
  <2>1. p \notin DOMAIN rt /\ ecmp' = e /\ rt' = Put(rt, p, new)
    BY <1>2, AlwaysRoom DEF Insert
  <2>2. new.ecmp = r.ecmp /\ new.ref = r.ref
    BY DEF AtSlot
  <2> HIDE DEF new
  <2>3. Exact(rt, e, IF new.ecmp THEN {new.ref} ELSE {})
    BY <2>2
  <2> QED BY <1>0, <2>1, <2>3, ExactPut
<1>3. CASE NoSlot(p, r, e)
  <2>1. f \in LetGo(e, r) /\ rt' = rt
    BY <1>3 DEF NoSlot, rtVars
  <2>2. r.ecmp => r.ref \in e.tab
    BY DEF Exact
  <2> HIDE DEF f
  <2>3. EcmpInv(f) /\ IF r.ecmp THEN Releases(e, f, r.ref) ELSE f = e
    BY <1>0, <2>1, <2>2, LetGoExact
  <2>4. CASE r.ecmp
    BY <1>0, <2>1, <2>3, <2>4, ExactUnref DEF f
  <2>5. CASE ~ r.ecmp
    BY <2>1, <2>3, <2>5 DEF f
  <2> QED BY <2>4, <2>5
<1> QED BY <1>1, <1>2, <1>3 DEF Program

LEMMA ExactStep ==
  ASSUME RouteRecords, GroupRecords, EcmpIInv, Exact(rt, ecmp, {}), [Next]_vars
  PROVE  Exact(rt', ecmp', {})
<1>0. /\ IsFiniteSet(DOMAIN rt) /\ EcmpInv(ecmp) /\ RefsOK(rt, ecmp, {})
      /\ DOMAIN ecmp.grp = ecmp.tab
  BY FibAssumption, FS_Subset DEF EcmpIInv, Exact
<1>1. ASSUME UNCHANGED <<rt, ecmp>> PROVE Exact(rt', ecmp', {})
  BY <1>1
<1>2. ASSUME NEW g \in Gw, NEW s \in Station, NEW at \in Ends, HostAdd(g, s, at)
      PROVE  Exact(rt', ecmp', {})
  BY <1>1, <1>2 DEF HostAdd, rtVars
<1>3. ASSUME NEW g \in Gw, HostDel(g) \/ HostDelUntracked(g)
      PROVE  Exact(rt', ecmp', {})
  BY <1>1, <1>3 DEF HostDel, HostDelUntracked, vars, rtVars
<1>4. ASSUME NEW a \in Own, NEW diag \in BOOLEAN, NEW at \in Ends, LocalHostAdd(a, diag, at)
      PROVE  Exact(rt', ecmp', {})
  BY <1>1, <1>4 DEF LocalHostAdd, rtVars
<1>5. ASSUME NEW p \in Dst, NEW gws, RouteAddSingle(p, gws)
      PROVE  Exact(rt', ecmp', {})
  <2>1. PICK nh : Program(p, [ecmp |-> FALSE, ref |-> nh, sig |-> PathSig(gws)], ecmp)
    BY <1>5 DEF RouteAddSingle
  <2> DEFINE r == [ecmp |-> FALSE, ref |-> nh, sig |-> PathSig(gws)]
  <2>2. r.ecmp = FALSE /\ Program(p, r, ecmp)
    BY <2>1
  <2> HIDE DEF r
  <2>3. /\ Exact(rt, ecmp, IF r.ecmp THEN {r.ref} ELSE {})
        /\ RefsOK(rt, ecmp, IF r.ecmp THEN {r.ref} ELSE {})
    BY <1>0, <2>2
  <2> QED BY <1>0, <2>2, <2>3, ProgramExact
<1>6. ASSUME NEW p \in Dst, NEW gws \in GwLists(FamOf(p)), RouteAddEcmp(p, gws)
      PROVE  Exact(rt', ecmp', {})
  <2> DEFINE n   == Cardinality(Resolved(gws))
             sig == PathSig(gws)
  <2>1. n \in Nat
    BY ResolvedCount DEF GwLists
  <2>2. n > 1 /\ n = sig.size
    BY <1>6 DEF RouteAddEcmp, PathSig
  <2> HIDE DEF n, sig
  <2>3. PICK w \in Writes(n) :
          LET g == Ref(ecmp, sig, n, w) IN
          IF g.gid = NoGid THEN NoGroup(g.e)
          ELSE Program(p, [ecmp |-> TRUE, ref |-> g.gid, sig |-> sig], g.e)
    BY <1>6 DEF RouteAddEcmp, n, sig
  <2>4. w \in 0..(n + 1)
    BY <2>1 DEF Writes
  <2> DEFINE e   == Ref(ecmp, sig, n, w).e
             gid == Ref(ecmp, sig, n, w).gid
  <2>5. /\ EcmpInv(e)
        /\ \/ gid = NoGid /\ SameTables(ecmp, e)
           \/ gid \in Nat /\ Refers(ecmp, e, gid, sig)
    <3>1. n \in Nat \ {0}
      BY <2>1, <2>2
    <3> QED BY <1>0, <2>2, <2>4, <3>1, RefContract
  <2> HIDE DEF e, gid
  <2>6. CASE gid = NoGid
    <3>1. ecmp' = e /\ rt' = rt
      BY <2>3, <2>6 DEF NoGroup, rtVars, e, gid
    <3>2. SameTables(ecmp, e)
      BY <2>5, <2>6 DEF NoGid
    <3> QED BY <3>1, <3>2 DEF Exact, SameTables
  <2>7. CASE gid # NoGid
    <3> DEFINE r == [ecmp |-> TRUE, ref |-> gid, sig |-> sig]
    <3>1. Program(p, r, e)
      BY <2>3, <2>7 DEF e, gid
    <3>2. r.ecmp = TRUE /\ r.ref = gid
      OBVIOUS
    <3> HIDE DEF r
    <3>3. Refers(ecmp, e, gid, sig)
      BY <2>5, <2>7
    <3>4. Cardinality(ecmp.tab) < EcmpGrpMax
      <4>1. Cardinality(ecmp.tab) <= Cardinality(DOMAIN rt) /\ IsFiniteSet(ecmp.tab)
        BY <1>0, FewGroups
      <4>2. Cardinality(DOMAIN rt) <= Cardinality(Dst) /\ IsFiniteSet(Dst)
        BY FibAssumption, FS_Subset DEF EcmpIInv
      <4>3. /\ Cardinality(ecmp.tab) \in Nat /\ Cardinality(DOMAIN rt) \in Nat
            /\ Cardinality(Dst) \in Nat /\ EcmpGrpMax \in Nat
        BY <1>0, <4>1, <4>2, FS_CardinalityType, EcmpAssumption
      <4> QED BY <4>1, <4>2, <4>3 DEF GroupRecords
    <3>5. Exact(rt, e, {gid}) /\ RefsOK(rt, e, {gid})
      BY <1>0, <3>3, <3>4, ExactHeld, RefHeld
    <3>6. /\ Exact(rt, e, IF r.ecmp THEN {r.ref} ELSE {})
          /\ RefsOK(rt, e, IF r.ecmp THEN {r.ref} ELSE {})
      BY <3>2, <3>5
    <3> QED BY <2>5, <3>1, <3>6, ProgramExact
  <2> QED BY <2>6, <2>7
<1>7. ASSUME NEW p \in Dst, RouteDel(p)
      PROVE  Exact(rt', ecmp', {})
  <2> DEFINE f == ecmp'
  <2>1. p \in DOMAIN rt /\ f \in LetGo(ecmp, rt[p]) /\ rt' = Drop(rt, p)
    BY <1>7 DEF RouteDel
  <2> HIDE DEF f
  <2>2. rt[p].ecmp => rt[p].ref \in ecmp.tab
    BY <1>0, <2>1 DEF RefsOK
  <2>3. EcmpInv(f) /\ IF rt[p].ecmp THEN Releases(ecmp, f, rt[p].ref) ELSE f = ecmp
    BY <1>0, <2>1, <2>2, LetGoExact
  <2>4. CASE rt[p].ecmp
    BY <1>0, <2>1, <2>2, <2>3, <2>4, ExactRouteUnref DEF f
  <2>5. CASE ~ rt[p].ecmp
    BY <2>1, <2>3, <2>5, ExactRouteDrop DEF f
  <2> QED BY <2>4, <2>5
<1>8. ASSUME NEW p, NEW gws, RouteAddSkipped(p, gws) \/ RouteDelUntracked(p)
      PROVE  Exact(rt', ecmp', {})
  BY <1>1, <1>8 DEF RouteAddSkipped, RouteDelUntracked, vars, rtVars
<1>9. CASE UNCHANGED vars
  BY <1>1, <1>9 DEF vars, rtVars
<1> QED BY <1>2, <1>3, <1>4, <1>5, <1>6, <1>7, <1>8, <1>9 DEF Next

\* ecmp_group_ref and ecmp_group_unref: as long as the records suffice, the
\* count of a group is the number of its routes, and no group outlives them,
\* whichever chip write fails.
THEOREM CountsExact ==
  ASSUME RouteRecords, GroupRecords
  PROVE  Spec => []RefCountExact
<1> DEFINE I == Exact(rt, ecmp, {})
<1>1. Init => I
  BY DEF Init, EcmpInit, Exact
<1>2. I /\ EcmpIInv /\ [Next]_vars => I'
  BY ExactStep
<1>3. I /\ EcmpIInv => RefCountExact
  <2> SUFFICES ASSUME I, EcmpIInv PROVE RefCountExact
    OBVIOUS
  <2>1. ASSUME NEW g \in ecmp.tab
        PROVE  ecmp.grp[g].ref = Cardinality(Users(g)) /\ ecmp.grp[g].ref > 0
    <3>1. ecmp.grp[g].ref \in Nat \ {0} /\ IsFiniteSet(DOMAIN rt)
      BY FibAssumption, FS_Subset DEF EcmpIInv, EcmpInv, EcmpType
    <3>2. Cardinality(UsersOf(rt, g)) \in Nat
      BY <3>1, UsersCount
    <3> QED BY <3>1, <3>2 DEF Exact, Users
  <2> QED BY <2>1 DEF Exact, RefCountExact
<1> HIDE DEF I
<1> QED BY <1>1, <1>2, <1>3, EcmpInvariant, PTL DEF Spec
-----------------------------------------------------------------------------
(***************************************************************************)
(* The DEFIP tables are the route table.                                   *)
(***************************************************************************)

\* The IPv4 transit slots do not run into the slots of own addresses.
BandSuffices == TransitBase + Cardinality(Dst4) <= LocalBase

RoutesOf(r, f) == DOMAIN r \cap FamDst(f)

\* The table t of family f has the routes of r, and no transit entry else.
MirrorOf(r, t, f) ==
  /\ \A p \in RoutesOf(r, f) : r[p].slot \in DOMAIN t /\ t[r[p].slot] = Entry(p, r[p])
  /\ \A s \in DOMAIN t : t[s].dst \in Dst => \E p \in RoutesOf(r, f) : r[p].slot = s

\* A write of the entry of p to a slot that no other route has.
LEMMA MirrorPut ==
  ASSUME NEW r, NEW t, NEW f \in Fam, MirrorOf(r, t, f), NEW p \in FamDst(f), NEW s, NEW x,
         p \in DOMAIN r => r[p].slot = s,
         \A q \in RoutesOf(r, f) \ {p} : r[q].slot # s
  PROVE  MirrorOf(Put(r, p, AtSlot(s, x)), Put(t, s, Entry(p, x)), f)
<1> DEFINE r2 == Put(r, p, AtSlot(s, x))
           t2 == Put(t, s, Entry(p, x))
<1>1. /\ RoutesOf(r2, f) = RoutesOf(r, f) \cup {p}
      /\ r2[p] = AtSlot(s, x) /\ \A q \in DOMAIN r \ {p} : r2[q] = r[q]
  BY DEF RoutesOf, Put
<1>2. /\ DOMAIN t2 = DOMAIN t \cup {s} /\ t2[s] = Entry(p, x)
      /\ \A i \in DOMAIN t \ {s} : t2[i] = t[i]
  BY DEF Put
<1>3. AtSlot(s, x).slot = s /\ Entry(p, AtSlot(s, x)) = Entry(p, x)
  BY DEF AtSlot, Entry
<1> HIDE DEF r2, t2
<1>4. \A q \in RoutesOf(r2, f) : r2[q].slot \in DOMAIN t2 /\ t2[r2[q].slot] = Entry(q, r2[q])
  <2> TAKE q \in RoutesOf(r2, f)
  <2>1. CASE q = p
    BY <1>1, <1>2, <1>3, <2>1
  <2>2. CASE q # p
    <3>1. q \in RoutesOf(r, f) /\ r2[q] = r[q]
      BY <1>1, <2>2 DEF RoutesOf
    <3> QED BY <1>2, <2>2, <3>1 DEF MirrorOf
  <2> QED BY <2>1, <2>2
<1>5. \A i \in DOMAIN t2 : t2[i].dst \in Dst => \E q \in RoutesOf(r2, f) : r2[q].slot = i
  <2> SUFFICES ASSUME NEW i \in DOMAIN t2, t2[i].dst \in Dst
               PROVE  \E q \in RoutesOf(r2, f) : r2[q].slot = i
    OBVIOUS
  <2>1. CASE i = s
    BY <1>1, <1>3, <2>1
  <2>2. CASE i # s
    <3>1. PICK q \in RoutesOf(r, f) : r[q].slot = i
      BY <1>2, <2>2 DEF MirrorOf
    <3>2. q # p
      BY <2>2, <3>1 DEF RoutesOf
    <3> QED BY <1>1, <3>1, <3>2 DEF RoutesOf
  <2> QED BY <2>1, <2>2
<1> QED BY <1>4, <1>5 DEF MirrorOf, r2, t2

\* The entry of p is cleared.
LEMMA MirrorDrop ==
  ASSUME NEW r, NEW t, NEW f \in Fam, MirrorOf(r, t, f), NEW p \in RoutesOf(r, f),
         \A q \in RoutesOf(r, f) \ {p} : r[q].slot # r[p].slot
  PROVE  MirrorOf(Drop(r, p), Drop(t, r[p].slot), f)
<1>1. /\ RoutesOf(Drop(r, p), f) = RoutesOf(r, f) \ {p}
      /\ \A q \in RoutesOf(r, f) \ {p} : Drop(r, p)[q] = r[q]
  BY DEF RoutesOf, Drop, Restrict
<1>2. /\ DOMAIN Drop(t, r[p].slot) = DOMAIN t \ {r[p].slot}
      /\ \A s \in DOMAIN t \ {r[p].slot} : Drop(t, r[p].slot)[s] = t[s]
  BY DEF Drop, Restrict
<1> QED BY <1>1, <1>2 DEF MirrorOf

\* Routes and entries that stay, next to entries that are no transit routes.
LEMMA MirrorSame ==
  ASSUME NEW r, NEW t, NEW f \in Fam, MirrorOf(r, t, f), NEW r2, NEW t2,
         RoutesOf(r2, f) = RoutesOf(r, f), \A p \in RoutesOf(r, f) : r2[p] = r[p],
         \A p \in RoutesOf(r, f) : r[p].slot \in DOMAIN t2 /\ t2[r[p].slot] = t[r[p].slot],
         \A s \in DOMAIN t2 : t2[s].dst \in Dst => s \in DOMAIN t /\ t2[s] = t[s]
  PROVE  MirrorOf(r2, t2, f)
BY DEF MirrorOf

\* The other family's routes and table.
LEMMA MirrorOther ==
  ASSUME NEW r, NEW t, NEW f \in Fam, MirrorOf(r, t, f), NEW p, p \notin FamDst(f)
  PROVE  MirrorOf(Drop(r, p), t, f) /\ \A x : MirrorOf(Put(r, p, x), t, f)
<1>1. /\ RoutesOf(Drop(r, p), f) = RoutesOf(r, f)
      /\ \A q \in RoutesOf(r, f) : Drop(r, p)[q] = r[q]
  BY DEF RoutesOf, Drop, Restrict
<1>2. ASSUME NEW x
      PROVE  /\ RoutesOf(Put(r, p, x), f) = RoutesOf(r, f)
             /\ \A q \in RoutesOf(r, f) : Put(r, p, x)[q] = r[q]
  BY DEF RoutesOf, Put
<1> QED BY <1>1, <1>2 DEF MirrorOf

\* No slot is ever lost: those created are free or a route's; and where every
\* prefix has a record, no more are created than there are prefixes.
FirstSlot(f) == IF f = "v4" THEN TransitBase ELSE 0

SlotsKept ==
  \A f \in Fam :
    /\ defipNext[f] = FirstSlot(f) + Len(defipFree[f]) + Cardinality(RoutesOf(rt, f))
    /\ defipNext[f] <= FirstSlot(f) + Cardinality(FamDst(f))

\* The routes of a family are finitely many, as its prefixes are.
LEMMA RoutesFinite ==
  ASSUME NEW r, NEW f \in Fam
  PROVE  /\ IsFiniteSet(RoutesOf(r, f)) /\ Cardinality(RoutesOf(r, f)) \in Nat
         /\ Cardinality(FamDst(f)) \in Nat
         /\ Cardinality(RoutesOf(r, f)) <= Cardinality(FamDst(f))
<1>1. FamDst(f) \in SUBSET Dst /\ RoutesOf(r, f) \in SUBSET FamDst(f)
  BY DEF FamDst, Dst, RoutesOf
<1>2. IsFiniteSet(FamDst(f)) /\ IsFiniteSet(RoutesOf(r, f))
  BY <1>1, FibAssumption, FS_Subset
<1> QED BY <1>1, <1>2, FS_Subset, FS_CardinalityType

LEMMA KeptInit == Init => SlotsKept
<1> SUFFICES ASSUME Init, NEW f \in Fam
             PROVE  /\ defipNext[f] = FirstSlot(f) + Len(defipFree[f]) + Cardinality(RoutesOf(rt, f))
                    /\ defipNext[f] <= FirstSlot(f) + Cardinality(FamDst(f))
  BY DEF SlotsKept
<1>1. defipNext[f] = FirstSlot(f) /\ defipFree[f] = <<>> /\ RoutesOf(rt, f) = {}
  BY DEF Init, FirstSlot, RoutesOf, Fam
<1>2. Cardinality({}) = 0 /\ Len(<<>>) = 0 /\ FirstSlot(f) \in Nat
  BY FS_EmptySet, FibAssumption DEF FirstSlot
<1>3. Cardinality(FamDst(f)) \in Nat
  BY RoutesFinite
<1> QED BY <1>1, <1>2, <1>3

LEMMA KeptStep ==
  ASSUME RouteRecords, SlotIInv, SlotsKept, [Next]_vars
  PROVE  SlotsKept'
<1> SUFFICES ASSUME NEW f \in Fam
             PROVE  /\ defipNext'[f] = FirstSlot(f) + Len(defipFree'[f]) + Cardinality(RoutesOf(rt', f))
                    /\ defipNext'[f] <= FirstSlot(f) + Cardinality(FamDst(f))
  BY DEF SlotsKept
<1> DEFINE n == Cardinality(RoutesOf(rt, f))
           m == Cardinality(RoutesOf(rt', f))
<1>1. /\ defipNext[f] = FirstSlot(f) + Len(defipFree[f]) + n
      /\ defipNext[f] <= FirstSlot(f) + Cardinality(FamDst(f))
  BY DEF SlotsKept
<1>2. /\ defipFree[f] \in Seq(Nat) /\ Len(defipFree[f]) \in Nat
      /\ defipNext[f] \in Nat /\ FirstSlot(f) \in Nat
      /\ Len(defipFree[f]) + n <= RouteMax[f] /\ RouteMax[f] \in Nat
  <2>1. defipFree[f] \in Seq(Nat) /\ defipNext[f] \in Nat
    BY DEF SlotIInv, SlotType
  <2>2. Len(defipFree[f]) + n <= RouteMax[f]
    BY DEF SlotIInv, Room, SlotsOf, RoutesOf
  <2> QED BY <2>1, <2>2, FibAssumption, LenProperties DEF FirstSlot
<1>3. /\ n \in Nat /\ m \in Nat /\ Cardinality(FamDst(f)) \in Nat
      /\ m <= Cardinality(FamDst(f)) /\ IsFiniteSet(RoutesOf(rt, f))
  BY RoutesFinite
<1>4. \A r : DOMAIN SlotsOf(r, f) = RoutesOf(r, f)
  BY DEF SlotsOf, RoutesOf
<1>5. SlotChange(f)
  BY SlotSteps
<1>6. CASE SlotKeeps(f)
  <2>1. RoutesOf(rt', f) = RoutesOf(rt, f)
    BY <1>4, <1>6 DEF SlotKeeps, Same
  <2> QED BY <1>1, <1>6, <2>1 DEF SlotKeeps
<1>7. ~ SlotWasted(f)
  <2>1. \A p \in FamDst(f) : p \in Dst
    BY DEF FamDst, Dst
  <2> QED BY <2>1, AlwaysRoom DEF SlotWasted
<1>8. ASSUME NEW p \in Dst, SlotRecorded(f, p)
      PROVE  /\ defipNext'[f] = FirstSlot(f) + Len(defipFree'[f]) + m
             /\ defipNext'[f] <= FirstSlot(f) + Cardinality(FamDst(f))
  <2>1. RoutesOf(rt', f) = RoutesOf(rt, f) \cup {p} /\ p \notin RoutesOf(rt, f)
    BY <1>4, <1>8 DEF SlotRecorded, Put, RoutesOf
  <2>2. m = n + 1
    BY <1>3, <2>1, FS_AddElement
  <2> HIDE DEF n, m
  <2>3. CASE defipFree[f] # <<>>
    <3>1. defipNext'[f] = defipNext[f] /\ defipFree'[f] = Front(defipFree[f])
      BY <1>8, <2>3 DEF SlotRecorded, TakesSlot, Takes
    <3>2. Len(Front(defipFree[f])) = Len(defipFree[f]) - 1
      BY <1>2, <2>3, PopSeq
    <3>3. defipNext'[f] = defipNext[f] /\ Len(defipFree'[f]) = Len(defipFree[f]) - 1
      BY <3>1, <3>2
    <3> QED BY <1>1, <1>2, <1>3, <2>2, <3>3
  <2>4. CASE defipFree[f] = <<>>
    <3>1. defipNext'[f] = defipNext[f] + 1 /\ defipFree'[f] = <<>> /\ Len(<<>>) = 0
      BY <1>8, <2>4 DEF SlotRecorded, TakesSlot, Takes
    <3> QED BY <1>1, <1>2, <1>3, <2>2, <2>4, <3>1
  <2> QED BY <2>3, <2>4
<1>9. ASSUME NEW p \in Dst, SlotReleased(f, p)
      PROVE  /\ defipNext'[f] = FirstSlot(f) + Len(defipFree'[f]) + m
             /\ defipNext'[f] <= FirstSlot(f) + Cardinality(FamDst(f))
  <2> DEFINE x == SlotsOf(rt, f)[p]
  <2>1. RoutesOf(rt', f) = RoutesOf(rt, f) \ {p} /\ p \in RoutesOf(rt, f)
    BY <1>4, <1>9 DEF SlotReleased, Drop, Restrict
  <2>2. m = n - 1
    BY <1>3, <2>1, FS_RemoveElement
  <2>3. x \in Nat
    BY <1>4, <2>1 DEF SlotIInv, Owned
  <2>4. defipNext'[f] = defipNext[f] /\ defipFree'[f] = Push(defipFree[f], x, RouteMax[f])
    BY <1>9 DEF SlotReleased
  <2> HIDE DEF n, m, x
  <2>5. Len(defipFree[f]) < RouteMax[f]
    BY <1>2, <1>3, <2>2
  <2>6. Len(Push(defipFree[f], x, RouteMax[f])) = Len(defipFree[f]) + 1
    BY <1>2, <2>3, <2>5, AppendProperties DEF Push
  <2> QED BY <1>1, <1>2, <1>3, <2>2, <2>4, <2>6
<1> QED BY <1>5, <1>6, <1>7, <1>8, <1>9 DEF SlotChange

\* The chip's tables mirror the routes, and own addresses have slots of their
\* own, above the transit band.
DefipIInv ==
  /\ \A f \in Fam : MirrorOf(rt, defip[f], f)
  /\ LocalBase <= localNext

\* A slot is one route's, and the next one to be taken is nobody's.
LEMMA SlotsApart ==
  ASSUME SlotIInv, NEW f \in Fam, NEW p \in RoutesOf(rt, f)
  PROVE  /\ rt[p].slot \in Nat /\ rt[p].slot < defipNext[f] /\ rt[p].slot # NextSlot(f)
         /\ \A q \in RoutesOf(rt, f) \ {p} : rt[q].slot # rt[p].slot
<1>1. Owned(0, defipNext[f], defipFree[f], SlotsOf(rt, f)) /\ defipFree[f] \in Seq(Nat)
  BY DEF SlotIInv, SlotType
<1>2. DOMAIN SlotsOf(rt, f) = RoutesOf(rt, f) /\ \A q \in RoutesOf(rt, f) : SlotsOf(rt, f)[q] = rt[q].slot
  BY DEF SlotsOf, RoutesOf
<1>3. /\ rt[p].slot \in 0..(defipNext[f] - 1) /\ rt[p].slot \notin ToSet(defipFree[f])
      /\ defipNext[f] \in Nat
  BY <1>1, <1>2 DEF Owned
<1>4. rt[p].slot # NextSlot(f)
  BY <1>1, <1>3, PopSeq DEF NextSlot
<1>5. \A q \in RoutesOf(rt, f) \ {p} : rt[q].slot # rt[p].slot
  BY <1>1, <1>2 DEF Owned, IsInjective
<1> QED BY <1>3, <1>4, <1>5

\* What l3_route_add_paths writes last.
LEMMA ProgramMirror ==
  ASSUME RouteRecords, "defip" \notin Faulty, DOMAIN defip = Fam, SlotIInv,
         \A f \in Fam : MirrorOf(rt, defip[f], f),
         NEW p \in Dst, NEW r, NEW e, Program(p, r, e), NEW f \in Fam
  PROVE  MirrorOf(rt', defip'[f], f)
<1> DEFINE fp == FamOf(p)
<1>0. fp \in Fam /\ p \in FamDst(fp) /\ (f # fp => p \notin FamDst(f))
  BY Families
<1>1. ASSUME NEW s, rt' = Put(rt, p, AtSlot(s, r)), WriteDefip(fp, s, Entry(p, r)),
             p \in DOMAIN rt => rt[p].slot = s,
             \A q \in RoutesOf(rt, fp) \ {p} : rt[q].slot # s
      PROVE  MirrorOf(rt', defip'[f], f)
  <2> HIDE DEF fp
  <2>1. defip' = [defip EXCEPT ![fp] = Put(defip[fp], s, Entry(p, r))]
    BY <1>1 DEF WriteDefip, Written
  <2>2. CASE f = fp
    <3>1. defip'[f] = Put(defip[f], s, Entry(p, r))
      BY <1>0, <2>1, <2>2
    <3>2. MirrorOf(Put(rt, p, AtSlot(s, r)), Put(defip[f], s, Entry(p, r)), f)
      BY <1>0, <1>1, <2>2, MirrorPut
    <3> QED BY <1>1, <3>1, <3>2
  <2>3. CASE f # fp
    <3>1. defip'[f] = defip[f]
      BY <1>0, <2>1, <2>3
    <3>2. MirrorOf(Put(rt, p, AtSlot(s, r)), defip[f], f)
      BY <1>0, <2>3, MirrorOther
    <3> QED BY <1>1, <3>1, <3>2
  <2> QED BY <2>2, <2>3
<1> HIDE DEF fp
<1>2. CASE Replace(p, r, e)
  <2>1. /\ p \in DOMAIN rt /\ rt' = Put(rt, p, AtSlot(rt[p].slot, r))
        /\ WriteDefip(fp, AtSlot(rt[p].slot, r).slot, Entry(p, r))
    BY <1>2 DEF Replace, fp
  <2>2. AtSlot(rt[p].slot, r).slot = rt[p].slot
    BY DEF AtSlot
  <2>3. p \in RoutesOf(rt, fp)
    BY <1>0, <2>1 DEF RoutesOf
  <2>4. \A q \in RoutesOf(rt, fp) \ {p} : rt[q].slot # rt[p].slot
    BY <1>0, <2>3, SlotsApart
  <2> QED BY <1>1, <2>1, <2>2, <2>4
<1>3. CASE Insert(p, r, e)
  <2>1. /\ p \notin DOMAIN rt /\ rt' = Put(rt, p, AtSlot(NextSlot(fp), r))
        /\ WriteDefip(fp, AtSlot(NextSlot(fp), r).slot, Entry(p, r))
    BY <1>3, AlwaysRoom DEF Insert, fp
  <2>2. AtSlot(NextSlot(fp), r).slot = NextSlot(fp)
    BY DEF AtSlot
  <2>3. \A q \in RoutesOf(rt, fp) : rt[q].slot # NextSlot(fp)
    BY <1>0, SlotsApart
  <2> QED BY <1>1, <2>1, <2>2, <2>3
<1>4. CASE NoSlot(p, r, e)
  BY <1>4 DEF NoSlot, rtVars
<1> QED BY <1>2, <1>3, <1>4 DEF Program

LEMMA DefipStep ==
  ASSUME RouteRecords, BandSuffices, "defip" \notin Faulty, "clear" \notin Faulty,
         TableType, SlotIInv, SlotsKept, DefipIInv, [Next]_vars
  PROVE  DefipIInv'
<1>0. DOMAIN defip = Fam /\ LocalBase <= localNext /\ localNext \in Nat /\ LocalBase \in Nat
  BY FibAssumption DEF TableType, DefipIInv
<1>1. ASSUME UNCHANGED <<rt, defip, localNext>> PROVE DefipIInv'
  BY <1>1 DEF DefipIInv
<1>2. ASSUME localNext' = localNext, \A f \in Fam : MirrorOf(rt', defip'[f], f) PROVE DefipIInv'
  BY <1>2 DEF DefipIInv
<1>3. ASSUME NEW g \in Gw, NEW s \in Station, NEW at \in Ends, HostAdd(g, s, at)
      PROVE  DefipIInv'
  BY <1>1, <1>3 DEF HostAdd, rtVars
<1>4. ASSUME NEW g \in Gw, HostDel(g) \/ HostDelUntracked(g)
      PROVE  DefipIInv'
  BY <1>1, <1>4 DEF HostDel, HostDelUntracked, vars, rtVars
<1>5. ASSUME NEW a \in Own, NEW diag \in BOOLEAN, NEW at \in Ends, LocalHostAdd(a, diag, at)
      PROVE  DefipIInv'
  <2>1. CASE at \in {"ing", "egr"}
    BY <1>1, <1>5, <2>1 DEF LocalHostAdd, rtVars
  <2>2. CASE at \notin {"ing", "egr"}
    <3> DEFINE entry == [dst |-> a, ecmp |-> FALSE, ref |-> nhNext]
               slots == {localNext} \cup (IF diag THEN {DiagSlot} ELSE {})
               new(ok) == [x \in DOMAIN defip["v4"] \cup ok |->
                             IF x \in ok THEN entry ELSE defip["v4"][x]]
    <3>1. rt' = rt /\ localNext' = localNext + 1
      BY <1>5, <2>2 DEF LocalHostAdd, rtVars
    <3>2. PICK ok \in SUBSET slots : defip' = [defip EXCEPT !["v4"] = new(ok)]
      BY <1>5, <2>2 DEF LocalHostAdd
    <3>3. /\ DOMAIN new(ok) = DOMAIN defip["v4"] \cup ok
          /\ \A x \in ok : new(ok)[x].dst = a
          /\ \A x \in DOMAIN defip["v4"] \ ok : new(ok)[x] = defip["v4"][x]
      OBVIOUS
    <3>4. \A x \in ok : LocalBase <= x /\ x \in Nat
      BY <1>0, FibAssumption
    <3>5. a \notin Dst /\ "v4" \in Fam
      BY FibAssumption DEF Fam
    <3> HIDE DEF new, slots
    <3>6. \A p \in RoutesOf(rt, "v4") : rt[p].slot \notin ok
      <4> SUFFICES ASSUME NEW p \in RoutesOf(rt, "v4")
                   PROVE  rt[p].slot \in Nat /\ rt[p].slot < LocalBase
        BY <1>0, <3>4
      <4>1. rt[p].slot \in Nat /\ rt[p].slot < defipNext["v4"]
        BY <3>5, SlotsApart
      <4>2. defipNext["v4"] <= TransitBase + Cardinality(Dst4) /\ defipNext["v4"] \in Nat
        BY <3>5 DEF SlotsKept, FirstSlot, FamDst, SlotIInv, SlotType
      <4>3. Cardinality(Dst4) \in Nat
        BY <3>5, RoutesFinite DEF FamDst
      <4> QED BY <1>0, <4>1, <4>2, <4>3, FibAssumption DEF BandSuffices
    <3>7. ASSUME NEW f \in Fam
          PROVE  MirrorOf(rt, defip'[f], f)
      <4>1. CASE f = "v4"
        <5>1. defip'[f] = new(ok) /\ MirrorOf(rt, defip["v4"], "v4")
          BY <1>0, <3>2, <4>1 DEF DefipIInv
        <5>2. MirrorOf(rt, new(ok), "v4")
          BY <3>3, <3>5, <3>6, <5>1 DEF MirrorOf
        <5> QED BY <4>1, <5>1, <5>2
      <4>2. CASE f # "v4"
        BY <1>0, <3>2, <4>2 DEF DefipIInv
      <4> QED BY <4>1, <4>2
    <3> QED BY <1>0, <3>1, <3>7 DEF DefipIInv
  <2> QED BY <2>1, <2>2
<1>6. ASSUME NEW p \in Dst, NEW gws, RouteAddSingle(p, gws)
      PROVE  DefipIInv'
  <2>1. PICK nh : Program(p, [ecmp |-> FALSE, ref |-> nh, sig |-> PathSig(gws)], ecmp)
    BY <1>6 DEF RouteAddSingle
  <2>2. localNext' = localNext
    BY <1>6 DEF RouteAddSingle
  <2> QED BY <1>0, <1>2, <2>1, <2>2, ProgramMirror DEF DefipIInv
<1>7. ASSUME NEW p \in Dst, NEW gws, RouteAddEcmp(p, gws)
      PROVE  DefipIInv'
  <2>1. PICK w : LET g == Ref(ecmp, PathSig(gws), Cardinality(Resolved(gws)), w) IN
                 \/ NoGroup(g.e)
                 \/ Program(p, [ecmp |-> TRUE, ref |-> g.gid, sig |-> PathSig(gws)], g.e)
    BY <1>7 DEF RouteAddEcmp
  <2> DEFINE g == Ref(ecmp, PathSig(gws), Cardinality(Resolved(gws)), w)
             r == [ecmp |-> TRUE, ref |-> g.gid, sig |-> PathSig(gws)]
  <2>2. localNext' = localNext
    BY <1>7 DEF RouteAddEcmp
  <2>3. CASE NoGroup(g.e)
    BY <1>1, <2>2, <2>3 DEF NoGroup, rtVars
  <2>4. CASE Program(p, r, g.e)
    <3> HIDE DEF g, r
    <3> QED BY <1>0, <1>2, <2>2, <2>4, ProgramMirror DEF DefipIInv
  <2> QED BY <2>1, <2>3, <2>4
<1>8. ASSUME NEW p \in Dst, RouteDel(p)
      PROVE  DefipIInv'
  <2> DEFINE fp == FamOf(p)
  <2>0. /\ fp \in Fam /\ p \in FamDst(fp)
        /\ \A f \in Fam : f # fp => p \notin FamDst(f)
    BY Families
  <2> HIDE DEF fp
  <2>1. /\ p \in DOMAIN rt /\ rt' = Drop(rt, p) /\ localNext' = localNext
        /\ defip' = [defip EXCEPT ![fp] = Drop(defip[fp], rt[p].slot)]
    BY <1>8 DEF RouteDel, Written, fp
  <2>2. p \in RoutesOf(rt, fp)
    BY <2>0, <2>1 DEF RoutesOf
  <2>3. ASSUME NEW f \in Fam
        PROVE  MirrorOf(rt', defip'[f], f)
    <3>1. MirrorOf(rt, defip[f], f)
      BY DEF DefipIInv
    <3>2. CASE f = fp
      <4>1. \A q \in RoutesOf(rt, f) \ {p} : rt[q].slot # rt[p].slot
        BY <2>2, <3>2, SlotsApart
      <4>2. defip'[f] = Drop(defip[f], rt[p].slot)
        BY <1>0, <2>0, <2>1, <3>2
      <4>3. MirrorOf(Drop(rt, p), Drop(defip[f], rt[p].slot), f)
        BY <2>2, <3>1, <3>2, <4>1, MirrorDrop
      <4> QED BY <2>1, <4>2, <4>3
    <3>3. CASE f # fp
      <4>1. defip'[f] = defip[f]
        BY <1>0, <2>0, <2>1, <3>3
      <4>2. MirrorOf(Drop(rt, p), defip[f], f)
        BY <2>0, <3>1, <3>3, MirrorOther
      <4> QED BY <2>1, <4>1, <4>2
    <3> QED BY <3>2, <3>3
  <2> QED BY <1>2, <2>1, <2>3
<1>9. ASSUME NEW p, NEW gws, RouteAddSkipped(p, gws) \/ RouteDelUntracked(p)
      PROVE  DefipIInv'
  BY <1>1, <1>9 DEF RouteAddSkipped, RouteDelUntracked, vars, rtVars
<1>10. CASE UNCHANGED vars
  BY <1>1, <1>10 DEF vars, rtVars
<1> QED BY <1>3, <1>4, <1>5, <1>6, <1>7, <1>8, <1>9, <1>10 DEF Next

LEMMA DefipInit == Init => DefipIInv
<1> SUFFICES ASSUME Init PROVE DefipIInv
  OBVIOUS
<1>1. \A f \in Fam : defip[f] = <<>> /\ RoutesOf(rt, f) = {}
  BY DEF Init, RoutesOf
<1>2. localNext = LocalBase /\ LocalBase \in Nat
  BY FibAssumption DEF Init
<1> QED BY <1>1, <1>2 DEF DefipIInv, MirrorOf

LEMMA DefipMirrored == DefipIInv => DefipMirror
<1> SUFFICES ASSUME DefipIInv, NEW f \in Fam
             PROVE  LET D == DOMAIN rt \cap FamDst(f) IN
                    /\ \A p \in D : /\ rt[p].slot \in DOMAIN defip[f]
                                    /\ defip[f][rt[p].slot] = Entry(p, rt[p])
                    /\ {s \in DOMAIN defip[f] : defip[f][s].dst \in Dst} = {rt[p].slot : p \in D}
  BY DEF DefipMirror
<1>1. MirrorOf(rt, defip[f], f)
  BY DEF DefipIInv
<1>2. \A p \in RoutesOf(rt, f) : Entry(p, rt[p]).dst \in Dst
  BY DEF Entry, RoutesOf, FamDst, Dst
<1> QED BY <1>1, <1>2 DEF MirrorOf, RoutesOf

\* l3_route_add_paths and l3_route_del: as long as L3_DEFIP takes every write
\* and every prefix has a record, it holds the recorded routes and no other,
\* whichever next-hop, host and group writes fail.
THEOREM RoutesMirrored ==
  ASSUME RouteRecords, BandSuffices, "defip" \notin Faulty, "clear" \notin Faulty
  PROVE  Spec => []DefipMirror
<1>1. SlotsKept /\ SlotIInv /\ [Next]_vars => SlotsKept'
  BY KeptStep
<1>2. DefipIInv /\ TableType /\ SlotIInv /\ SlotsKept /\ [Next]_vars => DefipIInv'
  BY DefipStep
<1>3. TableType /\ NhIInv /\ SlotIInv /\ [Next]_vars => TableType'
  BY TableStep
<1> QED BY <1>1, <1>2, <1>3, KeptInit, DefipInit, TableInit, DefipMirrored,
           NhInvariant, SlotInvariant, PTL DEF Spec
-----------------------------------------------------------------------------
(***************************************************************************)
(* L3Fib implements L3Table.                                               *)
(***************************************************************************)

\* What else the refinement rests on: neigh is a function, no index beyond the
\* bound of the model is ever created, and a route with one path forwards to
\* the next-hop it has on record.
PathsIInv ==
  /\ neigh = [g \in DOMAIN neigh |-> neigh[g]]
  /\ nhNext <= MaxNh + 1
  /\ \A p \in DOMAIN rt : rt[p].ecmp = FALSE => rt[p].sig.of = [i \in {rt[p].ref} |-> 1]

\* One path that resolves is one next-hop, once.
LEMMA SinglePath ==
  ASSUME NEW gws, IsFiniteSet(Resolved(gws)), Cardinality(Resolved(gws)) = 1,
         NEW nh \in DOMAIN PathSig(gws).of
  PROVE  PathSig(gws).of = [i \in {nh} |-> 1]
<1>1. PICK i : Resolved(gws) = {i}
  BY FS_Singleton
<1>2. PathSig(gws).of = [x \in {neigh[gws[i]]} |->
                           Cardinality({j \in {i} : neigh[gws[j]] = x})]
  BY <1>1 DEF PathSig
<1>3. nh = neigh[gws[i]]
  BY <1>2
<1>4. {j \in {i} : neigh[gws[j]] = nh} = {i}
  BY <1>3
<1>5. Cardinality({i}) = 1
  BY FS_Singleton
<1> QED BY <1>2, <1>3, <1>4, <1>5

\* l3_route_add_paths records what it writes.
LEMMA ProgramPaths ==
  ASSUME PathsIInv, NEW p, NEW r, NEW e, Program(p, r, e),
         r.ecmp = FALSE => r.sig.of = [i \in {r.ref} |-> 1]
  PROVE  \A q \in DOMAIN rt' : rt'[q].ecmp = FALSE => rt'[q].sig.of = [i \in {rt'[q].ref} |-> 1]
<1>1. \E s : rt' = rt \/ rt' = Put(rt, p, AtSlot(s, r))
  BY DEF Program, Replace, Insert, NoSlot, rtVars
<1>2. PICK s : rt' = rt \/ rt' = Put(rt, p, AtSlot(s, r))
  BY <1>1
<1>3. AtSlot(s, r).ecmp = r.ecmp /\ AtSlot(s, r).ref = r.ref /\ AtSlot(s, r).sig = r.sig
  BY DEF AtSlot
<1>4. \A q \in DOMAIN rt' : \/ q \in DOMAIN rt /\ rt'[q] = rt[q]
                            \/ rt'[q] = AtSlot(s, r)
  BY <1>2 DEF Put
<1>5. ASSUME NEW q \in DOMAIN rt', rt'[q].ecmp = FALSE
      PROVE  rt'[q].sig.of = [i \in {rt'[q].ref} |-> 1]
  <2>1. CASE q \in DOMAIN rt /\ rt'[q] = rt[q]
    BY <1>5, <2>1 DEF PathsIInv
  <2>2. CASE rt'[q] = AtSlot(s, r)
    BY <1>3, <1>5, <2>2
  <2> QED BY <1>4, <2>1, <2>2
<1> QED BY <1>5

LEMMA PathsInit == Init => PathsIInv
<1> SUFFICES ASSUME Init PROVE PathsIInv
  OBVIOUS
<1>1. neigh = <<>> /\ DOMAIN neigh = {} /\ DOMAIN rt = {} /\ nhNext = 1 /\ MaxNh \in Nat
  BY FibAssumption DEF Init
<1>2. neigh = [g \in DOMAIN neigh |-> neigh[g]]
  BY <1>1
<1> QED BY <1>1, <1>2 DEF PathsIInv

LEMMA PathsStep == PathsIInv /\ NhIInv /\ [Next]_vars => PathsIInv'
<1> SUFFICES ASSUME PathsIInv, NhIInv, [Next]_vars PROVE PathsIInv'
  OBVIOUS
<1> DEFINE Fn      == neigh = [g \in DOMAIN neigh |-> neigh[g]]
           Singles == \A p \in DOMAIN rt : rt[p].ecmp = FALSE =>
                        rt[p].sig.of = [i \in {rt[p].ref} |-> 1]
<1>0. Fn /\ nhNext <= MaxNh + 1 /\ Singles /\ nhNext \in Nat /\ MaxNh \in Nat
  BY FibAssumption DEF PathsIInv, NhIInv, Owned
<1>a. \A f, x, v : Put(f, x, v) = [y \in DOMAIN Put(f, x, v) |-> Put(f, x, v)[y]]
  BY DEF Put
<1>b. \A f, x : Drop(f, x) = [y \in DOMAIN Drop(f, x) |-> Drop(f, x)[y]]
  BY DEF Drop, Restrict
<1>1. ASSUME UNCHANGED <<nhNext, neigh>>, Singles' PROVE PathsIInv'
  BY <1>0, <1>1 DEF PathsIInv
<1>2. ASSUME NEW g \in Gw, NEW s \in Station, NEW at \in Ends, HostAdd(g, s, at)
      PROVE  PathsIInv'
  <2>1. nhNext' = nhNext \/ (nhNext <= MaxNh /\ nhNext' = nhNext + 1)
    BY <1>2 DEF HostAdd, TakeNh
  <2>2. neigh' = neigh \/ neigh' = Put(neigh, g, HostNh(g))
    BY <1>2 DEF HostAdd, Recorded
  <2>3. Fn'
    BY <1>0, <1>a, <2>2
  <2>4. Singles'
    BY <1>0, <1>2 DEF HostAdd, rtVars
  <2> QED BY <1>0, <2>1, <2>3, <2>4 DEF PathsIInv
<1>3. ASSUME NEW g \in Gw, HostDel(g)
      PROVE  PathsIInv'
  <2>1. nhNext' = nhNext /\ neigh' = Drop(neigh, g) /\ rt' = rt
    BY <1>3 DEF HostDel, rtVars
  <2>2. Fn' /\ Singles'
    BY <1>0, <1>b, <2>1
  <2> QED BY <1>0, <2>1, <2>2 DEF PathsIInv
<1>4. ASSUME NEW a \in Own, NEW diag \in BOOLEAN, NEW at \in Ends, LocalHostAdd(a, diag, at)
      PROVE  PathsIInv'
  <2>1. nhNext <= MaxNh /\ nhNext' = nhNext + 1 /\ neigh' = neigh /\ rt' = rt
    BY <1>4 DEF LocalHostAdd, rtVars
  <2> QED BY <1>0, <2>1 DEF PathsIInv
<1>5. ASSUME NEW p \in Dst, NEW gws \in GwLists(FamOf(p)), RouteAddSingle(p, gws)
      PROVE  PathsIInv'
  <2>1. PICK nh \in DOMAIN PathSig(gws).of :
          Program(p, [ecmp |-> FALSE, ref |-> nh, sig |-> PathSig(gws)], ecmp)
    BY <1>5 DEF RouteAddSingle
  <2> DEFINE r == [ecmp |-> FALSE, ref |-> nh, sig |-> PathSig(gws)]
  <2>2. IsFiniteSet(Resolved(gws)) /\ Cardinality(Resolved(gws)) = 1
    BY <1>5, ResolvedCount DEF GwLists, RouteAddSingle
  <2>3. PathSig(gws).of = [i \in {nh} |-> 1]
    BY <2>1, <2>2, SinglePath
  <2>4. r.sig.of = [i \in {r.ref} |-> 1]
    BY <2>3
  <2> HIDE DEF r
  <2>5. Singles'
    BY <2>1, <2>4, ProgramPaths DEF r
  <2> QED BY <1>1, <1>5, <2>5 DEF RouteAddSingle, nhVars
<1>6. ASSUME NEW p \in Dst, NEW gws, RouteAddEcmp(p, gws)
      PROVE  PathsIInv'
  <2>1. PICK w : LET g == Ref(ecmp, PathSig(gws), Cardinality(Resolved(gws)), w) IN
                 \/ NoGroup(g.e)
                 \/ Program(p, [ecmp |-> TRUE, ref |-> g.gid, sig |-> PathSig(gws)], g.e)
    BY <1>6 DEF RouteAddEcmp
  <2> DEFINE g == Ref(ecmp, PathSig(gws), Cardinality(Resolved(gws)), w)
             r == [ecmp |-> TRUE, ref |-> g.gid, sig |-> PathSig(gws)]
  <2>2. CASE NoGroup(g.e)
    <3>1. rt' = rt
      BY <2>2 DEF NoGroup, rtVars
    <3>2. Singles'
      BY <1>0, <3>1
    <3> QED BY <1>1, <1>6, <3>2 DEF RouteAddEcmp, nhVars
  <2>3. CASE Program(p, r, g.e)
    <3>1. r.ecmp = TRUE
      OBVIOUS
    <3> HIDE DEF g, r
    <3>2. Singles'
      BY <2>3, <3>1, ProgramPaths
    <3> QED BY <1>1, <1>6, <3>2 DEF RouteAddEcmp, nhVars
  <2> QED BY <2>1, <2>2, <2>3
<1>7. ASSUME NEW p \in Dst, RouteDel(p)
      PROVE  PathsIInv'
  <2>1. \A q \in DOMAIN rt' : q \in DOMAIN rt /\ rt'[q] = rt[q]
    BY <1>7 DEF RouteDel, Drop, Restrict
  <2>2. Singles'
    BY <1>0, <2>1
  <2> QED BY <1>1, <1>7, <2>2 DEF RouteDel, nhVars
<1>8. ASSUME NEW g, NEW p, NEW gws,
             HostDelUntracked(g) \/ RouteAddSkipped(p, gws) \/ RouteDelUntracked(p)
      PROVE  PathsIInv'
  BY <1>0, <1>8 DEF HostDelUntracked, RouteAddSkipped, RouteDelUntracked, vars, nhVars, rtVars, PathsIInv
<1>9. CASE UNCHANGED vars
  BY <1>0, <1>9 DEF vars, nhVars, rtVars, PathsIInv
<1> QED BY <1>2, <1>3, <1>4, <1>5, <1>6, <1>7, <1>8, <1>9 DEF Next

\* The chip sends packets of a recorded route over the paths on record.
LEMMA PathsOnChip ==
  ASSUME EcmpIInv, TableType, PathsIInv, NEW p \in DOMAIN rt
  PROVE  ChipPaths(Entry(p, rt[p])) = rt[p].sig.of
<1>1. Entry(p, rt[p]).ecmp = rt[p].ecmp /\ Entry(p, rt[p]).ref = rt[p].ref
  BY DEF Entry
<1>2. CASE rt[p].ecmp
  <2> DEFINE g == rt[p].ref
  <2>1. g \in DOMAIN ecmp.grp /\ ecmp.grp[g].sig = rt[p].sig
    BY <1>2 DEF EcmpIInv, RefsOK
  <2>2. /\ ecmp.cnt[g].base = ecmp.grp[g].base
        /\ ecmp.grp[g].base \in Nat /\ ecmp.grp[g].count \in Nat \ {0}
        /\ \A s \in Block(ecmp.grp[g].base, ecmp.grp[g].count) : ecmp.mem[s] = ecmp.grp[g].sig
    BY <2>1 DEF EcmpIInv, EcmpInv, EcmpType, EcmpChip
  <2>3. ecmp.grp[g].base \in Block(ecmp.grp[g].base, ecmp.grp[g].count)
    BY <2>2 DEF Block
  <2>4. ecmp.mem[ecmp.cnt[g].base] = rt[p].sig
    BY <2>1, <2>2, <2>3
  <2> QED BY <1>1, <1>2, <2>4 DEF ChipPaths
<1>3. CASE rt[p].ecmp = FALSE
  BY <1>1, <1>3 DEF ChipPaths, PathsIInv
<1> QED BY <1>2, <1>3 DEF TableType

RoutePaths == [p \in DOMAIN rt |-> rt[p].sig.of]

\* What the chip forwards on is the route table.
LEMMA ChipRoutesAre ==
  ASSUME EcmpIInv, TableType, SlotIInv, DefipIInv, PathsIInv
  PROVE  ChipRoutes = RoutePaths
<1> DEFINE tables  == UNION {Range(defip[f]) : f \in Fam}
           entries == {x \in tables : x.dst \in Dst}
<1>1. ASSUME NEW p \in DOMAIN rt
      PROVE  Entry(p, rt[p]) \in entries /\ Entry(p, rt[p]).dst = p
  <2>1. p \in Dst /\ FamOf(p) \in Fam /\ p \in RoutesOf(rt, FamOf(p))
    BY Families DEF SlotIInv, RoutesOf
  <2> DEFINE f == FamOf(p)
  <2> HIDE DEF f
  <2>2. rt[p].slot \in DOMAIN defip[f] /\ defip[f][rt[p].slot] = Entry(p, rt[p])
    BY <2>1 DEF DefipIInv, MirrorOf, f
  <2>3. Entry(p, rt[p]) \in Range(defip[f]) /\ f \in Fam
    BY <2>1, <2>2 DEF Range, f
  <2>4. Entry(p, rt[p]).dst = p
    BY DEF Entry
  <2> QED BY <2>1, <2>3, <2>4
<1>2. ASSUME NEW x \in entries
      PROVE  x.dst \in DOMAIN rt /\ x = Entry(x.dst, rt[x.dst])
  <2>1. PICK f \in Fam : x \in Range(defip[f])
    OBVIOUS
  <2>2. PICK s \in DOMAIN defip[f] : x = defip[f][s]
    BY <2>1 DEF Range
  <2>3. MirrorOf(rt, defip[f], f) /\ x.dst \in Dst
    BY DEF DefipIInv
  <2>4. PICK p \in RoutesOf(rt, f) : rt[p].slot = s
    BY <2>2, <2>3 DEF MirrorOf
  <2>5. x = Entry(p, rt[p]) /\ p \in DOMAIN rt
    BY <2>2, <2>3, <2>4 DEF MirrorOf, RoutesOf
  <2>6. Entry(p, rt[p]).dst = p
    BY DEF Entry
  <2> QED BY <2>5, <2>6
<1> HIDE DEF entries
<1>3. {x.dst : x \in entries} = DOMAIN rt
  BY <1>1, <1>2
<1>4. ASSUME NEW p \in DOMAIN rt
      PROVE  ChipPaths(CHOOSE x \in entries : x.dst = p) = rt[p].sig.of
  <2>1. \A x \in entries : x.dst = p <=> x = Entry(p, rt[p])
    BY <1>1, <1>2
  <2>2. (CHOOSE x \in entries : x.dst = p) = Entry(p, rt[p])
    BY <1>1, <2>1
  <2> QED BY <2>2, PathsOnChip
<1>5. ChipRoutes = [p \in {x.dst : x \in entries} |-> ChipPaths(CHOOSE x \in entries : x.dst = p)]
  BY DEF ChipRoutes, entries
<1> QED BY <1>3, <1>4, <1>5 DEF RoutePaths

\* The route given is the one L3Table gives, and no other changes.
LEMMA ProgramSets ==
  ASSUME RouteRecords, NEW p \in Dst, NEW r, NEW e, Program(p, r, e)
  PROVE  RoutePaths' = RoutePaths \/ RoutePaths' = Put(RoutePaths, p, r.sig.of)
<1>1. ASSUME NEW s, rt' = Put(rt, p, AtSlot(s, r))
      PROVE  RoutePaths' = Put(RoutePaths, p, r.sig.of)
  <2>1. AtSlot(s, r).sig = r.sig
    BY DEF AtSlot
  <2>2. DOMAIN rt' = DOMAIN rt \cup {p}
        /\ \A q \in DOMAIN rt \cup {p} : rt'[q] = IF q = p THEN AtSlot(s, r) ELSE rt[q]
    BY <1>1 DEF Put
  <2> QED BY <2>1, <2>2 DEF RoutePaths, Put
<1>2. CASE Replace(p, r, e)
  BY <1>1, <1>2 DEF Replace
<1>3. CASE Insert(p, r, e)
  BY <1>1, <1>3, AlwaysRoom DEF Insert
<1>4. CASE NoSlot(p, r, e)
  BY <1>4 DEF NoSlot, rtVars, RoutePaths
<1> QED BY <1>2, <1>3, <1>4 DEF Program

\* Each call is the one of L3Table, or changes nothing that L3Table shows.
LEMMA StepRefines ==
  ASSUME RouteRecords, NhIInv, PathsIInv, SlotIInv, [Next]_vars,
         ChipRoutes = RoutePaths, ChipRoutes' = RoutePaths'
  PROVE  [Table!TableNext]_(Table!tableVars)
<1>1. ASSUME neigh' = neigh, RoutePaths' = RoutePaths
      PROVE  [Table!TableNext]_(Table!tableVars)
  BY <1>1 DEF Table!tableVars
<1>2. ASSUME rt' = rt PROVE RoutePaths' = RoutePaths
  BY <1>2 DEF RoutePaths
<1>3. ASSUME NEW g \in Gw, NEW s \in Station, NEW at \in Ends, HostAdd(g, s, at)
      PROVE  [Table!TableNext]_(Table!tableVars)
  <2>0. RoutePaths' = RoutePaths
    BY <1>2, <1>3 DEF HostAdd, rtVars
  <2>1. CASE neigh' = neigh
    BY <1>1, <2>0, <2>1
  <2>2. CASE neigh' # neigh
    <3>1. neigh' = Put(neigh, g, HostNh(g))
      BY <1>3, <2>2 DEF HostAdd, Recorded
    <3>2. g \notin DOMAIN neigh
      BY <2>2, <3>1 DEF PathsIInv, Put, HostNh
    <3>3. neigh' = Table!Bind(neigh, g, NextNh)
      BY <3>1, <3>2 DEF HostNh, Put, Table!Bind
    <3>4. NextNh \in 1..MaxNh
      <4>1. nhFree \in Seq(Nat) /\ ToSet(nhFree) \subseteq 1..(nhNext - 1) /\ nhNext \in Nat \ {0}
        BY DEF NhIInv, Owned
      <4>2. MaxNh \in Nat /\ nhNext <= MaxNh + 1
        BY FibAssumption DEF PathsIInv
      <4>3. CASE nhFree # <<>>
        <5>1. Last(nhFree) \in ToSet(nhFree)
          BY <4>1, <4>3, PopSeq
        <5>2. Last(nhFree) \in 1..(nhNext - 1)
          BY <4>1, <5>1
        <5> QED BY <4>1, <4>2, <4>3, <5>2 DEF NextNh
      <4>4. CASE nhFree = <<>>
        BY <1>3, <3>2, <4>1, <4>2, <4>4 DEF HostAdd, TakeNh, NextNh
      <4> QED BY <4>3, <4>4
    <3>5. NextNh \notin Table!Range(neigh)
      <4>1. /\ \A h \in DOMAIN neigh : neigh[h] \in 1..(nhNext - 1) /\ neigh[h] \notin ToSet(nhFree)
            /\ nhFree \in Seq(Nat) /\ nhNext \in Nat
        BY DEF NhIInv, Owned
      <4>2. \A h \in DOMAIN neigh : neigh[h] # NextNh
        BY <4>1, PopSeq DEF NextNh
      <4> QED BY <4>2 DEF Table!Range
    <3>6. Table!Resolve(g)
      BY <2>0, <3>2, <3>3, <3>4, <3>5 DEF Table!Resolve
    <3> QED BY <3>6 DEF Table!TableNext
  <2> QED BY <2>1, <2>2
<1>4. ASSUME NEW g \in Gw, HostDel(g)
      PROVE  [Table!TableNext]_(Table!tableVars)
  <2>1. neigh' = Table!Unbind(neigh, g) /\ RoutePaths' = RoutePaths
    BY <1>2, <1>4 DEF HostDel, Drop, Restrict, Table!Unbind, Table!Restrict, rtVars
  <2>2. Table!Forget(g)
    BY <2>1 DEF Table!Forget
  <2> QED BY <2>2 DEF Table!TableNext
<1>5. ASSUME NEW a \in Own, NEW diag \in BOOLEAN, NEW at \in Ends, LocalHostAdd(a, diag, at)
      PROVE  [Table!TableNext]_(Table!tableVars)
  BY <1>1, <1>2, <1>5 DEF LocalHostAdd, rtVars
<1>6. ASSUME NEW p \in Dst, NEW gws \in GwLists(FamOf(p)), neigh' = neigh,
             Resolved(gws) # {},
             RoutePaths' = RoutePaths \/ RoutePaths' = Put(RoutePaths, p, PathSig(gws).of)
      PROVE  [Table!TableNext]_(Table!tableVars)
  <2>1. CASE RoutePaths' = RoutePaths
    BY <1>1, <1>6, <2>1
  <2>2. CASE RoutePaths' = Put(RoutePaths, p, PathSig(gws).of)
    <3>1. Table!Paths(gws) = PathSig(gws).of
      <4>1. PathSig(gws).of = [x \in {neigh[gws[i]] : i \in Resolved(gws)} |->
                                 Cardinality({i \in Resolved(gws) : neigh[gws[i]] = x})]
        BY DEF PathSig
      <4>2. \A S : Table!Cardinality(S) = Cardinality(S)
        BY Zenon DEF Table!Cardinality, Cardinality
      <4> QED BY <4>1, <4>2 DEF Table!Paths, Resolved
    <3>2. DOMAIN PathSig(gws).of # {}
      BY <1>6 DEF PathSig
    <3>3. gws \in Table!PathLists
      <4>1. FamGw(FamOf(p)) \subseteq Gw
        BY DEF FamGw, Gw
      <4>2. PICK k \in 1..MaxPaths : gws \in [1..k -> FamGw(FamOf(p))]
        BY DEF GwLists
      <4>3. gws \in [1..k -> Gw]
        BY <4>1, <4>2
      <4> QED BY <4>2, <4>3 DEF Table!PathLists
    <3>4. ChipRoutes' = Table!Bind(ChipRoutes, p, Table!Paths(gws))
      BY <2>2, <3>1 DEF Put, Table!Bind
    <3>5. Table!SetRoute(p, gws)
      BY <1>6, <3>1, <3>2, <3>4 DEF Table!SetRoute
    <3> QED BY <3>3, <3>5 DEF Table!TableNext
  <2> QED BY <1>6, <2>1, <2>2
<1>7. ASSUME NEW p \in Dst, NEW gws \in GwLists(FamOf(p)), RouteAddSingle(p, gws)
      PROVE  [Table!TableNext]_(Table!tableVars)
  <2>1. PICK nh : Program(p, [ecmp |-> FALSE, ref |-> nh, sig |-> PathSig(gws)], ecmp)
    BY <1>7 DEF RouteAddSingle
  <2> DEFINE r == [ecmp |-> FALSE, ref |-> nh, sig |-> PathSig(gws)]
  <2>2. r.sig = PathSig(gws) /\ Program(p, r, ecmp)
    BY <2>1
  <2> HIDE DEF r
  <2>3. RoutePaths' = RoutePaths \/ RoutePaths' = Put(RoutePaths, p, PathSig(gws).of)
    BY <2>2, ProgramSets
  <2>4. Resolved(gws) # {}
    BY <1>7, FS_EmptySet DEF RouteAddSingle
  <2> QED BY <1>6, <1>7, <2>3, <2>4 DEF RouteAddSingle, nhVars
<1>8. ASSUME NEW p \in Dst, NEW gws \in GwLists(FamOf(p)), RouteAddEcmp(p, gws)
      PROVE  [Table!TableNext]_(Table!tableVars)
  <2>1. PICK w : LET g == Ref(ecmp, PathSig(gws), Cardinality(Resolved(gws)), w) IN
                 \/ NoGroup(g.e)
                 \/ Program(p, [ecmp |-> TRUE, ref |-> g.gid, sig |-> PathSig(gws)], g.e)
    BY <1>8 DEF RouteAddEcmp
  <2> DEFINE g == Ref(ecmp, PathSig(gws), Cardinality(Resolved(gws)), w)
             r == [ecmp |-> TRUE, ref |-> g.gid, sig |-> PathSig(gws)]
  <2>2. r.sig = PathSig(gws)
    OBVIOUS
  <2>3. RoutePaths' = RoutePaths \/ RoutePaths' = Put(RoutePaths, p, PathSig(gws).of)
    <3>1. CASE NoGroup(g.e)
      BY <1>2, <3>1 DEF NoGroup, rtVars
    <3>2. CASE Program(p, r, g.e)
      <4> HIDE DEF g, r
      <4> QED BY <2>2, <3>2, ProgramSets
    <3> QED BY <2>1, <3>1, <3>2
  <2>4. Resolved(gws) # {}
    BY <1>8, FS_EmptySet DEF RouteAddEcmp
  <2> QED BY <1>6, <1>8, <2>3, <2>4 DEF RouteAddEcmp, nhVars
<1>9. ASSUME NEW p \in Dst, RouteDel(p)
      PROVE  [Table!TableNext]_(Table!tableVars)
  <2>1. rt' = Drop(rt, p) /\ neigh' = neigh
    BY <1>9 DEF RouteDel, nhVars
  <2>2. RoutePaths' = Table!Unbind(RoutePaths, p)
    BY <2>1 DEF RoutePaths, Drop, Restrict, Table!Unbind, Table!Restrict
  <2>3. Table!DelRoute(p)
    BY <2>1, <2>2 DEF Table!DelRoute
  <2> QED BY <2>3 DEF Table!TableNext
<1>10. ASSUME NEW g, NEW p, NEW gws,
             HostDelUntracked(g) \/ RouteAddSkipped(p, gws) \/ RouteDelUntracked(p)
      PROVE  [Table!TableNext]_(Table!tableVars)
  BY <1>1, <1>2, <1>10 DEF HostDelUntracked, RouteAddSkipped, RouteDelUntracked,
                           vars, nhVars, rtVars
<1>11. CASE UNCHANGED vars
  BY <1>1, <1>2, <1>11 DEF vars, nhVars, rtVars
<1> QED BY <1>3, <1>4, <1>5, <1>7, <1>8, <1>9, <1>10, <1>11 DEF Next

\* core/datapath/l3.c implements L3Table: a packet to a prefix goes over the
\* next-hops its gateways had when the route was last given, and a call for
\* one neighbour or route never moves the packets of another, as long as
\* L3_DEFIP takes every write and every prefix has a record.
THEOREM Implements ==
  ASSUME RouteRecords, BandSuffices, "defip" \notin Faulty, "clear" \notin Faulty
  PROVE  Spec => ForwardsAsTold
<1> DEFINE I == EcmpIInv /\ TableType /\ NhIInv /\ SlotIInv /\ SlotsKept /\ DefipIInv /\ PathsIInv
<1>1. Init => I
  BY EcmpInitInv, TableInit, NhInit, SlotInit, KeptInit, DefipInit, PathsInit
<1>2. I /\ [Next]_vars => I'
  BY EcmpStep, TableStep, NhStep, SlotStep, KeptStep, DefipStep, PathsStep
<1>3. I => ChipRoutes = RoutePaths
  BY ChipRoutesAre
<1>4. I' => (ChipRoutes = RoutePaths)'
  <2> HIDE DEF I
  <2> QED BY <1>3, PTL
<1>5. Init => Table!TableInit
  <2> SUFFICES ASSUME Init PROVE Table!TableInit
    OBVIOUS
  <2>1. ChipRoutes = RoutePaths
    BY <1>1, <1>3
  <2>2. neigh = <<>> /\ rt = <<>>
    BY DEF Init
  <2>3. RoutePaths = <<>>
    BY <2>2 DEF RoutePaths
  <2> QED BY <2>1, <2>2, <2>3 DEF Table!TableInit
<1>6. I /\ I' /\ [Next]_vars => [Table!TableNext]_(Table!tableVars)
  <2> SUFFICES ASSUME I, I', [Next]_vars PROVE [Table!TableNext]_(Table!tableVars)
    OBVIOUS
  <2>1. ChipRoutes = RoutePaths /\ ChipRoutes' = RoutePaths'
    BY <1>3, <1>4
  <2> QED BY <2>1, StepRefines
<1> HIDE DEF I
<1> QED BY <1>1, <1>2, <1>5, <1>6, PTL DEF Spec, ForwardsAsTold, Table!TableSpec
=============================================================================
