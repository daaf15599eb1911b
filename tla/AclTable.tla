------------------------------ MODULE AclTable ------------------------------
(***************************************************************************)
(* asic/bcm56846/acl.c and the field processor half of cumulus_replicate.c *)
(* (BCM56846): the access lists of acls.conf in the chip's TCAM, next to   *)
(* the control plane traps captured from Cumulus.                          *)
(*                                                                         *)
(* The operators work on a record a:                                       *)
(*   tcam     chip FP_TCAM with its policy: index -> rule, valid ones only *)
(*   used     acl_idx_used[0 .. acl_n - 1]                                 *)
(*   lookup   chip FP_SLICE_ENABLE: the slice of the access lists is       *)
(*            looked up (bit 14)                                           *)
(*                                                                         *)
(* The content of acls.conf is a record c: rules, the sequence of rules in *)
(* the order of the file, [name, seq, ok] where ok says whether the rule   *)
(* can be expressed (any protocol, any source, no port, an IPv4 prefix);   *)
(* and binds, the names that are applied.  NoAcls stands for no file.      *)
(* What a rule matches, whether it drops, and the limit on the number of   *)
(* names that are applied are left out.                                    *)
(***************************************************************************)
EXTENDS Integers, FiniteSets, SequencesExt

CONSTANTS
  AclBase,      \* ACL_IDX_BASE
  AclMax,       \* ACL_MAX, size of acl_idx_used
  AclMaxRules,  \* ACL_MAX_RULES
  ProbeName,    \* the name "probe"
  ProbeIdx,     \* where a probe puts its match-all entries, in this order
  TrapIdx,      \* the entries of cumulus_replicate_fp
  NoAcls

ASSUME AclAssumption ==
  /\ AclBase \in Nat /\ AclMax \in Nat \ {0} /\ AclMaxRules \in Nat
  /\ TrapIdx \subseteq Nat /\ ProbeIdx \in Seq(Nat)
  /\ TrapIdx \cap (AclBase .. (AclBase + AclMax - 1)) = {}

\* What is in an entry of the TCAM beside rules; names are positive numbers.
Trap == [name |-> 0, seq |-> 0, ok |-> TRUE]
MatchAll == [name |-> 0, seq |-> 1, ok |-> TRUE]

\* The members of S, first those that come before all others.  (SetToSortSeq
\* makes TLC enumerate the sequences over S.)
Ordered(S, before(_, _)) ==
  [i \in 1..Cardinality(S) |->
     CHOOSE x \in S : Cardinality({y \in S : before(y, x)}) = i - 1]

AclInit == [tcam |-> <<>>, used |-> <<>>, lookup |-> FALSE]

\* Mutant of AclReset: the entries are forgotten and stay valid.
AclResetNoWrite(a) == [a EXCEPT !.used = <<>>]

\* edged_acl_reset.
AclReset(a) ==
  [a EXCEPT !.tcam = Restrict(@, DOMAIN @ \ ToSet(a.used)), !.used = <<>>]

\* edged_acl_load, the parser: rules beyond ACL_MAX_RULES are skipped.
Parsed(c) == SubSeq(c.rules, 1, Min({AclMaxRules, Len(c.rules)}))

\* The rules of lists that are applied, by their number and then in the order
\* of the file; a negative number counts as taken already.
Chosen(c) ==
  LET rs == Parsed(c)
      S == {i \in DOMAIN rs : rs[i].name \in c.binds /\ rs[i].seq >= 0 /\ rs[i].ok}
      first(i, j) == rs[i].seq < rs[j].seq \/ (rs[i].seq = rs[j].seq /\ i < j)
      order == Ordered(S, first)
  IN  [k \in DOMAIN order |-> rs[order[k]]]

\* A rule named "probe", applied or not, adds match-all entries: where they go.
Probing(c) ==
  IF \E i \in DOMAIN Parsed(c) : Parsed(c)[i].name = ProbeName
  THEN SubSeq(ProbeIdx, 1, Min({AclMax, Len(ProbeIdx)})) ELSE <<>>

(***************************************************************************)
(* edged_acl_load: without a file nothing is touched.  Otherwise the slice *)
(* is enabled and the whole TCAM is cleared.  The probes come first; the   *)
(* rules go to one index after the other, over a probe that is there,      *)
(* until acl_idx_used is full.                                             *)
(***************************************************************************)
AclLoad(a, c) ==
  IF c = NoAcls THEN a
  ELSE LET n == Len(Probing(c))
           fit == Min({AclMax - n, Len(Chosen(c))})
           first == AclBase + n
           place == first .. first + fit - 1
       IN  [tcam |-> [i \in ToSet(Probing(c)) \cup place |->
                        IF i \in place THEN Chosen(c)[i - first + 1] ELSE MatchAll],
            used |-> Probing(c) \o [k \in 1..fit |-> first + k - 1],
            lookup |-> TRUE]

\* cumulus_replicate_fp: the traps, and FP_SLICE_ENABLE without bit 14.
Replicate(a) ==
  [a EXCEPT !.tcam = [i \in DOMAIN @ \cup TrapIdx |-> IF i \in TrapIdx THEN Trap ELSE @[i]],
            !.lookup = FALSE]
-----------------------------------------------------------------------------
Probes(a) == {i \in DOMAIN a.tcam : a.tcam[i] = MatchAll}
AclEntries(a) == {i \in DOMAIN a.tcam : a.tcam[i] # Trap} \ Probes(a)

\* The chip has the rules of the file and no other: those that are applied
\* and can be expressed, as many as fit beside the probes that were asked for,
\* lower numbers at lower indices.
AclsAsConfigured(a, c) ==
  LET rs == IF c = NoAcls THEN {} ELSE
              {r \in ToSet(Parsed(c)) : r.name \in c.binds /\ r.seq >= 0 /\ r.ok}
      room == IF c = NoAcls THEN AclMax ELSE AclMax - Len(Probing(c))
      on == {a.tcam[i] : i \in AclEntries(a)}
  IN  /\ on \subseteq rs
      /\ Cardinality(on) = Min({room, Cardinality(rs)})
      /\ \A i, j \in AclEntries(a) : i < j => a.tcam[i].seq <= a.tcam[j].seq
      /\ \A r \in on, s \in rs \ on : r.seq <= s.seq
=============================================================================
