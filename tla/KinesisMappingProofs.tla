------------------------ MODULE KinesisMappingProofs ------------------------
(***************************************************************************)
(* Facts about the event source mapping that the proofs about both of its  *)
(* consumers use.                                                          *)
(***************************************************************************)
EXTENDS KinesisMapping, TLAPS

(* Putting a record, or failing to, leaves the shard's prefix as it was.   *)
LEMMA AppendGrows ==
    ASSUME NEW s \in Seq(Record), NEW r \in Record, NEW t \in {s, Append(s, r)}
    PROVE  /\ t \in Seq(Record) /\ Len(t) \in Nat /\ Len(s) <= Len(t)
           /\ \A i \in 1..Len(s) : t[i] = s[i]
  OBVIOUS

(* The mapping's steps keep its variables in range.                        *)
LEMMA MappingStepTyped ==
    ASSUME MappingTypeOK, UNCHANGED stream,
           \/ PollBatch
           \/ \E hi \in cuts : BatchFailed(hi) \/ BatchSucceeded(hi) \/ GiveUp(hi)
           \/ UNCHANGED mappingVars
    PROVE  MappingTypeOK'
<1> USE MappingAssumption
<1> DEFINE n == Len(stream)
<1>n. n \in Nat /\ ckpt \in Nat /\ ckpt <= n
  BY DEF MappingTypeOK
<1>1. CASE PollBatch
  BY <1>1, <1>n DEF PollBatch, MappingTypeOK
<1>2. ASSUME NEW hi \in cuts, NextBatch(hi), Advance(hi)
      PROVE  /\ ckpt' \in 0..n
             /\ cuts' \subseteq (ckpt' + 1)..n
             /\ tries' \in 0..MaxRetries
  BY <1>2, <1>n DEF NextBatch, Advance, MappingTypeOK
<1>3. ASSUME NEW hi \in cuts, BatchSucceeded(hi)
      PROVE  MappingTypeOK'
  BY <1>3, <1>2 DEF BatchSucceeded, MappingTypeOK
<1>4. ASSUME NEW hi \in cuts, GiveUp(hi)
      PROVE  MappingTypeOK'
  <2>1. [start |-> ckpt + 1, size |-> hi - ckpt] \in Pointer
    BY <1>n DEF MappingTypeOK, Pointer
  <2>2. discarded' \subseteq Pointer
    BY <1>4, <2>1 DEF GiveUp, MappingTypeOK
  <2> QED
    BY <1>4, <1>2, <2>2 DEF GiveUp, MappingTypeOK
<1>5. ASSUME NEW hi \in cuts, BatchFailed(hi)
      PROVE  MappingTypeOK'
  <2>1. CASE hi > ckpt + 1 /\ cuts' = cuts \cup {(ckpt + hi) \div 2}
                           /\ tries' = 0 /\ UNCHANGED <<ckpt, discarded>>
    <3>1. hi \in Nat /\ hi <= n /\ (ckpt + hi) \div 2 \in (ckpt + 1)..n
      BY <2>1, <1>n DEF MappingTypeOK
    <3> QED
      BY <2>1, <3>1 DEF MappingTypeOK
  <2>2. CASE tries < MaxRetries /\ tries' = tries + 1
                                /\ UNCHANGED <<ckpt, cuts, discarded>>
    BY <2>2 DEF MappingTypeOK
  <2>3. CASE GiveUp(hi)
    BY <2>3, <1>4
  <2> QED
    BY <1>5, <2>1, <2>2, <2>3 DEF BatchFailed
<1>6. CASE UNCHANGED mappingVars
  BY <1>6 DEF mappingVars, MappingTypeOK
<1> QED
  BY <1>1, <1>3, <1>4, <1>5, <1>6

(* Giving up a batch covers exactly the positions it moves past.           *)
LEMMA GiveUpPoints ==
    ASSUME MappingTypeOK, PointersAreBehind, NEW hi \in cuts, GiveUp(hi)
    PROVE  /\ hi \in Nat /\ ckpt < hi /\ ckpt' = hi
           /\ \A i \in (ckpt + 1)..hi : Pointed(i)'
           /\ PointersAreBehind'
<1>1. ckpt \in Nat /\ hi \in Nat /\ ckpt < hi /\ ckpt' = hi
  BY DEF GiveUp, Advance, MappingTypeOK
<1> DEFINE f == [start |-> ckpt + 1, size |-> hi - ckpt]
<1>2. discarded' = discarded \cup {f}
  BY DEF GiveUp
<1>3. \A i \in (ckpt + 1)..hi : i \in Covered(f)
  BY <1>1 DEF Covered
<1>4. Covered(f) \subseteq 1..hi
  BY <1>1 DEF Covered
<1>5. \A g \in discarded : Covered(g) \subseteq 1..hi
  BY <1>1 DEF PointersAreBehind
<1> QED
  BY <1>1, <1>2, <1>3, <1>4, <1>5 DEF Pointed, PointersAreBehind, Covered

=============================================================================
