-------------------------- MODULE MCOverlapProofs ----------------------------
(* Whatever a caller hands to Find, in any order, and however much of it: as long *)
(* as the table has room, exactly the clashing are refused.                       *)
EXTENDS MCOverlap, OverlapProofs

\* What a caller has handed in.
TypeInv ==
  /\ extents \in Seq(Extents)
  /\ Len(extents) <= MaxExtents

\* Whatever Find is handed is a sequence of extents, no longer than the table of collisions.
LEMMA TypeInvIsInvariant == Spec => []TypeInv
<1>1. Init => TypeInv
  BY BoundsAssumption DEF Init, TypeInv
<1>2. TypeInv /\ [Next]_extents => TypeInv'
  BY BoundsAssumption DEF TypeInv, Next, Emit
<1> QED BY <1>1, <1>2, PTL DEF Spec

\* Such a sequence is what the lemmas about Overlap take: finitely many extents, none empty.
LEMMA SequencesAreExtents ==
  ASSUME TypeInv
  PROVE  ExtentsOK(extents) /\ Cardinality(DOMAIN extents) <= Cap
<1>1. DOMAIN extents = 1..Len(extents) /\ Len(extents) \in Nat
  BY DEF TypeInv
<1>2. IsFiniteSet(DOMAIN extents) /\ Cardinality(DOMAIN extents) = Len(extents)
  <2> DEFINE n == Len(extents)
  <2>1. n \in Int /\ 1 \in Int /\ n >= 0
    BY <1>1
  <2> HIDE DEF n
  <2>2. IsFiniteSet(1..n) /\ Cardinality(1..n) = IF 1 > n THEN 0 ELSE n - 1 + 1
    BY <2>1, FS_Interval
  <2>3. Cardinality(1..n) = n
    BY <2>1, <2>2
  <2> QED BY <1>1, <2>2, <2>3 DEF n
<1>3. \A i \in DOMAIN extents : extents[i] \in Extents
  BY DEF TypeInv
<1>4. \A x \in Extents : /\ x.segment \in Int /\ x.start \in Int /\ x.end \in Int
                         /\ x.start < x.end
  BY BoundsAssumption DEF Extents
<1>5. ExtentsOK(extents)
  BY <1>1, <1>2, <1>3, <1>4 DEF ExtentsOK
<1> QED BY <1>1, <1>2, <1>5, BoundsAssumption DEF TypeInv

\* With room for as many collisions as there are extents, each of two that overlap is
\* refused unless it is applied, next to the other in the sorted order or not, and
\* nobody is refused for nothing (wupatch_overlap.h:25).
THEOREM RefusesExactlyTheClashingHolds == Spec => []RefusesExactlyTheClashing
<1>1. TypeInv => RefusesExactlyTheClashing
  <2> SUFFICES ASSUME TypeInv PROVE RefusesExactlyTheClashing
    OBVIOUS
  <2>1. ExtentsOK(extents) /\ Cap \in Int /\ Fits(extents, Cap)
    BY SequencesAreExtents, FewFit, BoundsAssumption
  <2> QED BY <2>1, RefusesExactly DEF RefusesExactlyTheClashing
<1> QED BY <1>1, TypeInvIsInvariant, PTL
=============================================================================
