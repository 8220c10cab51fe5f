---------------------------- MODULE OverlapProofs ----------------------------
(* Proofs about Overlap: whatever extents a caller hands over, sorting and      *)
(* sweeping refuses exactly those that overlap another, as long as the table of  *)
(* collisions is not full.                                                      *)
EXTENDS Overlap, FiniteSetTheorems, WellFoundedInduction, TLAPS

-----------------------------------------------------------------------------
(* Finite orders.                                                             *)

\* A set of natural numbers has a least one.
LEMMA LeastNatural ==
  ASSUME NEW S, S \subseteq Nat, S # {}
  PROVE  \E x \in S : \A y \in S : x <= y
<1>1. \E x \in S : \A y \in S : ~ (<<y, x>> \in OpToRel(<,Nat))
  BY NatLessThanWellFounded, WFMin
<1>2. PICK x \in S : \A y \in S : ~ (<<y, x>> \in OpToRel(<,Nat))
  BY <1>1
<1>3. \A y \in S : ~ (y < x)
  BY <1>2 DEF OpToRel
<1> QED BY <1>3

\* A finite set has a member that nothing in it is above, in any strict order: one
\* with the fewest above it.
LEMMA MaximalExists ==
  ASSUME NEW S, IsFiniteSet(S), S # {}, NEW R,
         \A x \in S : <<x, x>> \notin R,
         \A x, y, z \in S : <<x, y>> \in R /\ <<y, z>> \in R => <<x, z>> \in R
  PROVE  \E x \in S : \A y \in S : <<x, y>> \notin R
<1> DEFINE above == [x \in S |-> {y \in S : <<x, y>> \in R}]
<1>1. \A x \in S : IsFiniteSet(above[x]) /\ Cardinality(above[x]) \in Nat
  <2> TAKE x \in S
  <2>1. above[x] \in SUBSET S
    OBVIOUS
  <2> QED BY <2>1, FS_Subset, FS_CardinalityType
<1> HIDE DEF above
<1> DEFINE sizes == {Cardinality(above[x]) : x \in S}
<1>2. sizes \subseteq Nat /\ sizes # {}
  BY <1>1
<1>3. PICK n \in sizes : \A m \in sizes : n <= m
  BY <1>2, LeastNatural
<1>4. PICK x \in S : n = Cardinality(above[x])
  BY <1>3
<1>5. SUFFICES ASSUME NEW y \in S, <<x, y>> \in R PROVE FALSE
  OBVIOUS
<1>6. above[y] \subseteq above[x] /\ y \in above[x] /\ y \notin above[y]
  BY <1>5 DEF above
<1>7. Cardinality(above[y]) \in sizes
  OBVIOUS
<1> HIDE DEF sizes
<1>8. Cardinality(above[y]) <= Cardinality(above[x]) /\ Cardinality(above[y]) # Cardinality(above[x])
  BY <1>1, <1>6, FS_Subset
<1> QED BY <1>1, <1>3, <1>4, <1>7, <1>8

-----------------------------------------------------------------------------
(* The sorted order.                                                          *)

\* What the callers of Find hand over: extents that are not empty.
ExtentsOK(e) ==
  /\ IsFiniteSet(DOMAIN e) /\ DOMAIN e \subseteq Int
  /\ \A i \in DOMAIN e :
       /\ e[i].segment \in Int /\ e[i].start \in Int /\ e[i].end \in Int
       /\ e[i].start < e[i].end

\* The sort puts each of two extents before the other, but never both, and agrees
\* with itself: it is a strict total order.
LEMMA EarlierIsAnOrder ==
  ASSUME NEW e, ExtentsOK(e)
  PROVE  /\ \A i \in DOMAIN e : ~Earlier(e, i, i)
         /\ \A i, j \in DOMAIN e : i # j => Earlier(e, i, j) \/ Earlier(e, j, i)
         /\ \A i, j, k \in DOMAIN e :
              Earlier(e, i, j) /\ Earlier(e, j, k) => Earlier(e, i, k)
<1> DEFINE rank == [i \in DOMAIN e |-> IF e[i].applied THEN 0 ELSE 1]
<1>1. \A i \in DOMAIN e : /\ i \in Int /\ rank[i] \in Int
                          /\ e[i].segment \in Int /\ e[i].start \in Int
  BY DEF ExtentsOK
<1>2. \A i, j \in DOMAIN e :
        Earlier(e, i, j) <=>
          \/ e[i].segment < e[j].segment
          \/ e[i].segment = e[j].segment /\ e[i].start < e[j].start
          \/ /\ e[i].segment = e[j].segment /\ e[i].start = e[j].start
             /\ rank[i] < rank[j] \/ (rank[i] = rank[j] /\ i < j)
  <2> TAKE i, j \in DOMAIN e
  <2>1. /\ (e[i].applied /\ ~e[j].applied) <=> rank[i] < rank[j]
        /\ (e[j].applied /\ ~e[i].applied) <=> rank[j] < rank[i]
    BY DEF rank
  <2> HIDE DEF rank
  <2> QED BY <1>1, <2>1 DEF Earlier, SortsBefore
<1> HIDE DEF rank
<1> QED BY <1>1, <1>2

\* Sorted before, in one segment, is not to start later.
LEMMA EarlierStarts ==
  ASSUME NEW e, ExtentsOK(e), NEW i \in DOMAIN e, NEW j \in DOMAIN e,
         Earlier(e, j, i), e[j].segment = e[i].segment
  PROVE  e[j].start <= e[i].start
BY DEF ExtentsOK, Earlier, SortsBefore

\* If the sweep has passed anything of i's segment, Reach is what of it reaches
\* furthest.
LEMMA ReachIsFurthest ==
  ASSUME NEW e, ExtentsOK(e), NEW i \in DOMAIN e, Passed(e, i) # {}
  PROVE  /\ Reach(e, i) \in Passed(e, i)
         /\ \A k \in Passed(e, i) : e[k].end <= e[Reach(e, i)].end
<1> DEFINE S == Passed(e, i)
           R == {p \in S \X S : \/ e[p[1]].end < e[p[2]].end
                                \/ e[p[1]].end = e[p[2]].end /\ Earlier(e, p[2], p[1])}
<1>1. S \subseteq DOMAIN e /\ IsFiniteSet(S)
  <2>1. S \in SUBSET DOMAIN e
    BY DEF Passed
  <2> QED BY <2>1, FS_Subset DEF ExtentsOK
<1>2. \A x \in S : e[x].end \in Int
  BY <1>1 DEF ExtentsOK
<1> HIDE DEF S
<1>3. \A x, y \in S : <<x, y>> \in R <=> \/ e[x].end < e[y].end
                                         \/ e[x].end = e[y].end /\ Earlier(e, y, x)
  OBVIOUS
<1> HIDE DEF R
<1>4. \A x \in S : <<x, x>> \notin R
  BY <1>1, <1>2, <1>3, EarlierIsAnOrder
<1>5. \A x, y, z \in S : <<x, y>> \in R /\ <<y, z>> \in R => <<x, z>> \in R
  <2> TAKE x, y, z \in S
  <2>1. Earlier(e, z, y) /\ Earlier(e, y, x) => Earlier(e, z, x)
    BY <1>1, EarlierIsAnOrder
  <2> QED BY <1>2, <1>3, <2>1
<1>6. PICK m \in S : \A y \in S : <<m, y>> \notin R
  BY <1>1, <1>4, <1>5, MaximalExists DEF S
<1>7. \A k \in S \ {m} : \/ e[k].end < e[m].end
                         \/ e[k].end = e[m].end /\ Earlier(e, m, k)
  <2> TAKE k \in S \ {m}
  <2>1. Earlier(e, m, k) \/ Earlier(e, k, m)
    BY <1>1, EarlierIsAnOrder
  <2>2. <<m, k>> \notin R
    BY <1>6
  <2>3. ~(e[m].end < e[k].end) /\ ~(e[m].end = e[k].end /\ Earlier(e, k, m))
    BY <1>3, <2>2
  <2>4. e[m].end \in Int /\ e[k].end \in Int
    BY <1>2
  <2> QED BY <2>1, <2>3, <2>4
<1>8. /\ Reach(e, i) \in S
      /\ \A k \in S \ {Reach(e, i)} :
           \/ e[k].end < e[Reach(e, i)].end
           \/ e[k].end = e[Reach(e, i)].end /\ Earlier(e, Reach(e, i), k)
  BY <1>7 DEF Reach, S
<1> QED BY <1>2, <1>8 DEF S

\* The table that Find fills has room for every collision (kMaxCollisions).
Fits(e, cap) == Cardinality({i \in DOMAIN e : Collides(e, i)}) <= cap

\* Then every collision of the sweep is reported.
LEMMA FoundAll ==
  ASSUME NEW e, ExtentsOK(e), NEW cap \in Int, Fits(e, cap)
  PROVE  Found(e, cap) = {i \in DOMAIN e : Collides(e, i)}
<1> DEFINE colliding == {j \in DOMAIN e : Collides(e, j)}
<1> SUFFICES ASSUME NEW i \in colliding
             PROVE  Cardinality({j \in colliding : Earlier(e, j, i)}) < cap
  BY DEF Found
<1> DEFINE before == {j \in colliding : Earlier(e, j, i)}
<1>1. before \in SUBSET colliding /\ i \notin before
  BY EarlierIsAnOrder
<1>2. before # colliding
  BY <1>1
<1>3. IsFiniteSet(colliding) /\ Cardinality(colliding) <= cap
  BY FS_Subset DEF ExtentsOK, Fits
<1> HIDE DEF before, colliding
<1>4. /\ Cardinality(before) \in Nat /\ Cardinality(colliding) \in Nat
      /\ Cardinality(before) <= Cardinality(colliding)
      /\ Cardinality(before) # Cardinality(colliding)
  BY <1>1, <1>2, <1>3, FS_Subset, FS_CardinalityType
<1>5. Cardinality(before) < cap
  BY <1>3, <1>4
<1> QED BY <1>5 DEF before, colliding

\* There are no more collisions than extents.
LEMMA FewFit ==
  ASSUME NEW e, ExtentsOK(e), NEW cap \in Int, Cardinality(DOMAIN e) <= cap
  PROVE  Fits(e, cap)
<1> DEFINE colliding == {j \in DOMAIN e : Collides(e, j)}
<1>1. colliding \in SUBSET DOMAIN e /\ IsFiniteSet(DOMAIN e)
  BY DEF ExtentsOK
<1> HIDE DEF colliding
<1>2. /\ Cardinality(colliding) \in Nat /\ Cardinality(DOMAIN e) \in Nat
      /\ Cardinality(colliding) <= Cardinality(DOMAIN e)
  BY <1>1, FS_Subset, FS_CardinalityType
<1> QED BY <1>2 DEF Fits, colliding

-----------------------------------------------------------------------------
(* The refused.                                                               *)

\* Whatever the cap, who is refused is in the table, not applied, and overlaps
\* another (wupatch_overlap.cpp:46).
THEOREM RefusedClash ==
  ASSUME NEW e, ExtentsOK(e), NEW cap, NEW i \in Refused(e, cap)
  PROVE  /\ i \in DOMAIN e /\ ~e[i].applied
         /\ \E j \in DOMAIN e \ {i} : Clash(e[i], e[j])
<1>1. ASSUME NEW j \in DOMAIN e, Collides(e, j)
      PROVE  Reach(e, j) \in DOMAIN e \ {j} /\ Clash(e[j], e[Reach(e, j)])
  <2> DEFINE m == Reach(e, j)
  <2>1. m \in Passed(e, j) /\ e[j].start < e[m].end
    BY <1>1, ReachIsFurthest DEF Collides
  <2> HIDE DEF m
  <2>2. m \in DOMAIN e /\ Earlier(e, m, j) /\ e[m].segment = e[j].segment
    BY <2>1 DEF Passed
  <2>3. m # j /\ e[m].start <= e[j].start
    BY <2>2, EarlierIsAnOrder, EarlierStarts
  <2>4. e[m].start < e[j].end
    BY <2>2, <2>3 DEF ExtentsOK
  <2> QED BY <2>1, <2>2, <2>3, <2>4 DEF Clash, m
<1>2. Found(e, cap) \subseteq {j \in DOMAIN e : Collides(e, j)}
  BY DEF Found
<1>3. ~e[i].applied /\ (i \in Found(e, cap) \/ \E j \in Found(e, cap) : i = Reach(e, j))
  BY DEF Refused
<1>4. CASE i \in Found(e, cap)
  BY <1>1, <1>2, <1>3, <1>4
<1>5. CASE \E j \in Found(e, cap) : i = Reach(e, j)
  <2>1. PICK j \in Found(e, cap) : i = Reach(e, j)
    BY <1>5
  <2>2. i \in DOMAIN e \ {j} /\ Clash(e[j], e[i]) /\ j \in DOMAIN e
    BY <1>1, <1>2, <2>1
  <2>3. Clash(e[i], e[j])
    BY <2>2 DEF Clash
  <2> QED BY <1>3, <2>2, <2>3
<1> QED BY <1>3, <1>4, <1>5

\* If the table has room, whoever is not applied and overlaps another is
\* refused, next to it in the sorted order or not: of those that follow i and
\* overlap it, the first finds i itself to reach furthest, or one that i overlaps too.
THEOREM ClashRefused ==
  ASSUME NEW e, ExtentsOK(e), NEW cap \in Int, Fits(e, cap),
         NEW i \in DOMAIN e, ~e[i].applied,
         NEW j \in DOMAIN e, j # i, Clash(e[i], e[j])
  PROVE  i \in Refused(e, cap)
<1>1. SUFFICES \/ Collides(e, i)
               \/ \E k \in DOMAIN e : Collides(e, k) /\ i = Reach(e, k)
  BY <1>1, FoundAll DEF Refused
<1>2. /\ e[i].start \in Int /\ e[i].end \in Int /\ e[i].start < e[i].end
      /\ e[i].segment = e[j].segment /\ e[i].start < e[j].end /\ e[j].start < e[i].end
  BY DEF ExtentsOK, Clash
<1>3. \A k \in DOMAIN e :
        (\E m \in Passed(e, k) : e[k].start < e[m].end) => Collides(e, k)
  <2> TAKE k \in DOMAIN e
  <2> HAVE \E m \in Passed(e, k) : e[k].start < e[m].end
  <2>1. PICK m \in Passed(e, k) : e[k].start < e[m].end
    OBVIOUS
  <2>2. Reach(e, k) \in Passed(e, k) /\ e[m].end <= e[Reach(e, k)].end
    BY <2>1, ReachIsFurthest
  <2>3. m \in DOMAIN e /\ Reach(e, k) \in DOMAIN e
    BY <2>1, <2>2 DEF Passed
  <2> QED BY <2>1, <2>2, <2>3 DEF Collides, ExtentsOK
<1>4. CASE Earlier(e, j, i)
  BY <1>2, <1>3, <1>4 DEF Passed
<1>5. CASE Earlier(e, i, j)
  <2> DEFINE after == {k \in DOMAIN e : /\ Earlier(e, i, k) /\ e[k].segment = e[i].segment
                                        /\ e[k].start < e[i].end}
             R == {p \in after \X after : Earlier(e, p[2], p[1])}
  <2>1. after \in SUBSET DOMAIN e /\ j \in after
    BY <1>2, <1>5
  <2>2. IsFiniteSet(after)
    BY <2>1, FS_Subset DEF ExtentsOK
  <2>3. \A k \in after : e[k].segment = e[i].segment /\ Earlier(e, i, k) /\ e[k].start < e[i].end
    OBVIOUS
  <2>4. \A k \in DOMAIN e :
          Earlier(e, i, k) /\ e[k].segment = e[i].segment /\ e[k].start < e[i].end => k \in after
    OBVIOUS
  <2> HIDE DEF after
  <2>5. \A x, y \in after : <<x, y>> \in R <=> Earlier(e, y, x)
    OBVIOUS
  <2> HIDE DEF R
  <2>6. \A x \in after : <<x, x>> \notin R
    BY <2>1, <2>5, EarlierIsAnOrder
  <2>7. \A x, y, z \in after : <<x, y>> \in R /\ <<y, z>> \in R => <<x, z>> \in R
    BY <2>1, <2>5, EarlierIsAnOrder
  <2>8. PICK k \in after : \A y \in after : <<k, y>> \notin R
    BY <2>1, <2>2, <2>6, <2>7, MaximalExists
  <2>9. /\ k \in DOMAIN e /\ i \in Passed(e, k) /\ Collides(e, k)
    BY <1>3, <2>1, <2>3 DEF Passed
  <2> DEFINE m == Reach(e, k)
  <2>10. m \in Passed(e, k) /\ e[i].end <= e[m].end
    BY <2>9, ReachIsFurthest
  <2>11. CASE m = i
    BY <2>9, <2>11
  <2>12. CASE m # i
    <3> HIDE DEF m
    <3>1. /\ m \in DOMAIN e /\ Earlier(e, m, k) /\ e[m].segment = e[i].segment
          /\ e[m].start \in Int /\ e[m].end \in Int /\ e[k].start \in Int
      BY <2>3, <2>9, <2>10 DEF Passed, ExtentsOK
    <3>2. e[m].start <= e[k].start
      BY <2>3, <2>9, <3>1, EarlierStarts
    <3>3. m \notin after
      BY <2>5, <2>8, <3>1
    <3>4. ~Earlier(e, i, m)
      BY <1>2, <2>3, <2>4, <3>1, <3>2, <3>3
    <3>5. Earlier(e, m, i)
      BY <2>12, <3>1, <3>4, EarlierIsAnOrder
    <3> QED BY <1>2, <1>3, <2>10, <3>1, <3>5 DEF Passed
  <2> QED BY <2>11, <2>12
<1> QED BY <1>4, <1>5, EarlierIsAnOrder

\* The two together.
THEOREM RefusesExactly ==
  ASSUME NEW e, ExtentsOK(e), NEW cap \in Int, Fits(e, cap)
  PROVE  Refused(e, cap) = {i \in DOMAIN e :
                              ~e[i].applied /\ \E j \in DOMAIN e \ {i} : Clash(e[i], e[j])}
BY RefusedClash, ClashRefused

-----------------------------------------------------------------------------
(* Segments.                                                                  *)

\* What lies in earlier segments is judged as if nothing were behind it: it is
\* swept first, the table fills with its collisions first, and none reaches over.
THEOREM EarlierSegmentsAlone ==
  ASSUME NEW e, ExtentsOK(e), NEW f, ExtentsOK(f), NEW cap,
         DOMAIN f \subseteq DOMAIN e, \A i \in DOMAIN f : f[i] = e[i],
         \A i \in DOMAIN f, j \in DOMAIN e \ DOMAIN f : e[i].segment < e[j].segment
  PROVE  Refused(e, cap) \cap DOMAIN f = Refused(f, cap)
<1>1. \A i, j \in DOMAIN f : Earlier(e, j, i) <=> Earlier(f, j, i)
  BY DEF Earlier, SortsBefore
<1>2. ASSUME NEW i \in DOMAIN f, NEW j \in DOMAIN e \ DOMAIN f
      PROVE  ~Earlier(e, j, i) /\ e[j].segment # e[i].segment
  <2>1. e[i].segment \in Int /\ e[j].segment \in Int /\ e[i].segment < e[j].segment
    BY DEF ExtentsOK
  <2> QED BY <2>1 DEF Earlier, SortsBefore
<1>3. \A i \in DOMAIN f : Passed(e, i) = Passed(f, i)
  BY <1>1, <1>2 DEF Passed
<1>4. \A i \in DOMAIN f : Reach(e, i) = Reach(f, i)
  <2> SUFFICES ASSUME NEW i \in DOMAIN f PROVE Reach(e, i) = Reach(f, i)
    OBVIOUS
  <2> DEFINE P(j) == /\ j \in Passed(f, i)
                     /\ \A k \in Passed(f, i) \ {j} :
                          \/ f[k].end < f[j].end
                          \/ f[k].end = f[j].end /\ Earlier(f, j, k)
             Q(j) == /\ j \in Passed(e, i)
                     /\ \A k \in Passed(e, i) \ {j} :
                          \/ e[k].end < e[j].end
                          \/ e[k].end = e[j].end /\ Earlier(e, j, k)
  <2>1. Passed(f, i) \subseteq DOMAIN f
    BY DEF Passed
  <2>2. \A j : P(j) <=> Q(j)
    BY <1>1, <1>3, <2>1
  <2>3. Reach(f, i) = CHOOSE j : P(j)
    BY DEF Reach
  <2>4. Reach(e, i) = CHOOSE j : Q(j)
    BY DEF Reach
  <2> HIDE DEF P, Q
  <2> QED BY <2>2, <2>3, <2>4
<1>5. \A i \in DOMAIN f : Collides(e, i) <=> Collides(f, i)
  <2> TAKE i \in DOMAIN f
  <2>1. CASE Passed(f, i) = {}
    BY <1>3, <2>1 DEF Collides
  <2>2. CASE Passed(f, i) # {}
    <3>1. Reach(f, i) \in DOMAIN f
      BY <2>2, ReachIsFurthest DEF Passed
    <3> QED BY <1>3, <1>4, <3>1 DEF Collides
  <2> QED BY <2>1, <2>2
<1>6. \A i \in DOMAIN f : {j \in DOMAIN e : Collides(e, j) /\ Earlier(e, j, i)}
                          = {j \in DOMAIN f : Collides(f, j) /\ Earlier(f, j, i)}
  BY <1>1, <1>2, <1>5
<1>7. ASSUME NEW i \in DOMAIN f PROVE i \in Found(e, cap) <=> i \in Found(f, cap)
  <2>1. /\ {j \in {k \in DOMAIN e : Collides(e, k)} : Earlier(e, j, i)}
             = {j \in DOMAIN e : Collides(e, j) /\ Earlier(e, j, i)}
        /\ {j \in {k \in DOMAIN f : Collides(f, k)} : Earlier(f, j, i)}
             = {j \in DOMAIN f : Collides(f, j) /\ Earlier(f, j, i)}
    OBVIOUS
  <2>2. {j \in {k \in DOMAIN e : Collides(e, k)} : Earlier(e, j, i)}
          = {j \in {k \in DOMAIN f : Collides(f, k)} : Earlier(f, j, i)}
    BY <1>6, <2>1
  <2> QED BY <1>5, <2>2 DEF Found
<1>8. ASSUME NEW j \in Found(e, cap)
      PROVE  /\ Reach(e, j) \in DOMAIN e /\ e[Reach(e, j)].segment = e[j].segment
             /\ j \in DOMAIN e
  <2>1. j \in DOMAIN e /\ Passed(e, j) # {}
    BY <1>8 DEF Found, Collides
  <2> QED BY <2>1, ReachIsFurthest DEF Passed
<1>9. ASSUME NEW j \in Found(e, cap) PROVE Reach(e, j) \in DOMAIN f <=> j \in DOMAIN f
  BY <1>2, <1>8
<1>10. Found(f, cap) \subseteq DOMAIN f /\ Found(e, cap) \subseteq DOMAIN e
  BY DEF Found
<1>11. ASSUME NEW i \in DOMAIN f
       PROVE  (\E j \in Found(e, cap) : i = Reach(e, j))
                <=> (\E j \in Found(f, cap) : i = Reach(f, j))
  BY <1>4, <1>7, <1>9, <1>10
<1>12. \A j \in Found(f, cap) : Reach(f, j) \in DOMAIN f
  <2> TAKE j \in Found(f, cap)
  <2>1. j \in DOMAIN f /\ Passed(f, j) # {}
    BY DEF Found, Collides
  <2> QED BY <2>1, ReachIsFurthest DEF Passed
<1> QED BY <1>7, <1>10, <1>11, <1>12 DEF Refused
=============================================================================
