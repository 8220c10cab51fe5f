---------------------------- MODULE PatcherProofs -----------------------------
(* Registry and data swaps under one Tick: whatever is declared, the patches fare *)
(* as they would without swaps, and the swaps as their own contract says, as long  *)
(* as the clashes that the sweep finds fit into the table they share.              *)
EXTENDS Patcher, RegistryProofs, DataSwapsProofs

\* What a row holds; at and saved are any of V.
RowsOver(V) ==
  [used : BOOLEAN, desc : SwapDescs \cup {NoSwap}, wanted : BOOLEAN, state : SwapStates,
   at : V, saved : V]

\* A row in use has a descriptor.
SwapRowsOK ==
  /\ \E V : swap \in [Swaps -> RowsOver(V)]
  /\ \A s \in Swaps : swap[s].used => swap[s].desc \in SwapDescs
  /\ swapsDirty \in BOOLEAN

-----------------------------------------------------------------------------
(* The table of both.                                                          *)

\* Behind the rows, each swap has an index of its own.
LEMMA IndexBehindRows ==
  ASSUME Rows # {}, NEW s \in Swaps
  PROVE  /\ SwapIndex(s) \in Nat /\ SwapIndex(s) \notin Rows
         /\ SwapIndex(s) - Highest(Rows) = s
<1>1. Rows \subseteq Nat /\ IsFiniteSet(Rows)
  BY RowsAssumption
<1>2. Highest(Rows) \in Rows /\ \A r \in Rows : r <= Highest(Rows)
  BY <1>1, HighestIn
<1>3. s \in Nat /\ s > 0
  BY SwapsAssumption
<1> DEFINE h == Highest(Rows)
<1>4. h \in Nat /\ SwapIndex(s) = h + s /\ \A r \in Rows : r \in Nat /\ r <= h
  BY <1>1, <1>2 DEF SwapIndex
<1> HIDE DEF h
<1>5. SwapIndex(s) \notin Rows
  BY <1>3, <1>4
<1>6. SwapIndex(s) \in Nat /\ SwapIndex(s) - h = s
  BY <1>3, <1>4
<1> QED BY <1>5, <1>6 DEF h

\* What the caller emits: the rows' extents and those of the swaps in play.
LEMMA AllExtentsAre ==
  ASSUME Rows # {}, TypeInv
  PROVE  /\ DOMAIN AllExtents = DOMAIN Extents \cup {SwapIndex(s) : s \in InPlay}
         /\ \A r \in DOMAIN Extents : AllExtents[r] = Extents[r]
         /\ \A s \in InPlay : AllExtents[SwapIndex(s)] = SwapExtent(s)
         /\ DOMAIN Extents \subseteq Rows
<1>1. DOMAIN Extents \subseteq Rows
  BY ExtentsAreOK DEF Contenders
<1>2. \A s \in InPlay : SwapIndex(s) \notin Rows /\ SwapIndex(s) - Highest(Rows) = s
  BY IndexBehindRows DEF InPlay
<1> QED BY <1>1, <1>2 DEF AllExtents

\* The swaps' indices are as many as the swaps in play, at most.
LEMMA IndicesFinite ==
  /\ IsFiniteSet({SwapIndex(s) : s \in InPlay}) /\ IsFiniteSet(Swaps)
  /\ Cardinality({SwapIndex(s) : s \in InPlay}) <= Cardinality(Swaps)
<1> DEFINE f == [s \in InPlay |-> SwapIndex(s)]
           T == {SwapIndex(s) : s \in InPlay}
<1>1. IsFiniteSet(Swaps) /\ InPlay \in SUBSET Swaps
  BY SwapsAssumption DEF InPlay
<1>2. IsFiniteSet(InPlay) /\ Cardinality(InPlay) <= Cardinality(Swaps)
  BY <1>1, FS_Subset
<1>3. f \in Surjection(InPlay, T)
  BY DEF Surjection
<1> HIDE DEF f, T
<1>4. IsFiniteSet(T) /\ Cardinality(T) <= Cardinality(InPlay)
  BY <1>2, <1>3, FS_Surjection
<1>5. Cardinality(T) \in Nat /\ Cardinality(InPlay) \in Nat /\ Cardinality(Swaps) \in Nat
  BY <1>1, <1>2, <1>4, FS_CardinalityType
<1> QED BY <1>1, <1>2, <1>4, <1>5 DEF T

\* A swap in play spans at least a word.
LEMMA SwapExtentOK ==
  ASSUME SwapRowsOK, NEW s \in InPlay
  PROVE  LET x == SwapExtent(s)
         IN  /\ x.segment = 1 /\ x.start \in Nat /\ x.end \in Nat /\ x.start < x.end
             /\ x.start = swap[s].desc.start /\ x.end = SpanEnd(swap[s].desc)
             /\ x.applied = (swap[s].state = "applied")
<1>1. swap[s].desc \in SwapDescs
  BY DEF SwapRowsOK, InPlay
<1> DEFINE d == swap[s].desc
<1>2. d.start \in Nat /\ d.count * d.stride \in Nat /\ d.count * d.stride > 0
  BY <1>1, SpanSize
<1>3. SpanEnd(d) = d.start + d.count * d.stride
  BY DEF SpanEnd
<1>4. SpanEnd(d) \in Nat /\ d.start < SpanEnd(d)
  BY <1>2, <1>3
<1> QED BY <1>2, <1>4 DEF SwapExtent

\* Finitely many extents, and none is empty.
LEMMA AllExtentsOK ==
  ASSUME Rows # {}, TypeInv, SwapRowsOK
  PROVE  ExtentsOK(AllExtents)
<1> DEFINE T == {SwapIndex(s) : s \in InPlay}
<1>1. /\ DOMAIN AllExtents = DOMAIN Extents \cup T
      /\ \A r \in DOMAIN Extents : AllExtents[r] = Extents[r]
      /\ \A s \in InPlay : AllExtents[SwapIndex(s)] = SwapExtent(s)
  BY AllExtentsAre
<1>2. ExtentsOK(Extents)
  BY ExtentsAreOK
<1>3. T \subseteq Int
  BY IndexBehindRows DEF InPlay
<1>4. IsFiniteSet(T)
  BY IndicesFinite
<1>5. IsFiniteSet(DOMAIN Extents \cup T)
  BY <1>2, <1>4, FS_Union DEF ExtentsOK
<1>6. \A i \in T : /\ AllExtents[i].segment \in Int /\ AllExtents[i].start \in Int
                   /\ AllExtents[i].end \in Int /\ AllExtents[i].start < AllExtents[i].end
  BY <1>1, SwapExtentOK
<1> HIDE DEF T
<1> QED BY <1>1, <1>2, <1>3, <1>5, <1>6 DEF ExtentsOK

-----------------------------------------------------------------------------
(* What the sweep over it refuses.                                             *)

\* Text is swept before data: of the rows, it refuses whom it would refuse without
\* swaps, whether or not the table has room for everything.
LEMMA RowsRefusedAlone ==
  ASSUME Rows # {}, TypeInv, SwapRowsOK
  PROVE  Refused(AllExtents, MaxCollisions) \cap Rows = Refused(Extents, MaxCollisions)
<1>1. ExtentsOK(AllExtents) /\ ExtentsOK(Extents)
  BY AllExtentsOK, ExtentsAreOK
<1>2. /\ DOMAIN Extents \subseteq DOMAIN AllExtents
      /\ \A r \in DOMAIN Extents : Extents[r] = AllExtents[r] /\ AllExtents[r].segment = 0
  BY AllExtentsAre, ExtentsAreOK
<1>3. \A i \in DOMAIN AllExtents \ DOMAIN Extents :
        i \notin Rows /\ AllExtents[i].segment = 1
  BY AllExtentsAre, IndexBehindRows, SwapExtentOK DEF InPlay
<1>4. Refused(AllExtents, MaxCollisions) \cap DOMAIN Extents = Refused(Extents, MaxCollisions)
  BY <1>1, <1>2, <1>3, EarlierSegmentsAlone
<1>5. Refused(AllExtents, MaxCollisions) \subseteq DOMAIN AllExtents
  BY <1>1, RefusedClash
<1>6. DOMAIN Extents \subseteq Rows
  BY AllExtentsAre
<1> QED BY <1>3, <1>4, <1>5, <1>6

\* Of the swaps, if the table has room, it refuses whom the contract of DataSwaps says.
LEMMA SwapsRefusedToldApart ==
  ASSUME Rows # {}, TypeInv, SwapRowsOK, Fits(AllExtents, MaxCollisions)
  PROVE  {s \in Swaps : SwapIndex(s) \in Refused(AllExtents, MaxCollisions)} = ToldApart
<1> DEFINE e == AllExtents
<1>1. Refused(e, MaxCollisions) =
        {i \in DOMAIN e : ~e[i].applied /\ \E j \in DOMAIN e \ {i} : Clash(e[i], e[j])}
  BY AllExtentsOK, RefusesExactly, BoundsAssumption
<1>2. /\ DOMAIN e = DOMAIN Extents \cup {SwapIndex(s) : s \in InPlay}
      /\ DOMAIN Extents \subseteq Rows
      /\ \A r \in DOMAIN Extents : e[r].segment = 0
      /\ \A s \in InPlay : e[SwapIndex(s)] = SwapExtent(s)
  BY AllExtentsAre, ExtentsAreOK
<1>3. \A s, t \in Swaps : SwapIndex(s) \notin Rows /\ (SwapIndex(s) = SwapIndex(t) => s = t)
  BY IndexBehindRows
<1>4. ASSUME NEW s \in InPlay, NEW t \in InPlay
      PROVE  Clash(SwapExtent(s), SwapExtent(t)) <=> SwapsClash(swap[s].desc, swap[t].desc)
  BY SwapExtentOK DEF Clash, SwapsClash
<1>5. ASSUME NEW s \in InPlay
      PROVE  SwapIndex(s) \in Refused(e, MaxCollisions) <=> s \in ToldApart
  <2>1. /\ SwapIndex(s) \in DOMAIN e /\ e[SwapIndex(s)] = SwapExtent(s) /\ s \in Swaps
        /\ SwapExtent(s).segment = 1
        /\ SwapExtent(s).applied <=> swap[s].state = "applied"
    BY <1>2, SwapExtentOK DEF InPlay
  <2>2. ASSUME NEW j \in DOMAIN e \ {SwapIndex(s)}, Clash(SwapExtent(s), e[j])
        PROVE  \E t \in InPlay \ {s} : SwapsClash(swap[s].desc, swap[t].desc)
    <3>1. e[j].segment = 1
      BY <2>1, <2>2 DEF Clash
    <3>2. PICK t \in InPlay : j = SwapIndex(t)
      BY <1>2, <3>1
    <3> QED BY <1>2, <1>4, <2>2, <3>2
  <2>3. ASSUME NEW t \in InPlay \ {s}, SwapsClash(swap[s].desc, swap[t].desc)
        PROVE  \E j \in DOMAIN e \ {SwapIndex(s)} : Clash(SwapExtent(s), e[j])
    <3>1. SwapIndex(t) \in DOMAIN e /\ SwapIndex(t) # SwapIndex(s)
      BY <1>2, <1>3, <2>1 DEF InPlay
    <3> QED BY <1>2, <1>4, <2>3, <3>1
  <2> HIDE DEF e
  <2> QED BY <1>1, <2>1, <2>2, <2>3 DEF ToldApart
<1>6. ASSUME NEW s \in Swaps, SwapIndex(s) \in Refused(e, MaxCollisions) PROVE s \in InPlay
  <2>1. SwapIndex(s) \in DOMAIN e /\ SwapIndex(s) \notin DOMAIN Extents
    BY <1>1, <1>2, <1>3, <1>6
  <2>2. PICK t \in InPlay : SwapIndex(s) = SwapIndex(t)
    BY <1>2, <2>1
  <2> QED BY <1>3, <2>2 DEF InPlay
<1> QED BY <1>5, <1>6 DEF ToldApart, InPlay

\* findCollisions, judged on one table, is for the rows what it is without swaps, and
\* for the swaps what their contract asks.
LEMMA CollisionsJudged ==
  ASSUME Rows # {}, TypeInv, SwapRowsOK, FindCollisions
  PROVE  /\ TickCollide(Refused(Extents, MaxCollisions))
         /\ Fits(AllExtents, MaxCollisions) => JudgeSwaps(ToldApart)
<1> DEFINE all == Refused(AllExtents, MaxCollisions)
           own == Refused(Extents, MaxCollisions)
<1>1. /\ TickCollide(all)
      /\ JudgeSwaps({s \in Swaps : SwapIndex(s) \in all})
  BY DEF FindCollisions
<1>2. \A r \in Rows : r \in all <=> r \in own
  BY RowsRefusedAlone
<1>3. TickCollide(own)
  <2> HIDE DEF all, own
  <2> QED BY <1>1, <1>2 DEF TickCollide
<1> QED BY <1>1, <1>3, SwapsRefusedToldApart

-----------------------------------------------------------------------------
(* The rows of the swaps, whomever the judge of collisions refuses.            *)

\* It is so at first.
LEMMA RowsFirst == SwapsInit => SwapRowsOK
<1> SUFFICES ASSUME SwapsInit PROVE SwapRowsOK
  OBVIOUS
<1> DEFINE V == {0, Loaded}
<1>1. NewSwap \in RowsOver(V) /\ ~NewSwap.used
  BY DEF NewSwap, RowsOver, SwapStates
<1>2. swap \in [Swaps -> RowsOver(V)] /\ \A s \in Swaps : ~swap[s].used
  BY <1>1 DEF SwapsInit
<1> HIDE DEF V
<1> QED BY <1>2 DEF SwapRowsOK, SwapsInit

\* Rows, some changed, that keep their use and their descriptor stay so.
LEMMA RowsKept ==
  ASSUME SwapRowsOK, swapsDirty' \in BOOLEAN, NEW V, swap' \in [Swaps -> RowsOver(V)],
         \A s \in Swaps : swap'[s].used = swap[s].used /\ swap'[s].desc = swap[s].desc
  PROVE  SwapRowsOK'
BY DEF SwapRowsOK

\* One row changes and keeps its use and its descriptor.
LEMMA SwapRowChanged ==
  ASSUME SwapRowsOK, swapsDirty' = swapsDirty, NEW s, NEW x, swap' = [swap EXCEPT ![s] = x],
         s \in Swaps => /\ \E W : x \in RowsOver(W)
                        /\ x.used = swap[s].used /\ x.desc = swap[s].desc
  PROVE  SwapRowsOK'
<1>1. PICK V : swap \in [Swaps -> RowsOver(V)]
  BY Zenon DEF SwapRowsOK
<1>2. CASE s \in Swaps
  <2>1. PICK W : x \in RowsOver(W)
    BY <1>2
  <2>2. \A r \in RowsOver(V) \cup RowsOver(W) : r \in RowsOver(V \cup W)
    BY DEF RowsOver
  <2>3. swap' \in [Swaps -> RowsOver(V \cup W)]
    BY <1>1, <2>1, <2>2
  <2>4. \A k \in Swaps : swap'[k].used = swap[k].used /\ swap'[k].desc = swap[k].desc
    BY <1>1, <1>2
  <2> QED BY <2>3, <2>4, RowsKept DEF SwapRowsOK
<1>3. CASE s \notin Swaps
  <2>1. swap' = swap
    BY <1>1, <1>3
  <2> QED BY <2>1 DEF SwapRowsOK
<1> QED BY <1>2, <1>3

\* Every step, and the judgement of a table that had no room for all.
LEMMA RowsStayOK ==
  ASSUME SwapRowsOK,
         [SwapsNext]_swapVars \/ \E clashing \in SUBSET Swaps : JudgeSwaps(clashing)
  PROVE  SwapRowsOK'
<1>0. PICK V : swap \in [Swaps -> RowsOver(V)]
  BY DEF SwapRowsOK
<1> DEFINE W == V \cup {0, Loaded}
<1>1. \A r \in RowsOver(V) : r \in RowsOver(W)
  BY DEF RowsOver
<1>2. \A k \in Swaps : swap[k] \in RowsOver(V) /\ swap[k] \in RowsOver(W)
  BY <1>0, <1>1
<1>3. swapsDirty \in BOOLEAN
  BY DEF SwapRowsOK
<1>4. ASSUME UNCHANGED swap, swapsDirty' \in BOOLEAN PROVE SwapRowsOK'
  BY <1>4 DEF SwapRowsOK
<1>5. ASSUME NEW clashing, JudgeSwaps(clashing) PROVE SwapRowsOK'
  <2> DEFINE f(k) == IF k \in clashing /\ swap[k].state # "applied"
                     THEN [swap[k] EXCEPT !.state = "collided"]
                     ELSE IF ClearedFirst(k) THEN [swap[k] EXCEPT !.state = "declared"]
                     ELSE swap[k]
  <2>1. swap' = [k \in Swaps |-> f(k)] /\ swapsDirty' = swapsDirty
    BY <1>5 DEF JudgeSwaps
  <2>2. \A k \in Swaps : /\ f(k) \in RowsOver(V)
                         /\ f(k).used = swap[k].used /\ f(k).desc = swap[k].desc
    BY <1>2 DEF RowsOver, SwapStates
  <2> HIDE DEF f
  <2> QED BY <1>3, <2>1, <2>2, RowsKept
<1>6. ASSUME NEW d \in SwapDescs, DeclareSwap(d) PROVE SwapRowsOK'
  <2> DEFINE x == [NewSwap EXCEPT !.used = TRUE, !.desc = d]
  <2>1. PICK s \in Swaps : swap' = [swap EXCEPT ![s] = x]
    BY <1>6 DEF DeclareSwap
  <2>2. swapsDirty' = swapsDirty
    BY <1>6 DEF DeclareSwap
  <2>3. x \in RowsOver(W) /\ x.desc \in SwapDescs
    BY DEF RowsOver, NewSwap, SwapStates
  <2> HIDE DEF x, W
  <2>4. swap \in [Swaps -> RowsOver(W)]
    BY <1>0, <1>2
  <2>5. swap' \in [Swaps -> RowsOver(W)]
    BY <2>1, <2>3, <2>4
  <2>6. \A k \in Swaps : swap'[k] = IF k = s THEN x ELSE swap[k]
    BY <2>1, <2>4
  <2> QED BY <1>3, <2>2, <2>3, <2>5, <2>6 DEF SwapRowsOK
<1>7. ASSUME NEW s \in Swaps, NEW enabled \in BOOLEAN, EnableSwap(s, enabled) PROVE SwapRowsOK'
  <2> DEFINE x == [swap[s] EXCEPT !.wanted = enabled]
  <2>1. swap' = [swap EXCEPT ![s] = x] /\ swapsDirty' = TRUE
    BY <1>7 DEF EnableSwap
  <2>2. x \in RowsOver(V) /\ x.used = swap[s].used /\ x.desc = swap[s].desc
    BY <1>2 DEF RowsOver
  <2> HIDE DEF x
  <2>3. swap' \in [Swaps -> RowsOver(V)]
    BY <1>0, <2>1, <2>2
  <2>4. \A k \in Swaps : swap'[k].used = swap[k].used /\ swap'[k].desc = swap[k].desc
    BY <1>0, <2>1, <2>2
  <2> QED BY <2>1, <2>3, <2>4, RowsKept
<1>8. CASE ForgetSwaps
  <2> DEFINE f(k) == IF swap[k].used THEN [Removed(k) EXCEPT !.wanted = FALSE] ELSE swap[k]
  <2>1. swap' = [k \in Swaps |-> f(k)] /\ swapsDirty' = TRUE
    BY <1>8 DEF ForgetSwaps
  <2>2. \A k \in Swaps : /\ f(k) \in RowsOver(W)
                         /\ f(k).used = swap[k].used /\ f(k).desc = swap[k].desc
    BY <1>2 DEF RowsOver, Removed, SwapStates
  <2> HIDE DEF f, W
  <2> QED BY <2>1, <2>2, RowsKept
<1>9. CASE WalkStep
  <2>1. ASSUME NEW s \in Swaps, StartSwap(s) PROVE SwapRowsOK'
    <3>1. swapsDirty' = swapsDirty
      BY <2>1 DEF StartSwap
    <3>2. ASSUME NEW state \in SwapStates, swap' = [swap EXCEPT ![s].state = state]
          PROVE  SwapRowsOK'
      <4> DEFINE x == [swap[s] EXCEPT !.state = state]
      <4>1. swap' = [swap EXCEPT ![s] = x]
        BY <3>2
      <4>2. x \in RowsOver(V) /\ x.used = swap[s].used /\ x.desc = swap[s].desc
        BY <1>2 DEF RowsOver
      <4> HIDE DEF x
      <4> QED BY <3>1, <4>1, <4>2, SwapRowChanged
    <3>3. CASE StartApply(s)
      <4> DEFINE b == swap[s].desc.start + base
                 x == [swap[s] EXCEPT !.at = b]
      <4>1. swap' = [swap EXCEPT ![s] = x]
        BY <3>3 DEF StartApply
      <4>2. x \in RowsOver(V \cup {b}) /\ x.used = swap[s].used /\ x.desc = swap[s].desc
        BY <1>2 DEF RowsOver
      <4> HIDE DEF x, b
      <4> QED BY <3>1, <4>1, <4>2, SwapRowChanged
    <3>4. ASSUME UNCHANGED swap PROVE SwapRowsOK'
      BY <1>3, <1>4, <3>1, <3>4
    <3> QED BY <2>1, <3>2, <3>3, <3>4
            DEF StartSwap, BlockSwap, FailSwap, StartRemove, SwapStates
  <2>2. ASSUME NEW s \in Swaps, FinishSwap(s) PROVE SwapRowsOK'
    <3> DEFINE x == IF swap[s].state = "applied" THEN Removed(s)
                    ELSE [swap[s] EXCEPT !.state = "applied"]
    <3>1. swap' = [swap EXCEPT ![s] = x] /\ swapsDirty' = swapsDirty
      BY <2>2 DEF FinishSwap
    <3>2. x \in RowsOver(W) /\ x.used = swap[s].used /\ x.desc = swap[s].desc
      BY <1>2 DEF RowsOver, Removed, SwapStates
    <3> HIDE DEF x, W
    <3> QED BY <3>1, <3>2, SwapRowChanged
  <2>3. ASSUME NEW a, NEW w, StoreSlot(a, w) PROVE SwapRowsOK'
    <3>1. CASE PutSlot(walk.on, a, w)
      <4>1. PICK s : s = walk.on
        OBVIOUS
      <4> DEFINE v == [swap[s].saved EXCEPT ![a] = w]
                 x == [swap[s] EXCEPT !.saved = v]
      <4>2. swap' = [swap EXCEPT ![s] = x] /\ swapsDirty' = swapsDirty
        BY <2>3, <3>1, <4>1 DEF StoreSlot, PutSlot
      <4> HIDE DEF v
      <4>3. s \in Swaps => /\ x \in RowsOver(V \cup {v})
                           /\ x.used = swap[s].used /\ x.desc = swap[s].desc
        BY <1>2 DEF RowsOver
      <4> HIDE DEF x
      <4> QED BY <4>2, <4>3, SwapRowChanged
    <3>2. CASE ClearSlot(walk.on, a, w)
      BY <1>3, <1>4, <2>3, <3>2 DEF StoreSlot, ClearSlot
    <3> QED BY <2>3, <3>1, <3>2 DEF StoreSlot
  <2> QED BY <1>3, <1>4, <1>9, <2>1, <2>2, <2>3 DEF WalkStep, ReadSlot, WalkEnd
<1>10. ASSUME NEW b, GiveBack(b) PROVE SwapRowsOK'
  BY <1>3, <1>4, <1>10 DEF GiveBack
<1>11. ASSUME NEW found, ReconcileStart(found) PROVE SwapRowsOK'
  BY <1>4, <1>11 DEF ReconcileStart
<1>12. ASSUME NEW a, NEW w, GameWrite(a, w) PROVE SwapRowsOK'
  BY <1>3, <1>4, <1>12 DEF GameWrite
<1>13. CASE UNCHANGED swapVars
  BY <1>3, <1>4, <1>13 DEF swapVars
<1> QED BY <1>5, <1>6, <1>7, <1>8, <1>9, <1>10, <1>11, <1>12, <1>13 DEF SwapsNext

-----------------------------------------------------------------------------
(* What the patches see.                                                      *)

\* Every step is one of Registry's, or leaves the patches alone.
LEMMA PatchesStep ==
  ASSUME Rows # {}, DataDirty = BOOLEAN, TypeInv, SwapRowsOK, [PatcherNext]_patcherVars
  PROVE  [Next]_vars
<1>1. HostOnPatches => Host
  BY DEF HostOnPatches, Host
<1>2. HostOnSwaps => UNCHANGED vars
  BY DEF HostOnSwaps
<1>3. HostRemovesAll => Host
  BY DEF HostRemovesAll, Host
<1>4. ProcessEnds => Host
  BY DEF ProcessEnds, Host
<1>5. TickFrame => TickBegin
  <2>1. swapsDirty \in DataDirty
    BY DEF SwapRowsOK
  <2> QED BY <2>1 DEF TickFrame, TickBegin
<1>6. ASSUME NEW c \in Configs, HostReconfigures(c) PROVE Host
  BY <1>6 DEF HostReconfigures, Host
<1>7. FindCollisions => TickStep
  BY CollisionsJudged DEF TickStep
<1>8. TickOnCode => TickStep
  BY DEF TickOnCode, TickStep
<1>9. TickOnData => UNCHANGED vars
  BY DEF TickOnData
<1>10. TitleWrites => UNCHANGED vars
  BY DEF TitleWrites
<1>11. (UNCHANGED patcherVars) => UNCHANGED vars
  BY DEF patcherVars
<1>12. (Host \/ TickBegin \/ TickStep) /\ LookAnew => Next
  BY DEF Next
<1>13. CASE PatcherNext
  BY <1>1, <1>2, <1>3, <1>4, <1>5, <1>6, <1>7, <1>8, <1>9, <1>10, <1>12, <1>13 DEF PatcherNext
<1> QED BY <1>11, <1>13

\* To the swaps every step is one of their contract, except that a table without room
\* may refuse others.
LEMMA SwapsStep ==
  ASSUME Rows # {}, TypeInv, SwapRowsOK, [PatcherNext]_patcherVars
  PROVE  /\ [SwapsNext]_swapVars \/ \E clashing \in SUBSET Swaps : JudgeSwaps(clashing)
         /\ Fits(AllExtents, MaxCollisions) => [SwapsNext]_swapVars
<1>1. CASE HostOnPatches
  BY <1>1 DEF HostOnPatches
<1>2. CASE HostOnSwaps
  BY <1>2 DEF HostOnSwaps, SwapsNext
<1>3. CASE HostRemovesAll
  BY <1>3 DEF HostRemovesAll, SwapsNext
<1>4. CASE ProcessEnds
  BY <1>4 DEF ProcessEnds, SwapsNext
<1>5. CASE TickFrame
  BY <1>5 DEF TickFrame, SwapsNext
<1>6. ASSUME NEW c \in Configs, HostReconfigures(c) PROVE SwapsNext \/ UNCHANGED swapVars
  <2>1. DataDelta[c.delta] \in Bases
    BY DataDeltaAssumption
  <2> QED BY <1>6, <2>1 DEF HostReconfigures, Moved, SwapsNext
<1>7. CASE FindCollisions
  <2>1. \E clashing \in SUBSET Swaps : JudgeSwaps(clashing)
    BY <1>7 DEF FindCollisions
  <2>2. Fits(AllExtents, MaxCollisions) => SwapsNext
    BY <1>7, CollisionsJudged DEF SwapsNext
  <2> QED BY <2>1, <2>2
<1>8. CASE TickOnCode
  BY <1>8 DEF TickOnCode
<1>9. CASE TickOnData
  BY <1>9 DEF TickOnData, SwapsNext
<1>10. CASE TitleWrites
  BY <1>10 DEF TitleWrites, SwapsNext
<1>11. CASE UNCHANGED patcherVars
  BY <1>11 DEF patcherVars
<1> QED BY <1>1, <1>2, <1>3, <1>4, <1>5, <1>6, <1>7, <1>8, <1>9, <1>10, <1>11 DEF PatcherNext

-----------------------------------------------------------------------------
(* The theorems.                                                              *)

BothTyped == TypeInv /\ SwapRowsOK

\* The patches keep their types and the swaps their rows, room in the table or not.
LEMMA BothTypedIsInvariant ==
  ASSUME Rows # {}, DataDirty = BOOLEAN
  PROVE  PatcherSpec => []BothTyped
<1>1. PatcherInit => BothTyped
  BY InitTyped, RowsFirst DEF PatcherInit, BothTyped
<1>2. BothTyped /\ [PatcherNext]_patcherVars => BothTyped'
  BY PatchesStep, NextTyped, SwapsStep, RowsStayOK DEF BothTyped
<1> QED BY <1>1, <1>2, PTL DEF PatcherSpec

\* Whatever swaps are declared and wherever they clash, the patches fare as Registry
\* alone says: all that is proved of it holds in the whole.
THEOREM PatchesUndisturbedHolds ==
  ASSUME Rows # {}, DataDirty = BOOLEAN
  PROVE  PatcherSpec => PatchesUndisturbed
<1>1. PatcherInit => Init
  BY DEF PatcherInit
<1>2. BothTyped /\ [PatcherNext]_patcherVars => [Next]_vars
  BY PatchesStep DEF BothTyped
<1> QED BY <1>1, <1>2, BothTypedIsInvariant, PTL DEF PatcherSpec, PatchesUndisturbed, Spec

\* The shared table is the arbiter that the swaps rely on, as long as it has room for
\* the clashes of both kinds, and nothing else of Tick, RemoveAll or Configure breaks
\* their contract.
THEOREM SwapsArbitratedHolds ==
  ASSUME Rows # {}, DataDirty = BOOLEAN
  PROVE  PatcherSpec /\ []Fits(AllExtents, MaxCollisions) => SwapsArbitrated
<1>1. PatcherInit => SwapsInit
  BY DEF PatcherInit
<1>2. BothTyped /\ Fits(AllExtents, MaxCollisions) /\ [PatcherNext]_patcherVars
        => [SwapsNext]_swapVars
  BY SwapsStep DEF BothTyped
<1> QED BY <1>1, <1>2, BothTypedIsInvariant, PTL DEF PatcherSpec, SwapsArbitrated, SwapsSpec

\* It always has room where there are no more rows and swaps than entries in it.
LEMMA FewFitTogether ==
  ASSUME Rows # {}, BothTyped, Cardinality(Rows) + Cardinality(Swaps) <= MaxCollisions
  PROVE  Fits(AllExtents, MaxCollisions)
<1> DEFINE T == {SwapIndex(s) : s \in InPlay}
<1>1. ExtentsOK(AllExtents)
  BY AllExtentsOK DEF BothTyped
<1>2. DOMAIN AllExtents = DOMAIN Extents \cup T /\ DOMAIN Extents \in SUBSET Rows
  BY AllExtentsAre DEF BothTyped
<1>3. IsFiniteSet(T) /\ IsFiniteSet(Swaps) /\ Cardinality(T) <= Cardinality(Swaps)
  BY IndicesFinite
<1> HIDE DEF T
<1>4. /\ IsFiniteSet(Rows) /\ IsFiniteSet(DOMAIN Extents)
      /\ Cardinality(DOMAIN Extents) <= Cardinality(Rows)
  BY <1>2, FS_Subset, RowsAssumption
<1>5. /\ IsFiniteSet(DOMAIN Extents \cup T)
      /\ Cardinality(DOMAIN Extents \cup T) =
           Cardinality(DOMAIN Extents) + Cardinality(T) - Cardinality(DOMAIN Extents \cap T)
  BY <1>3, <1>4, FS_Union
<1>6. IsFiniteSet(DOMAIN Extents \cap T)
  <2>1. DOMAIN Extents \cap T \in SUBSET T
    OBVIOUS
  <2> QED BY <1>3, <2>1, FS_Subset
<1>7. /\ Cardinality(Rows) \in Nat /\ Cardinality(Swaps) \in Nat /\ Cardinality(T) \in Nat
      /\ Cardinality(DOMAIN Extents) \in Nat /\ Cardinality(DOMAIN Extents \cap T) \in Nat
  BY <1>3, <1>4, <1>6, FS_CardinalityType
<1>8. Cardinality(DOMAIN AllExtents) <= MaxCollisions
  BY <1>2, <1>3, <1>4, <1>5, <1>7, BoundsAssumption
<1> QED BY <1>1, <1>8, FewFit, BoundsAssumption

\* So with few of both the contract is kept without more ado.
THEOREM FewSwapsArbitrated ==
  ASSUME Rows # {}, DataDirty = BOOLEAN,
         Cardinality(Rows) + Cardinality(Swaps) <= MaxCollisions
  PROVE  PatcherSpec => SwapsArbitrated
<1>1. BothTyped => Fits(AllExtents, MaxCollisions)
  BY FewFitTogether
<1> QED BY <1>1, BothTypedIsInvariant, SwapsArbitratedHolds, PTL

\* What is proved of the swaps alone holds in the whole: with patches next to them in
\* the table, no two overlapping swaps are applied, and .data is the title's own but
\* for the slots of those applied or being written, and for a word that the title wrote
\* between our read of it and our store.
THEOREM SwapsSafeInWhole ==
  ASSUME Rows # {}, DataDirty = BOOLEAN
  PROVE  PatcherSpec /\ []Fits(AllExtents, MaxCollisions) => [](SwapsDisjoint /\ DataIntact)
BY SwapsArbitratedHolds, SwapsStayApart, DataStaysIntact, PTL DEF SwapsArbitrated
=============================================================================
