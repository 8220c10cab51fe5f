--------------------------- MODULE DataSwapsProofs ---------------------------
(* Proofs about DataSwaps, for every table of swaps, memory and delta: no store *)
(* lands outside of what is mapped, applied swaps never overlap, and every word  *)
(* of .data is the title's own or an applied swap's.                            *)
EXTENDS DataSwaps, TLAPS

-----------------------------------------------------------------------------
(* Slots and spans.                                                           *)

\* A slot is inside the span of its descriptor: the word offset stays below the
\* stride, and there are as many strides as slots.
LEMMA SlotInSpan ==
  ASSUME NEW d \in SwapDescs, NEW b \in Nat, NEW a \in SlotsFrom(d, b)
  PROVE  a \in Nat /\ b <= a /\ a <= b + d.count * d.stride - 1
<1>1. /\ d.stride \in Nat /\ d.count \in Nat /\ d.offset \in Nat
      /\ d.count > 0 /\ d.offset < d.stride
  BY SwapDescsAssumption
<1>2. PICK i \in 0..(d.count - 1) : a = b + i * d.stride + d.offset
  BY DEF SlotsFrom
<1> DEFINE rest == d.count - 1 - i
<1>3. i \in Nat /\ rest \in Nat /\ d.count = i + rest + 1
  BY <1>1, <1>2
<1>4. i * d.stride \in Nat /\ rest * d.stride \in Nat
  BY <1>1, <1>3
<1>5. d.count * d.stride = i * d.stride + rest * d.stride + d.stride
  BY <1>1, <1>3
<1> HIDE DEF rest
<1> QED BY <1>1, <1>2, <1>4, <1>5

\* A span is not empty and its size is a number.
LEMMA SpanSize ==
  ASSUME NEW d \in SwapDescs
  PROVE  d.start \in Nat /\ d.count * d.stride \in Nat /\ d.count * d.stride > 0
<1>1. d.start \in Nat /\ d.stride \in Nat \ {0} /\ d.count \in Nat \ {0}
  BY SwapDescsAssumption
<1>2. d.count * d.stride = (d.count - 1) * d.stride + d.stride
  BY <1>1
<1>3. (d.count - 1) * d.stride \in Nat
  BY <1>1
<1> QED BY <1>1, <1>2, <1>3

\* Where both ends of a span are mapped, so is every slot.
LEMMA SlotsMapped ==
  ASSUME NEW d \in SwapDescs, NEW b \in Nat, EndsMapped(d, b)
  PROVE  SlotsFrom(d, b) \subseteq Mapped
<1>1. ASSUME NEW a \in SlotsFrom(d, b) PROVE a \in b..(b + d.count * d.stride - 1)
  BY SlotInSpan, SpanSize
<1>2. b..(b + d.count * d.stride - 1) \subseteq Mapped
  BY DataAssumption DEF EndsMapped
<1> QED BY <1>1, <1>2

\* Spans that do not clash share no slot, wherever the delta puts them.
LEMMA SlotsApart ==
  ASSUME NEW d \in SwapDescs, NEW e \in SwapDescs, NEW b \in Nat, ~SwapsClash(d, e)
  PROVE  SlotsFrom(d, d.start + b) \cap SlotsFrom(e, e.start + b) = {}
<1> SUFFICES ASSUME NEW a \in SlotsFrom(d, d.start + b), a \in SlotsFrom(e, e.start + b)
             PROVE  FALSE
  OBVIOUS
<1>1. d.start + b \in Nat /\ e.start + b \in Nat
  BY SpanSize
<1>2. a \in Nat /\ d.start + b <= a /\ a <= d.start + b + d.count * d.stride - 1
  BY <1>1, SlotInSpan
<1>3. e.start + b <= a /\ a <= e.start + b + e.count * e.stride - 1
  BY <1>1, SlotInSpan
<1>4. /\ d.count * d.stride \in Nat /\ e.count * e.stride \in Nat
      /\ d.start \in Nat /\ e.start \in Nat
  BY SpanSize
<1>5. d.start < e.start + e.count * e.stride /\ e.start < d.start + d.count * d.stride
  <2> DEFINE m == d.count * d.stride
             n == e.count * e.stride
  <2>1. m \in Nat /\ n \in Nat /\ a <= d.start + b + m - 1 /\ a <= e.start + b + n - 1
    BY <1>2, <1>3, <1>4
  <2> HIDE DEF m, n
  <2>2. d.start < e.start + n /\ e.start < d.start + m
    BY <1>2, <1>3, <1>4, <2>1
  <2> QED BY <2>2 DEF m, n
<1> QED BY <1>5 DEF SwapsClash, SpanEnd

-----------------------------------------------------------------------------
(* The invariant.                                                             *)

\* A swap applied or in hand is where the data delta puts it, all of it in mapped
\* memory.
Placed ==
  \A s \in Touched :
    /\ swap[s].used
    /\ swap[s].at = swap[s].desc.start + base
    /\ EndsMapped(swap[s].desc, swap[s].at)

\* What is still to be applied once collisions were judged clashes with nothing
\* that is wanted or applied.
Judged ==
  /\ walk.pc \in {"idle", "giveback"} => ~walk.ready
  /\ walk.pc = "judged" => walk.ready
  /\ walk.pc # "idle" /\ walk.ready =>
       \A s \in Swaps : Awaiting(s) =>
         \A t \in InPlay \ {s} : ~SwapsClash(swap[s].desc, swap[t].desc)

\* Between two swaps nothing is left over; the one in hand is either given back or,
\* judged free, applied.
InHand ==
  /\ walk.pc \in {"idle", "judged"} => walk.on = 0
  /\ walk.on = 0 => walk.todo = {} /\ walk.seen = {}
  /\ walk.todo = {} => walk.seen = {}
  /\ walk.on # 0 =>
       /\ walk.todo \subseteq SlotsOf(walk.on)
       /\ IF swap[walk.on].state = "applied"
          THEN walk.pc = "walk" => ~swap[walk.on].wanted
          ELSE walk.pc = "walk" /\ walk.ready /\ Awaiting(walk.on)

\* Giving back goes through the swaps in their order and misses none.
NoneMissed ==
  walk.pc = "giveback" =>
    \A k \in AppliedSwaps : k > walk.at /\ (walk.on # 0 => walk.on <= k)

\* A slot that holds our value has the title's own word saved, or one it was too late
\* to save.
SavedRight ==
  \A s \in Swaps : \A a \in Written(s) :
    data[a] = swap[s].desc.value => swap[s].saved[a] = native[a] \/ a \in lost

\* What was read in the next slot is still there, or the title has written since.
SeenRight ==
  \A a \in Mapped, w \in walk.seen : NextSlot(a) /\ data[a] # w => data[a] \in GameWords

SwapsInv ==
  /\ SwapsTypeOK /\ Placed /\ Judged /\ InHand /\ NoneMissed
  /\ SwapsDisjoint /\ SavedRight /\ SeenRight /\ DataIntact

\* No swap has the number 0.
LEMMA NoSwapZero == \A s \in Swaps : s \in Nat /\ s # 0 /\ s > 0
BY SwapsAssumption

\* The slots of two swaps applied or in hand are different words of mapped memory.
LEMMA TouchedSlots ==
  ASSUME SwapsTypeOK, Placed, SwapsDisjoint
  PROVE  /\ \A s \in Touched : SlotsOf(s) \subseteq Mapped
         /\ \A s, t \in Touched : s # t => SlotsOf(s) \cap SlotsOf(t) = {}
<1>1. ASSUME NEW s \in Touched
      PROVE  /\ s \in Swaps /\ swap[s].desc \in SwapDescs
             /\ swap[s].at = swap[s].desc.start + base /\ swap[s].at \in Nat
  BY SpanSize, DataAssumption DEF SwapsTypeOK, Placed, Touched
<1>2. ASSUME NEW s \in Touched PROVE SlotsOf(s) \subseteq Mapped
  BY <1>1, SlotsMapped DEF Placed, SlotsOf
<1>3. ASSUME NEW s \in Touched, NEW t \in Touched, s # t
      PROVE  SlotsOf(s) \cap SlotsOf(t) = {}
  <2>1. ~SwapsClash(swap[s].desc, swap[t].desc)
    BY <1>3 DEF SwapsDisjoint
  <2>2. base \in Nat
    BY DataAssumption DEF SwapsTypeOK
  <2> QED BY <1>1, <2>1, <2>2, SlotsApart DEF SlotsOf
<1> QED BY <1>2, <1>3

\* What is written is a slot of a swap applied or in hand, and of no other.
LEMMA WrittenSlots ==
  ASSUME SwapsInv
  PROVE  /\ \A s \in Swaps : Written(s) \subseteq SlotsOf(s) /\ Written(s) \subseteq Mapped
         /\ \A s \in Swaps : Written(s) # {} => s \in Touched /\ swap[s].used
         /\ \A s \in Touched, t \in Swaps : s # t => SlotsOf(s) \cap Written(t) = {}
<1>1. ASSUME NEW s \in Swaps PROVE Written(s) \subseteq SlotsOf(s)
  BY NoSwapZero DEF Written, SwapsInv, InHand
<1>2. ASSUME NEW s \in Swaps, Written(s) # {} PROVE s \in Touched /\ swap[s].used
  BY <1>2 DEF Written, Touched, SwapsInv, Placed
<1> QED BY <1>1, <1>2, TouchedSlots DEF SwapsInv

\* There is one next slot.
LEMMA OneNextSlot ==
  ASSUME SwapsTypeOK, NEW a, NEW b, NextSlot(a), NextSlot(b)
  PROVE  a = b /\ a \in Mapped
<1>1. a <= b /\ b <= a /\ a \in Mapped /\ b \in Mapped
  BY DEF NextSlot, SwapsTypeOK, Walks
<1>2. a \in Nat /\ b \in Nat
  BY <1>1, DataAssumption
<1> QED BY <1>1, <1>2

-----------------------------------------------------------------------------
(* The steps.  Rows that are neither applied nor in hand carry no obligation on *)
(* the data, so the host's calls and the judgement of collisions leave all but    *)
(* Judged alone.                                                                *)

\* Before anything was declared, all holds.
LEMMA InitInv == SwapsInit => SwapsInv
<1> SUFFICES ASSUME SwapsInit PROVE SwapsInv
  OBVIOUS
<1> USE DEF SwapsInit, NewSwap, NoWalk
<1>1. SwapsTypeOK
  BY DataAssumption DEF SwapsTypeOK, SwapRecords, SwapStates, Walks
<1>2. AppliedSwaps = {} /\ Touched = {} /\ \A s \in Swaps : Written(s) = {}
  BY NoSwapZero DEF AppliedSwaps, Touched, Written
<1>3. Judged /\ InHand /\ NoneMissed /\ SeenRight
  BY DEF Judged, InHand, NoneMissed, SeenRight
<1>4. DataIntact
  BY DEF DataIntact
<1> QED BY <1>1, <1>2, <1>3, <1>4 DEF SwapsInv, Placed, SwapsDisjoint, SavedRight

\* A step that holds no swap, and leaves data, delta and the applied rows as they
\* were, keeps what is about applied rows.
LEMMA AppliedKept ==
  ASSUME SwapsInv, SwapsTypeOK', Judged', NoneMissed',
         walk.on = 0, walk'.on = 0, walk'.todo = {}, walk'.seen = {},
         AppliedSwaps' = AppliedSwaps,
         \A s \in AppliedSwaps : /\ swap'[s].desc = swap[s].desc
                                 /\ swap'[s].at = swap[s].at
                                 /\ swap'[s].saved = swap[s].saved,
         UNCHANGED <<base, dataWords>>
  PROVE  SwapsInv'
<1> USE DEF dataWords
<1>1. /\ Touched = AppliedSwaps /\ Touched' = AppliedSwaps
      /\ AppliedSwaps \subseteq Swaps
      /\ \A s \in AppliedSwaps : SlotsOf(s)' = SlotsOf(s) /\ swap'[s].used
  BY NoSwapZero DEF Touched, SlotsOf, AppliedSwaps
<1>2. \A s \in Swaps : /\ Written(s) = IF s \in AppliedSwaps THEN SlotsOf(s) ELSE {}
                       /\ Written(s)' = Written(s)
  BY <1>1, NoSwapZero DEF Written
<1>3. Placed' /\ InHand'
  BY <1>1 DEF SwapsInv, Placed, InHand
<1>4. SwapsDisjoint'
  BY <1>1 DEF SwapsInv, SwapsDisjoint
<1>5. SavedRight' /\ SeenRight'
  BY <1>2 DEF SwapsInv, SavedRight, SeenRight
<1>6. DataIntact'
  BY <1>2 DEF SwapsInv, DataIntact
<1> QED BY <1>3, <1>4, <1>5, <1>6 DEF SwapsInv

\* Declare: a fresh row is not applied.
LEMMA DeclareKeeps ==
  ASSUME SwapsInv, NEW d \in SwapDescs, DeclareSwap(d)
  PROVE  SwapsInv'
<1>1. PICK s \in Swaps :
        /\ FreshSwap(s)
        /\ swap' = [swap EXCEPT ![s] = [NewSwap EXCEPT !.used = TRUE, !.desc = d]]
  BY DEF DeclareSwap
<1>2. UNCHANGED <<swapsDirty, base, walk, dataWords>> /\ walk.pc = "idle"
  BY DEF DeclareSwap, Resting
<1>3. SwapsTypeOK'
  BY <1>1, <1>2, DataAssumption
     DEF SwapsInv, SwapsTypeOK, SwapRecords, SwapStates, NewSwap, dataWords
<1>4. s \notin AppliedSwaps
  BY <1>1 DEF FreshSwap, AppliedSwaps
<1>5. /\ AppliedSwaps' = AppliedSwaps
      /\ \A k \in AppliedSwaps : swap'[k] = swap[k]
  BY <1>1, <1>4 DEF AppliedSwaps, SwapsInv, SwapsTypeOK, NewSwap
<1>6. Judged' /\ NoneMissed' /\ walk.on = 0 /\ walk.todo = {} /\ walk.seen = {}
  BY <1>2 DEF SwapsInv, Judged, NoneMissed, InHand
<1> QED BY <1>2, <1>3, <1>5, <1>6, AppliedKept

\* SetEnabled: intent changes only while nothing is judged.
LEMMA EnableKeeps ==
  ASSUME SwapsInv, NEW s \in Swaps, NEW enabled \in BOOLEAN, EnableSwap(s, enabled)
  PROVE  SwapsInv'
<1>1. /\ swap' = [swap EXCEPT ![s].wanted = enabled] /\ swapsDirty' = TRUE
      /\ UNCHANGED <<base, walk, dataWords>> /\ walk.pc = "idle"
  BY DEF EnableSwap, Resting
<1>2. SwapsTypeOK'
  BY <1>1 DEF SwapsInv, SwapsTypeOK, SwapRecords, dataWords
<1>3. /\ AppliedSwaps' = AppliedSwaps
      /\ \A k \in Swaps : /\ swap'[k].desc = swap[k].desc /\ swap'[k].at = swap[k].at
                          /\ swap'[k].saved = swap[k].saved
  BY <1>1 DEF AppliedSwaps, SwapsInv, SwapsTypeOK, SwapRecords
<1>4. Judged' /\ NoneMissed' /\ walk.on = 0 /\ walk.todo = {} /\ walk.seen = {}
  BY <1>1 DEF SwapsInv, Judged, NoneMissed, InHand
<1> QED BY <1>1, <1>2, <1>3, <1>4, AppliedKept DEF AppliedSwaps

\* Judging marks every row that clashes and is not applied.
LEMMA JudgeKeeps ==
  ASSUME SwapsInv, JudgeSwaps(ToldApart)
  PROVE  SwapsInv'
<1>1. /\ swap' = [k \in Swaps |->
                   IF k \in ToldApart /\ swap[k].state # "applied"
                   THEN [swap[k] EXCEPT !.state = "collided"]
                   ELSE IF ClearedFirst(k) THEN [swap[k] EXCEPT !.state = "declared"]
                   ELSE swap[k]]
      /\ walk' = [NoWalk EXCEPT !.pc = "judged", !.ready = TRUE]
      /\ UNCHANGED <<swapsDirty, base, dataWords>> /\ walk.pc = "idle"
  BY DEF JudgeSwaps, Resting
<1>2. swap \in [Swaps -> SwapRecords] /\ walk.on = 0
  BY <1>1 DEF SwapsInv, SwapsTypeOK, InHand
<1>3. \A k \in Swaps : /\ swap'[k] \in SwapRecords
                       /\ swap'[k].used = swap[k].used /\ swap'[k].desc = swap[k].desc
                       /\ swap'[k].wanted = swap[k].wanted /\ swap'[k].at = swap[k].at
                       /\ swap'[k].saved = swap[k].saved
                       /\ swap'[k].state = "applied" <=> swap[k].state = "applied"
  BY <1>1, <1>2 DEF SwapRecords, SwapStates, ClearedFirst
<1>4. /\ walk'.pc = "judged" /\ walk'.ready /\ walk'.on = 0 /\ walk'.todo = {} /\ walk'.seen = {}
      /\ walk' \in Walks
  BY <1>1, DataAssumption DEF NoWalk, Walks
<1>5. SwapsTypeOK'
  BY <1>1, <1>3, <1>4 DEF SwapsInv, SwapsTypeOK, dataWords
<1>6. AppliedSwaps' = AppliedSwaps /\ InPlay' = InPlay
  BY <1>3 DEF AppliedSwaps, InPlay
<1>7. Judged'
  <2> SUFFICES ASSUME NEW k \in Swaps, Awaiting(k)', NEW t \in InPlay \ {k}
               PROVE  ~SwapsClash(swap[k].desc, swap[t].desc)
    BY <1>4, <1>3, <1>6 DEF Judged, InPlay
  <2>1. k \in InPlay /\ swap[k].state # "applied"
    BY <1>3 DEF Awaiting, InPlay
  <2>2. k \notin ToldApart
    BY <1>1, <1>2, <2>1 DEF Awaiting, SwapRecords
  <2> QED BY <2>1, <2>2 DEF ToldApart
<1>8. NoneMissed'
  BY <1>4 DEF NoneMissed
<1> QED BY <1>1, <1>2, <1>3, <1>4, <1>5, <1>6, <1>7, <1>8, AppliedKept DEF AppliedSwaps

\* With every swap out there is nothing left to hold to.
LEMMA NoneLeft ==
  ASSUME SwapsTypeOK', AppliedSwaps' = {}, walk' = NoWalk, DataIntact'
  PROVE  SwapsInv'
<1>1. /\ walk'.pc = "idle" /\ ~walk'.ready /\ walk'.on = 0 /\ walk'.todo = {} /\ walk'.seen = {}
  BY DEF NoWalk
<1>2. Touched' = {} /\ \A s \in Swaps : Written(s)' = {}
  BY <1>1, NoSwapZero DEF Touched, Written
<1>3. Judged' /\ InHand' /\ NoneMissed' /\ SeenRight'
  BY <1>1 DEF Judged, InHand, NoneMissed, SeenRight
<1> QED BY <1>2, <1>3 DEF SwapsInv, Placed, SwapsDisjoint, SavedRight

\* Forget: the next process starts with its own words.
LEMMA ForgetKeeps ==
  ASSUME SwapsInv, ForgetSwaps
  PROVE  SwapsInv'
<1>1. /\ swap' = [k \in Swaps |->
                   IF swap[k].used THEN [Removed(k) EXCEPT !.wanted = FALSE] ELSE swap[k]]
      /\ swapsDirty' = TRUE /\ data' = Loaded /\ native' = Loaded /\ lost' = {}
      /\ UNCHANGED <<base, walk>> /\ walk.pc = "idle"
  BY DEF ForgetSwaps, Resting
<1>2. swap \in [Swaps -> SwapRecords]
  BY DEF SwapsInv, SwapsTypeOK
<1>3. \A k \in Swaps : /\ swap'[k] \in SwapRecords /\ swap'[k].desc = swap[k].desc
                       /\ swap'[k].used = swap[k].used
                       /\ swap'[k].used => swap'[k].state = "declared"
  BY <1>1, <1>2, DataAssumption DEF Removed, SwapRecords, SwapStates
<1>4. SwapsTypeOK'
  BY <1>1, <1>3, DataAssumption DEF SwapsInv, SwapsTypeOK
<1>5. AppliedSwaps' = {}
  BY <1>3 DEF AppliedSwaps
<1>6. /\ Touched' = {} /\ \A s \in Swaps : Written(s)' = {}
      /\ walk'.on = 0 /\ walk'.todo = {} /\ walk'.seen = {} /\ walk'.pc = "idle"
  BY <1>1, <1>5, NoSwapZero DEF Touched, Written, SwapsInv, InHand
<1>7. Judged' /\ InHand' /\ NoneMissed' /\ SeenRight' /\ DataIntact'
  BY <1>1, <1>6 DEF SwapsInv, Judged, InHand, NoneMissed, SeenRight, DataIntact
<1> QED BY <1>4, <1>6, <1>7 DEF SwapsInv, Placed, SwapsDisjoint, SavedRight

\* Reconcile begins judged, or with nothing it may apply.
LEMMA StartKeeps ==
  ASSUME SwapsInv, NEW ready \in BOOLEAN, ReconcileStart(ready)
  PROVE  SwapsInv'
<1>1. /\ walk.pc = IF ready THEN "judged" ELSE "idle"
      /\ walk' = [walk EXCEPT !.pc = "walk"] /\ swapsDirty' = FALSE
      /\ UNCHANGED <<swap, base, dataWords>>
  BY DEF ReconcileStart
<1>2. /\ walk.on = 0 /\ walk.todo = {} /\ walk.seen = {}
      /\ walk'.on = 0 /\ walk'.todo = {} /\ walk'.seen = {}
      /\ walk'.pc = "walk" /\ walk'.ready = walk.ready /\ walk' \in Walks
  BY <1>1 DEF SwapsInv, SwapsTypeOK, InHand, Walks
<1>3. SwapsTypeOK'
  BY <1>1, <1>2 DEF SwapsInv, SwapsTypeOK, dataWords
<1>4. AppliedSwaps' = AppliedSwaps
  BY <1>1 DEF AppliedSwaps
<1>5. Judged' /\ NoneMissed'
  BY <1>1, <1>2 DEF SwapsInv, Judged, NoneMissed, Awaiting, InPlay
<1> QED BY <1>1, <1>2, <1>3, <1>4, <1>5, AppliedKept

\* RemoveAll begins before the first swap.
LEMMA GiveBackKeeps ==
  ASSUME SwapsInv, NEW b \in Bases, GiveBack(b)
  PROVE  SwapsInv'
<1>1. /\ walk' = [NoWalk EXCEPT !.pc = "giveback", !.to = b] /\ walk.pc = "idle"
      /\ UNCHANGED <<swap, swapsDirty, base, dataWords>>
  BY DEF GiveBack, Resting
<1>2. /\ walk.on = 0
      /\ walk'.on = 0 /\ walk'.todo = {} /\ walk'.seen = {} /\ walk'.at = 0
      /\ walk'.pc = "giveback" /\ ~walk'.ready /\ walk' \in Walks
  BY <1>1 DEF SwapsInv, InHand, Walks, NoWalk
<1>3. SwapsTypeOK'
  BY <1>1, <1>2 DEF SwapsInv, SwapsTypeOK, dataWords
<1>4. AppliedSwaps' = AppliedSwaps
  BY <1>1 DEF AppliedSwaps
<1>5. Judged' /\ NoneMissed'
  BY <1>1, <1>2, NoSwapZero DEF Judged, NoneMissed, AppliedSwaps
<1> QED BY <1>1, <1>2, <1>3, <1>4, <1>5, AppliedKept

\* A step of the walk changes one row and goes on: what is wanted stays so, and what
\* clashed with nothing still does.
LEMMA JudgedKept ==
  ASSUME SwapsInv, NEW s \in Swaps,
         \A k \in Swaps \ {s} : swap'[k] = swap[k],
         /\ swap'[s].used = swap[s].used /\ swap'[s].desc = swap[s].desc
         /\ swap'[s].wanted = swap[s].wanted,
         swap'[s].state = "applied" => swap[s].wanted \/ swap[s].state = "applied",
         walk.ready => (Awaiting(s)' => Awaiting(s)),
         walk'.pc = walk.pc, walk'.ready = walk.ready
  PROVE  Judged'
<1>1. InPlay' \subseteq InPlay
  BY DEF InPlay
<1>2. \A k \in Swaps : walk.ready => (Awaiting(k)' => Awaiting(k))
  BY DEF Awaiting
<1>3. \A k \in Swaps : swap'[k].desc = swap[k].desc
  OBVIOUS
<1> QED BY <1>1, <1>2, <1>3 DEF SwapsInv, Judged, InPlay

\* A swap that is blocked or fails touches no word.
LEMMA MarkKeeps ==
  ASSUME SwapsInv, NEW s \in Swaps, NEW state \in {"blocked", "failed"},
         Awaiting(s), walk.on = 0, walk.pc # "giveback",
         swap' = [swap EXCEPT ![s].state = state],
         walk' = [walk EXCEPT !.at = s], UNCHANGED <<swapsDirty, base, dataWords>>
  PROVE  SwapsInv'
<1>1. /\ swap \in [Swaps -> SwapRecords] /\ walk' \in Walks
      /\ walk'.pc = walk.pc /\ walk'.ready = walk.ready
      /\ walk'.on = 0 /\ walk'.todo = {} /\ walk'.seen = {}
  BY DEF SwapsInv, SwapsTypeOK, InHand, Walks
<1>2. /\ \A k \in Swaps \ {s} : swap'[k] = swap[k]
      /\ swap'[s].used = swap[s].used /\ swap'[s].desc = swap[s].desc
      /\ swap'[s].wanted = swap[s].wanted /\ swap'[s].state = state
      /\ swap'[s] \in SwapRecords
  BY <1>1 DEF SwapRecords, SwapStates
<1>3. SwapsTypeOK'
  BY <1>1, <1>2 DEF SwapsInv, SwapsTypeOK, dataWords
<1>4. s \notin AppliedSwaps /\ s \notin AppliedSwaps'
  BY <1>2 DEF AppliedSwaps, Awaiting
<1>5. AppliedSwaps' = AppliedSwaps
  BY <1>2, <1>4 DEF AppliedSwaps
<1>6. Judged' /\ NoneMissed'
  BY <1>1, <1>2, JudgedKept DEF NoneMissed
<1> QED BY <1>1, <1>2, <1>3, <1>4, <1>5, <1>6, AppliedKept DEF AppliedSwaps

\* A swap that is about to be applied was judged to overlap nothing, so that its slots
\* are nobody else's.
LEMMA StartApplyKeeps ==
  ASSUME SwapsInv, NEW s \in Swaps, walk.on = 0, walk.pc = "walk", StartApply(s),
         UNCHANGED <<swapsDirty, base, dataWords>>
  PROVE  SwapsInv'
<1> DEFINE b     == swap[s].desc.start + base
           slots == SlotsFrom(swap[s].desc, b)
<1>1. /\ Awaiting(s) /\ walk.ready /\ EndsMapped(swap[s].desc, b)
      /\ swap' = [swap EXCEPT ![s].at = b]
      /\ walk' = [walk EXCEPT !.on = s, !.todo = slots]
  BY DEF StartApply
<1>2. /\ swap \in [Swaps -> SwapRecords] /\ base \in Nat /\ swap[s].used
      /\ swap[s].state # "applied" /\ swap[s].wanted /\ s # 0
      /\ walk.todo = {} /\ walk.seen = {}
  BY <1>1, DataAssumption, NoSwapZero DEF SwapsInv, SwapsTypeOK, Awaiting, InHand
<1>3. swap[s].desc \in SwapDescs /\ b \in Nat
  BY <1>2, SpanSize DEF SwapsInv, SwapsTypeOK
<1>4. slots \subseteq Mapped
  BY <1>1, <1>3, SlotsMapped
<1> HIDE DEF slots, b
<1>5. /\ \A k \in Swaps : /\ swap'[k].used = swap[k].used /\ swap'[k].desc = swap[k].desc
                          /\ swap'[k].wanted = swap[k].wanted /\ swap'[k].state = swap[k].state
                          /\ swap'[k].saved = swap[k].saved /\ swap'[k] \in SwapRecords
      /\ \A k \in Swaps \ {s} : swap'[k] = swap[k] /\ SlotsOf(k)' = SlotsOf(k)
      /\ swap'[s].at = b
  BY <1>1, <1>2, <1>3 DEF SwapRecords, SlotsOf
<1>6. SlotsOf(s)' = slots
  BY <1>5 DEF SlotsOf, slots
<1>7. /\ walk' \in Walks /\ walk'.on = s /\ walk'.todo = slots /\ walk'.seen = {}
      /\ walk'.pc = "walk" /\ walk'.ready
  BY <1>1, <1>2, <1>4 DEF SwapsInv, SwapsTypeOK, Walks
<1>8. SwapsTypeOK'
  BY <1>1, <1>2, <1>5, <1>7 DEF SwapsInv, SwapsTypeOK, dataWords
<1>9. /\ AppliedSwaps' = AppliedSwaps /\ Touched = AppliedSwaps
      /\ Touched' = AppliedSwaps \cup {s} /\ s \notin AppliedSwaps
      /\ InPlay' = InPlay /\ AppliedSwaps \subseteq InPlay
  BY <1>2, <1>5, <1>7, NoSwapZero DEF AppliedSwaps, Touched, InPlay
<1>10. Placed'
  BY <1>1, <1>2, <1>5, <1>9 DEF SwapsInv, Placed, AppliedSwaps, b, dataWords
<1>11. Judged'
  BY <1>5, <1>7, <1>9, <1>1 DEF SwapsInv, Judged, Awaiting, InPlay
<1>12. InHand' /\ NoneMissed'
  <2>1. swap'[s].state # "applied" /\ Awaiting(s)'
    BY <1>1, <1>5 DEF Awaiting
  <2>2. slots # {} \/ walk'.seen = {}
    BY <1>7
  <2> QED BY <1>2, <1>6, <1>7, <2>1 DEF InHand, NoneMissed
<1>13. SwapsDisjoint'
  <2>1. ASSUME NEW t \in AppliedSwaps
        PROVE  ~SwapsClash(swap[s].desc, swap[t].desc) /\ ~SwapsClash(swap[t].desc, swap[s].desc)
    <3>1. t \in InPlay \ {s}
      BY <1>9
    <3>2. ~SwapsClash(swap[s].desc, swap[t].desc)
      BY <1>1, <3>1 DEF SwapsInv, Judged
    <3> QED BY <3>2 DEF SwapsClash
  <2>2. \A t \in AppliedSwaps \cup {s} : swap'[t].desc = swap[t].desc
    BY <1>5 DEF AppliedSwaps
  <2> QED BY <1>9, <2>1, <2>2 DEF SwapsInv, SwapsDisjoint
<1>14. \A k \in Swaps : Written(k)' = Written(k)
  <2>1. Written(s) = {} /\ Written(s)' = {}
    BY <1>2, <1>5, <1>6, <1>7, <1>9 DEF Written
  <2>2. ASSUME NEW k \in Swaps \ {s} PROVE Written(k)' = Written(k)
    BY <1>5, <1>7, <1>9, NoSwapZero DEF Written
  <2> QED BY <2>1, <2>2
<1>15. SavedRight' /\ SeenRight' /\ DataIntact'
  BY <1>5, <1>7, <1>14 DEF SwapsInv, SavedRight, SeenRight, DataIntact, dataWords
<1> QED BY <1>8, <1>10, <1>11, <1>12, <1>13, <1>15 DEF SwapsInv

\* All slots of a swap that is to be given back are still written.
LEMMA StartRemoveKeeps ==
  ASSUME SwapsInv, NEW s \in Swaps, walk.on = 0, StartRemove(s),
         walk.pc \in {"walk", "giveback"},
         walk.pc = "walk" => ~swap[s].wanted,
         s \in AppliedSwaps, walk.pc = "giveback" => \A k \in AppliedSwaps : s <= k,
         UNCHANGED <<swapsDirty, base, dataWords>>
  PROVE  SwapsInv'
<1>1. /\ swap' = swap /\ swap[s].state = "applied"
      /\ walk' = [walk EXCEPT !.on = s, !.todo = SlotsOf(s)]
  BY DEF StartRemove
<1>2. /\ s # 0 /\ walk.todo = {} /\ walk.seen = {}
      /\ Touched = AppliedSwaps /\ SlotsOf(s) \subseteq Mapped
  BY NoSwapZero, TouchedSlots DEF SwapsInv, InHand, Touched, AppliedSwaps
<1>3. /\ walk' \in Walks /\ walk'.on = s /\ walk'.todo = SlotsOf(s) /\ walk'.seen = {}
      /\ walk'.pc = walk.pc /\ walk'.ready = walk.ready /\ walk'.at = walk.at
  BY <1>1, <1>2 DEF SwapsInv, SwapsTypeOK, Walks
<1>4. /\ SwapsTypeOK' /\ AppliedSwaps' = AppliedSwaps /\ InPlay' = InPlay
      /\ \A k \in Swaps : SlotsOf(k)' = SlotsOf(k) /\ (Awaiting(k)' <=> Awaiting(k))
  BY <1>1, <1>3 DEF SwapsInv, SwapsTypeOK, AppliedSwaps, InPlay, SlotsOf, Awaiting, dataWords
<1>5. Touched' = Touched
  BY <1>2, <1>3, <1>4 DEF Touched, AppliedSwaps
<1>6. Placed' /\ SwapsDisjoint'
  BY <1>1, <1>5 DEF SwapsInv, Placed, SwapsDisjoint, dataWords
<1>7. Judged' /\ NoneMissed'
  BY <1>1, <1>3, <1>4 DEF SwapsInv, Judged, NoneMissed
<1>8. InHand'
  BY <1>1, <1>2, <1>3, <1>4 DEF InHand
<1>9. \A k \in Swaps : Written(k)' = Written(k)
  BY <1>1, <1>2, <1>3, <1>4, NoSwapZero DEF Written
<1>10. SavedRight' /\ SeenRight' /\ DataIntact'
  BY <1>1, <1>3, <1>9 DEF SwapsInv, SavedRight, SeenRight, DataIntact, dataWords
<1> QED BY <1>4, <1>6, <1>7, <1>8, <1>10 DEF SwapsInv
\* A look at the next slot changes nothing.
LEMMA ReadKeeps ==
  ASSUME SwapsInv, NEW a \in walk.todo, ReadSlot(a)
  PROVE  SwapsInv'
<1>1. /\ NextSlot(a) /\ walk' = [walk EXCEPT !.seen = {data[a]}]
      /\ UNCHANGED <<swap, swapsDirty, base, data, native, lost>>
  BY DEF ReadSlot, dataWords
<1>2. /\ a \in Mapped /\ data[a] \in DataWords /\ walk \in Walks /\ walk.on # 0
  BY DEF SwapsInv, SwapsTypeOK, Walks, InHand
<1>3. /\ walk' \in Walks /\ walk'.seen = {data[a]} /\ walk'.on = walk.on
      /\ walk'.todo = walk.todo /\ walk'.pc = walk.pc /\ walk'.ready = walk.ready
      /\ walk'.at = walk.at
  BY <1>1, <1>2 DEF Walks
<1>4. /\ SwapsTypeOK' /\ AppliedSwaps' = AppliedSwaps /\ Touched' = Touched /\ InPlay' = InPlay
      /\ \A k \in Swaps : /\ SlotsOf(k)' = SlotsOf(k) /\ (Awaiting(k)' <=> Awaiting(k))
                          /\ Written(k)' = Written(k)
  BY <1>1, <1>3 DEF SwapsInv, SwapsTypeOK, AppliedSwaps, Touched, InPlay, SlotsOf, Awaiting, Written
<1>5. Placed' /\ SwapsDisjoint' /\ SavedRight' /\ DataIntact'
  BY <1>1, <1>4 DEF SwapsInv, Placed, SwapsDisjoint, SavedRight, DataIntact
<1>6. Judged' /\ NoneMissed'
  BY <1>1, <1>3, <1>4 DEF SwapsInv, Judged, NoneMissed
<1>7. InHand'
  <2>1. PICK s \in Swaps : s = walk.on
    BY <1>2 DEF Walks
  <2>2. SlotsOf(s)' = SlotsOf(s) /\ (Awaiting(s)' <=> Awaiting(s))
    BY <1>4
  <2> QED BY <1>1, <1>2, <1>3, <2>1, <2>2 DEF SwapsInv, InHand
<1>8. SeenRight'
  <2> SUFFICES ASSUME NEW x \in Mapped, NextSlot(x)' PROVE data[x] = data[a]
    BY <1>1, <1>3 DEF SeenRight
  <2>1. NextSlot(x)
    BY <1>3 DEF NextSlot
  <2> QED BY <1>1, <2>1, OneNextSlot DEF SwapsInv
<1> QED BY <1>4, <1>5, <1>6, <1>7, <1>8 DEF SwapsInv

\* What a store leaves alone: it changes one word of the swap in hand and no other row.
LEMMA StoreFrame ==
  ASSUME SwapsInv, NEW a \in walk.todo, NEW w \in walk.seen, StoreSlot(a, w)
  PROVE  LET s == walk.on
         IN  /\ s \in Swaps /\ s # 0 /\ s \in Touched /\ a \in SlotsOf(s) /\ a \in Mapped
             /\ w \in DataWords /\ NextSlot(a)
             /\ data[a] # w => data[a] \in GameWords
             /\ swap[s].desc \in SwapDescs /\ swap[s].desc.value \notin GameWords
             /\ walk' \in Walks /\ walk'.on = s /\ walk'.todo = walk.todo \ {a}
             /\ walk'.seen = {} /\ walk'.pc = walk.pc /\ walk'.ready = walk.ready
             /\ walk'.at = walk.at
             /\ \A x \in Mapped : x # a => data'[x] = data[x] /\ (x \in lost' <=> x \in lost)
             /\ a \in lost => a \in lost'
             /\ native' = native /\ base' = base /\ swapsDirty' = swapsDirty
             /\ \A k \in Swaps : /\ swap'[k].used = swap[k].used /\ swap'[k].desc = swap[k].desc
                                 /\ swap'[k].wanted = swap[k].wanted /\ swap'[k].at = swap[k].at
                                 /\ swap'[k].state = swap[k].state
                                 /\ SlotsOf(k)' = SlotsOf(k)
             /\ \A k \in Swaps \ {s} : swap'[k] = swap[k]
             /\ \A x \in Mapped : x # a => swap'[s].saved[x] = swap[s].saved[x]
             /\ SwapsTypeOK'
<1> DEFINE s == walk.on
<1>1. /\ walk \in Walks /\ swap \in [Swaps -> SwapRecords] /\ data \in [Mapped -> DataWords]
      /\ native \in [Mapped -> DataWords] /\ lost \subseteq Mapped
  BY DEF SwapsInv, SwapsTypeOK
<1>2. /\ s \in Swaps /\ s # 0 /\ s \in Touched /\ a \in SlotsOf(s) /\ a \in Mapped
      /\ w \in DataWords /\ swap[s] \in SwapRecords
  BY <1>1 DEF SwapsInv, InHand, Walks, Touched
<1>3. NextSlot(a) /\ (data[a] # w => data[a] \in GameWords)
  BY <1>2 DEF StoreSlot, SwapsInv, SeenRight
<1>4. swap[s].desc \in SwapDescs /\ swap[s].desc.value \notin GameWords /\ swap[s].desc.value \in DataWords
  <2>1. swap[s].desc \in SwapDescs
    BY <1>2 DEF SwapsInv, SwapsTypeOK, Placed
  <2> QED BY <2>1, GameAssumption, SwapDescsAssumption
<1> HIDE DEF s
<1>5. /\ PutSlot(s, a, w) \/ ClearSlot(s, a, w)
      /\ walk' = [walk EXCEPT !.todo = @ \ {a}, !.seen = {}]
      /\ lost' = IF data[a] # w /\ data'[a] # data[a] THEN lost \cup {a} ELSE lost
      /\ native' = native /\ base' = base /\ swapsDirty' = swapsDirty
  BY DEF StoreSlot, s
<1>6. /\ walk' \in Walks /\ walk'.on = s /\ walk'.todo = walk.todo \ {a}
      /\ walk'.seen = {} /\ walk'.pc = walk.pc /\ walk'.ready = walk.ready
      /\ walk'.at = walk.at
  BY <1>1, <1>5 DEF Walks, s
<1>7. /\ swap' \in [Swaps -> SwapRecords]
      /\ \A k \in Swaps : /\ swap'[k].used = swap[k].used /\ swap'[k].desc = swap[k].desc
                          /\ swap'[k].wanted = swap[k].wanted /\ swap'[k].at = swap[k].at
                          /\ swap'[k].state = swap[k].state
      /\ \A k \in Swaps \ {s} : swap'[k] = swap[k]
      /\ \A x \in Mapped : x # a => swap'[s].saved[x] = swap[s].saved[x]
  <2>1. CASE PutSlot(s, a, w)
    <3>1. swap' = [swap EXCEPT ![s] = [swap[s] EXCEPT !.saved = [swap[s].saved EXCEPT ![a] = w]]]
      BY <2>1 DEF PutSlot
    <3>2. swap[s].saved \in [Mapped -> DataWords]
      BY <1>2 DEF SwapRecords
    <3>3. /\ [swap[s].saved EXCEPT ![a] = w] \in [Mapped -> DataWords]
          /\ \A x \in Mapped : x # a => [swap[s].saved EXCEPT ![a] = w][x] = swap[s].saved[x]
      BY <1>2, <3>2
    <3>4. [swap[s] EXCEPT !.saved = [swap[s].saved EXCEPT ![a] = w]] \in SwapRecords
      BY <1>2, <3>3 DEF SwapRecords
    <3> QED BY <1>1, <1>2, <3>1, <3>3, <3>4 DEF SwapRecords
  <2>2. CASE ClearSlot(s, a, w)
    BY <1>1, <2>2 DEF ClearSlot
  <2> QED BY <1>5, <2>1, <2>2
<1>8. \A k \in Swaps : SlotsOf(k)' = SlotsOf(k)
  BY <1>7 DEF SlotsOf
<1>9. data' \in [Mapped -> DataWords] /\ \A x \in Mapped : x # a => data'[x] = data[x]
  <2>1. swap[s].saved[a] \in DataWords
    BY <1>2 DEF SwapRecords
  <2> QED BY <1>1, <1>2, <1>4, <1>5, <2>1 DEF PutSlot, ClearSlot
<1>10. /\ lost' \subseteq Mapped /\ (a \in lost => a \in lost')
       /\ \A x \in Mapped : x # a => (x \in lost' <=> x \in lost)
  BY <1>1, <1>2, <1>5
<1>11. SwapsTypeOK'
  BY <1>1, <1>5, <1>6, <1>7, <1>9, <1>10 DEF SwapsInv, SwapsTypeOK
<1> QED BY <1>2, <1>3, <1>4, <1>5, <1>6, <1>7, <1>8, <1>9, <1>10, <1>11 DEF s

\* A store into the next slot: what is put there is ours, and what is put back is the
\* title's, unless the title wrote since the slot was read.
LEMMA StoreKeeps ==
  ASSUME SwapsInv, NEW a \in walk.todo, NEW w \in walk.seen, StoreSlot(a, w)
  PROVE  SwapsInv'
<1>1. PICK s \in Swaps : s = walk.on
  BY StoreFrame
<1>2. s \in Swaps /\ s # 0 /\ s \in Touched /\ a \in SlotsOf(s) /\ a \in Mapped
  BY <1>1, StoreFrame
<1>3. /\ data[a] # w => data[a] \in GameWords
      /\ swap[s].desc.value \notin GameWords
      /\ walk'.on = s /\ walk'.todo = walk.todo \ {a}
      /\ walk'.seen = {} /\ walk'.pc = walk.pc /\ walk'.ready = walk.ready /\ walk'.at = walk.at
  BY <1>1, StoreFrame
<1>4. /\ \A x \in Mapped : x # a => data'[x] = data[x] /\ (x \in lost' <=> x \in lost)
      /\ a \in lost => a \in lost'
      /\ native' = native /\ base' = base
  BY StoreFrame
<1>5. /\ \A k \in Swaps : /\ swap'[k].used = swap[k].used /\ swap'[k].desc = swap[k].desc
                          /\ swap'[k].wanted = swap[k].wanted /\ swap'[k].at = swap[k].at
                          /\ swap'[k].state = swap[k].state
                          /\ SlotsOf(k)' = SlotsOf(k)
      /\ \A k \in Swaps \ {s} : swap'[k] = swap[k]
      /\ \A x \in Mapped : x # a => swap'[s].saved[x] = swap[s].saved[x]
      /\ SwapsTypeOK'
  BY <1>1, StoreFrame
<1>6. /\ PutSlot(s, a, w) \/ ClearSlot(s, a, w)
      /\ lost' = IF data[a] # w /\ data'[a] # data[a] THEN lost \cup {a} ELSE lost
  BY <1>1 DEF StoreSlot
<1>7. /\ AppliedSwaps' = AppliedSwaps /\ Touched' = Touched /\ InPlay' = InPlay
      /\ \A k \in Swaps : Awaiting(k)' <=> Awaiting(k)
  BY <1>3, <1>5, <1>1 DEF AppliedSwaps, Touched, InPlay, Awaiting
<1>8. Placed' /\ SwapsDisjoint'
  BY <1>4, <1>5, <1>7 DEF SwapsInv, Placed, SwapsDisjoint, Touched
<1>9. Judged' /\ NoneMissed'
  <2>1. Judged'
    BY <1>3, <1>5, <1>7 DEF SwapsInv, Judged, InPlay
  <2> QED BY <1>3, <1>1, <1>7, <2>1 DEF SwapsInv, NoneMissed
<1>10. InHand' /\ SeenRight'
  <2>1. Awaiting(s)' <=> Awaiting(s)
    BY <1>2, <1>7
  <2> QED BY <1>2, <1>3, <1>5, <1>1, <2>1 DEF SwapsInv, InHand, SeenRight
<1>11. \A k \in Swaps \ {s} : Written(k)' = Written(k) /\ a \notin Written(k)
  <2>1. ASSUME NEW k \in Swaps \ {s} PROVE Written(k)' = Written(k)
    BY <1>3, <1>5, <1>1, <1>7 DEF Written
  <2>2. ASSUME NEW k \in Swaps \ {s} PROVE a \notin Written(k)
    BY <1>2, WrittenSlots
  <2> QED BY <2>1, <2>2
<1>12. data[a] = native[a] \/ a \in lost \/ (a \in Written(s) /\ data[a] = swap[s].desc.value)
  BY <1>2, <1>11 DEF SwapsInv, DataIntact
<1>13. \A k \in Swaps : Written(k) \subseteq Mapped
  BY WrittenSlots
<1>14. ASSUME NEW k \in Swaps, NEW x \in Mapped, x # a
       PROVE  /\ x \in Written(k)' <=> x \in Written(k)
              /\ swap'[k].saved[x] = swap[k].saved[x]
  BY <1>3, <1>5, <1>1, <1>11, <1>14 DEF Written
\* It comes down to the one slot.
<1>15. ASSUME /\ data'[a] = native[a] \/ a \in lost'
                 \/ (a \in Written(s)' /\ data'[a] = swap[s].desc.value)
              /\ a \in Written(s)' /\ data'[a] = swap[s].desc.value
                   => swap'[s].saved[a] = native[a] \/ a \in lost'
       PROVE  SavedRight' /\ DataIntact'
  <2>1. SavedRight'
    <3> SUFFICES ASSUME NEW k \in Swaps, NEW x \in Written(k)', data'[x] = swap'[k].desc.value
                 PROVE  swap'[k].saved[x] = native'[x] \/ x \in lost'
      BY DEF SavedRight
    <3>1. CASE x = a
      <4>1. k = s
        BY <1>11, <3>1
      <4> QED BY <1>4, <1>5, <1>15, <3>1, <4>1
    <3>2. CASE x # a
      <4>1. x \in Mapped
        <5>1. CASE k = s
          BY <1>3, <1>5, <1>1, <5>1, WrittenSlots, TouchedSlots, <1>2 DEF Written, SwapsInv
        <5>2. CASE k # s
          BY <1>11, <1>13, <5>2
        <5> QED BY <5>1, <5>2
      <4>2. x \in Written(k) /\ swap'[k].saved[x] = swap[k].saved[x]
        BY <1>14, <3>2, <4>1
      <4> QED BY <1>4, <1>5, <3>2, <4>1, <4>2 DEF SwapsInv, SavedRight
    <3> QED BY <3>1, <3>2
  <2>2. DataIntact'
    <3> SUFFICES ASSUME NEW x \in Mapped
                 PROVE  \/ data'[x] = native'[x]
                        \/ x \in lost'
                        \/ \E k \in Swaps : x \in Written(k)' /\ data'[x] = swap'[k].desc.value
      BY DEF DataIntact
    <3>1. CASE x = a
      BY <1>2, <1>4, <1>5, <1>15, <3>1
    <3>2. CASE x # a
      BY <1>4, <1>5, <1>14, <3>2 DEF SwapsInv, DataIntact
    <3> QED BY <3>1, <3>2
  <2> QED BY <2>1, <2>2
<1>16. ASSUME PutSlot(s, a, w) PROVE SavedRight' /\ DataIntact'
  <2>1. /\ swap[s].state # "applied" /\ data'[a] = swap[s].desc.value
        /\ swap'[s].saved[a] = w
    <3>1. /\ swap' = [swap EXCEPT ![s] = [swap[s] EXCEPT !.saved = [swap[s].saved EXCEPT ![a] = w]]]
          /\ data' = [data EXCEPT ![a] = swap[s].desc.value]
          /\ swap[s].state # "applied"
      BY <1>16 DEF PutSlot
    <3>2. swap \in [Swaps -> SwapRecords] /\ data \in [Mapped -> DataWords]
      BY DEF SwapsInv, SwapsTypeOK
    <3>3. swap[s].saved \in [Mapped -> DataWords]
      BY <1>2, <3>2 DEF SwapRecords
    <3> QED BY <1>2, <3>1, <3>2, <3>3 DEF SwapRecords
  <2>2. a \notin Written(s) /\ a \in Written(s)'
    BY <1>2, <1>3, <1>5, <1>1, <2>1 DEF Written
  <2>3. w = native[a] \/ a \in lost'
    <3>1. CASE data[a] = w
      BY <1>4, <1>12, <2>2, <3>1
    <3>2. CASE data[a] # w
      BY <1>3, <1>6, <2>1, <3>2
    <3> QED BY <3>1, <3>2
  <2> QED BY <1>15, <2>1, <2>2, <2>3
<1>17. ASSUME ClearSlot(s, a, w) PROVE SavedRight' /\ DataIntact'
  <2>1. /\ swap[s].state = "applied"
        /\ data'[a] = IF w = swap[s].desc.value THEN swap[s].saved[a] ELSE data[a]
        /\ swap' = swap
    BY <1>2, <1>17 DEF ClearSlot, StillOurs, SwapsInv, SwapsTypeOK
  <2>2. a \in Written(s) /\ a \notin Written(s)'
    BY <1>2, <1>3, <1>5, <1>1, <2>1 DEF Written
  <2>3. CASE data[a] = swap[s].desc.value
    <3>1. w = swap[s].desc.value
      BY <1>3, <2>3
    <3>2. swap[s].saved[a] = native[a] \/ a \in lost
      BY <1>2, <2>2, <2>3 DEF SwapsInv, SavedRight
    <3> QED BY <1>4, <1>15, <2>1, <2>2, <3>1, <3>2
  <2>4. CASE data[a] # swap[s].desc.value
    <3>1. data[a] = native[a] \/ a \in lost
      BY <1>12, <2>4
    <3>2. data'[a] = data[a] \/ a \in lost'
      BY <1>6, <2>1, <2>4
    <3> QED BY <1>4, <1>15, <2>2, <3>1, <3>2
  <2> QED BY <2>3, <2>4
<1> QED BY <1>5, <1>6, <1>8, <1>9, <1>10, <1>16, <1>17 DEF SwapsInv

\* With all slots stored to, an applied swap is out, and one that was not is applied.
LEMMA FinishKeeps ==
  ASSUME SwapsInv, NEW s \in Swaps, FinishSwap(s)
  PROVE  SwapsInv'
<1> DEFINE x == IF swap[s].state = "applied" THEN Removed(s)
                ELSE [swap[s] EXCEPT !.state = "applied"]
<1>1. /\ walk.on = s /\ walk.todo = {} /\ s # 0
      /\ swap' = [swap EXCEPT ![s] = x]
      /\ walk' = [walk EXCEPT !.on = 0, !.at = s]
      /\ UNCHANGED <<swapsDirty, base, data, native, lost>>
  BY NoSwapZero DEF FinishSwap, dataWords
<1>2. /\ swap \in [Swaps -> SwapRecords] /\ swap[s] \in SwapRecords /\ walk \in Walks
      /\ walk.seen = {} /\ swap[s].used
  BY <1>1 DEF SwapsInv, SwapsTypeOK, InHand, Placed, Touched
<1>3. /\ x \in SwapRecords /\ x.used = swap[s].used /\ x.desc = swap[s].desc
      /\ x.wanted = swap[s].wanted
      /\ swap[s].state = "applied" => x.state = "declared"
      /\ swap[s].state # "applied" => x.state = "applied" /\ x.at = swap[s].at /\ x.saved = swap[s].saved
  BY <1>2, DataAssumption DEF Removed, SwapRecords, SwapStates
<1> HIDE DEF x
<1>4. /\ swap'[s] = x /\ \A k \in Swaps \ {s} : swap'[k] = swap[k] /\ SlotsOf(k)' = SlotsOf(k)
      /\ swap[s].state # "applied" => SlotsOf(s)' = SlotsOf(s)
      /\ swap' \in [Swaps -> SwapRecords]
  BY <1>1, <1>2, <1>3 DEF SlotsOf
<1>5. /\ walk' \in Walks /\ walk'.on = 0 /\ walk'.at = s /\ walk'.todo = {} /\ walk'.seen = {}
      /\ walk'.pc = walk.pc /\ walk'.ready = walk.ready
  BY <1>1, <1>2 DEF Walks
<1>6. SwapsTypeOK'
  BY <1>1, <1>3, <1>4, <1>5 DEF SwapsInv, SwapsTypeOK
<1>7. /\ Touched' = AppliedSwaps' /\ Touched' \subseteq Touched /\ AppliedSwaps \subseteq Touched
      /\ swap[s].state = "applied" => s \notin Touched'
  BY <1>1, <1>3, <1>4, <1>5, NoSwapZero DEF Touched, AppliedSwaps
<1>8. \A k \in Touched' : /\ swap'[k].used = swap[k].used /\ swap'[k].desc = swap[k].desc
                          /\ swap'[k].at = swap[k].at /\ swap'[k].saved = swap[k].saved
                          /\ SlotsOf(k)' = SlotsOf(k) /\ k \in Swaps
  BY <1>3, <1>4, <1>7 DEF Touched
<1>9. Placed' /\ SwapsDisjoint'
  BY <1>1, <1>7, <1>8 DEF SwapsInv, Placed, SwapsDisjoint
<1>10. Judged'
  <2>1. walk.ready /\ swap[s].state = "applied" => ~Awaiting(s)'
    BY <1>1, <1>2, <1>3, <1>4 DEF SwapsInv, InHand, Judged, Awaiting, Walks
  <2>2. swap'[s].state = "applied" => swap[s].wanted
    BY <1>1, <1>3, <1>4 DEF SwapsInv, InHand, Awaiting
  <2>3. walk.ready => (Awaiting(s)' => Awaiting(s))
    BY <1>3, <1>4, <2>1 DEF Awaiting
  <2> QED BY <1>3, <1>4, <1>5, <2>2, <2>3, JudgedKept
<1>11. InHand'
  BY <1>1, <1>5, NoSwapZero DEF SwapsInv, InHand
<1>12. NoneMissed'
  <2> SUFFICES ASSUME walk.pc = "giveback", NEW k \in AppliedSwaps' PROVE k > s
    BY <1>5 DEF NoneMissed
  <2>1. swap[s].state = "applied"
    BY <1>1 DEF SwapsInv, InHand
  <2>2. k \in AppliedSwaps /\ k # s /\ k \in Swaps
    BY <1>3, <1>4, <2>1 DEF AppliedSwaps
  <2>3. s <= k
    BY <1>1, <2>2 DEF SwapsInv, NoneMissed
  <2> QED BY <2>2, <2>3, NoSwapZero
<1>13. \A k \in Swaps : Written(k)' = Written(k)
  <2>1. CASE swap[s].state = "applied"
    <3>1. Written(s) = {} /\ Written(s)' = {}
      BY <1>1, <1>5, <1>7, <2>1 DEF Written
    <3>2. \A k \in Swaps \ {s} : Written(k)' = Written(k)
      BY <1>1, <1>4, <1>5, NoSwapZero DEF Written, AppliedSwaps
    <3> QED BY <3>1, <3>2
  <2>2. CASE swap[s].state # "applied"
    <3>1. s \in AppliedSwaps'
      BY <1>2, <1>3, <1>4, <2>2 DEF AppliedSwaps
    <3>2. Written(s) = SlotsOf(s) /\ Written(s)' = SlotsOf(s)
      BY <1>1, <1>4, <1>5, <2>2, <3>1 DEF Written
    <3>3. \A k \in Swaps \ {s} : Written(k)' = Written(k)
      BY <1>1, <1>4, <1>5, NoSwapZero DEF Written, AppliedSwaps
    <3> QED BY <3>2, <3>3
  <2> QED BY <2>1, <2>2
<1>14. \A k \in Swaps : Written(k) # {} => swap'[k].desc = swap[k].desc /\ swap'[k].saved = swap[k].saved
  <2> SUFFICES ASSUME NEW k \in Swaps, Written(k) # {}
               PROVE  swap'[k].desc = swap[k].desc /\ swap'[k].saved = swap[k].saved
    OBVIOUS
  <2>1. CASE k = s
    BY <1>1, <1>3, <1>4, <2>1 DEF Written
  <2>2. CASE k # s
    BY <1>4, <2>2
  <2> QED BY <2>1, <2>2
<1>15. SavedRight' /\ SeenRight' /\ DataIntact'
  BY <1>1, <1>5, <1>13, <1>14 DEF SwapsInv, SavedRight, SeenRight, DataIntact
<1> QED BY <1>6, <1>9, <1>10, <1>11, <1>12, <1>15 DEF SwapsInv

\* The end of Reconcile, or of RemoveAll: then no swap is left in.
LEMMA EndKeeps ==
  ASSUME SwapsInv, WalkEnd
  PROVE  SwapsInv'
<1>1. /\ walk.on = 0 /\ Pending = {} /\ walk' = NoWalk
      /\ walk.pc \in {"walk", "giveback"}
      /\ base' = IF walk.pc = "giveback" THEN walk.to ELSE base
      /\ UNCHANGED <<swap, swapsDirty, dataWords>>
  BY DEF WalkEnd
<1>2. /\ walk'.pc = "idle" /\ ~walk'.ready /\ walk'.on = 0 /\ walk'.todo = {} /\ walk'.seen = {}
      /\ walk' \in Walks /\ walk.to \in Bases
  BY <1>1, DataAssumption DEF NoWalk, Walks, SwapsInv, SwapsTypeOK
<1>3. SwapsTypeOK' /\ AppliedSwaps' = AppliedSwaps
  BY <1>1, <1>2 DEF SwapsInv, SwapsTypeOK, AppliedSwaps, dataWords
<1>4. Judged' /\ NoneMissed'
  BY <1>2 DEF Judged, NoneMissed
<1>5. CASE walk.pc = "walk"
  BY <1>1, <1>2, <1>3, <1>4, <1>5, AppliedKept
<1>6. CASE walk.pc = "giveback"
  <2>1. AppliedSwaps = {}
    BY <1>1, <1>6 DEF Pending, SwapsInv, NoneMissed, AppliedSwaps
  <2>2. \A s \in Swaps : Written(s) = {} /\ Written(s)' = {}
    BY <1>1, <1>2, <1>3, <2>1, NoSwapZero DEF Written
  <2>3. DataIntact'
    BY <1>1, <2>2 DEF SwapsInv, DataIntact, dataWords
  <2> QED BY <1>1, <1>3, <2>1, <2>3, NoneLeft
<1> QED BY <1>1, <1>5, <1>6

\* One step of the walk.
LEMMA WalkKeeps ==
  ASSUME SwapsInv, WalkStep
  PROVE  SwapsInv'
<1>1. ASSUME NEW s \in Swaps, StartSwap(s) PROVE SwapsInv'
  <2>1. /\ walk.on = 0 /\ s \in Pending /\ \A k \in Pending : s <= k
        /\ UNCHANGED <<swapsDirty, base, dataWords>>
    BY <1>1 DEF StartSwap
  <2>2. Awaiting(s) => walk.pc = "walk"
    BY <2>1 DEF Pending, Awaiting, AppliedSwaps
  <2>3. CASE BlockSwap(s)
    BY <2>1, <2>2, <2>3, MarkKeeps DEF BlockSwap
  <2>4. CASE FailSwap(s)
    BY <2>1, <2>2, <2>4, MarkKeeps DEF FailSwap
  <2>5. CASE StartApply(s)
    BY <2>1, <2>2, <2>5, StartApplyKeeps DEF StartApply
  <2>6. CASE StartRemove(s)
    <3>1. /\ walk.pc \in {"walk", "giveback"} /\ s \in AppliedSwaps
          /\ walk.pc = "walk" => ~swap[s].wanted
      BY <2>1, <2>6 DEF Pending, StartRemove, Awaiting, Withdrawn, AppliedSwaps
    <3>2. walk.pc = "giveback" => \A k \in AppliedSwaps : s <= k
      BY <2>1 DEF Pending, SwapsInv, NoneMissed, AppliedSwaps
    <3> QED BY <2>1, <2>6, <3>1, <3>2, StartRemoveKeeps
  <2> QED BY <1>1, <2>3, <2>4, <2>5, <2>6 DEF StartSwap
<1> QED BY <1>1, FinishKeeps, ReadKeeps, StoreKeeps, EndKeeps DEF WalkStep

\* The title's own write is never one of ours, so it counts as its own everywhere.
LEMMA GameKeeps ==
  ASSUME SwapsInv, NEW a \in GameAddrs, NEW w \in GameWords, GameWrite(a, w)
  PROVE  SwapsInv'
<1>1. /\ data' = [data EXCEPT ![a] = w] /\ native' = [native EXCEPT ![a] = w]
      /\ lost' = lost \ {a}
      /\ UNCHANGED <<swap, swapsDirty, base, walk>>
  BY DEF GameWrite
<1>2. /\ data \in [Mapped -> DataWords] /\ native \in [Mapped -> DataWords]
      /\ a \in Mapped /\ w \in DataWords
  BY GameAssumption DEF SwapsInv, SwapsTypeOK
<1>3. SwapsTypeOK'
  BY <1>1, <1>2 DEF SwapsInv, SwapsTypeOK
<1>4. /\ AppliedSwaps' = AppliedSwaps /\ Touched' = Touched
      /\ \A s \in Swaps : SlotsOf(s)' = SlotsOf(s) /\ Written(s)' = Written(s)
  BY <1>1 DEF AppliedSwaps, Touched, SlotsOf, Written
<1>5. Placed' /\ SwapsDisjoint' /\ Judged' /\ InHand' /\ NoneMissed'
  BY <1>1, <1>4 DEF SwapsInv, Placed, SwapsDisjoint, Judged, InHand, NoneMissed, Awaiting, InPlay,
                    SlotsOf
<1>6. ASSUME NEW s \in Swaps, NEW x \in Written(s)
      PROVE  x \in Mapped /\ swap[s].desc.value # w
  BY <1>6, WrittenSlots, GameAssumption DEF SwapsInv, SwapsTypeOK
<1>7. SavedRight'
  BY <1>1, <1>2, <1>4, <1>6 DEF SwapsInv, SavedRight
<1>8. SeenRight'
  BY <1>1, <1>2 DEF SwapsInv, SeenRight, NextSlot
<1>9. DataIntact'
  BY <1>1, <1>2, <1>4 DEF SwapsInv, DataIntact
<1> QED BY <1>3, <1>5, <1>7, <1>8, <1>9 DEF SwapsInv

\* Every step, a stutter included.
LEMMA StepKeeps ==
  ASSUME SwapsInv, [SwapsNext]_swapVars
  PROVE  SwapsInv'
<1>1. CASE UNCHANGED swapVars
  <2>1. UNCHANGED <<swap, swapsDirty, base, walk, data, native, lost>>
    BY <1>1 DEF swapVars, dataWords
  <2>2. SwapsTypeOK' /\ AppliedSwaps' = AppliedSwaps /\ Touched' = Touched
    BY <2>1 DEF SwapsInv, SwapsTypeOK, AppliedSwaps, Touched
  <2>3. \A s \in Swaps : SlotsOf(s)' = SlotsOf(s) /\ Written(s)' = Written(s)
    BY <2>1 DEF SlotsOf, Written, AppliedSwaps
  <2>4. Placed' /\ SwapsDisjoint' /\ Judged' /\ InHand' /\ NoneMissed'
    BY <2>1, <2>2, <2>3 DEF SwapsInv, Placed, SwapsDisjoint, Judged, InHand, NoneMissed, Awaiting,
                            InPlay, SlotsOf
  <2>5. SavedRight' /\ SeenRight' /\ DataIntact'
    BY <2>1, <2>3 DEF SwapsInv, SavedRight, SeenRight, DataIntact, NextSlot
  <2> QED BY <2>2, <2>4, <2>5 DEF SwapsInv
<1>2. base \in Bases
  BY DEF SwapsInv, SwapsTypeOK
<1> QED BY <1>1, <1>2, DeclareKeeps, EnableKeeps, JudgeKeeps, ForgetKeeps, GiveBackKeeps,
           StartKeeps, WalkKeeps, GameKeeps DEF SwapsNext

-----------------------------------------------------------------------------
(* What holds in every reachable state.                                       *)

\* The inductive invariant: where applied swaps are, what was judged, how far the
\* slots of the swap in hand are written, what was read of them and what is saved.
THEOREM SwapsInvHolds == SwapsSpec => []SwapsInv
<1>1. SwapsInv /\ [SwapsNext]_swapVars => SwapsInv'
  BY StepKeeps
<1> QED BY InitInv, <1>1, PTL DEF SwapsSpec

\* Every variable keeps its type: no slot ever read or stored to is outside of mapped
\* memory.
THEOREM SwapsTypeCorrect == SwapsSpec => []SwapsTypeOK
BY SwapsInvHolds, PTL DEF SwapsInv

\* No two swaps whose spans overlap are ever applied, or being written, together.
THEOREM SwapsStayApart == SwapsSpec => []SwapsDisjoint
BY SwapsInvHolds, PTL DEF SwapsInv

\* Every word of .data is the title's own, or a swap's in a slot written for it, or one
\* of which the title's last write fell between our read and our store; the title's
\* writes come between any two steps of ours.
THEOREM DataStaysIntact == SwapsSpec => []DataIntact
BY SwapsInvHolds, PTL DEF SwapsInv
=============================================================================
