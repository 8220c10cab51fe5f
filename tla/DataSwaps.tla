------------------------------ MODULE DataSwaps ------------------------------
(* Data swaps (wupatch_data.cpp): words of the title's .data that hold a value *)
(* of the host's while a swap is applied, and their own again afterwards.       *)
(*                                                                             *)
(* This is the component with what it relies on its caller for: collisions are  *)
(* judged by an arbiter that refuses exactly the clashing (ToldApart), and the   *)
(* data moves only when every swap is out.  Module Patcher is the real caller.  *)
(* A slot is read in one step and stored to in another, slot after slot: the     *)
(* title runs on meanwhile, on other cores, and writes its data.  Addresses and  *)
(* sizes count words, not bytes.  The host leaves Config::assumeMapped off.      *)
EXTENDS Integers, FiniteSets

CONSTANTS
  Swaps,       \* 1..kMaxSwaps
  SwapDescs,   \* descriptors a host may declare (all well-formed)
  NoSwap,
  Bases,       \* what the data delta may be
  Loaded,      \* runtime address -> the word the title starts with
  DataWords,
  GameAddrs, GameWords   \* what else the title itself writes, and where

Mapped     == DOMAIN Loaded
SwapStates == {"declared", "blocked", "collided", "applied", "failed"}

\* The words a descriptor names from runtime address b on, and all it spans.
SlotsFrom(d, b) == {b + i * d.stride + d.offset : i \in 0..(d.count - 1)}

SpanEnd(d) == d.start + d.count * d.stride

\* Mutant: only the first address of a span is looked at.
StartMapped(d, b) == b \in Mapped

\* apply looks at the first and the last address of the span only.
EndsMapped(d, b) == {b, b + d.count * d.stride - 1} \subseteq Mapped

ASSUME SwapsAssumption == Swaps \subseteq Nat \ {0} /\ IsFiniteSet(Swaps)
ASSUME SwapDescsAssumption ==
  /\ SwapDescs \subseteq [start : Nat, stride : Nat \ {0}, count : Nat \ {0},
                          offset : Nat, value : DataWords]
  /\ \A d \in SwapDescs : d.offset < d.stride
  /\ NoSwap \notin SwapDescs
\* .data is one mapping: what lies between two mapped addresses is mapped.
ASSUME DataAssumption ==
  /\ Bases \subseteq Nat /\ 0 \in Bases
  /\ Mapped \subseteq Nat /\ \A a, c \in Mapped : a..c \subseteq Mapped
  /\ Loaded \in [Mapped -> DataWords]
\* A word of the title's that equals ours cannot be told from ours.
ASSUME GameAssumption ==
  /\ GameAddrs \subseteq Mapped /\ GameWords \subseteq DataWords
  /\ \A d \in SwapDescs : d.value \notin GameWords

VARIABLES
  swap,        \* s_swaps
  swapsDirty,  \* s_dirty of wupatch_data.cpp
  base,        \* s_cfg.dataDelta
  walk,        \* the Reconcile or RemoveAll under way
  data,        \* the words of .data
  native,      \* history: what they would hold had there never been a swap
  lost         \* history: where a store of ours hit a word we had not read

dataWords == <<data, native, lost>>
swapVars  == <<swap, swapsDirty, base, walk, dataWords>>

NewSwap == [used |-> FALSE, desc |-> NoSwap, wanted |-> FALSE, state |-> "declared",
            at |-> 0, saved |-> Loaded]
\* Where the walk is: past swap `at`, and in the middle of swap `on`, with the
\* slots `todo` left; `seen` is what it read in the next of them.  When it only
\* gives back, the data is at `to` afterwards.
NoWalk  == [pc |-> "idle", ready |-> FALSE, at |-> 0, on |-> 0, todo |-> {}, seen |-> {}, to |-> 0]
Walks   == [pc : {"idle", "judged", "walk", "giveback"}, ready : BOOLEAN,
            at : Swaps \cup {0}, on : Swaps \cup {0}, todo : SUBSET Mapped,
            seen : {{}} \cup {{w} : w \in DataWords}, to : Bases]

SwapRecords == [used : BOOLEAN, desc : SwapDescs \cup {NoSwap}, wanted : BOOLEAN,
                state : SwapStates, at : Nat, saved : [Mapped -> DataWords]]

\* Types; that of what is left to do says that no slot ever read or stored to lies
\* outside of what is mapped (data.cpp:85, with assumeMapped off).
SwapsTypeOK ==
  /\ swap \in [Swaps -> SwapRecords]
  /\ \A s \in Swaps : swap[s].used => swap[s].desc \in SwapDescs
  /\ swapsDirty \in BOOLEAN
  /\ base \in Bases
  /\ walk \in Walks
  /\ data \in [Mapped -> DataWords]
  /\ native \in [Mapped -> DataWords]
  /\ lost \subseteq Mapped

SwapsInit ==
  /\ swap = [s \in Swaps |-> NewSwap]
  /\ swapsDirty = FALSE
  /\ base = 0
  /\ walk = NoWalk
  /\ data = Loaded
  /\ native = Loaded
  /\ lost = {}

Resting == walk.pc = "idle"

AppliedSwaps == {s \in Swaps : swap[s].used /\ swap[s].state = "applied"}

-----------------------------------------------------------------------------
(* Declaration and intent.  A row is never given back.                         *)

FreshSwap(s) == ~swap[s].used /\ \A k \in Swaps : k < s => swap[k].used

DeclareSwap(d) ==
  /\ Resting
  /\ \A s \in Swaps : swap[s].used => swap[s].desc # d
  /\ \E s \in Swaps :
       /\ FreshSwap(s)
       /\ swap' = [swap EXCEPT ![s] = [NewSwap EXCEPT !.used = TRUE, !.desc = d]]
  /\ UNCHANGED <<swapsDirty, base, walk, dataWords>>

EnableSwap(s, enabled) ==
  /\ Resting
  /\ swap[s].used /\ swap[s].wanted # enabled
  /\ swap' = [swap EXCEPT ![s].wanted = enabled]
  /\ swapsDirty' = TRUE
  /\ UNCHANGED <<base, walk, dataWords>>

-----------------------------------------------------------------------------
(* Collisions: CollectExtents and MarkCollided.                                *)

\* Mutant: a swap given up but still applied is no longer held against others.
OnlyWanted == {s \in Swaps : swap[s].used /\ swap[s].wanted}

InPlay == {s \in Swaps : swap[s].used /\ (swap[s].wanted \/ swap[s].state = "applied")}

SwapsClash(d, e) == d.start < SpanEnd(e) /\ e.start < SpanEnd(d)

ToldApart ==
  {s \in InPlay : /\ swap[s].state # "applied"
                  /\ \E t \in InPlay \ {s} : SwapsClash(swap[s].desc, swap[t].desc)}

\* Mutant: a swap that once collided is never looked at again.
NeverCleared(s) == FALSE

\* A resolved collision may proceed; it is marked again if it is not resolved.
ClearedFirst(s) == s \in InPlay /\ swap[s].state = "collided"

JudgeSwaps(clashing) ==
  /\ Resting
  /\ swap' = [s \in Swaps |->
                IF s \in clashing /\ swap[s].state # "applied"
                THEN [swap[s] EXCEPT !.state = "collided"]
                ELSE IF ClearedFirst(s) THEN [swap[s] EXCEPT !.state = "declared"]
                ELSE swap[s]]
  /\ walk' = [NoWalk EXCEPT !.pc = "judged", !.ready = TRUE]
  /\ UNCHANGED <<swapsDirty, base, dataWords>>

-----------------------------------------------------------------------------
(* Forget, RemoveAll, a new delta, and the start of Reconcile.                 *)

\* A row that is out keeps its last address and words, which only a query of the
\* host's would see: they are wiped here.
Removed(s) == [swap[s] EXCEPT !.state = "declared", !.at = 0, !.saved = Loaded]

\* Forget, with the process: memory is loaded afresh and nobody touches it.
ForgetSwaps ==
  /\ Resting
  /\ swap' = [s \in Swaps |->
                IF swap[s].used
                THEN [Removed(s) EXCEPT !.wanted = FALSE]
                ELSE swap[s]]
  /\ swapsDirty' = TRUE
  /\ data' = Loaded
  /\ native' = Loaded
  /\ lost' = {}
  /\ UNCHANGED <<base, walk>>

\* RemoveAll, and before a new delta moves the data to b.
GiveBack(b) ==
  /\ Resting
  /\ walk' = [NoWalk EXCEPT !.pc = "giveback", !.to = b]
  /\ UNCHANGED <<swap, swapsDirty, base, dataWords>>

\* Reconcile runs after the collisions were judged, or, with nothing configured or
\* the data not found, without: then nothing is applied.
ReconcileStart(ready) ==
  /\ walk.pc = IF ready THEN "judged" ELSE "idle"
  /\ walk' = [walk EXCEPT !.pc = "walk"]
  /\ swapsDirty' = FALSE
  /\ UNCHANGED <<swap, base, dataWords>>

-----------------------------------------------------------------------------
(* Swap after swap, of those there is something to do for.                     *)

\* Mutant: while the data cannot be found, nothing is taken out either.
WithdrawnReady(s) == swap[s].used /\ ~swap[s].wanted /\ swap[s].state = "applied" /\ walk.ready

Withdrawn(s) == swap[s].used /\ ~swap[s].wanted /\ swap[s].state = "applied"

Awaiting(s) == swap[s].used /\ swap[s].wanted /\ swap[s].state \notin {"applied", "collided"}

Pending == {s \in Swaps :
  /\ s > walk.at
  /\ \/ walk.pc = "giveback" /\ s \in AppliedSwaps
     \/ walk.pc = "walk" /\ (Withdrawn(s) \/ Awaiting(s))}

BlockSwap(s) ==
  /\ Awaiting(s) /\ ~walk.ready
  /\ swap' = [swap EXCEPT ![s].state = "blocked"]
  /\ walk' = [walk EXCEPT !.at = s]

FailSwap(s) ==
  /\ Awaiting(s) /\ walk.ready
  /\ ~EndsMapped(swap[s].desc, swap[s].desc.start + base)
  /\ swap' = [swap EXCEPT ![s].state = "failed"]
  /\ walk' = [walk EXCEPT !.at = s]

StartApply(s) ==
  LET b == swap[s].desc.start + base
  IN  /\ Awaiting(s) /\ walk.ready
      /\ EndsMapped(swap[s].desc, b)
      /\ swap' = [swap EXCEPT ![s].at = b]
      /\ walk' = [walk EXCEPT !.on = s, !.todo = SlotsFrom(swap[s].desc, b)]

SlotsOf(s) == SlotsFrom(swap[s].desc, swap[s].at)

StartRemove(s) ==
  /\ swap[s].state = "applied"
  /\ walk' = [walk EXCEPT !.on = s, !.todo = SlotsOf(s)]
  /\ UNCHANGED swap

StartSwap(s) ==
  /\ walk.on = 0
  /\ s \in Pending /\ \A k \in Pending : s <= k
  /\ BlockSwap(s) \/ FailSwap(s) \/ StartApply(s) \/ StartRemove(s)
  /\ UNCHANGED <<swapsDirty, base, dataWords>>

\* The slots in their order, each read and then, in a step of its own, stored to.
NextSlot(a) == a \in walk.todo /\ \A x \in walk.todo : a <= x

ReadSlot(a) ==
  /\ NextSlot(a) /\ walk.seen = {}
  /\ walk' = [walk EXCEPT !.seen = {data[a]}]
  /\ UNCHANGED <<swap, swapsDirty, base, dataWords>>

\* apply: the word read is saved, and ours stored.
PutSlot(s, a, w) ==
  /\ swap[s].state # "applied"
  /\ swap' = [swap EXCEPT ![s].saved[a] = w]
  /\ data' = [data EXCEPT ![a] = swap[s].desc.value]

\* Mutant: a slot is put back whatever was read there.
StillOursUnseen(s, w) == w = w

\* Anything else was written after us, and is not ours to undo.
StillOurs(s, w) == w = swap[s].desc.value

\* remove: the word saved is put back where ours was read.
ClearSlot(s, a, w) ==
  /\ swap[s].state = "applied"
  /\ data' = [data EXCEPT ![a] = IF StillOurs(s, w) THEN swap[s].saved[a] ELSE @]
  /\ UNCHANGED swap

\* A store does not ask whether the word is still the one that was read.
StoreSlot(a, w) ==
  /\ NextSlot(a) /\ w \in walk.seen
  /\ PutSlot(walk.on, a, w) \/ ClearSlot(walk.on, a, w)
  /\ walk' = [walk EXCEPT !.todo = @ \ {a}, !.seen = {}]
  /\ lost' = IF data[a] # w /\ data'[a] # data[a] THEN lost \cup {a} ELSE lost
  /\ UNCHANGED <<swapsDirty, base, native>>

FinishSwap(s) ==
  /\ walk.on = s /\ walk.todo = {}
  /\ swap' = [swap EXCEPT ![s] = IF swap[s].state = "applied" THEN Removed(s)
                                 ELSE [swap[s] EXCEPT !.state = "applied"]]
  /\ walk' = [walk EXCEPT !.on = 0, !.at = s]
  /\ UNCHANGED <<swapsDirty, base, dataWords>>

WalkEnd ==
  /\ walk.pc \in {"walk", "giveback"} /\ walk.on = 0 /\ Pending = {}
  /\ walk' = NoWalk
  /\ base' = IF walk.pc = "giveback" THEN walk.to ELSE base
  /\ UNCHANGED <<swap, swapsDirty, dataWords>>

\* The title writes its own data, on another core and at any time.
GameWrite(a, w) ==
  /\ data' = [data EXCEPT ![a] = w]
  /\ native' = [native EXCEPT ![a] = w]
  /\ lost' = lost \ {a}
  /\ UNCHANGED <<swap, swapsDirty, base, walk>>

WalkStep ==
  \/ \E s \in Swaps : StartSwap(s) \/ FinishSwap(s)
  \/ \E a \in walk.todo : ReadSlot(a) \/ \E w \in walk.seen : StoreSlot(a, w)
  \/ WalkEnd

SwapsNext ==
  \/ \E d \in SwapDescs : DeclareSwap(d)
  \/ \E s \in Swaps, enabled \in BOOLEAN : EnableSwap(s, enabled)
  \/ JudgeSwaps(ToldApart)
  \/ ForgetSwaps
  \/ \E b \in Bases \cup {base} : GiveBack(b)
  \/ \E ready \in BOOLEAN : ReconcileStart(ready)
  \/ WalkStep
  \/ \E a \in GameAddrs, w \in GameWords : GameWrite(a, w)

SwapsSpec == SwapsInit /\ [][SwapsNext]_swapVars

-----------------------------------------------------------------------------
(* Properties.                                                                *)

\* Slots that hold a value of ours: of a swap in hand, those already written, or
\* those still to be put back.
Written(s) ==
  IF s = walk.on
  THEN IF swap[s].state = "applied" THEN walk.todo ELSE SlotsOf(s) \ walk.todo
  ELSE IF s \in AppliedSwaps THEN SlotsOf(s) ELSE {}

\* Every word of .data is what the title itself left there, or the value of a swap
\* in a slot written for it, and what a removal puts back is the title's own word:
\* through all orders in which swaps come and go and the title writes, between two
\* slots as well (README.md:129, "only a slot still holding our value is put back").
\* The one exception the code allows is named: a word that the title wrote between
\* our read of it and our store to it (data.cpp:94-95, :111-112), until the title
\* writes there again.
DataIntact ==
  \A a \in Mapped :
    \/ data[a] = native[a]
    \/ a \in lost
    \/ \E s \in Swaps : a \in Written(s) /\ data[a] = swap[s].desc.value

Touched == {s \in Swaps : s \in AppliedSwaps \/ s = walk.on}

\* No two swaps are applied, or in the middle of being written, whose spans overlap,
\* although both are judged long before either is written.
SwapsDisjoint ==
  \A s, t \in Touched : s # t => ~SwapsClash(swap[s].desc, swap[t].desc)
=============================================================================
