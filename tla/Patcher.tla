------------------------------- MODULE Patcher -------------------------------
(* The whole of what a host calls: the registry of code patches with the data  *)
(* swaps it drives (wupatch_registry.cpp, wupatch_data.cpp).  One Tick judges   *)
(* the collisions of both in one table, reconciles the code and then the data;  *)
(* RemoveAll, Configure and the application callbacks reach both.                *)
EXTENDS Registry, DataSwaps

CONSTANT DataDelta   \* configured delta -> where that puts .data

ASSUME DataDeltaAssumption ==
  DataDelta \in [{c.delta : c \in Configs} -> Bases]

patcherVars == <<vars, swapVars>>

PatcherInit == Init /\ SwapsInit

\* No Tick is under way, and no RemoveAll.
AtRest == Idle /\ Resting

-----------------------------------------------------------------------------
(* The host, between two Ticks.                                               *)

HostOnPatches ==
  /\ \/ \E d \in Descs : Declare(d)
     \/ \E r \in Rows : Undeclare(r) \/ \E enabled \in BOOLEAN : SetEnabled(r, enabled)
  /\ UNCHANGED swapVars

HostOnSwaps ==
  /\ \/ \E d \in SwapDescs : DeclareSwap(d)
     \/ \E s \in Swaps, enabled \in BOOLEAN : EnableSwap(s, enabled)
  /\ UNCHANGED vars

HostRemovesAll ==
  /\ \E gone \in SUBSET InstalledSites : RemoveAll(gone)
  /\ GiveBack(base)

\* Mutant: only the code patches are taken out when the deltas change.
MovedInPlace(c) == base' = DataDelta[c.delta] /\ UNCHANGED <<swap, swapsDirty, walk, dataWords>>

\* The words are given back where they are before the new delta counts.
Moved(c) == GiveBack(DataDelta[c.delta])

HostReconfigures(c) ==
  \/ /\ ConfigureSame(c)
     /\ IF cfg = NoConfig THEN Moved(c) ELSE UNCHANGED swapVars
  \/ \E gone \in SUBSET InstalledSites : ConfigureMoved(c, gone) /\ Moved(c)

ProcessEnds == NextProcess /\ ForgetSwaps

-----------------------------------------------------------------------------
(* Tick.                                                                      *)

TickFrame ==
  \/ TickBlocked /\ ReconcileStart(FALSE)
  \/ TickQuietIf(swapsDirty) /\ UNCHANGED swapVars
  \/ TickStartIf(swapsDirty) /\ UNCHANGED swapVars

\* Swaps come after all patches in what findCollisions emits.
SwapIndex(s) == Highest(Rows) + s

\* Mutant: data extents are not told from text extents.
SwapExtentText(s) ==
  [segment |-> 0, start |-> swap[s].desc.start, end |-> SpanEnd(swap[s].desc),
   applied |-> swap[s].state = "applied"]

SwapExtent(s) ==
  [segment |-> 1, start |-> swap[s].desc.start, end |-> SpanEnd(swap[s].desc),
   applied |-> swap[s].state = "applied"]

AllExtents ==
  [i \in DOMAIN Extents \cup {SwapIndex(s) : s \in InPlay} |->
     IF i \in Rows THEN Extents[i] ELSE SwapExtent(i - Highest(Rows))]

FindCollisions ==
  LET clashing == Refused(AllExtents, MaxCollisions)
  IN  /\ TickCollide(clashing)
      /\ JudgeSwaps({s \in Swaps : SwapIndex(s) \in clashing})

TickOnCode == TickCode /\ UNCHANGED swapVars

\* Whatever became of the code, the data is reconciled; or all is being given back.
TickOnData ==
  /\ Idle
  /\ ReconcileStart(TRUE) \/ WalkStep
  /\ UNCHANGED vars

-----------------------------------------------------------------------------
\* The title writes its data.  Those who write its text share nothing with the
\* swaps: they are Registry's matter.
TitleWrites == \E a \in GameAddrs, w \in GameWords : GameWrite(a, w) /\ UNCHANGED vars

PatcherNext ==
  \/ /\ AtRest
     /\ HostOnPatches \/ HostRemovesAll \/ ProcessEnds \/ TickFrame
        \/ \E c \in Configs : HostReconfigures(c)
     /\ LookAnew
  \/ AtRest /\ HostOnSwaps
  \/ (FindCollisions \/ TickOnCode) /\ LookAnew
  \/ TickOnData \/ TitleWrites

PatcherSpec == PatcherInit /\ [][PatcherNext]_patcherVars

\* Frames never stop coming, as in Registry; a Tick can always take its next step.
PatcherFairSpec == PatcherSpec /\ []<><<AtRest /\ TickFrame>>_patcherVars

-----------------------------------------------------------------------------
(* Properties.                                                                *)

\* The sweep over one shared table is the arbiter the swaps rely on: it refuses
\* exactly the swaps that overlap another, whatever patches are in the table with
\* them, and nothing else of Tick, RemoveAll or Configure breaks their contract.
SwapsArbitrated == SwapsSpec

\* Data swaps never change what happens to the code patches.
PatchesUndisturbed == Spec

\* A swap that stays wanted, whose memory is there and whose span no other swap
\* wants or holds, is applied again and again -- after one that was in its way has
\* given up, after it failed for want of memory, and with no code backend at all.
SwapRipe(s) ==
  /\ cfg # NoConfig /\ cfg.data
  /\ swap[s].used /\ swap[s].wanted
  /\ EndsMapped(swap[s].desc, swap[s].desc.start + base)
  /\ \A t \in InPlay \ {s} : ~SwapsClash(swap[s].desc, swap[t].desc)

SwapGetsItsTurn == \A s \in Swaps : <>[]SwapRipe(s) => []<>(s \in AppliedSwaps)

\* A swap that is withdrawn for good is taken out, also when it was withdrawn at a
\* time the data could not be found and the dirty flag was cleared meanwhile.
WithdrawnSwapGone ==
  \A s \in Swaps : <>[](swap[s].used /\ ~swap[s].wanted) => <>[](s \notin AppliedSwaps)
=============================================================================
