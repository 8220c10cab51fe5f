# Verification of libwupatch

libwupatch patches single instructions of a running Wii U title: a host declares
patches, states which of them it wants, and calls `Tick()` once a frame; the
library relocates addresses, checks every word before it replaces it, chains
several patches at one instruction, and gives everything back when asked.

This directory holds TLA+ models of that code, the TLC configurations that check
them, and proofs that TLAPS checks. Paths below are relative to the repository.

- [The system](#the-system)
- [Modules](#modules)
- [Runs](#runs)
- [Fairness](#fairness)
- [Proofs](#proofs)
- [Disagreements found](#disagreements-found)
- [What is not modelled](#what-is-not-modelled)
- [Plan](#plan)

## The system

| component | source | state it keeps | operations |
|---|---|---|---|
| Registry and Tick | `src/wupatch_registry.cpp`, `wupatch_types.h` | `s_records` (patches: descriptor, wanted, retired, state, site, retry time), `s_sites`, `s_cfg`, `s_dirty`, `s_tick`, `s_collisions` | `Configure`, `OnApplicationStart/End`, `RemoveAll`, `Tick`, `Declare`, `SetEnabled`, `Undeclare`, queries |
| Hook chain | `src/wupatch_chain.cpp` | per site `firstLink`, per link `next`, `prio`, `attached`; in memory the dispatcher's `head` and each link's `nextTarget` | `Attach`, `Detach`, `Clear`, `Length`, `Position` |
| Stubs | `src/wupatch_shim.cpp` | the site's slot (dispatcher, thunk), the link's CALL shim and forwarding stub | `Build...` of each |
| Site layer | `src/wupatch_apply.cpp` | the backend chosen for this process, whether it was asked, whether the title's module was found | `EnsureReady`, `GuardSite`, `PrepareSite`, `PrepareLink`, `InstallSite`, `UninstallSite`, `ForgetSite`, `Publish` |
| Direct backend | `src/wupatch_backend_direct.cpp` | per site `saved`, `ours` | `apply`, `remove`, `forget` |
| FunctionPatcher backend | `src/wupatch_backend_fp.cpp` | per site `handle` | `apply`, `remove`, `forget` |
| Overlap | `src/wupatch_overlap.cpp` | none (a static scratch table) | `Find` |
| Data swaps | `src/wupatch_data.cpp` | `s_swaps`, its own dirty flag | `Declare`, `SetEnabled`, `CollectExtents`, `MarkCollided`, `Reconcile`, `RemoveAll`, `Forget` |
| Relocation forms | `src/wupatch_reloc.cpp` | none | `MatchesNative` and its parts |
| PowerPC | `src/wupatch_ppc.cpp` | none | encoders, `Classify` |
| Module lookup | `src/wupatch_module.cpp` | none | `Find`, `CountUnnamed` |
| Log | `src/wupatch_log.cpp` | sink and tag | output |

How they meet:

- The host calls every entry point from one thread (the frame thread). `Tick`
  calls, in this order: readiness (`EnsureReady`), removals (`removeLink`, which
  detaches from the chain and uninstalls a site left empty), `findCollisions`
  (through `Overlap::Find`, with the extents of the data swaps in the same table),
  installs (`applyOne`: bind a slot, guard, prepare stubs, attach, install), and the
  rollback of this Tick's installs when one failed.
- The game's cores run patched instructions at any moment, with no lock. All they
  share with the frame thread is memory words: the patched word, the dispatcher's
  `head` and the links' forwarding words.
- Other patchers write the same text, without telling anybody; the title writes its own
  data.
- The FunctionPatcher module outlives the process and applies what it still holds
  to the next one.

Where it is hard, and so what the properties are about (PROJECT.json, `hazards`,
lists each place by line):

- **The chain is edited under its readers.** `Attach` makes two stores and `Detach`
  one; detached links keep stale forwarding words that calls in flight still follow.
  Correct means: whatever the edits, a call sees a complete chain, runs each hook
  that was there once, in order, never runs in a loop and never jumps to a word
  nobody wrote.
- **Two records of one fact.** Rows say which patches are applied, sites say what is
  installed and who is linked, memory says what the cores run, the FunctionPatcher
  module what it will re-apply. They are updated at different places, with failures
  between them. Correct means that they agree after every step, and that the title's
  text is the loader's again wherever no site is recorded.
- **Stubs cannot be rewritten** while a core may be in them, so slots and rows are kept
  out of use until the process ends.
- **Batches.** A Tick that fails part way must leave what it found.
- **Contention.** Which patches may share an address depends on who came first, on
  shape, on flags, on the displaced word and on a table of limited length.
- **Two kinds of patch under one Tick.** Code patches and data swaps share one collision
  table, one `Tick`, one `RemoveAll` and one `Configure`, but each has a dirty flag and a
  readiness of its own. Correct means that neither can tell that the other is there, and that
  a swap gets in and out whatever became of the code.
- **Code that runs elsewhere.** A displaced word runs from a thunk at another address, after
  stubs that borrow registers. Correct means that the game cannot tell: same registers, LR,
  stack and next instruction as in place.
- **Words the loader changed.** The guard sees one half of an address that moved; the carry
  that goes with it is decided by the other half, which it does not see.
- **A second resolver.** FunctionPatcher is told a name and an offset and walks the loader's
  list again. Correct means that it patches the word the guard has seen, or nothing.
- **Other writers.** A word that is no longer ours must not be restored, a word that is
  no longer native must not be replaced, and a refusal must be looked at again.

## Modules

| module | models | needs |
|---|---|---|
| `ChainOrder` | what a chain promises: a sequence of links that an edit changes in one step | |
| `Chain` | `wupatch_chain.cpp` store by store, and the cores that run through its words | `ChainOrder` (refinement) |
| `ChainProofs` | theorems about `Chain` | `Chain` |
| `MCChain` | instances of `Chain` | `Chain` |
| `Overlap` | `Find` and the marking of its collisions, as operators | |
| `OverlapProofs` | theorems about `Overlap` | `Overlap` |
| `MCOverlap` | enumerates inputs of `Overlap`, states what it should compute | `Overlap` |
| `MCOverlapProofs` | that it computes that, for inputs of any length | `MCOverlap`, `OverlapProofs` |
| `Registry` | rows, sites, both backends, `Tick` | `Overlap` |
| `RegistryProofs` | theorems about rows, batches, slots and chains: what its other proofs rest on | `Registry`, `OverlapProofs` |
| `RegistryTextProofs` | theorems about the text and who shares it | `RegistryProofs` |
| `MCRegistry` | instances of `Registry` | `Registry` |
| `DataSwaps` | `wupatch_data.cpp`, and a title that writes its data | |
| `DataSwapsProofs` | theorems about `DataSwaps` | `DataSwaps` |
| `Patcher` | the registry with the swaps it drives: everything a host calls | `Registry`, `DataSwaps` |
| `PatcherProofs` | that `Patcher` implements `Registry` and `DataSwaps` | `RegistryProofs`, `DataSwapsProofs` |
| `MCPatcher` | instance of `Patcher` | `Patcher` |
| `Reloc` | `wupatch_reloc.cpp`, and what linker and loader make of a word | |
| `Targets` | `wupatch_module.cpp`, and how `fpApply` describes a site to FunctionPatcher | |
| `Stubs` | `wupatch_ppc.cpp`, `wupatch_shim.cpp`, `PrepareSite`, `PrepareLink`, and a core that runs their words | `Reloc`, `Targets` |
| `StubsProofs` | theorems about `Reloc`, `Stubs` and `Targets` | `Stubs` |
| `MCStubs` | instances of `Stubs` | `Stubs` |

### Chain

`firstLink`, `next`, `attached` are the fields of `Chain::Site` and `Chain::Link`;
`head` and `fwd` are `SiteRecord::head` and `PatchRecord::nextTarget`, the words in
memory. A word is named by what it points to: a link, the site's `Thunk`, or `Zero`
for a word that was never published or was reset.

`Attach` is cut wherever a core could tell the difference: `AttachStart` (it takes the
first link as `cur`), `AttachSeek` (one turn of the loop), `AttachForward` (the new
link's own word is published), `AttachSplice` (its predecessor's word, or the head, and
the list). `Detach` publishes one word, so it is one step. `Clear` touches no word.
`Install` and `Uninstall` are the registry's patching of the title's word, with the
guards it has (a chain that has a first link; a chain that is empty). `ProcessEnd` and
`Reconfigure` are `forgetProcess`, which zeroes every word: in the first no core is left,
in the second (`Configure` with other deltas) there may be some inside. The removal before
either may have failed, or have skipped a site that failed to be removed earlier: then the
registry forgets a site whose word still branches to the dispatcher (`stray`), and a core comes
by that branch (`EnterStray`) to a head of 0, or to a chain built there since.

A core is `out`, at the `dispatcher`, at a link's hook, or at the thunk. `Dispatch` and
`Forward` load one word and jump; `Leave` is a hook that returns, or the thunk. Memory is
sequentially consistent: `Publish` flushes and orders each store before the next, and
there is one writer.

`NeverLost` says that a core gets lost in two ways only (`reset` trips): the words are zeroed
under it, when `Configure` moves the deltas; or it comes by such a forgotten branch before a chain is built
again. `AlwaysValid` is the same without the exceptions, and is violated.

Two variables are history and change nothing: `older` (who was attached after whom), from
which `Before`, the order a chain should have, is defined; and `trip`, what each call in
flight has run and what was attached and detached around it.

### Overlap

Insertion sort and sweep are replaced by what they compute: the order is `Earlier` (the
key of `before()`, ties by position because the sort is stable), the sweep's running
maximum is `Reach`, the cap of the table is `Found`. `Refused` is the marking at the end
of `findCollisions`.

### Registry

`row` and `site` are the two tables, with the fields that decide something; `mem` is the
title's text and `entries` the FunctionPatcher module's memory. A word is a model value, or
`Branch(i)`, a branch to slot `i`.

`Tick` is a step per loop iteration (`TickStart`, then `TickRemove` for each withdrawn row,
`TickCollide`, `ApplyOne` for each row still to do, `TickRollback` for each row to take out
again, `TickEnd`), because another patcher (`ForeignWrite`) may come between any two. The
host's other calls are one step each: nobody else reads what they write. `ApplyOne` has a
disjunct for each way `applyOne` returns.

Decisions a reader should know:

- `links` of a site is a set. In which order they are linked, and the stores that do it,
  is `Chain`; the two models share what `Registry` guarantees there (a site is patched only
  with a link, `Chain!Install`; each site has a chain of its own).
- The look at a word (`GuardSite`, `wupatch_apply.cpp:119`; the comparison in `directRemove`) and
  the backend's store there are one step of the model, but not one moment: what the look finds is
  `seen`, what the store hits is `mem`. `ForeignWrite` comes before the look and changes both, or
  between look and store and changes `mem` only; `LookAnew` ends every step of ours. So a word
  another patcher writes in that window is lost, as it is in the code, and `ForeignKept` names it
  as the exception. The backends' read-back after a store is a failure of the step, followed by the
  foreign write that it saw.
- `Config::assumeMapped` is off, here (`wupatch_apply.cpp:114`) and in `DataSwaps`
  (`wupatch_data.cpp:85`): with it on, addresses outside the title's memory are read and written.
- `RemoveAll` treats its sites in one step; which of them fail is a set `gone`, with the
  conditions that make failing possible.
- The two deltas are one number: only whether they moved matters. Exported functions
  (`external`) are looked up, not relocated, and lie at an address of their own.
- Addresses are word numbers; relocated addresses do not wrap.
- The retry clock keeps differences (`wait`, and `s_tick` modulo the period).
- A failing commit, branch encoding, `writeFn` or FunctionPatcher call is one failure of
  the step it occurs in. `Failures` says which of them an instance has.
- A patcher that puts *our* branch back after we took it away is not modelled:
  `ForeignWrite` writes its own word, or the loader's.
- Hosts call `RemoveAll` before the process ends, as `README.md:60` demands
  (`NextProcess` requires that no site is installed).

### DataSwaps and Patcher

`swap` is `s_swaps`, `data` the words of `.data`, `base` the data delta. `native` is history:
what the data would hold had there never been a swap. The title writes some of the words at
any time (`GameWrite`), but never with a swap's own value there: the code cannot tell that
from its own, and says so (`wupatch_data.cpp:110`).

`DataSwaps` is the component with what it relies on: an arbiter of collisions that refuses
exactly the clashing (`ToldApart`), and a caller that takes every swap out before the data
moves. `Reconcile` and `RemoveAll` walk over the swaps (`walk`), and over the slots of each, in the
order of the code: `StartSwap` decides what there is to do for the next, `ReadSlot` reads a word,
`StoreSlot` stores there in a step of its own (`PutSlot` saves what was read and stores the swap's
value; `ClearSlot` puts the saved word back if the swap's value was read), `FinishSwap` changes the
row's state, `WalkEnd` ends. The title writes between any two of these. What it writes between a
`ReadSlot` and its `StoreSlot` is lost, as it is in the code; `lost`, a history variable, holds those
words until the title writes them again, and `DataIntact` excepts them. `Declare`, `SetEnabled`
and `Forget` are one step each. Rows that are out keep their last address and words in the code, which
only `RuntimeAddrAt` shows; the model wipes them.

`Patcher` is the real caller. It conjoins an action of `Registry` with one of `DataSwaps` for
each entry point: `Tick` is `TickFrame` (blocked, quiet or begun; either dirty flag begins
it), the removals of `Registry`, `FindCollisions` with `AllExtents` of both kinds, the
installs, then the walk (`TickOnData`), which is also what is left of `RemoveAll` and `Configure` after their
part in `Registry`. That it is a correct caller is a refinement: `SwapsArbitrated` is
`SwapsSpec`, so what is proved of `DataSwaps` holds of the composition; `PatchesUndisturbed`
is `Registry!Spec`, so everything checked of `Registry` stays true with swaps beside it (and
its `DataDirty`, which answers either way, is what a swap's dirty flag does). Other
patchers, who write text, are left to `Registry`: an action of theirs shares nothing with the swaps.

### Reloc

An instruction word is a record: the opcode, the immediate half, the other fields. Only the
two halves of addresses matter, so arithmetic modulo 2^32 is two sums modulo 2^16. External
is how the linker splits an address (`HalfOf`: low, high, or high adjusted for a signed low
half) and that the loader does it again at the new address (`LinkedAs`).

### Targets

A place is all that the description of a site depends on: its address, the loader's list of
modules, and the settings that choose between export, physical address and text offset. The
operators are sets with at most one element: `Find` is empty when the title is not loaded,
`Describe` when `fpApply` gives up before it asks, `FpApply` also when FunctionPatcher would
defer the patch and it is taken back. Names are sequences, so that "ends in" means what it
does in the code. The array of 48 that the loader fills is `kMaxModules`. External are the memory map and
`Patches`: FunctionPatcher resolves an offset by its own walk of the whole list, which a
module without a name breaks off; the code says so in `wupatch_module.h:11`.

### Stubs

One site, its slot, the slots of its links, and a core. `scene` chooses the shape, the word
of the image and the half of an address in it, the loader's delta, the replacement, the number
of hooks, the backend and where site and pool lie. `Apply` writes the words of `PrepareSite`,
`PrepareLink` and `encodeSite` in `code`, and the published chain in memory; `Refuse` is the
guard's other answer: the site is outside the text of the module found, or does not hold its
word. An export is taken as it is, whatever it holds. What is patched is `Patched`: the direct backend's word, or
the branch FunctionPatcher writes where `Targets` says it does. From then on `Run` executes one word at a time, of the library's words
and of nothing else, with a small model of the processor (`Exec`); a hook is external: it goes
on to `GetOriginalThunk` by a branch or by a call with a return address of its own, or it
returns. The chain does not change meanwhile: that is `Chain`, whose `Dispatch` and `Forward`
are here the nine words of `BuildIndirect`. The direct backend's branch must reach; FunctionPatcher's
always does, but compares in CR first where the patch is for one process only, as exports are (`wupatch_backend_fp.cpp:36`).

What a core brings is one value per register, each different from those the stubs compute, and
from 0, so that a register that is lost or taken for another shows; a comparison that matters
(CR) is tried both ways. Addresses stay below 2^31.

## Runs

| run | configuration | checks |
|---|---|---|
| `chain` | three links, two of one priority and one above; one core; `Configure` may move the deltas, and the process end, at any time, with removals that fail | types; that no core is lost but by a reset; the order of words and list; that words follow the list; that no hook is skipped or run twice; refinement of `ChainOrder`; that calls return |
| `chain_lost` (violation) | the same with two links | a core jumps to 0 |
| `overlap` | every sequence of up to four extents, two segments, one or two words long | exactly the clashing, not applied extents are refused |
| `registry` | three rows; four patches contending for one address (two alike, one that expects another native word, one exclusive); two configurations, other deltas, direct and FunctionPatcher | types; rows, sites and text agree; who may share; chains can end; collisions have a reason |
| `registry_faults` | two jumps at one address and an export; commits and backends may fail; automatic choice of the backend | rows and sites agree; branches lead to built slots; stubs are frozen; a Tick is all or nothing |
| `registry_foreign` | two rows; a jump, a call and a rewrite at one address, which use up both slots; a foreign patcher, before and after each look; removals may fail; retry period of two Ticks | branches lead to built slots; foreign words are kept; refused patches are retried |
| `registry_again` (violation) | `Configure` repeated with the same deltas | a later `Configure` removes nothing |
| `registry_capped` (violation) | a collision table of one | incompatible patches share a site |
| `registry_whole` (violation) | one good patch and one that the text refuses | the good one is written nevertheless |
| `swaps` | one patch, two swaps (slots 2 and 4 of the span 1..4, and slot 2 alone); three configurations: code and data found, neither found, and data found elsewhere without code; repeated or changed; process changes; the title writes word 2; retry period of two | types and that no store lands outside the data; that the data is the title's wherever no swap is; that overlapping swaps are never both in; that `Patcher` implements `DataSwaps` and `Registry`; that swaps get in and out, and a withdrawn patch out |
| `stubs` | 25 kinds of word, halves of two addresses, three deltas, three replacements, one or two hooks, both backends, exports or the title's own words, seven placements of site, pool and modules | the guard takes what the loader wrote and nothing else; the word patched is the one guarded; hooks are entered with the registers promised; the game goes on as if nothing had been displaced; a core comes out |
| `classify` (violation) | the same | a branch that decrements CTR is taken for the thunk |

Why the bounds are enough. An Attach distinguishes a head, a predecessor and a tail: three
links put a link before, between and after others, and with two priorities both branches of
the comparison and a tie occur. The order of stale words needs a link that left and a chain
that changed since; the proofs then cover any number. A call sees the words one at a time,
so one core reaches every interleaving with the editor, and cores do not meet each other;
the proofs cover any number. An overlap that is not adjacent in sorted
order takes three extents; four leave one more around it. In the registry, three rows at
one address give a group with an applied member, a compatible and an incompatible one, and
a batch of two with a failure after it; two addresses exist where independent groups matter.
Two site slots are a slot and another for a second shape or a later occupant, and with three
shapes the table runs full. `RetryTicks` (30 in the code) is 1 where retries are
not the question and 2 where the retry clock and a row's wait must meet;
`MaxCollisions` (8) is larger than the rows, or 1 where the table should overflow.

Two swaps are one that waits and one that is in its way; they share a slot and have one
beside it, and with the data moved the longer no longer fits in what is mapped. The patch has
the address number of their overlap, which only the segment tells apart. The title writes a word that is a slot
of both, so that its writes fall before, between and after reads and stores of either, and between
the two slots of the longer. Patch and swaps are withdrawn also while nothing is found and Ticks are
blocked. More rows of code
are `registry`'s matter, and the refinement carries it over. In `stubs` the words cover every
case of `Classify` and every register a stub borrows; the addresses and deltas carry at once,
with the delta, or not at all; the pool lies within a branch's reach, at either end of it
exactly, one word beyond, and where only an absolute branch gets. The module lists are those
`Targets` tells apart: longer than the array (`kMaxModules` is 2), with a module without a
name before or after the title, without the title, and with the site in the last word of the
text or the word after it; addresses have a physical one or not, and the title gate matches or
not.

Every run checks deadlock but `overlap`, which only enumerates inputs and then stops, and
`stubs` and `classify`, where a core's pass through the site ends.

The mutants listed in PROJECT.json are plausible mistakes in the code, defined next to the
definitions they replace; each property fails under at least one of them.

## Fairness

`Chain!FairSpec`: an `Attach` that has begun continues (the frame thread runs a bounded
loop), and a core inside the chain keeps executing. Nothing is assumed about the host's edits
nor about cores entering: `CallsReturn` speaks of the time after the last edit, since a host
that edits for ever can put new hooks in front of a call for ever.

`Registry!FairSpec`: Ticks begin again and again, which is the frame loop (`README.md:57`,
"once per frame"). A Tick can begin whenever none is under way, and takes a bounded number
of steps, each of them always possible; so this asks nothing of failures, of other patchers
or of the host. It is written `[]<><<TickBegin>>_vars`. Liveness is checked where failures
are only those of removals: a patch whose commit fails every time ends the batch before the
patches behind it, on every retry (a hazard, accepted by the code).

`Patcher!PatcherFairSpec` is the same for the whole: Ticks begin again and again. A step of a
Tick is always possible and the next Tick begins only after the last step of this one, so
nothing more is asked. `SwapGetsItsTurn` is about swaps whose memory is mapped and whose span
no other swap wants; the data must be found (`Config::dataResolved`) from some time on.

`Stubs!Spec`: a core does not stop between two words, and a hook comes to an end.

## Proofs

`ChainProofs` proves, for any set of links and cores, any priorities:

| theorem | says |
|---|---|
| `InvariantHolds` | `TypeOK` and `ChainInvariant` hold always |
| `TypeCorrect` | types |
| `NoCycle` | `ForwardsDown`: every forwarding word, stale ones included, leads strictly down the order |
| `ListSorted` | `ListFollowsOrder`: the list is sorted by priority, ties by attachment |
| `WordsAgree` | `WordsFollowList`: the words of attached links and the head say what the list says, between the two stores of an edit as well |
| `NeverLostHolds` | `NeverLost`: no core jumps to a word nobody wrote, unless the words were zeroed while it was inside, or it came by a branch that a failed removal left behind before a chain was built again |
| `NoHookSkippedHolds` | `NoHookSkipped`: a call that reaches the thunk ran every hook that was attached for the whole of it, unless a link that left during it, or that it had run, was attached again |
| `NoHookTwiceHolds` | `NoHookTwice`: under the same proviso no step of a call runs a hook again |
| `ImplementsOrderHolds` | `ImplementsOrder`: `Chain` implements `ChainOrder` |

They rest on the assumptions in `Chain`: priorities are integers, links are finitely many, and
the names `NoLink`, `Thunk`, `Zero`, `"out"`, `"dispatcher"` are distinct from links and each
other.

None of these is inductive alone. `ForwardsDown` needs to know where the loop of `Attach`
stands (`EditFollowsList`): the word it is about to write leads to a link of lower priority
only because the walk passed everything else, and the predecessor's word leads to the new
link because the new link is now the youngest. Re-attaching a link changes `older`, hence
`Before`; what saves the stale words that name it is that the link moves *down* among its
equals, and its own word is rewritten first. `ListFollowsOrder` after a splice or a
detach needs that prev and cur split the chain (`SplitAtCursor`), and that every link but the
first has a predecessor (`HasPredecessor`). `ChainInvariant` is the conjunction; lemmas take one step
each. `NeverLost` is strengthened separately by `WordsReachable`: every word that a core
can reach, through a stale head as well, was written. It speaks of the cores for whom nothing was
zeroed (`Unreset`) and of the dispatcher while the registry knows that the site is patched; of a
forgotten branch it can say nothing, which is the exception.

The last two theorems rest on `TripsOnCourse`, an invariant about every call that the proviso
does not except. What the call has run comes before where it is (`Behind`), what it has to run
and has not comes after (`Ahead`), and the word of a link that left during the call leads to a
link that is there, or that left during the call as well, and past none that it has to run
(`Stale`). `Stale` is the part a test would not find: a core in a link that left is taken back
to the chain only by words nobody updates any more, through other links that left, and `Detach`
may remove the link such a word leads to. The two stores of `Attach` ask for one more clause:
between them the new link's word is written and nothing leads to it, so a call that has seen it
is still in it (it was attached before), or has gone on below its priority. The proviso
is needed: attaching a link rewrites its word, and a core in it, or on the way to
it, then goes where the list has it now.

`ImplementsOrderHolds` is about the words alone: the state of `ChainOrder` is a sequence, and
`Path` maps to it what a caller runs that every hook passes on. Its definition is not
recursive: `Path` is the sequence of links each of whose words leads to the next, from the head
to the first that leads to no link. `WalkIsUnique` says that there is one such sequence at
most, and `SortedIsPath` that it is the attached links in their order (`Sorted`), since the words
follow the list. Then an edit is judged by sorted sequences: one link more goes in at the
one place its priority has (`InsertedAt`), one link less is taken out where it was (`RemovedAt`),
and a sorted sequence of the same links is the same sequence. The first store of `Attach` and
all that cores do leave `Path` alone (`QuietIsStutter`).

`DataSwapsProofs` proves, for any number of swaps, any strides, counts and offsets, any data
and any title:

| theorem | says |
|---|---|
| `SwapsInvHolds` | `SwapsInv`, the inductive invariant |
| `SwapsTypeCorrect` | types; every store is to mapped data |
| `SwapsStayApart` | `SwapsDisjoint`: no two swaps that are applied, or being written, overlap |
| `DataStaysIntact` | `DataIntact`: a word is the title's own, or a swap's in a slot written for it, or one the title wrote between our read and our store |

They assume that descriptors are well formed, as `Declare` demands; that `.data` is one
mapping (only the ends of a span are looked at); and that the title does not write a swap's
value. `SwapsInv` adds where an applied swap is (`Placed`: at the present delta, and mapped); that
between the judging of collisions and the end of the walk a swap that may be applied overlaps
none that is or may be (`Judged`); which swap is in hand and which of its slots are left (`InHand`); and that a
walk that gives back has passed none that is still applied (`NoneMissed`), so that the data moves under
nobody. Also that what was read in a slot is still there or the title has written since
(`SeenRight`), and that what is saved of a slot that holds our value is what the title left there,
`lost` words apart (`SavedRight`).
That slots of swaps whose spans are apart are apart, and that slots lie in the span, are
lemmas about products, which the SMT solver needs split into linear pieces.

`StubsProofs` proves `LoadedIsAccepted`: for every word, address and delta, whichever half of
the address the word holds, `MatchesNative` accepts what the loader makes of it. Its core is
`HalvesOfSum`: the high half of a sum is the sum of the high halves plus a carry of 0 or 1.

From it follows `GuardTakesNative`, the property `NativeIsTaken` for any words, addresses
and deltas. `BranchReaches`: a core that runs the word
`EncodeBranch` yields comes to the target, for all distances it accepts. `PatchesTheSite` is
about `Targets`: for any site and list of modules, whatever description `fpApply` has accepted
makes FunctionPatcher patch that site and no other. It assumes that a module without a name is
among the `kMaxModules` the loader's array has room for: the module that `Find` has found is then
the one FunctionPatcher finds, because no module without a name is left that would break its
walk off.

What a core does in the stubs is proved for any words, places and deltas, any number of
hooks up to 255 (the code has room for 128 patches, `wupatch_types.h:7`), and a core that brings the
registers the runs bring:

| theorem | property | what it says |
|---|---|---|
| `HooksEnteredRightHolds` | `HooksEnteredRight` | whichever hook is entered finds registers, LR, CR and stack as its shape promises, and only the first comes from the site |
| `OriginalRunsHolds` | `OriginalRuns` | a core that is out of the stubs again is the machine that the displaced word, or its replacement, makes at the site, CTR apart, for words that neither count CTR down nor link |

Both follow from one inductive invariant, `Course`. It holds the machine `m` against `from`, the
machine at the site or the one a hook left (`Left`), and says where on its way the core is (`At`):

- at the site; or in one of the nine words of a `BuildIndirect` (`InIndirect`: of the site, or a link's
  way on), of the seven of a `BuildCall` (`InCall`) or of the nine of a `BuildRewrite` (`InRewrite`); or at
  the start of a hook. For each word the invariant says what r0, r11, LR and CTR hold, and what lies in
  the stub's frame; everything else is as in `from` (`Carried`, `LinkKept`, `CondKept`), and memory
  differs only in the frame below the stack pointer (`Kept`).
- past the displaced word (`Ran`), or out of the stubs (`Gone`): there the machine is `Alike` the one that
  the word makes of `from` at the site. `Twins` is the relation this rests on: two machines that differ
  in pc, CTR and the frame only still do after any word that `Classify` takes, or a branch that is
  taken by both or by neither.

`CodeIs` says what is at each address: every stub in a slot of its own, the patched word at the site,
and nothing else, whatever the number of links. One lemma per instruction the stubs use says what
`Exec` makes of it, and one per stub what a core does in it from word to word.

The assumptions of `Stubs` about its constants, which TLC evaluates on the instances: site, pool and
stack are apart, and all addresses below 2^31 (`PlacesAssumption`, `StackAssumption`); a core comes
to the site from code that is not the library's, and the title's absolute branches lead to such code
(`Elsewhere`); and no word the title has at a site loads from below the stack pointer, where the
frame of a stub has been (`Instruction`).

`OverlapProofs` proves that sort, sweep and marking are exact, for any number of extents in any
order: `RefusedClash` (whoever is refused is not applied and overlaps another, whatever the
cap), `ClashRefused` (whoever is not applied and overlaps another is refused, if the table has
room for every collision the sweep finds, `Fits`), and both together, `RefusesExactly`. The
sweep holds each extent only against the one passed that reaches furthest. What makes that
enough for `ClashRefused`: of the extents that come after `i` and overlap it, look at the first.
What reaches furthest there is `i`, and `i` is marked as its other end; or it is one that reaches
past `i`, which must lie before `i` since nothing between overlaps `i`, and then `i` itself
collided when the sweep came to it. `FoundAll` says that the
cap cuts nothing off. `MCOverlapProofs` carries it to the property of the run, for sequences of
any length up to the cap.

`RegistryProofs` and `RegistryTextProofs` prove every safety property of `Registry` that a run
checks, for any sets of rows, slots, descriptors, words and configurations,
any text, and any interleaving of host, Tick and other patchers:

| theorem | property | for which hosts and instances |
|---|---|---|
| `TypeOKHolds` | `TypeOK` | all |
| `TickAllOrNothingHolds` | `TickAllOrNothing` | all |
| `InstalledAsRecordedHolds` | `InstalledAsRecorded` | `HostConfigures # "again"` |
| `ChainsHaveAnEndHolds` | `ChainsHaveAnEnd` | `HostConfigures # "again"` |
| `CollidedForAReasonHolds` | `CollidedForAReason` | `HostConfigures # "again"` |
| `SharersCompatibleHolds` | `SharersCompatible` | and `ExportsApart`; behaviours whose clashes fit the table |
| `FewSharersCompatible` | `SharersCompatible` | and `ExportsApart`; no more rows than the table has |
| `TextIntactHolds`, `FewTextIntact` | `TextIntact` | the same two, and `Undisturbed` |
| `StubsFrozenHolds` | `StubsFrozen` | `HostConfigures = "once"` |
| `BranchesLandHolds` | `BranchesLandInStubs` | `HostConfigures = "once"`, `ExportsApart`, `FpRemoves` |
| `ForeignKeptHolds` | `ForeignKept` | `HostConfigures # "again"`, `DirectOnly`, `ForeignApart` |

Where a hypothesis comes from:

- `HostConfigures # "again"`: a host that repeats `Configure` with the deltas it has makes
  the library forget its backend under installed sites; `registry_again` shows what follows. It
  may still move the deltas (`"moves"`), unless the property is about stubs that stay
  (`StubsFrozen`, `BranchesLandInStubs`): moved deltas drop every slot, by design.
- `Fits(Extents, MaxCollisions)` at all times, or no more rows than `MaxCollisions`:
  `registry_capped` shows what follows otherwise. `CollidedForAReason` does not need it, a
  full table refuses too few and never too many.
- `ExportsApart`: an exported function of a system library is not at an address of the title's
  text. Two slots at one address would give back each other's branch.
- `FpRemoves`: the FunctionPatcher module takes out what it is asked to, or is not used. An entry
  it keeps is applied again to the next process, where its slot is another's (`ForgetSite`
  drops the handle, the module the patch does not know of it).
- `Undisturbed`: `TextIntact` is about a title that nobody else patches and a backend that obeys,
  as in the runs that check it; with others, what is promised is `ForeignKept` and
  `BranchesLandInStubs`.
- `DirectOnly`, `ForeignApart`: the direct backend compares before it writes; FunctionPatcher is
  not the library's code and puts back what it saved. A word of another patcher's that a
  descriptor gives as the title's own, or that an export happens to hold, is replaced.

The invariants, each checked by TLC on the instances of the runs before it was proved:

- `TypeInv`: types, and what `Tick` relies on from one step to the next (`TickOK`, `RowOK`,
  `SiteOK`). `Batched` is what `TickAllOrNothing` needs: between two turns, what is applied is
  what was applied when the turns began and the batch, and these are disjoint.
- `Recorded`: each applied row has a slot of its address and shape that lists it, each listed row
  is applied there, rewrites are alone, and a site is installed only in a process whose backend
  was found. The last part is what `Configure` with unchanged deltas breaks. `StepEffect` cuts
  `[Next]_vars` into the five things a step can do to rows and slots, so that each further
  invariant is a proof of five cases instead of twenty.
- `Members` (`ChainsHaveAnEnd`): whoever joined a chain has the displaced word its first member
  had. Slots are reused under a word that another row left there, so this needs `Serves` to
  compare what will run and not who declared it.
- `Fixed`, `Slots`, `Handles`, `WordsKept` (`StubsFrozen`, `BranchesLandInStubs`): a committed
  slot stays at its address; slots are taken from the lowest, so two slots of one address differ
  in shape or word; the FunctionPatcher module holds exactly the installed sites; and what is
  kept to give back is never one of our branches. `BranchesLandInStubs` is itself in the
  induction: that no branch is saved as the title's word follows from where branches lead.
- `Arbitrated` (`SharersCompatible`): between `findCollisions` and the end of the Tick, whoever
  still has a turn or is applied can share. It is `RefusesExactly`, applied to the extents of the
  rows, and that a turn applies nobody who was not a contender.
- `Reasons` (`CollidedForAReason`): from a Tick until the host's next call, each collided row has
  its rival in the table or a site without a thunk, and nobody is left who was given up. Between a
  call of the host and the next Tick that is false: hence the phase in `Settled`.
- `Held` (`TextIntact`): each installed site's word is in the text and whoever gives it back has
  the loader's, and there is nothing else. It holds with `SharersCompatible`, without which two
  slots could be installed at one address.
- `OursOwn` (`ForeignKept`): what a slot takes for its own word is never another patcher's. A store
  follows a look that found the native word, or ours: where `mem` is still what was `seen`, no
  foreign word is hit.

`PatcherProofs` proves that the whole is what its parts say, for any tables and configurations:

| theorem | says |
|---|---|
| `PatchesUndisturbedHolds` | `PatchesUndisturbed`: `Patcher` implements `Registry` |
| `SwapsArbitratedHolds` | `SwapsArbitrated`: `Patcher` implements `DataSwaps`, in behaviours whose clashes fit the shared table |
| `FewSwapsArbitrated` | the same for no more rows and swaps together than the table has entries |
| `SwapsSafeInWhole` | `SwapsDisjoint` and `DataIntact` under `PatcherSpec`, in behaviours whose clashes fit |

So each theorem about `Registry` or `DataSwaps` holds in the whole. The maps are the identity: what has to be
shown is that each step of `Patcher` is one of the part, and the one step where that is not
plain is `FindCollisions`, which judges rows and swaps in one sweep (`CollisionsJudged`).

- For the rows it needs no room in the table. `EarlierSegmentsAlone` (`OverlapProofs`): what is
  in an earlier segment is sorted, swept and reported first, so that what lies behind it neither
  changes its furthest reach nor takes its place under the cap. Text sorts before data.
- For the swaps it does: a table full of the patches' collisions hides those of the swaps,
  and two that overlap may both be applied. With room, `RefusesExactly` says that the swaps refused are
  `ToldApart`, since a text extent and a data extent never clash.
- Types must hold before that, also where the table was full and `DataSwaps` says nothing of
  the step: `RowsStayOK` proves what is needed of them for a judge that refuses whomever it likes.

They assume at least one row, of which swap indices are counted on, and `DataDirty = BOOLEAN`:
`Registry` must leave the answer of `Data::Dirty` open to stand for what the swaps say.

Only model-checked:

- All liveness: `CallsReturn`, `WithdrawnIsRemoved`, `RetriedUntilApplied`, `SwapGetsItsTurn`,
  `WithdrawnSwapGone`, and that a core comes out of the stubs, `ComesOut`. Liveness and `ENABLED` are outside TLAPS's reach.

## Disagreements found

1. `registry_again`: `Configure` with unchanged deltas forgets which backend applied the
   sites (`Apply::Reset`, `wupatch_registry.cpp:114`). If the next call is a `Configure` with
   other deltas, its `RemoveAll` has no backend, the text stays patched, and the records are
   dropped. `wupatch_registry.h:10` promises removal.
2. `registry_capped`: collisions beyond the 8 that `Overlap::Find` reports are not refused, and
   the join path of `applyOne` does not look at the occupant's flags; a chainable patch joins
   the site of an exclusive one.
3. `chain_lost` (`AlwaysValid`): `Configure` with other deltas zeroes the forwarding words of chains that cores
   may be inside. `NeverLost` has the other way to get lost, where the removal before it fails.
4. `registry_whole`: the README says nothing is written until the whole wanted set validates;
   `Tick` validates and writes patch by patch.
5. `classify`: `wupatch_ppc.h:16` and `README.md:124` say that a word that touches CTR is refused.
   `Classify` refuses `bcctr` and moves to and from CTR, but takes branches that decrement it
   (`bdnzlr`, and `bdnza`, absolute). From the thunk they decrement the address the thunk has
   loaded. `OriginalRuns` is the rest: it holds for all words that leave CTR and LR alone.

## What is not modelled

- In `Registry`, the halves arithmetic and the classifier are constants (`Forms`, `Pic`): which
  words are accepted and which run in a stub is `Reloc`'s and `Stubs`' matter.
- A displaced or replacement word that links by an absolute branch: it calls a function that returns into the
  thunk, whose CTR it may have spent. `OriginalRuns` leaves such words out.
- Extents whose end wraps past 2^32, and malformed descriptors, which `Declare` turns away.
- `RuntimeAddrAt` and the other queries. (After a failed apply it is not 0, though
  `wupatch_data.h:30` says "0 until applied at least once".)
- More than 48 modules with unnamed ones behind the first 48: `CountUnnamed` does not count
  them, so that `fpApply` submits the patch that FunctionPatcher crashes on, though
  `README.md:149` says that the backend refuses. No list of the runs has that, and
  `ModulesAssumption` says so, and `PatchesTheSite` and `OriginalRunsHolds` rest on it. A call of the loader that fails, and `GuardSite`'s checks of
  alignment and of what is mapped.
- `Config::assumeMapped`, which skips the checks of what is mapped.
- Processes that end with patches in, in `Registry` (`README.md:60` asks the host for `RemoveAll`); `Chain`
  lets such a patch come back. The forgotten branch of `Chain` leads to the slot of its own site; that
  the slot may be another site's by then is not modelled.
- That a slot that did not land is built by a later Tick, and that the hook of a row whose removal failed
  stays reachable: no property says so.
- Logging, and the collision table kept for the host's overlay.
- Stale handles held by a host after `Undeclare`; `s_tick` wrapping after 2^32 frames; weaker
  memory than the barriers of `Publish` leave.

## Plan

1. (done) `Chain`, `ChainOrder`, `ChainProofs`: the lock-free core, first because a mistake
   there crashes the game.
2. (done) `Overlap` and `Registry` with both backends.
3. (done) `DataSwaps` with its proofs, and `Patcher`, its composition with `Tick`, `RemoveAll`,
   `Configure` and the shared collision table.
4. (done) `Reloc`, `Targets` and `Stubs` with their proofs.
5. (done) `OverlapProofs`, and the proofs about `Registry`: all its safety properties.
6. (done) What a call runs, and the refinement of `ChainOrder`, in `ChainProofs`.
7. (done) `PatcherProofs`: that the whole implements `Registry` and `DataSwaps`.
8. (done) What a core does in stubs, in `StubsProofs`: `HooksEnteredRight` and `OriginalRuns`.
