------------------------------ MODULE Registry -------------------------------
(* The registry of code patches (wupatch_registry.cpp) with the site layer    *)
(* under it (wupatch_apply.cpp) and both backends: what the host declares and  *)
(* wants, and how Tick reconciles the title's text with it.                    *)
(*                                                                             *)
(* The host calls every entry point from one thread.  Tick is a step per loop  *)
(* iteration, so that other writers of the text may come between two patches;  *)
(* the other calls are one step each.  Those writers may come within a step as *)
(* well, between its look at a word and its store there: `seen' is what it      *)
(* finds, `mem' what is there when it stores.  The host leaves                  *)
(* Config::assumeMapped off.  The links of a site are a set here: how they are  *)
(* ordered and published is module Chain.  Of data swaps only the one question  *)
(* Tick asks of them is here; module Patcher puts the two together.             *)
EXTENDS Overlap

CONSTANTS
  Rows, SiteRows,  \* 1..kMaxPatches and 1..kMaxSites
  Descs,           \* descriptors a host may declare (all well-formed)
  NoDesc,
  Words, NoWord,   \* instruction words, and the 0 of an unset field
  Forms,           \* Forms[w]: what the loader may have turned image word w into
  Pic,             \* words that can run from a stub (Ppc::Classify)
  Text,            \* runtime address -> the word the loader put there
  Configs, NoConfig,
  FpAnswers,       \* what FunctionPatcher_InitLibrary may answer
  ModuleAnswers,   \* what Module::Find may answer
  DataDirty,       \* what Data::Dirty may answer
  Failures,        \* which of "commit", "apply" and "remove" may fail
  Foreign,         \* words other patchers may write over the text
  HostConfigures,  \* "once", "moves" (the deltas change) or "again" (anything goes)
  MaxCollisions, RetryTicks

Addrs     == DOMAIN Text
Branch(i) == <<"branch", i>>          \* a branch to site slot i's entry
States    == {"declared", "blocked", "refused", "collided", "applied", "failed"}
Shapes    == {"jump", "call", "rewrite"}
Cells     == Words \cup {Branch(i) : i \in SiteRows}

ASSUME RowsAssumption ==
  Rows \subseteq Nat \ {0} /\ SiteRows \subseteq Nat \ {0} /\ IsFiniteSet(Rows)
ASSUME DescsAssumption ==
  /\ Descs \subseteq [addr : Nat, expected : Words \cup {NoWord}, shape : Shapes,
                      code : Words, exclusive : BOOLEAN, external : BOOLEAN]
  /\ \A d \in Descs : d.external => d.shape = "jump" /\ d.expected = NoWord
  /\ NoDesc \notin Descs
ASSUME TextAssumption == Addrs \subseteq Nat /\ Text \in [Addrs -> Words]
ASSUME WordsAssumption ==
  /\ NoWord \notin Cells /\ Pic \subseteq Words /\ Foreign \subseteq Words
  /\ Forms \in [Words -> SUBSET Words]
  /\ \A i \in SiteRows : Branch(i) \notin Words
ASSUME ConfigsAssumption ==
  /\ Configs \subseteq [delta : Nat, text : BOOLEAN, data : BOOLEAN,
                        backend : {"auto", "fp", "direct"}, allow : BOOLEAN]
  /\ NoConfig \notin Configs
  /\ FpAnswers \subseteq BOOLEAN /\ ModuleAnswers \subseteq BOOLEAN
  /\ DataDirty \subseteq BOOLEAN
ASSUME BoundsAssumption ==
  /\ MaxCollisions \in Nat /\ RetryTicks \in Nat \ {0}
  /\ HostConfigures \in {"once", "moves", "again"}

VARIABLES
  row,     \* s_records: the patches
  site,    \* s_sites: the patched instructions
  cfg,     \* s_cfg, NoConfig until Configure
  ready,   \* Apply's statics: backend, backendChecked, whether the text is found
  dirty,   \* s_dirty
  clock,   \* s_tick % RetryTicks; a row's wait is nextTryTick - s_tick
  tick,    \* the Tick under way
  mem,     \* the title's text
  seen,    \* what the step under way finds where it looks at the text
  entries  \* external: addresses the FunctionPatcher module keeps a patch for

text == <<mem, entries>>
vars == <<row, site, cfg, ready, dirty, clock, tick, text, seen>>

Lowest(S)  == CHOOSE i \in S : \A j \in S : i <= j
Highest(S) == CHOOSE i \in S : \A j \in S : i >= j

NewRow == [used |-> FALSE, desc |-> NoDesc, retired |-> FALSE, wanted |-> FALSE,
           state |-> "declared", site |-> 0, shim |-> FALSE, wait |-> 0]
NewSite == [used |-> FALSE, addr |-> 0, external |-> FALSE, shape |-> "jump",
            code |-> NoWord, expected |-> NoWord, state |-> "declared", at |-> 0,
            live |-> NoWord, committed |-> FALSE, thunk |-> FALSE, links |-> {},
            ours |-> NoWord, saved |-> NoWord, handle |-> FALSE, found |-> NoWord]
NotReady == [backend |-> "none", checked |-> FALSE, text |-> FALSE]
NoTick   == [pc |-> "idle", at |-> 0, batch |-> {}, held |-> {}, code |-> FALSE]

RowRecords  == [used : BOOLEAN, desc : Descs \cup {NoDesc}, retired : BOOLEAN,
                wanted : BOOLEAN, state : States, site : SiteRows \cup {0},
                shim : BOOLEAN, wait : 0..RetryTicks]
SiteRecords == [used : BOOLEAN, addr : Nat, external : BOOLEAN, shape : Shapes,
                code : Words \cup {NoWord}, expected : Cells \cup {NoWord},
                state : States, at : Nat, live : Cells \cup {NoWord},
                committed : BOOLEAN, thunk : BOOLEAN, links : SUBSET Rows,
                ours : Cells \cup {NoWord}, saved : Cells \cup {NoWord},
                handle : BOOLEAN, found : Cells \cup {NoWord}]

TypeOK ==
  /\ row \in [Rows -> RowRecords]
  /\ site \in [SiteRows -> SiteRecords]
  /\ cfg \in Configs \cup {NoConfig}
  /\ ready \in [backend : {"none", "fp", "direct"}, checked : BOOLEAN, text : BOOLEAN]
  /\ dirty \in BOOLEAN
  /\ clock \in 0..(RetryTicks - 1)
  /\ tick \in [pc : {"idle", "remove", "apply", "rollback"}, at : Rows \cup {0},
               batch : SUBSET Rows, held : SUBSET Rows, code : BOOLEAN]
  /\ mem \in [Addrs -> Cells] /\ seen \in [Addrs -> Cells]
  /\ entries \subseteq Addrs

Init ==
  /\ row = [r \in Rows |-> NewRow]
  /\ site = [i \in SiteRows |-> NewSite]
  /\ cfg = NoConfig
  /\ ready = NotReady
  /\ dirty = FALSE
  /\ clock = 0
  /\ tick = NoTick
  /\ mem = Text /\ seen = Text
  /\ entries = {}

Applied == {r \in Rows : row[r].state = "applied"}
Idle    == tick.pc = "idle"

-----------------------------------------------------------------------------
(* Declaration and intent.                                                    *)

Chainable(d) == d.shape # "rewrite" /\ ~d.exclusive

Compatible(d, e) == d.shape = e.shape /\ Chainable(d) /\ Chainable(e)

SameDesc(d, e) == d.addr = e.addr /\ d.shape = e.shape /\ d.code = e.code

\* Mutant: a retired row is taken again while its stubs may be running.
UnusedRows == {r \in Rows : ~row[r].used}

FreeRows == {r \in Rows : ~row[r].used /\ ~row[r].retired}

\* A descriptor that is already there, or a full table, changes nothing.
Declare(d) ==
  /\ Idle
  /\ \A r \in Rows : row[r].used => ~SameDesc(row[r].desc, d)
  /\ FreeRows # {}
  /\ row' = [row EXCEPT ![Lowest(FreeRows)] = [NewRow EXCEPT !.used = TRUE, !.desc = d]]
  /\ UNCHANGED <<site, cfg, ready, dirty, clock, tick, text>>

\* Mutant: withdrawing the intent is taken for being out of the chain.
UndeclareUnwanted(r) ==
  /\ Idle
  /\ row[r].used /\ ~row[r].wanted
  /\ row' = [row EXCEPT ![r] = [NewRow EXCEPT !.retired = row[r].shim]]
  /\ dirty' = TRUE
  /\ UNCHANGED <<site, cfg, ready, clock, tick, text>>

\* The row is kept out of use if its stubs were committed: cores may be in them.
Undeclare(r) ==
  /\ Idle
  /\ row[r].used /\ ~row[r].wanted /\ row[r].state # "applied"
  /\ \A i \in SiteRows : r \notin site[i].links
  /\ row' = [row EXCEPT ![r] = [NewRow EXCEPT !.retired = row[r].shim]]
  /\ dirty' = TRUE
  /\ UNCHANGED <<site, cfg, ready, clock, tick, text>>

SetEnabled(r, enabled) ==
  /\ Idle
  /\ row[r].used /\ row[r].wanted # enabled
  /\ row' = [row EXCEPT ![r].wanted = enabled, ![r].wait = 0]
  /\ dirty' = TRUE
  /\ UNCHANGED <<site, cfg, ready, clock, tick, text>>

-----------------------------------------------------------------------------
(* Giving a site's word back: UninstallSite and the backends' remove.         *)

\* Mutant: the word is put back without a look at what is there.
RemovableUnseen(s) == ready.backend # "none"

\* The direct backend leaves a word alone that is no longer the one it wrote.
Removable(s) == ready.backend = "fp" \/ (ready.backend = "direct" /\ seen[s.at] = s.ours)

MayFail(s) ==
  \/ ready.backend = "none"
  \/ ready.backend = "direct" /\ (seen[s.at] # s.ours \/ "remove" \in Failures)
  \/ ready.backend = "fp" /\ s.handle /\ "remove" \in Failures

\* Mutant: FunctionPatcher's handle is dropped and its patch left in.
RestoredIfDirect(i) == ready.backend = "direct"

\* FunctionPatcher has nothing to restore where it holds no patch of ours; where
\* it does, it puts back the word it found.
Restored(i) == ready.backend = "direct" \/ site[i].handle

GivenBack(s) == [s EXCEPT !.state = "declared",
                          !.handle = IF ready.backend = "fp" THEN FALSE ELSE @]

\* Mutant: a site that could not be restored has its slot freed for a rebuild.
KeptBackFreed(s) == [s EXCEPT !.state = "failed", !.committed = FALSE]

KeptBack(s) == [s EXCEPT !.state = IF ready.backend = "none" THEN @ ELSE "failed"]

Original(s) == IF ready.backend = "direct" THEN s.saved ELSE s.found

\* The text after every site of `gone' was given back.
TextWithout(gone) ==
  LET undone == {i \in gone : Restored(i)}
  IN  /\ mem' = [a \in Addrs |->
                   IF \E i \in undone : site[i].at = a
                   THEN Original(site[CHOOSE i \in undone : site[i].at = a])
                   ELSE mem[a]]
      /\ entries' = entries \ {site[i].at : i \in {j \in undone : site[j].handle}}

\* removeLink: the link leaves its chain; a site with nothing left is restored.
RemoveLink(r) ==
  LET i == row[r].site
      s == [site[i] EXCEPT !.links = @ \ {r}]
  IN  \/ /\ s.links # {}
         /\ row' = [row EXCEPT ![r].state = "declared"]
         /\ site' = [site EXCEPT ![i] = s]
         /\ UNCHANGED text
      \/ /\ s.links = {} /\ Removable(s)
         /\ row' = [row EXCEPT ![r].state = "declared"]
         /\ site' = [site EXCEPT ![i] = GivenBack(s)]
         /\ TextWithout({i})
      \/ /\ s.links = {} /\ MayFail(s)
         /\ row' = [row EXCEPT ![r].state = "failed"]
         /\ site' = [site EXCEPT ![i] = KeptBack(s)]
         /\ UNCHANGED text

\* RemoveAll gives back what it can, and clears every applied site's chain.
InstalledSites == {i \in SiteRows : site[i].used /\ site[i].state = "applied"}

CanRemove(gone) ==
  \A i \in InstalledSites : IF i \in gone THEN Removable(site[i]) ELSE MayFail(site[i])

RemoveAll(gone) ==
  /\ Idle
  /\ CanRemove(gone)
  /\ row' = [r \in Rows |->
               IF row[r].state = "applied" /\ row[r].site \in InstalledSites
               THEN [row[r] EXCEPT !.state = IF row[r].site \in gone THEN "declared" ELSE "failed"]
               ELSE row[r]]
  /\ site' = [i \in SiteRows |->
                IF i \in gone THEN [GivenBack(site[i]) EXCEPT !.links = {}]
                ELSE IF i \in InstalledSites THEN [KeptBack(site[i]) EXCEPT !.links = {}]
                ELSE site[i]]
  /\ TextWithout(gone)
  /\ UNCHANGED <<cfg, ready, dirty, clock, tick>>

-----------------------------------------------------------------------------
(* The process.                                                               *)

\* forgetProcess: every handle and shim goes, every retired row is free again.
ForgetProcess(keepIntent) ==
  /\ row' = [r \in Rows |->
               IF row[r].used
               THEN [NewRow EXCEPT !.used = TRUE, !.desc = row[r].desc,
                                   !.wanted = keepIntent /\ row[r].wanted]
               ELSE NewRow]
  /\ site' = [i \in SiteRows |-> NewSite]
  /\ ready' = NotReady
  /\ dirty' = TRUE

\* The first Configure, or one with the deltas of the last.
ConfigureSame(c) ==
  /\ Idle
  /\ cfg # NoConfig => HostConfigures = "again" /\ cfg.delta = c.delta
  /\ cfg' = c
  /\ dirty' = TRUE
  /\ ready' = NotReady
  /\ UNCHANGED <<row, site, clock, tick, text>>

\* Other deltas: RemoveAll, then forgetProcess, then the new configuration.
ConfigureMoved(c, gone) ==
  /\ Idle
  /\ HostConfigures # "once"
  /\ cfg # NoConfig
  /\ cfg.delta # c.delta
  /\ CanRemove(gone)
  /\ TextWithout(gone)
  /\ ForgetProcess(TRUE)
  /\ cfg' = c
  /\ UNCHANGED <<clock, tick>>

\* OnApplicationEnd, and OnApplicationStart in the next process: a fresh text,
\* but what the module still holds is applied to it again.  The host has called
\* RemoveAll before.
NextProcess ==
  /\ Idle
  /\ InstalledSites = {}
  /\ ForgetProcess(FALSE)
  /\ mem' = [a \in Addrs |-> IF a \in entries THEN mem[a] ELSE Text[a]]
  /\ UNCHANGED <<cfg, clock, tick, entries>>

\* Another patcher, on another core, writes a word of the text or puts it back: in
\* time for the look of the step under way, or between that look and the store.
ForeignWrite(a, w) ==
  /\ Foreign # {}
  /\ w \in Foreign \cup {Text[a]}
  /\ mem' = [mem EXCEPT ![a] = w]
  /\ seen' \in {seen, [seen EXCEPT ![a] = w]}
  /\ UNCHANGED <<row, site, cfg, ready, dirty, clock, tick, entries>>

-----------------------------------------------------------------------------
(* Tick: readiness and removals.                                              *)

\* Mutant: a wait that runs past zero.
AgedPastZero == [r \in Rows |-> [row[r] EXCEPT !.wait = @ - 1]]

\* Rows whose nextTryTick comes one tick nearer.
Aged == [r \in Rows |-> [row[r] EXCEPT !.wait = IF @ = 0 THEN 0 ELSE @ - 1]]

Waiting(r) == row[r].used /\ row[r].wanted /\ row[r].state # "applied"

\* selectBackend: a raw write is never fallen through to without the opt-in.
SelectBackend(c, fpUp) ==
  IF c.backend = "direct" THEN "direct"
  ELSE IF fpUp THEN "fp"
  ELSE IF c.backend = "auto" /\ c.allow THEN "direct" ELSE "none"

\* EnsureReady: the backend is asked once, the module until it is there.
EnsureReady(c, fpUp, found) ==
  LET b == IF ready.checked THEN ready.backend ELSE SelectBackend(c, fpUp)
  IN  [backend |-> b, checked |-> TRUE, text |-> ready.text \/ (b # "none" /\ found)]

\* Mutant: only a call of the host makes a Tick look again.
NeverDue == FALSE

RetryDue == clock = RetryTicks - 1

\* Unconfigured, or the data delta unknown: everything wanted is blocked.
TickBlocked ==
  /\ Idle
  /\ cfg # NoConfig => ~cfg.data
  /\ clock' = (clock + 1) % RetryTicks
  /\ row' = [r \in Rows |-> IF Waiting(r) THEN [Aged[r] EXCEPT !.state = "blocked"] ELSE Aged[r]]
  /\ UNCHANGED <<site, cfg, ready, dirty, tick, text>>

TickQuietIf(dataDirty) ==
  /\ Idle
  /\ cfg # NoConfig
  /\ cfg.data
  /\ ~dirty /\ ~RetryDue /\ ~dataDirty
  /\ clock' = (clock + 1) % RetryTicks
  /\ row' = Aged
  /\ UNCHANGED <<site, cfg, ready, dirty, tick, text>>

TickStartIf(dataDirty) ==
  /\ Idle
  /\ cfg # NoConfig
  /\ cfg.data
  /\ dirty \/ RetryDue \/ dataDirty
  /\ clock' = (clock + 1) % RetryTicks
  /\ dirty' = FALSE
  /\ row' = Aged
  /\ \E fpUp \in FpAnswers, found \in ModuleAnswers :
       ready' = IF cfg.text THEN EnsureReady(cfg, fpUp, found) ELSE ready
  /\ tick' = [NoTick EXCEPT !.pc = "remove", !.code = cfg.text /\ ready'.text]
  /\ UNCHANGED <<site, cfg, text>>

\* Mutant: the removal loop ends before the last row.
GivenUpButLast ==
  {r \in Rows : /\ row[r].used /\ ~row[r].wanted /\ row[r].state = "applied"
                /\ \E k \in Rows : k > r}

GivenUp == {r \in Rows : row[r].used /\ ~row[r].wanted /\ row[r].state = "applied"}

TickRemove ==
  /\ tick.pc = "remove" /\ tick.code
  /\ GivenUp # {}
  /\ RemoveLink(Lowest(GivenUp))
  /\ UNCHANGED <<cfg, ready, dirty, clock, tick>>

-----------------------------------------------------------------------------
(* Tick: collisions.                                                          *)

Contenders == {r \in Rows : row[r].used /\ (row[r].wanted \/ row[r].state = "applied")}

\* Rows of the group at r's address that share one extent, and the row that
\* stands for them: the first applied one, or the first.
Group(r) == {k \in Contenders : row[k].desc.addr = row[r].desc.addr}

\* Mutant: whoever is at the address shares it.
SharesAlways(r) == TRUE

Shares(r) ==
  LET there == Group(r) \cap Applied
  IN  IF there # {}
      THEN \/ r \in there
           \/ /\ \A k \in there : Chainable(row[k].desc)
              /\ Compatible(row[r].desc, row[Lowest(there)].desc)
      ELSE \A k, m \in Group(r) : k # m => Compatible(row[k].desc, row[m].desc)

Representative(r) ==
  IF Group(r) \cap Applied # {} THEN Lowest(Group(r) \cap Applied) ELSE Lowest(Group(r))

\* One word each, in words: two patches overlap where their addresses are equal.
Extents ==
  [r \in {k \in Contenders : Shares(k) => k = Representative(k)} |->
     [segment |-> 0, start |-> row[r].desc.addr, end |-> row[r].desc.addr + 1,
      applied |-> row[r].state = "applied"]]

\* Mutant: a row that once collided is never looked at again.
StateKept(r) == row[r].state

\* A collision lasts only as long as this Tick finds it.
StateBefore(r) ==
  IF r \in Contenders /\ row[r].state = "collided" THEN "declared" ELSE row[r].state

\* findCollisions, and the rows it leaves blocked when there is no backend.
TickCollide(clashing) ==
  LET state(r) == IF r \in clashing THEN "collided" ELSE StateBefore(r)
  IN  /\ tick.pc = "remove"
      /\ tick.code => GivenUp = {}
      /\ row' = [r \in Rows |->
                   [row[r] EXCEPT !.state =
                      IF ~tick.code /\ Waiting(r) /\ state(r) # "collided"
                      THEN "blocked" ELSE state(r)]]
      /\ tick' = IF tick.code THEN [tick EXCEPT !.pc = "apply", !.held = Applied] ELSE NoTick
      /\ UNCHANGED <<site, cfg, ready, dirty, clock, text>>

-----------------------------------------------------------------------------
(* Tick: applying one row (applyOne).                                         *)

Replacement(d) == IF d.shape = "rewrite" THEN d.code ELSE NoWord

\* bindSite: a committed slot serves one shape; an empty one takes the row's.
Vacant(s) == ~s.committed /\ s.state # "applied" /\ s.links = {}

Serves(s, d) ==
  /\ s.used /\ s.addr = d.addr /\ s.external = d.external
  /\ \/ Vacant(s)
     \/ s.shape = d.shape /\ (s.committed => s.code = Replacement(d))

Bound(d) ==
  LET fitting == {i \in SiteRows : Serves(site[i], d)}
      unused  == {i \in SiteRows : ~site[i].used}
  IN  IF fitting # {} THEN Lowest(fitting) ELSE IF unused # {} THEN Lowest(unused) ELSE 0

BoundSite(d) ==
  LET s == site[Bound(d)]
  IN  IF ~s.used
      THEN [NewSite EXCEPT !.used = TRUE, !.addr = d.addr, !.external = d.external,
              !.shape = d.shape, !.code = Replacement(d), !.expected = d.expected]
      ELSE IF Vacant(s) THEN [s EXCEPT !.shape = d.shape, !.code = Replacement(d)]
      ELSE s

\* GuardSite: where the site is, what it holds, and whether that is the native
\* word in a form the loader makes.  An export has no image word: the first look
\* defines it.
RuntimeAddr(s) == IF s.external THEN s.addr ELSE s.addr + cfg.delta

Matches(live, expected) == live = expected \/ (expected \in Words /\ live \in Forms[expected])

Guarded(s, d) ==
  LET a == RuntimeAddr(s)
  IN  [s EXCEPT !.at = a,
                !.expected = IF ~d.external THEN d.expected
                             ELSE IF a \in Addrs THEN seen[a] ELSE NoWord]

GuardPasses(g) ==
  /\ g.at \in Addrs
  /\ Matches(seen[g.at], g.expected)
  /\ g.committed => seen[g.at] = g.live

\* Mutant: a slot is in use and not known to be.
PreparedUnmarked(g) == [g EXCEPT !.live = seen[g.at], !.thunk = seen[g.at] \in Pic]

\* PrepareSite: the thunk exists if the displaced word can run from a stub.
Prepared(g) ==
  IF g.committed THEN [g EXCEPT !.live = seen[g.at]]
  ELSE [g EXCEPT !.live = seen[g.at], !.committed = TRUE,
                 !.thunk = g.shape # "rewrite" /\ seen[g.at] \in Pic]

\* PrepareLink: the row's own stubs, where they are still to be written.
LinkMayNotLand(r, s) == "commit" \in Failures /\ s.shape # "rewrite" /\ ~row[r].shim

\* What the backend writes: FunctionPatcher always branches to the slot.
InstalledWord(i, s) ==
  IF ready.backend = "direct" /\ s.shape = "rewrite" THEN s.code ELSE Branch(i)

\* What is put back again is the word of the look, or the one the module found.
Installed(i, s) ==
  IF ready.backend = "fp"
  THEN [s EXCEPT !.state = "applied", !.handle = TRUE, !.found = mem[s.at]]
  ELSE [s EXCEPT !.state = "applied", !.saved = s.live, !.ours = InstalledWord(i, s)]

\* fpApply: the module takes the patch and keeps it, or the backend has failed.
EntriesWith(s) == IF ready.backend = "fp" THEN entries \cup {s.at} ELSE entries

Linked(r, s) == IF s.shape = "rewrite" THEN s ELSE [s EXCEPT !.links = @ \cup {r}]

-----------------------------------------------------------------------------
Todo == {r \in Rows : Waiting(r) /\ row[r].state # "collided" /\ row[r].wait = 0 /\ r > tick.at}

\* The row's turn ends with `state'; a wait puts it on the retry clock.
Turn(r, state, wait, shim) ==
  /\ row' = [row EXCEPT ![r].state = state, ![r].wait = wait, ![r].shim = shim,
                         ![r].site = IF Bound(row[r].desc) = 0 THEN @ ELSE Bound(row[r].desc)]
  /\ UNCHANGED <<cfg, ready, dirty, clock>>

Continue(r) == tick' = [tick EXCEPT !.at = r]

\* Mutant: what this Tick installed is not written down.
BatchForgotten(r) == tick' = [tick EXCEPT !.at = r]

Batch(r)    == tick' = [tick EXCEPT !.at = r, !.batch = @ \cup {r}]
Abort(r)    == tick' = [tick EXCEPT !.at = r, !.pc = "rollback"]

ApplyUnbound(r) ==
  /\ Bound(row[r].desc) = 0
  /\ Turn(r, "failed", 0, row[r].shim)
  /\ Continue(r)
  /\ UNCHANGED <<site, text>>

\* Joining an installed site.
JoinRefused(r) ==
  LET d == row[r].desc
      s == site[Bound(d)]
  IN  /\ Bound(d) # 0 /\ s.state = "applied"
      /\ \/ /\ s.shape = "rewrite" \/ ~Chainable(d)
            /\ Turn(r, "collided", row[r].wait, row[r].shim)
         \/ /\ s.shape # "rewrite" /\ Chainable(d) /\ ~s.thunk
            /\ Turn(r, "collided", RetryTicks, row[r].shim)
         \/ /\ s.shape # "rewrite" /\ Chainable(d) /\ s.thunk
            /\ ~s.external /\ d.expected # s.expected
            /\ Turn(r, "refused", RetryTicks, row[r].shim)
      /\ Continue(r)
      /\ UNCHANGED <<site, text>>

\* Mutant: any chainable patch joins, whatever the site displaced.
MayJoinUnseen(r) ==
  LET d == row[r].desc
      s == site[Bound(d)]
  IN  Bound(d) # 0 /\ s.state = "applied" /\ s.shape # "rewrite" /\ Chainable(d)

MayJoin(r) ==
  LET d == row[r].desc
      s == site[Bound(d)]
  IN  /\ Bound(d) # 0 /\ s.state = "applied"
      /\ s.shape # "rewrite" /\ Chainable(d) /\ s.thunk
      /\ s.external \/ d.expected = s.expected

Join(r) ==
  /\ MayJoin(r)
  /\ Turn(r, "applied", row[r].wait, TRUE)
  /\ site' = [site EXCEPT ![Bound(row[r].desc)].links = @ \cup {r}]
  /\ Batch(r)
  /\ UNCHANGED text

JoinFails(r) ==
  /\ MayJoin(r)
  /\ LinkMayNotLand(r, site[Bound(row[r].desc)])
  /\ Turn(r, "failed", row[r].wait, FALSE)
  /\ Abort(r)
  /\ UNCHANGED <<site, text>>

\* Installing a site.
Installs(r) == Bound(row[r].desc) # 0 /\ BoundSite(row[r].desc).state # "applied"

Guard(r) == Guarded(BoundSite(row[r].desc), row[r].desc)

InstallRefused(r) ==
  /\ Installs(r)
  /\ ~GuardPasses(Guard(r))
  /\ Turn(r, "refused", RetryTicks, row[r].shim)
  /\ site' = [site EXCEPT ![Bound(row[r].desc)] = [Guard(r) EXCEPT !.state = "refused"]]
  /\ Continue(r)
  /\ UNCHANGED text

Install(r) ==
  LET i == Bound(row[r].desc)
      s == Prepared(Guard(r))
  IN  /\ Installs(r)
      /\ GuardPasses(Guard(r))
      /\ Turn(r, "applied", row[r].wait, row[r].shim \/ s.shape # "rewrite")
      /\ site' = [site EXCEPT ![i] = Installed(i, Linked(r, s))]
      /\ mem' = [mem EXCEPT ![s.at] = InstalledWord(i, s)]
      /\ entries' = EntriesWith(s)
      /\ Batch(r)

\* Mutant: the new link stays on the chain of a site that is not installed.
LinkedAnyway(r, s) == [Linked(r, s) EXCEPT !.state = "failed"]

NotInstalled(r, s) == [s EXCEPT !.state = "failed"]

\* A stub of the site or of the row does not land, or the backend refuses: the
\* text keeps its word, a new link leaves its chain again, and the batch goes.
InstallFails(r) ==
  LET i == Bound(row[r].desc)
      g == Guard(r)
      s == Prepared(g)
  IN  /\ Installs(r)
      /\ GuardPasses(g)
      /\ \/ /\ "commit" \in Failures /\ ~g.committed
            /\ Turn(r, "failed", row[r].wait, row[r].shim)
            /\ site' = [site EXCEPT ![i] = [g EXCEPT !.state = "failed", !.live = s.live]]
         \/ /\ LinkMayNotLand(r, g)
            /\ Turn(r, "failed", row[r].wait, FALSE)
            /\ site' = [site EXCEPT ![i] = NotInstalled(r, s)]
         \/ /\ "apply" \in Failures
            /\ Turn(r, "failed", row[r].wait, row[r].shim \/ s.shape # "rewrite")
            /\ site' = [site EXCEPT ![i] = NotInstalled(r, s)]
      /\ Abort(r)
      /\ UNCHANGED text

-----------------------------------------------------------------------------
(* Tick: its end.                                                             *)

\* removeLink, for the rows applied this tick, last one first.
TickRollback ==
  /\ tick.pc = "rollback"
  /\ tick.batch # {}
  /\ RemoveLink(Highest(tick.batch))
  /\ tick' = [tick EXCEPT !.batch = @ \ {Highest(@)}]
  /\ UNCHANGED <<cfg, ready, dirty, clock>>

TickEnd ==
  /\ \/ tick.pc = "apply" /\ Todo = {}
     \/ tick.pc = "rollback" /\ tick.batch = {}
  /\ tick' = NoTick
  /\ UNCHANGED <<row, site, cfg, ready, dirty, clock, text>>

ApplyOne(r) ==
  /\ tick.pc = "apply"
  /\ r \in Todo /\ \A k \in Todo : r <= k
  /\ \/ ApplyUnbound(r)
     \/ JoinRefused(r) \/ Join(r) \/ JoinFails(r)
     \/ InstallRefused(r) \/ Install(r) \/ InstallFails(r)

TickBegin ==
  \/ TickBlocked
  \/ \E dataDirty \in DataDirty : TickQuietIf(dataDirty) \/ TickStartIf(dataDirty)

TickCode == TickRemove \/ (\E r \in Rows : ApplyOne(r)) \/ TickRollback \/ TickEnd

TickStep == TickCode \/ TickCollide(Refused(Extents, MaxCollisions))

Host ==
  \/ \E d \in Descs : Declare(d)
  \/ \E r \in Rows : Undeclare(r) \/ \E enabled \in BOOLEAN : SetEnabled(r, enabled)
  \/ \E c \in Configs : ConfigureSame(c)
  \/ \E c \in Configs, gone \in SUBSET InstalledSites : ConfigureMoved(c, gone)
  \/ \E gone \in SUBSET InstalledSites : RemoveAll(gone)
  \/ NextProcess

\* A step of ours is over: the next one looks at the text anew.
LookAnew == seen' = mem'

Next ==
  \/ (Host \/ TickBegin \/ TickStep) /\ LookAnew
  \/ \E a \in Addrs, w \in Words : ForeignWrite(a, w)

Spec == Init /\ [][Next]_vars

-----------------------------------------------------------------------------
(* Fairness.  The host calls Tick every frame, and a Tick is a few bounded     *)
(* loops: frames never stop coming.  A Tick can begin whenever none is under   *)
(* way and can always take its next step, so this asks for no luck.            *)

FairSpec == Spec /\ []<><<TickBegin>>_vars

-----------------------------------------------------------------------------
(* Properties.                                                                *)

\* What the rows say and what the sites say agree after every step: an applied
\* row is a member of the installed, committed site of its address and shape;
\* an installed site has a member, and all it has is applied.  A host that
\* calls Configure twice with the same deltas can break it.
InstalledAsRecorded ==
  /\ \A r \in Applied :
       /\ row[r].used /\ row[r].site \in InstalledSites
       /\ LET s == site[row[r].site]
          IN  /\ s.addr = row[r].desc.addr /\ s.shape = row[r].desc.shape
              /\ s.shape # "rewrite" => r \in s.links
  /\ \A i \in SiteRows :
       /\ \A r \in site[i].links : row[r].state = "applied" /\ row[r].site = i
       /\ i \in InstalledSites =>
            site[i].committed /\ \E r \in Applied : row[r].site = i

\* The text is the loader's except where an installed site branches away or is
\* rewritten: every path that gives a site up (intent withdrawn, RemoveAll, a
\* rollback, Configure) gives its word back, in this process and the next.
TextIntact ==
  \A a \in Addrs :
    \/ mem[a] = Text[a]
    \/ \E i \in InstalledSites : site[i].at = a /\ mem[a] = InstalledWord(i, site[i])

\* Whatever failed on the way, a branch in the text leads to a slot that was built
\* for this very word and is still in use.
BranchesLandInStubs ==
  \A a \in Addrs, i \in SiteRows :
    mem[a] = Branch(i) => site[i].used /\ site[i].committed /\ site[i].at = a

\* Patches applied at one address can chain with each other (README.md:99,
\* "FLAG_EXCLUSIVE opts a patch out"), and one site serves the address.
SharersCompatible ==
  /\ \A r, k \in Applied :
       r # k /\ row[r].desc.addr = row[k].desc.addr => Compatible(row[r].desc, row[k].desc)
  /\ \A i, j \in InstalledSites : i # j => site[i].at # site[j].at

\* A chain always has an end to run into, and its members agree on the word the
\* site displaced (wupatch_registry.cpp:479 and :488).
ChainsHaveAnEnd ==
  \A i \in InstalledSites :
    Cardinality(site[i].links) > 1 =>
      /\ site[i].thunk
      /\ \A r, k \in site[i].links : row[r].desc.external \/ row[r].desc.expected = row[k].desc.expected

\* A row is collided because of another that cannot share its address, or for
\* want of a thunk; once a Tick has seen everything, never for a past conflict.
CollidedForAReason ==
  Idle /\ ~dirty /\ cfg # NoConfig =>
    \A r \in Rows :
      Waiting(r) /\ row[r].state = "collided" =>
        \/ \E k \in Contenders \ {r} :
             row[k].desc.addr = row[r].desc.addr /\ ~Compatible(row[k].desc, row[r].desc)
        \/ row[r].site # 0 /\ ~site[row[r].site].thunk

\* Stubs a core may be running are not rewritten within a process: a committed
\* site keeps its address, words and shape, and a row whose stubs were committed
\* keeps them, or is retired and not declared again.
StubsFrozen ==
  [][\/ NextProcess
     \/ /\ \A i \in SiteRows : site[i].committed =>
             /\ site'[i].committed
             /\ \A f \in {"addr", "at", "shape", "code", "live", "thunk"} : site'[i][f] = site[i][f]
        /\ \A r \in Rows :
             /\ row[r].shim => row'[r].retired \/ (row'[r].shim /\ row'[r].desc = row[r].desc)
             /\ row[r].retired => row'[r].retired]_vars

\* A Tick never takes down a patch that was applied and is still wanted, and one
\* that fails part way leaves exactly the patches it found.
TickAllOrNothing ==
  [][tick.pc \in {"apply", "rollback"} /\ tick'.pc = "idle" =>
       /\ tick.held \subseteq Applied'
       /\ tick.pc = "rollback" => Applied' = tick.held]_vars

\* A word another patcher wrote stays until that patcher takes it away: neither an
\* install nor a removal writes over it (direct backend, no exports) -- unless it
\* was written after the look of that very step and before its store, where the
\* code does lose it: wupatch_apply.cpp:119 looks and wupatch_backend_direct.cpp:55
\* writes, wupatch_backend_direct.cpp:69 looks and :77 writes.
ForeignKept ==
  [][\A a \in Addrs :
       mem[a] \in Foreign /\ mem'[a] # mem[a] =>
         NextProcess \/ ForeignWrite(a, mem'[a]) \/ mem[a] # seen[a]]_vars

\* Every patch that is withdrawn for good is taken out, unless its removal fails.
WithdrawnIsRemoved ==
  \A r \in Rows :
    <>[](cfg # NoConfig /\ cfg.data /\ cfg.text /\ row[r].used /\ ~row[r].wanted)
      => <>[](row[r].state # "applied")

\* A refusal is not for ever: a row that stays wanted, alone at its address, on a
\* text that holds its word again, is applied -- by the retry tick alone, with
\* no call of the host to set s_dirty.
Ripe(r) ==
  /\ cfg # NoConfig /\ cfg.data /\ cfg.text
  /\ row[r].used /\ row[r].wanted
  /\ \A k \in Contenders \ {r} : row[k].desc.addr # row[r].desc.addr
  /\ Bound(row[r].desc) # 0
  /\ LET s == BoundSite(row[r].desc)
     IN  s.state = "applied" \/ GuardPasses(Guarded(s, row[r].desc))

RetriedUntilApplied == \A r \in Rows : <>[]Ripe(r) => []<>(row[r].state = "applied")

\* wupatch_registry.h:10, of Configure: "Calling again with different deltas
\* removes anything applied."
ConfigureRemoves ==
  [][cfg # NoConfig /\ cfg'.delta # cfg.delta => mem' = Text]_vars

\* README.md:7-8 "refuses to write until the whole wanted set validates": a Tick
\* that installs something leaves no wanted row refused.
WholeSetValidates ==
  [][tick.batch # {} /\ tick'.pc = "idle" =>
       \A r \in Rows : row'[r].wanted => row'[r].state # "refused"]_vars
=============================================================================
