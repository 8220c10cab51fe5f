------------------------- MODULE RegistryTextProofs --------------------------
(* What is in the text while rows come and go: which backend holds what, where   *)
(* its branches go, who shares an address and why another may not, and that the  *)
(* title's and other patchers' words come back.                                  *)
EXTENDS RegistryProofs

-----------------------------------------------------------------------------
(* What FunctionPatcher keeps.                                                   *)

\* FunctionPatcher is asked only where the configuration lets it be.
BackendFits == ready.backend = "fp" => cfg \in Configs /\ cfg.backend # "direct"

\* The module keeps nothing of ours but what an installed site has a handle for.
Handles ==
  /\ \A i \in SiteRows : site[i].handle => i \in InstalledSites /\ ready.backend = "fp"
  /\ \A a \in entries : \E i \in SiteRows : site[i].handle /\ site[i].at = a

\* FunctionPatcher takes every patch out that it is asked to, or is never asked.
FpRemoves == "remove" \in Failures => \A c \in Configs : c.backend = "direct"

\* No step gives FunctionPatcher a site that the configuration keeps from it.
LEMMA BackendFitsNext == TypeInv /\ BackendFits /\ [Next]_vars => BackendFits'
<1> SUFFICES ASSUME TypeInv, BackendFits, [Next]_vars PROVE BackendFits'
  OBVIOUS
<1>1. CASE UNCHANGED <<cfg, ready>>
  BY <1>1 DEF BackendFits
<1>2. CASE ready' = NotReady
  BY <1>2 DEF BackendFits, NotReady
<1>3. ASSUME NEW dataDirty, TickStartIf(dataDirty) PROVE BackendFits'
  <2>1. PICK fpUp \in FpAnswers, found \in ModuleAnswers :
          ready' = IF cfg.text THEN EnsureReady(cfg, fpUp, found) ELSE ready
    BY <1>3 DEF TickStartIf
  <2>2. cfg' = cfg /\ cfg \in Configs
    BY <1>3 DEF TickStartIf, TypeInv, TypeOK
  <2>3. EnsureReady(cfg, fpUp, found).backend =
          IF ready.checked THEN ready.backend ELSE SelectBackend(cfg, fpUp)
    BY DEF EnsureReady
  <2>4. SelectBackend(cfg, fpUp) = "fp" => cfg.backend # "direct"
    BY DEF SelectBackend
  <2>5. ready'.backend = ready.backend \/ ready'.backend = SelectBackend(cfg, fpUp)
    BY <2>1, <2>3
  <2> QED BY <2>2, <2>4, <2>5 DEF BackendFits
<1>4. CASE Host
  <2>1. Host => UNCHANGED <<cfg, ready>> \/ ready' = NotReady
    BY DEF Host, Declare, Undeclare, SetEnabled, ConfigureSame, ConfigureMoved, RemoveAll,
           NextProcess, ForgetProcess
  <2> QED BY <1>1, <1>2, <1>4, <2>1
<1>5. CASE TickBegin
  <2>1. TickBegin => UNCHANGED <<cfg, ready>> \/ \E dataDirty \in DataDirty : TickStartIf(dataDirty)
    BY DEF TickBegin, TickBlocked, TickQuietIf
  <2> QED BY <1>1, <1>3, <1>5, <2>1
<1>6. CASE TickStep
  <2>1. \A r \in Rows : ApplyOne(r) => UNCHANGED <<cfg, ready>>
    BY TurnOf
  <2>2. UNCHANGED <<cfg, ready>>
    BY <1>6, <2>1 DEF TickStep, TickCode, TickRemove, TickRollback, TickEnd, TickCollide
  <2> QED BY <1>1, <2>2
<1>7. ASSUME NEW a \in Addrs, NEW w \in Words, ForeignWrite(a, w) PROVE BackendFits'
  BY <1>1, <1>7 DEF ForeignWrite
<1>8. CASE UNCHANGED vars
  BY <1>1, <1>8 DEF vars
<1> QED BY <1>4, <1>5, <1>6, <1>7, <1>8 DEF Next

\* Where FunctionPatcher has the text, a site is given back and never kept.
LEMMA FpGivesBack ==
  ASSUME TypeInv, BackendFits, FpRemoves, ready.backend = "fp"
  PROVE  \A s : ~MayFail(s)
<1>1. \A c \in Configs : c.backend = "direct" => cfg # c
  BY DEF BackendFits
<1>2. "remove" \notin Failures
  BY <1>1 DEF FpRemoves, BackendFits
<1> QED BY <1>2 DEF MayFail

\* What is kept of the entries once every site with a handle is given back.
LEMMA AllGivenBack ==
  ASSUME TypeInv, Recorded, BackendFits, Handles, FpRemoves,
         NEW gone \in SUBSET InstalledSites, CanRemove(gone), TextWithout(gone)
  PROVE  entries' = {} /\ \A i \in SiteRows : site[i].handle => i \in gone /\ ready.backend = "fp"
<1>1. ASSUME NEW i \in SiteRows, site[i].handle PROVE i \in gone /\ ready.backend = "fp"
  <2>1. i \in InstalledSites /\ ready.backend = "fp"
    BY <1>1 DEF Handles
  <2>2. ~MayFail(site[i])
    BY <2>1, FpGivesBack
  <2> QED BY <2>1, <2>2 DEF CanRemove
<1>2. entries' = entries \ {site[i].at : i \in {j \in {k \in gone : Restored(k)} : site[j].handle}}
  BY DEF TextWithout
<1>3. ASSUME NEW a \in entries PROVE a \notin entries'
  <2>1. PICK i \in SiteRows : site[i].handle /\ site[i].at = a
    BY DEF Handles
  <2>2. i \in gone /\ Restored(i)
    BY <1>1, <2>1 DEF Restored
  <2> QED BY <1>2, <2>1, <2>2
<1> QED BY <1>1, <1>2, <1>3

\* The module's entries and the handles of installed sites come and go together.
LEMMA HandlesNext ==
  ASSUME HostConfigures # "again", FpRemoves
  PROVE  TypeInv /\ Recorded /\ BackendFits /\ Handles /\ [Next]_vars => Handles'
<1> SUFFICES ASSUME TypeInv, Recorded, BackendFits, Handles, [Next]_vars PROVE Handles'
  OBVIOUS
<1>1. CASE Quiet /\ UNCHANGED entries
  <2>1. InstalledSites # {} => ready' = ready
    BY <1>1 DEF Quiet, Recorded
  <2>2. InstalledSites' = InstalledSites
    BY <1>1 DEF Quiet, InstalledSites
  <2> QED BY <1>1, <2>1, <2>2 DEF Handles, Quiet
<1>2. CASE Forgotten
  <2>1. \A i \in SiteRows : ~site'[i].handle
    BY <1>2 DEF Forgotten, NewSite
  <2>2. entries' = {}
    <3>1. CASE NextProcess
      <4>1. InstalledSites = {} /\ entries' = entries
        BY <3>1 DEF NextProcess
      <4> QED BY <4>1 DEF Handles
    <3>2. ASSUME NEW c \in Configs, NEW gone \in SUBSET InstalledSites, ConfigureMoved(c, gone)
          PROVE  entries' = {}
      BY <3>2, AllGivenBack DEF ConfigureMoved
    <3> QED BY <1>2, <3>1, <3>2 DEF Forgotten
  <2> QED BY <2>1, <2>2 DEF Handles
<1>3. ASSUME NEW gone \in SUBSET InstalledSites, RemoveAll(gone) PROVE Handles'
  <2>1. entries' = {} /\ \A i \in SiteRows : site[i].handle => i \in gone /\ ready.backend = "fp"
    BY <1>3, AllGivenBack DEF RemoveAll
  <2>2. \A i \in SiteRows : ~site'[i].handle
    BY <1>3, <2>1, RemoveAllEffect
  <2> QED BY <2>1, <2>2 DEF Handles
<1>4. ASSUME NEW r \in Rows, TakesOut(r) PROVE Handles'
  <2>0. PICK i : i = row[r].site
    OBVIOUS
  <2>1. /\ i \in InstalledSites /\ site' = [site EXCEPT ![i] = site'[i]]
        /\ SameSlot(site[i], site'[i])
        /\ \/ site'[i].links # {} /\ site'[i].state = "applied" /\ site'[i].handle = site[i].handle
              /\ UNCHANGED entries
           \/ site'[i].state # "applied" /\ SiteRemoved(i, site[i], site'[i])
        /\ ready' = ready
    BY <1>4, <2>0, RemoveEffect DEF TakesOut
  <2>2. /\ \A j \in SiteRows : j # i => site'[j] = site[j]
        /\ \A j \in InstalledSites : j # i => j \in InstalledSites'
    BY <2>1 DEF TypeInv, TypeOK, InstalledSites
  <2>3. CASE site'[i].links # {} /\ site'[i].state = "applied" /\ site'[i].handle = site[i].handle
             /\ UNCHANGED entries
    <3>1. i \in InstalledSites'
      BY <2>1, <2>3 DEF InstalledSites, SameSlot
    <3> QED BY <2>1, <2>2, <2>3, <3>1 DEF Handles, SameSlot
  <2>4. CASE site'[i].state # "applied" /\ SiteRemoved(i, site[i], site'[i])
    <3>1. ~site'[i].handle
      <4>1. site[i].handle => ready.backend = "fp" /\ ~MayFail(site[i])
        BY <2>1, FpGivesBack DEF Handles, InstalledSites
      <4> QED BY <2>4, <4>1 DEF SiteRemoved
    <3>2. \A a \in entries' : a \in entries /\ (site[i].handle => site[i].at # a)
      <4>1. CASE UNCHANGED entries /\ MayFail(site[i]) /\ site'[i].handle = site[i].handle
        BY <3>1, <4>1
      <4>2. CASE TextWithout({i})
        <5>1. entries' = entries \ {site[k].at : k \in {j \in {k \in {i} : Restored(k)} : site[j].handle}}
          BY <4>2 DEF TextWithout
        <5>2. site[i].handle => i \in {j \in {k \in {i} : Restored(k)} : site[j].handle}
          BY DEF Restored
        <5> QED BY <5>1, <5>2
      <4> QED BY <2>4, <4>1, <4>2 DEF SiteRemoved
    <3>3. ASSUME NEW j \in SiteRows, site'[j].handle PROVE j \in InstalledSites' /\ ready'.backend = "fp"
      BY <2>1, <2>2, <3>1, <3>3 DEF Handles
    <3>4. ASSUME NEW a \in entries' PROVE \E j \in SiteRows : site'[j].handle /\ site'[j].at = a
      <4>1. PICK j \in SiteRows : site[j].handle /\ site[j].at = a
        BY <3>2 DEF Handles
      <4>2. j # i
        BY <3>2, <4>1
      <4> QED BY <2>2, <4>1, <4>2
    <3> QED BY <3>3, <3>4 DEF Handles
  <2> QED BY <2>1, <2>3, <2>4
<1>5. ASSUME NEW r \in Rows, ApplyOne(r) PROVE Handles'
  <2>0. PICK i : i = Bound(row[r].desc)
    OBVIOUS
  <2>1. /\ UNCHANGED <<cfg, ready>>
        /\ \/ UNCHANGED <<site, mem, entries>> /\ Applied' = Applied
           \/ JoinedNow(r, i) /\ UNCHANGED <<mem, entries>>
           \/ InstallsAt(r, i)
    BY <1>5, <2>0, ApplyEffect
  <2>2. CASE UNCHANGED <<site, entries>>
    <3>1. InstalledSites' = InstalledSites
      BY <2>2 DEF InstalledSites
    <3> QED BY <2>1, <2>2, <3>1 DEF Handles
  <2>3. CASE JoinedNow(r, i) /\ UNCHANGED <<mem, entries>>
    <3>1. /\ i \in SiteRows /\ site'[i] = [site[i] EXCEPT !.links = @ \cup {r}]
          /\ site' = [site EXCEPT ![i] = site'[i]]
      BY <2>3 DEF JoinedNow
    <3>2. \A j \in SiteRows : /\ site'[j].handle = site[j].handle /\ site'[j].at = site[j].at
                              /\ site'[j].used = site[j].used /\ site'[j].state = site[j].state
      <4>1. \A j \in SiteRows : j # i => site'[j] = site[j]
        BY <3>1 DEF TypeInv, TypeOK
      <4>2. /\ site'[i].handle = site[i].handle /\ site'[i].at = site[i].at
            /\ site'[i].used = site[i].used /\ site'[i].state = site[i].state
        BY <3>1 DEF TypeInv, SiteOK, SiteRecords
      <4> QED BY <4>1, <4>2
    <3>3. InstalledSites' = InstalledSites
      BY <3>2 DEF InstalledSites
    <3> QED BY <2>1, <2>3, <3>2, <3>3 DEF Handles
  <2>4. CASE InstallsAt(r, i)
    <3>1. /\ i \in SiteRows /\ site' = [site EXCEPT ![i] = site'[i]] /\ site[i].state # "applied"
          /\ site'[i].used
          /\ NotInstalledNow(r, site[i], site'[i]) \/ InstalledNow(r, i, site'[i])
      BY <2>4 DEF InstallsAt, Serving
    <3>2. /\ \A j \in SiteRows : j # i => site'[j] = site[j]
          /\ \A j \in InstalledSites : j # i /\ j \in InstalledSites'
      BY <3>1 DEF TypeInv, TypeOK, InstalledSites
    <3>3. ~site[i].handle
      BY <3>1, <3>2 DEF Handles
    <3>4. /\ site'[i].handle => i \in InstalledSites' /\ ready.backend = "fp"
          /\ \A a \in entries' : a \in entries \/ (site'[i].handle /\ site'[i].at = a)
      <4>1. CASE NotInstalledNow(r, site[i], site'[i])
        BY <3>3, <4>1 DEF NotInstalledNow
      <4>2. CASE InstalledNow(r, i, site'[i])
        <5>1. i \in InstalledSites'
          BY <3>1, <4>2 DEF InstalledNow, InstalledSites
        <5> QED BY <3>3, <4>2, <5>1 DEF InstalledNow
      <4> QED BY <3>1, <4>1, <4>2
    <3>5. ASSUME NEW j \in SiteRows, site'[j].handle PROVE j \in InstalledSites' /\ ready'.backend = "fp"
      BY <2>1, <3>2, <3>4, <3>5 DEF Handles
    <3>6. ASSUME NEW a \in entries' PROVE \E j \in SiteRows : site'[j].handle /\ site'[j].at = a
      <4>1. CASE a \in entries
        <5>1. PICK j \in SiteRows : site[j].handle /\ site[j].at = a
          BY <4>1 DEF Handles
        <5> QED BY <3>2, <3>3, <5>1
      <4>2. CASE site'[i].handle /\ site'[i].at = a
        BY <3>1, <4>2
      <4> QED BY <3>4, <4>1, <4>2
    <3> QED BY <3>5, <3>6 DEF Handles
  <2> QED BY <2>1, <2>2, <2>3, <2>4
<1>6. (\E a \in Addrs, w \in Words : ForeignWrite(a, w)) => UNCHANGED entries
  BY DEF ForeignWrite
<1> QED BY <1>1, <1>2, <1>3, <1>4, <1>5, <1>6, StepEffect

-----------------------------------------------------------------------------
(* What the text branches to.                                                    *)

\* An export is nowhere a patch of the title's text may be.
ExportsApart ==
  \A d, e \in Descs, c \in Configs : d.external /\ ~e.external => d.addr # e.addr + c.delta

\* What a site gives back is a word of the title, or of another patcher's.
WordsKept ==
  \A i \in SiteRows :
    /\ site[i].live \in Words \cup {NoWord} /\ site[i].saved \in Words \cup {NoWord}
    /\ site[i].found \in Words \cup {NoWord}

\* What was written since the last look is a word, and a branch that a look finds lands
\* in a slot too.
LooksLand ==
  /\ \A a \in Addrs : mem[a] = seen[a] \/ mem[a] \in Words
  /\ \A a \in Addrs, i \in SiteRows :
       seen[a] = Branch(i) => site[i].used /\ site[i].committed /\ site[i].at = a

\* After a step of the registry the next one looks anew; only other patchers' writes
\* come between.
LEMMA LooksAnew ==
  ASSUME [Next]_vars
  PROVE  LookAnew \/ (\E a \in Addrs, w \in Words : ForeignWrite(a, w)) \/ UNCHANGED vars
BY DEF Next

\* Two slots in use for the exports of one address are one slot.
LEMMA OneExportSlot ==
  ASSUME Slots, NEW i \in SiteRows, NEW j \in SiteRows,
         site[i].used, site[j].used, site[i].external, site[j].external,
         site[i].addr = site[j].addr
  PROVE  i = j
<1>1. SiteRows \subseteq Nat
  BY RowsAssumption
<1>2. ASSUME NEW k \in SiteRows, NEW m \in SiteRows, k < m, site[k].used, site[m].used,
             site[k].external, site[m].external, site[k].addr = site[m].addr
      PROVE  FALSE
  <2>1. site[k].external = site[m].external => site[k].shape # site[m].shape \/ site[k].code # site[m].code
    BY <1>2 DEF Slots, Apart
  <2>2. /\ site[k].shape = "jump" /\ site[m].shape = "jump"
        /\ site[k].code = NoWord /\ site[m].code = NoWord
    BY <1>2 DEF Slots
  <2> QED BY <1>2, <2>1, <2>2
<1> QED BY <1>1, <1>2

\* A slot that a branch in the text leads to is the one whose address that is: a guard
\* that looks there finds either no branch, or the branch of its own slot.
LEMMA GuardedBranch ==
  ASSUME TypeInv, Recorded, Slots, Fixed, LooksLand, ExportsApart,
         NEW r \in Rows, ApplyOne(r), NEW i, i = Bound(row[r].desc), InstallsAt(r, i),
         row[r].desc.external, site'[i].at \in Addrs,
         NEW j \in SiteRows, seen[site'[i].at] = Branch(j)
  PROVE  i = j /\ site[i].committed
<1> DEFINE d == row[r].desc
           t == site'[i]
<1>1. /\ i \in SiteRows /\ t.used /\ t.addr = d.addr /\ t.external = d.external
      /\ t.at = RuntimeAddr(t)
  BY DEF InstallsAt, Serving
<1>2. d \in Descs /\ cfg \in Configs
  BY TurnOf DEF TypeInv, TypeOK, RowOK
<1>3. site[j].used /\ site[j].committed /\ site[j].at = t.at
  BY DEF LooksLand
<1>4. site[j].at = RuntimeAddr(site[j])
  BY <1>3 DEF Fixed
<1>5. t.at = d.addr
  BY <1>1 DEF RuntimeAddr
<1>6. site[j].external
  <2> SUFFICES ASSUME ~site[j].external PROVE FALSE
    OBVIOUS
  <2>1. site[j].addr + cfg.delta = d.addr
    BY <1>3, <1>4, <1>5 DEF RuntimeAddr
  <2>2. PICK e \in Descs : site[j].addr = e.addr /\ site[j].external = e.external
    BY <1>3 DEF Slots
  <2> QED BY <1>2, <2>1, <2>2 DEF ExportsApart
<1>7. site[j].addr = d.addr
  BY <1>3, <1>4, <1>5, <1>6 DEF RuntimeAddr
<1>8. Serves(site[j], d)
  <2>1. site[j].shape = "jump" /\ site[j].code = NoWord
    BY <1>6 DEF Slots
  <2>2. d.shape = "jump"
    BY <1>2, DescsAssumption
  <2>3. site[j].external = d.external
    BY <1>2, <1>6, DescsAssumption DEF TypeInv, SiteOK, SiteRecords
  <2> QED BY <1>3, <1>7, <2>1, <2>2, <2>3 DEF Serves, Replacement
<1>9. Serves(site[i], d)
  BY <1>1, <1>8, BoundLowest
<1>10. i = j
  <2>1. site[i].used /\ site[i].external /\ site[i].addr = d.addr
    BY <1>9 DEF Serves
  <2> QED BY <1>1, <1>3, <1>6, <1>7, <2>1, OneExportSlot
<1> QED BY <1>3, <1>10

\* What a guard lets through, and what a slot in use takes for its word, is a word.
LEMMA GuardedWord ==
  ASSUME TypeInv, Recorded, Slots, Fixed, WordsKept, LooksLand, ExportsApart,
         NEW r \in Rows, ApplyOne(r), NEW i, i = Bound(row[r].desc), InstallsAt(r, i)
  PROVE  site'[i].live \in Words \cup {NoWord}
<1> DEFINE d == row[r].desc
           t == site'[i]
<1>1. /\ i \in SiteRows /\ Looked(site[i], t) /\ Keeps(site[i], t)
      /\ t.expected = IF ~d.external THEN d.expected
                      ELSE IF t.at \in Addrs THEN seen[t.at] ELSE NoWord
  BY DEF InstallsAt, Serving
<1>2. CASE t.live = site[i].live
  BY <1>1, <1>2 DEF WordsKept
<1>3. CASE t.at \in Addrs /\ t.live = seen[t.at] /\ Matches(seen[t.at], t.expected)
  <2>1. d \in Descs
    BY TurnOf DEF TypeInv, RowOK
  <2>2. CASE ~d.external
    <3>1. t.expected = d.expected /\ d.expected \in Words \cup {NoWord}
      BY <1>1, <2>1, <2>2, DescsAssumption
    <3>2. \A w \in Words : Forms[w] \subseteq Words
      BY WordsAssumption
    <3> QED BY <1>3, <3>1, <3>2 DEF Matches
  <2>3. CASE d.external
    <3>1. seen[t.at] \in Cells
      BY <1>3 DEF TypeInv, TypeOK
    <3>2. CASE seen[t.at] \in Words
      BY <1>3, <3>2
    <3>3. ASSUME NEW j \in SiteRows, seen[t.at] = Branch(j) PROVE FALSE
      <4>1. site[i].committed
        BY <1>3, <2>3, <3>3, GuardedBranch
      <4>2. t.live = site[i].live
        BY <1>1, <4>1 DEF Keeps
      <4>3. Branch(j) \in Words \cup {NoWord}
        BY <1>1, <1>3, <3>3, <4>2 DEF WordsKept
      <4> QED BY <4>3, WordsAssumption DEF Cells
    <3> QED BY <3>1, <3>2, <3>3 DEF Cells
  <2> QED BY <2>2, <2>3
<1> QED BY <1>1, <1>2, <1>3 DEF Looked

\* What a slot keeps to give back is a word the text had, never one of our branches.
LEMMA WordsKeptNext ==
  ASSUME HostConfigures # "again", ExportsApart
  PROVE  /\ TypeInv /\ Recorded /\ Slots /\ Fixed /\ WordsKept /\ LooksLand
         /\ [Next]_vars
         => WordsKept'
<1> SUFFICES ASSUME TypeInv, Recorded, Slots, Fixed, WordsKept, LooksLand, [Next]_vars
             PROVE  WordsKept'
  OBVIOUS
<1>1. CASE Forgotten
  BY <1>1 DEF Forgotten, WordsKept, NewSite
<1>2. CASE \A i \in SiteRows : SameSlot(site[i], site'[i])
  BY <1>2 DEF WordsKept, SameSlot
<1>3. ASSUME NEW r \in Rows, ApplyOne(r), InstallsAt(r, Bound(row[r].desc)) PROVE WordsKept'
  <2>0. PICK i : i = Bound(row[r].desc)
    OBVIOUS
  <2>1. /\ i \in SiteRows /\ site' = [site EXCEPT ![i] = site'[i]]
        /\ NotInstalledNow(r, site[i], site'[i]) \/ InstalledNow(r, i, site'[i])
    BY <1>3, <2>0 DEF InstallsAt
  <2>2. \A j \in SiteRows : j # i => site'[j] = site[j]
    BY <2>1 DEF TypeInv, TypeOK
  <2>3. site'[i].live \in Words \cup {NoWord}
    BY <1>3, <2>0, GuardedWord
  <2>4. site'[i].saved = site[i].saved \/ site'[i].saved = site'[i].live
    BY <2>1 DEF NotInstalledNow, InstalledNow
  <2>5. site'[i].found = site[i].found \/ site'[i].found \in Words
        \/ site'[i].found = site'[i].live
    <3>1. CASE NotInstalledNow(r, site[i], site'[i])
      BY <3>1 DEF NotInstalledNow
    <3>2. CASE InstalledNow(r, i, site'[i])
      <4>1. /\ site'[i].at \in Addrs /\ site'[i].live = seen[site'[i].at]
            /\ site'[i].found = site[i].found \/ site'[i].found = mem[site'[i].at]
        BY <3>2 DEF InstalledNow
      <4> QED BY <4>1 DEF LooksLand
    <3> QED BY <2>1, <3>1, <3>2
  <2> QED BY <2>1, <2>2, <2>3, <2>4, <2>5 DEF WordsKept
<1> QED BY <1>1, <1>2, <1>3, SlotStep

\* What is given back is no branch, and nothing else in the text changes.
LEMMA GivesBackWords ==
  ASSUME TypeInv, WordsKept, NEW gone, gone \subseteq SiteRows, TextWithout(gone),
         NEW a \in Addrs, NEW j \in SiteRows, mem'[a] = Branch(j)
  PROVE  mem[a] = Branch(j)
<1> DEFINE undone == {i \in gone : Restored(i)}
           k == CHOOSE i \in undone : site[i].at = a
<1>1. mem'[a] = IF \E i \in undone : site[i].at = a THEN Original(site[k]) ELSE mem[a]
  BY DEF TextWithout
<1>2. ASSUME \E i \in undone : site[i].at = a PROVE FALSE
  <2>1. k \in SiteRows
    BY <1>2
  <2> HIDE DEF k, undone
  <2>2. Original(site[k]) \in Words \cup {NoWord}
    BY <2>1 DEF Original, WordsKept
  <2>3. Branch(j) \notin Words \cup {NoWord}
    BY WordsAssumption DEF Cells
  <2> QED BY <1>1, <1>2, <2>2, <2>3
<1> QED BY <1>1, <1>2

\* No step leaves a branch in the text whose slot is not committed.
LEMMA BranchesNext ==
  ASSUME HostConfigures = "once", FpRemoves, ExportsApart
  PROVE  /\ TypeInv /\ Recorded /\ Slots /\ Fixed /\ BackendFits /\ Handles /\ WordsKept
         /\ BranchesLandInStubs /\ [Next]_vars
         => BranchesLandInStubs'
<1> SUFFICES ASSUME TypeInv, Recorded, Slots, Fixed, BackendFits, Handles, WordsKept,
                    BranchesLandInStubs, [Next]_vars,
                    NEW a \in Addrs, NEW j \in SiteRows, mem'[a] = Branch(j)
             PROVE  site'[j].used /\ site'[j].committed /\ site'[j].at = a
  BY DEF BranchesLandInStubs
<1>1. Branch(j) \notin Words
  BY WordsAssumption
<1>2. CASE Forgotten
  <2>1. NextProcess
    BY <1>2 DEF Forgotten, ConfigureMoved
  <2>2. entries = {}
    BY <2>1 DEF NextProcess, Handles
  <2>3. mem'[a] \in Words
    BY <2>1, <2>2, TextAssumption DEF NextProcess
  <2> QED BY <1>1, <2>3
<1>3. CASE ~Forgotten /\ mem[a] = Branch(j)
  <2>1. site[j].committed /\ site[j].at = a
    BY <1>3 DEF BranchesLandInStubs
  <2>2. Frozen(site[j], site'[j])
    BY <1>3, <2>1, SlotsFrozen
  <2>3. site'[j].used
    <3>1. Recorded'
      BY RecordedNext
    <3>2. SiteRecorded(j)'
      BY <3>1 DEF Recorded
    <3> QED BY <2>2, <3>2 DEF SiteRecorded, NewSite, Frozen
  <2> QED BY <2>1, <2>2, <2>3 DEF Frozen
<1>4. CASE ~Forgotten /\ mem[a] # Branch(j)
  <2>1. ~UNCHANGED mem
    BY <1>4
  <2>2. ASSUME NEW c \in Addrs, NEW w \in Words, ForeignWrite(c, w) PROVE FALSE
    BY <1>1, <1>4, <2>2 DEF ForeignWrite, TypeInv, TypeOK
  <2>3. ASSUME NEW gone \in SUBSET InstalledSites, RemoveAll(gone) PROVE FALSE
    <3>1. TextWithout(gone) /\ gone \subseteq SiteRows
      BY <2>3 DEF RemoveAll, InstalledSites
    <3> QED BY <1>4, <3>1, GivesBackWords
  <2>4. ASSUME NEW r \in Rows, TakesOut(r) PROVE FALSE
    <3>0. PICK i : i = row[r].site
      OBVIOUS
    <3>1. i \in SiteRows /\ (UNCHANGED mem \/ TextWithout({i}))
      BY <2>4, <3>0, RemoveEffect DEF TakesOut, InstalledSites, SiteRemoved
    <3>2. {i} \subseteq SiteRows
      BY <3>1
    <3> QED BY <1>4, <2>1, <3>1, <3>2, GivesBackWords
  <2>5. PICK r \in Rows : ApplyOne(r)
    BY <1>4, <2>1, <2>2, <2>3, <2>4, StepEffect
  <2>6. PICK i : i = Bound(row[r].desc)
    OBVIOUS
  <2>7. /\ InstallsAt(r, i) /\ i \in SiteRows /\ site'[i].used
        /\ InstalledNow(r, i, site'[i])
    BY <2>1, <2>5, <2>6, ApplyEffect DEF InstallsAt, NotInstalledNow, Serving
  <2>8. mem' = [mem EXCEPT ![site'[i].at] = InstalledWord(i, site'[i])] /\ site'[i].committed
    BY <2>7 DEF InstalledNow
  <2>9. a = site'[i].at /\ InstalledWord(i, site'[i]) = Branch(j)
    BY <1>4, <2>8 DEF TypeInv, TypeOK
  <2>10. i = j
    <3>1. InstalledWord(i, site'[i]) = Branch(i) \/ InstalledWord(i, site'[i]) \in Words
      <4>1. row[r].used /\ row[r].desc \in Descs
        BY <2>5, TurnOf DEF TypeInv, RowOK
      <4>2. site'[i].shape = "rewrite" => site'[i].code \in Words
        BY <2>6, <2>7, <4>1, DescsAssumption DEF InstallsAt, Serving, Replacement
      <4> QED BY <4>2 DEF InstalledWord
    <3> QED BY <1>1, <2>9, <3>1 DEF Branch
  <2> QED BY <2>7, <2>8, <2>9, <2>10
<1> QED BY <1>2, <1>3, <1>4

\* What the next look may find besides is what another patcher has just written.
LEMMA LooksLandNext ==
  ASSUME HostConfigures = "once", FpRemoves, ExportsApart
  PROVE  TypeInv /\ LooksLand /\ BranchesLandInStubs' /\ [Next]_vars => LooksLand'
<1> SUFFICES ASSUME TypeInv, LooksLand, BranchesLandInStubs', [Next]_vars PROVE LooksLand'
  OBVIOUS
<1>1. CASE LookAnew
  BY <1>1 DEF LookAnew, LooksLand, BranchesLandInStubs
<1>2. ASSUME NEW a \in Addrs, NEW w \in Words, ForeignWrite(a, w) PROVE LooksLand'
  <2>1. /\ mem' = [mem EXCEPT ![a] = w] /\ seen' \in {seen, [seen EXCEPT ![a] = w]}
        /\ UNCHANGED site
    BY <1>2 DEF ForeignWrite
  <2>2. mem \in [Addrs -> Cells] /\ seen \in [Addrs -> Cells]
    BY DEF TypeInv, TypeOK
  <2>3. /\ \A c \in Addrs : mem'[c] = IF c = a THEN w ELSE mem[c]
        /\ \A c \in Addrs : seen'[c] = seen[c] \/ (c = a /\ seen'[c] = w)
        /\ \A c \in Addrs : c # a => seen'[c] = seen[c]
    BY <2>1, <2>2
  <2>4. \A i \in SiteRows : Branch(i) \notin Words
    BY WordsAssumption
  <2>5. \A c \in Addrs : mem'[c] = seen'[c] \/ mem'[c] \in Words
    BY <2>3 DEF LooksLand
  <2>6. \A c \in Addrs, i \in SiteRows :
          seen'[c] = Branch(i) => site'[i].used /\ site'[i].committed /\ site'[i].at = c
    BY <2>1, <2>3, <2>4 DEF LooksLand
  <2> QED BY <2>5, <2>6 DEF LooksLand
<1>3. CASE UNCHANGED vars
  BY <1>3 DEF vars, text, LooksLand
<1> QED BY <1>1, <1>2, <1>3, LooksAnew

\* Every branch in the text leads to a slot that was built for that very word and is
\* still in use, whatever other patchers write and whichever removals fail, as long as
\* FunctionPatcher does not carry a patch it could not take out into the next process.
THEOREM BranchesLandHolds ==
  ASSUME HostConfigures = "once", FpRemoves, ExportsApart
  PROVE  Spec => []BranchesLandInStubs
<1> DEFINE Inv == /\ Slots /\ BackendFits /\ Handles /\ WordsKept /\ LooksLand
                  /\ BranchesLandInStubs
<1>1. Init => Inv
  <2> SUFFICES ASSUME Init PROVE Inv
    OBVIOUS
  <2>1. \A i \in SiteRows : /\ ~site[i].used /\ site[i].shape = "jump" /\ ~site[i].external
                            /\ site[i].code = NoWord /\ ~site[i].handle
                            /\ site[i].live = NoWord /\ site[i].saved = NoWord
                            /\ site[i].found = NoWord
    BY DEF Init, NewSite
  <2>2. mem = seen /\ \A a \in Addrs, j \in SiteRows : mem[a] # Branch(j)
    BY TextAssumption, WordsAssumption DEF Init
  <2>3. ready.backend = "none" /\ entries = {}
    BY DEF Init, NotReady
  <2> QED BY <2>1, <2>2, <2>3
       DEF Slots, Apart, BackendFits, Handles, WordsKept, LooksLand, BranchesLandInStubs
<1>2. TypeInv /\ Recorded /\ Fixed /\ Inv /\ [Next]_vars => Inv'
  BY SlotsNext, BackendFitsNext, HandlesNext, WordsKeptNext, BranchesNext, LooksLandNext
<1>3. Spec => [](TypeInv /\ Recorded /\ Fixed)
  BY FixedIsInvariant
<1>4. Inv => BranchesLandInStubs
  OBVIOUS
<1> HIDE DEF Inv
<1> QED BY <1>1, <1>2, <1>3, <1>4, PTL DEF Spec

-----------------------------------------------------------------------------
(* Who shares an address.                                                        *)

\* The rows a Tick may apply, or has: those that are applied or come before their turn
\* or after it with no collision marked.
InTurn == {r \in Rows : row[r].state = "applied" \/ (Waiting(r) /\ row[r].state # "collided")}

PairsCompatible(S) ==
  \A r, k \in S : r # k /\ row[r].desc.addr = row[k].desc.addr
                    => Compatible(row[r].desc, row[k].desc)

\* Until the Tick is over, whatever it leaves to apply can share.
Arbitrated ==
  /\ PairsCompatible(Applied)
  /\ tick.pc \in {"apply", "rollback"} => PairsCompatible(InTurn)

\* Whom findCollisions does not refuse can share, in a table that is large enough.
LEMMA NotRefusedShare ==
  ASSUME TypeInv, PairsCompatible(Applied), Fits(Extents, MaxCollisions)
  PROVE  PairsCompatible(Contenders \ Refused(Extents, MaxCollisions))
<1> SUFFICES ASSUME NEW r \in Contenders, NEW k \in Contenders, r # k,
                    r \notin Refused(Extents, MaxCollisions),
                    k \notin Refused(Extents, MaxCollisions),
                    row[r].desc.addr = row[k].desc.addr
             PROVE  Compatible(row[r].desc, row[k].desc)
  BY DEF PairsCompatible
<1> DEFINE there == Group(r) \cap Applied
           rep   == Lowest(there)
<1>1. /\ Group(k) = Group(r) /\ r \in Group(r) /\ k \in Group(r)
      /\ Group(r) \subseteq Rows /\ Group(r) \subseteq Contenders
  BY DEF Group, Contenders
<1>2. \A x \in Group(r) : Group(x) = Group(r)
  BY DEF Group
<1>3. \A x, y \in DOMAIN Extents :
        ~(row[x].state = "applied") /\ x # y /\ row[x].desc.addr = row[y].desc.addr
        => x \in Refused(Extents, MaxCollisions)
  <2>1. ExtentsOK(Extents)
    BY ExtentsAreOK
  <2>2. Refused(Extents, MaxCollisions) =
          {i \in DOMAIN Extents :
             ~Extents[i].applied /\ \E j \in DOMAIN Extents \ {i} : Clash(Extents[i], Extents[j])}
    BY <2>1, RefusesExactly, BoundsAssumption
  <2>3. ASSUME NEW x \in DOMAIN Extents, NEW y \in DOMAIN Extents, row[x].desc.addr = row[y].desc.addr
        PROVE  Clash(Extents[x], Extents[y])
    <3>1. row[x].desc.addr \in Int
      BY ExtentsAreOK, <2>1 DEF ExtentsOK
    <3>2. /\ Extents[x].segment = 0 /\ Extents[x].start = row[x].desc.addr
          /\ Extents[x].end = row[x].desc.addr + 1
          /\ Extents[y].segment = 0 /\ Extents[y].start = row[y].desc.addr
          /\ Extents[y].end = row[y].desc.addr + 1
      BY ExtentsAreOK
    <3> HIDE DEF Extents
    <3> QED BY <2>3, <3>1, <3>2 DEF Clash
  <2>4. \A x \in DOMAIN Extents : Extents[x].applied = (row[x].state = "applied")
    BY ExtentsAreOK
  <2> QED BY <2>2, <2>3, <2>4
<1>4. \A x \in Group(r) : (Shares(x) => x = Representative(x)) => x \in DOMAIN Extents
  BY <1>1 DEF Extents
<1>5. \A x, y \in Group(r) : row[x].desc.addr = row[y].desc.addr
  BY DEF Group
<1> HIDE DEF Extents
<1>6. CASE there = {}
  <2>1. \A x \in Group(r) : Shares(x) <=> \A y, z \in Group(r) : y # z => Compatible(row[y].desc, row[z].desc)
    BY <1>2, <1>6 DEF Shares
  <2>2. Shares(r)
    <3> SUFFICES ASSUME ~Shares(r) PROVE FALSE
      OBVIOUS
    <3>1. r \in DOMAIN Extents /\ k \in DOMAIN Extents
      BY <1>1, <1>4, <2>1
    <3>2. row[r].state # "applied"
      BY <1>1, <1>6 DEF Applied
    <3> QED BY <1>3, <3>1, <3>2
  <2> QED BY <1>1, <2>1, <2>2
<1>7. CASE there # {}
  <2>1. rep \in there
    <3>1. there \subseteq Nat
      BY <1>1, RowsAssumption
    <3> QED BY <1>7, <3>1, LowestIn
  <2>2. rep \in DOMAIN Extents
    <3>1. Representative(rep) = rep
      BY <1>2, <1>7, <2>1 DEF Representative
    <3> QED BY <1>4, <2>1, <3>1
  <2>3. \A x \in Group(r) : Shares(x) <=>
          \/ x \in there
          \/ /\ \A y \in there : Chainable(row[y].desc)
             /\ Compatible(row[x].desc, row[rep].desc)
    BY <1>2, <1>7 DEF Shares
  <2>4. ASSUME NEW x \in Group(r), x \notin Applied, x \notin Refused(Extents, MaxCollisions)
        PROVE  /\ \A y \in there : Chainable(row[y].desc)
               /\ Compatible(row[x].desc, row[rep].desc)
    <3> SUFFICES ASSUME ~Shares(x) PROVE FALSE
      BY <2>3, <2>4
    <3>1. x \in DOMAIN Extents /\ x # rep
      BY <1>4, <2>1, <2>4
    <3>2. row[x].state # "applied"
      BY <1>1, <2>4 DEF Applied
    <3> QED BY <1>3, <1>5, <2>1, <2>2, <2>4, <3>1, <3>2
  <2>5. \A x \in there : x = rep \/ Compatible(row[x].desc, row[rep].desc)
    BY <1>5, <2>1 DEF PairsCompatible
  <2> HIDE DEF there, rep
  <2>6. CASE r \in Applied /\ k \in Applied
    BY <2>6 DEF PairsCompatible
  <2>7. CASE r \notin Applied /\ k \notin Applied
    BY <1>1, <2>4, <2>7 DEF Compatible
  <2>8. CASE r \notin Applied /\ k \in Applied
    <3>1. k \in there
      BY <1>1, <2>8 DEF there
    <3> QED BY <1>1, <2>4, <2>5, <2>8, <3>1 DEF Compatible
  <2>9. CASE r \in Applied /\ k \notin Applied
    <3>1. r \in there
      BY <1>1, <2>9 DEF there
    <3> QED BY <1>1, <2>4, <2>5, <2>9, <3>1 DEF Compatible
  <2> QED BY <2>6, <2>7, <2>8, <2>9
<1> QED BY <1>6, <1>7

\* While rows have their turns or are rolled back, no row comes to want one.
LEMMA TurnsOnly ==
  ASSUME TypeInv, Recorded, [Next]_vars, tick'.pc \in {"apply", "rollback"},
         tick.pc \in {"apply", "rollback"}
  PROVE  /\ \A r \in Rows : row'[r].desc = row[r].desc
         /\ InTurn' \subseteq InTurn /\ Applied' \subseteq InTurn
<1>0. row \in [Rows -> RowRecords] /\ \A r \in Rows : RowOK(row[r])
  BY DEF TypeInv, TypeOK
<1>1. ASSUME NEW r \in Rows, row' = [row EXCEPT ![r] = row'[r]], row'[r].desc = row[r].desc,
             r \in InTurn
      PROVE  /\ \A k \in Rows : row'[k].desc = row[k].desc
             /\ InTurn' \subseteq InTurn /\ Applied' \subseteq InTurn
  <2>1. \A k \in Rows : k # r => row'[k] = row[k]
    BY <1>0, <1>1
  <2>2. ASSUME NEW k \in InTurn' PROVE k \in InTurn
    BY <1>1, <2>1, <2>2 DEF InTurn, Waiting
  <2>3. Applied' \subseteq InTurn'
    BY DEF Applied, InTurn
  <2> QED BY <1>1, <2>1, <2>2, <2>3
<1>2. ASSUME UNCHANGED row
      PROVE  /\ \A k \in Rows : row'[k].desc = row[k].desc
             /\ InTurn' \subseteq InTurn /\ Applied' \subseteq InTurn
  BY <1>2 DEF InTurn, Waiting, Applied
<1>3. ~Idle
  BY DEF Idle
<1>4. ~Host /\ ~TickBegin
  BY <1>3 DEF Host, Declare, Undeclare, SetEnabled, ConfigureSame, ConfigureMoved, RemoveAll,
              NextProcess, TickBegin, TickBlocked, TickQuietIf, TickStartIf
<1>5. ~TickRemove /\ ~TickCollide(Refused(Extents, MaxCollisions)) /\ ~TickEnd
  BY DEF TickRemove, TickCollide, TickEnd, NoTick
<1>6. ASSUME NEW r \in Rows, ApplyOne(r)
      PROVE  /\ \A k \in Rows : row'[k].desc = row[k].desc
             /\ InTurn' \subseteq InTurn /\ Applied' \subseteq InTurn
  <2>1. row' = [row EXCEPT ![r] = row'[r]] /\ row'[r].desc = row[r].desc
    BY <1>6, TurnOf
  <2>2. r \in InTurn
    BY <1>6 DEF ApplyOne, Todo, InTurn
  <2> QED BY <1>1, <2>1, <2>2
<1>7. CASE TickRollback
  <2>1. Highest(tick.batch) \in tick.batch /\ tick.batch \subseteq Applied
    <3>1. tick.batch \subseteq Applied /\ tick.batch # {}
      BY <1>7 DEF TypeInv, Batched, TickRollback
    <3>2. Applied \subseteq Rows
      BY DEF Applied
    <3>3. tick.batch \subseteq Nat /\ IsFiniteSet(tick.batch)
      BY <3>1, <3>2, RowsAssumption, FS_Subset
    <3> QED BY <3>1, <3>3, HighestIn
  <2>2. PICK r \in Rows : row[r].state = "applied" /\ RemoveLink(r)
    BY <1>7, <2>1 DEF Applied, TickRollback
  <2>3. row' = [row EXCEPT ![r] = row'[r]] /\ row'[r].desc = row[r].desc
    BY <2>2, RemoveEffect DEF SameRow
  <2>4. r \in InTurn
    BY <2>2 DEF InTurn
  <2> QED BY <1>1, <2>3, <2>4
<1>8. (\E a \in Addrs, w \in Words : ForeignWrite(a, w)) \/ UNCHANGED vars => UNCHANGED row
  BY DEF ForeignWrite, vars
<1> QED BY <1>2, <1>4, <1>5, <1>6, <1>7, <1>8 DEF Next, TickStep, TickCode

\* A Tick comes to its rows' turns from its collisions only.
LEMMA TurnsBegin ==
  ASSUME TypeInv, Recorded, [Next]_vars, tick'.pc \in {"apply", "rollback"},
         tick.pc \notin {"apply", "rollback"}
  PROVE  TickCollide(Refused(Extents, MaxCollisions)) /\ tick.code
<1>1. Host \/ (\E a \in Addrs, w \in Words : ForeignWrite(a, w)) \/ UNCHANGED vars => UNCHANGED tick
  BY DEF Host, Declare, Undeclare, SetEnabled, ConfigureSame, ConfigureMoved, RemoveAll,
         NextProcess, ForeignWrite, vars
<1>2. TickBegin => tick'.pc \in {"idle", "remove"}
  <2>1. Idle => tick.pc = "idle"
    BY DEF Idle
  <2>2. tick' = [NoTick EXCEPT !.pc = "remove", !.code = cfg.text /\ ready'.text] => tick'.pc = "remove"
    BY DEF NoTick
  <2> QED BY <2>1, <2>2 DEF TickBegin, TickBlocked, TickQuietIf, TickStartIf
<1>3. TickRemove => UNCHANGED tick
  BY DEF TickRemove
<1>4. ~TickEnd /\ ~TickRollback /\ \A r \in Rows : ~ApplyOne(r)
  BY DEF TickEnd, TickRollback, ApplyOne
<1>5. TickCollide(Refused(Extents, MaxCollisions))
  BY <1>1, <1>2, <1>3, <1>4 DEF Next, TickStep, TickCode
<1> QED BY <1>5, CollideTyped DEF NoTick

\* What a Tick that has found its collisions leaves in turn is not refused.
LEMMA InTurnNotRefused ==
  ASSUME TypeInv, TickCollide(Refused(Extents, MaxCollisions)), tick.code
  PROVE  /\ \A r \in Rows : row'[r].desc = row[r].desc
         /\ InTurn' \subseteq Contenders \ Refused(Extents, MaxCollisions)
<1> DEFINE clashing == Refused(Extents, MaxCollisions)
           state(r) == IF r \in clashing THEN "collided" ELSE StateBefore(r)
<1>0. row \in [Rows -> RowRecords] /\ \A r \in Rows : RowOK(row[r])
  BY DEF TypeInv, TypeOK
<1>1. row' = [r \in Rows |-> [row[r] EXCEPT !.state = state(r)]]
  BY DEF TickCollide
<1>2. \A r \in clashing : row[r].state # "applied" /\ r \in Contenders
  BY RefusedRows
<1> HIDE DEF clashing
<1>3. ASSUME NEW r \in Rows
      PROVE  /\ row'[r].desc = row[r].desc /\ row'[r].used = row[r].used
             /\ row'[r].wanted = row[r].wanted /\ row'[r].state = state(r)
  <2> HIDE DEF state
  <2> QED BY <1>0, <1>1 DEF RowRecords
<1>4. ASSUME NEW r \in InTurn' PROVE r \in Contenders \ clashing
  <2>1. r \in Rows /\ (state(r) = "applied" \/ (row[r].used /\ row[r].wanted /\ state(r) # "collided"))
    BY <1>3, <1>4 DEF InTurn, Waiting
  <2>2. r \notin clashing
    BY <2>1
  <2>3. CASE row[r].used /\ row[r].wanted
    BY <2>1, <2>2, <2>3 DEF Contenders
  <2>4. CASE state(r) = "applied"
    <3>1. row[r].state = "applied"
      BY <2>2, <2>4 DEF StateBefore
    <3>2. row[r].used
      BY <1>0, <2>1, <3>1 DEF RowOK
    <3> QED BY <2>1, <2>2, <3>1, <3>2 DEF Contenders
  <2> QED BY <2>1, <2>3, <2>4
<1> QED BY <1>3, <1>4 DEF clashing

\* No step lets two rows that cannot share an address through to apply.
LEMMA ArbitratedNext ==
  ASSUME HostConfigures # "again"
  PROVE  TypeInv /\ Recorded /\ Arbitrated /\ Fits(Extents, MaxCollisions) /\ [Next]_vars
           => Arbitrated'
<1> SUFFICES ASSUME TypeInv, Recorded, Arbitrated, Fits(Extents, MaxCollisions), [Next]_vars
             PROVE  Arbitrated'
  OBVIOUS
<1>1. ASSUME NEW S, PairsCompatible(S), Applied' \subseteq S,
             \A r \in Applied' : row'[r].desc = row[r].desc
      PROVE  PairsCompatible(Applied)'
  BY <1>1 DEF PairsCompatible
<1>2. PairsCompatible(Applied)'
  <2>1. CASE Quiet
    BY <1>1, <2>1 DEF Quiet, Arbitrated
  <2>2. CASE Forgotten
    BY <2>2 DEF Forgotten, PairsCompatible
  <2>3. ASSUME NEW gone \in SUBSET InstalledSites, RemoveAll(gone) PROVE PairsCompatible(Applied)'
    BY <2>3, RemoveAllEffect DEF PairsCompatible
  <2>4. ASSUME NEW r \in Rows, TakesOut(r) PROVE PairsCompatible(Applied)'
    <3>1. /\ row' = [row EXCEPT ![r] = row'[r]] /\ row'[r].desc = row[r].desc
          /\ Applied' = Applied \ {r}
      BY <2>4, RemoveEffect DEF TakesOut, SameRow
    <3>2. \A k \in Rows : row'[k].desc = row[k].desc
      BY <3>1 DEF TypeInv, TypeOK
    <3> QED BY <1>1, <3>1, <3>2 DEF Arbitrated, Applied
  <2>5. ASSUME NEW r \in Rows, ApplyOne(r) PROVE PairsCompatible(Applied)'
    <3>1. /\ row' = [row EXCEPT ![r] = row'[r]] /\ row'[r].desc = row[r].desc
          /\ Applied' \subseteq Applied \cup {r} /\ tick.pc = "apply"
      BY <2>5, TurnOf
    <3>2. \A k \in Rows : row'[k].desc = row[k].desc
      BY <3>1 DEF TypeInv, TypeOK
    <3>3. Applied \cup {r} \subseteq InTurn
      BY <2>5 DEF Applied, InTurn, ApplyOne, Todo
    <3> QED BY <1>1, <3>1, <3>2, <3>3 DEF Arbitrated, Applied
  <2> QED BY <2>1, <2>2, <2>3, <2>4, <2>5, StepEffect
<1>3. ASSUME tick'.pc \in {"apply", "rollback"} PROVE PairsCompatible(InTurn)'
  <2>1. ASSUME NEW S, PairsCompatible(S), InTurn' \subseteq S, \A r \in Rows : row'[r].desc = row[r].desc
        PROVE  PairsCompatible(InTurn)'
    <3>1. InTurn' \subseteq Rows
      BY DEF InTurn
    <3> QED BY <2>1, <3>1 DEF PairsCompatible
  <2>2. CASE tick.pc \in {"apply", "rollback"}
    BY <1>3, <2>1, <2>2, TurnsOnly DEF Arbitrated
  <2>3. CASE tick.pc \notin {"apply", "rollback"}
    BY <1>3, <2>1, <2>3, TurnsBegin, InTurnNotRefused, NotRefusedShare DEF Arbitrated
  <2> QED BY <2>2, <2>3
<1> QED BY <1>2, <1>3 DEF Arbitrated

\* Two installed sites are at two addresses.
LEMMA SitesApart ==
  ASSUME TypeInv, Recorded, Members, Fixed, Slots, Arbitrated, ExportsApart,
         NEW i \in InstalledSites, NEW j \in InstalledSites, site[i].at = site[j].at
  PROVE  i = j
<1>1. i \in SiteRows /\ j \in SiteRows
  BY DEF InstalledSites
<1>2. PICK r \in Applied : row[r].site = i
  BY <1>1 DEF Recorded, SiteRecorded
<1>3. PICK k \in Applied : row[k].site = j
  BY <1>1 DEF Recorded, SiteRecorded
<1>4. /\ site[i].used /\ site[i].committed /\ site[i].addr = row[r].desc.addr
      /\ site[i].shape = row[r].desc.shape /\ site[i].external = row[r].desc.external
      /\ site[i].code = Replacement(row[r].desc)
      /\ site[j].used /\ site[j].committed /\ site[j].addr = row[k].desc.addr
      /\ site[j].shape = row[k].desc.shape /\ site[j].external = row[k].desc.external
      /\ site[j].code = Replacement(row[k].desc)
  BY <1>1, <1>2, <1>3 DEF Recorded, RowRecorded, SiteRecorded, Members, Member, InstalledSites
<1>5. row[r].desc \in Descs /\ row[k].desc \in Descs
  BY DEF TypeInv, RowOK, Applied
<1>6. /\ cfg \in Configs /\ site[i].at = RuntimeAddr(site[i]) /\ site[j].at = RuntimeAddr(site[j])
  BY <1>1, <1>4 DEF Fixed, TypeInv, TypeOK
<1>7. site[i].external = site[j].external
  <2>1. ASSUME NEW d \in Descs, NEW e \in Descs, d.external, ~e.external PROVE d.addr # e.addr + cfg.delta
    BY <1>6, <2>1 DEF ExportsApart
  <2>2. site[i].external \in BOOLEAN /\ site[j].external \in BOOLEAN
    BY <1>1 DEF TypeInv, SiteOK, SiteRecords
  <2> QED BY <1>4, <1>5, <1>6, <2>1, <2>2 DEF RuntimeAddr
<1>8. site[i].addr = site[j].addr
  <2>1. site[i].addr \in Nat /\ site[j].addr \in Nat
    BY <1>1 DEF TypeInv, SiteOK, SiteRecords
  <2>2. cfg.delta \in Nat
    BY <1>6, ConfigsAssumption
  <2>3. CASE site[i].external
    BY <1>6, <1>7, <2>3 DEF RuntimeAddr
  <2>4. CASE ~site[i].external
    <3>1. site[i].addr + cfg.delta = site[j].addr + cfg.delta
      BY <1>6, <1>7, <2>4 DEF RuntimeAddr
    <3> QED BY <2>1, <2>2, <3>1
  <2> QED BY <2>3, <2>4
<1>9. SUFFICES ASSUME i # j PROVE FALSE
  OBVIOUS
<1>10. Compatible(row[r].desc, row[k].desc)
  BY <1>2, <1>3, <1>4, <1>8, <1>9 DEF Arbitrated, PairsCompatible
<1>11. site[i].shape = site[j].shape /\ site[i].code = site[j].code
  BY <1>4, <1>10 DEF Compatible, Chainable, Replacement
<1>12. i < j \/ j < i
  BY <1>1, <1>9, RowsAssumption
<1> QED BY <1>1, <1>4, <1>7, <1>8, <1>11, <1>12 DEF Slots, Apart

\* All that is applied at one address can chain, and one site serves it: of a set that
\* cannot share, an applied patch keeps its place, and otherwise nobody gets it, for any
\* number of rows as long as the table of collisions has room for what the sweep finds.
THEOREM SharersCompatibleHolds ==
  ASSUME HostConfigures # "again", ExportsApart
  PROVE  Spec /\ []Fits(Extents, MaxCollisions) => []SharersCompatible
<1> DEFINE Inv == Members /\ Slots /\ Arbitrated
<1>1. Init => Inv
  <2> SUFFICES ASSUME Init PROVE Inv
    OBVIOUS
  <2>1. \A i \in SiteRows : /\ ~site[i].used /\ site[i].shape = "jump" /\ ~site[i].external
                            /\ site[i].code = NoWord /\ site[i].links = {}
    BY DEF Init, NewSite
  <2>2. \A r \in Rows : row[r].state # "applied"
    BY DEF Init, NewRow
  <2>3. tick.pc = "idle"
    BY DEF Init, NoTick
  <2> QED BY <2>1, <2>2, <2>3 DEF Members, Slots, Apart, Arbitrated, PairsCompatible, Applied
<1>2. /\ TypeInv /\ Recorded /\ Fixed /\ Inv /\ Fits(Extents, MaxCollisions) /\ [Next]_vars
      => Inv'
  BY MembersNext, SlotsNext, ArbitratedNext
<1>3. TypeInv /\ Recorded /\ Fixed /\ Inv => SharersCompatible
  <2> SUFFICES ASSUME TypeInv, Recorded, Fixed, Inv PROVE SharersCompatible
    OBVIOUS
  <2>1. \A r, k \in Applied :
          r # k /\ row[r].desc.addr = row[k].desc.addr => Compatible(row[r].desc, row[k].desc)
    BY DEF Arbitrated, PairsCompatible
  <2>2. \A i, j \in InstalledSites : i # j => site[i].at # site[j].at
    BY SitesApart
  <2> QED BY <2>1, <2>2 DEF SharersCompatible
<1> HIDE DEF Inv
<1> QED BY <1>1, <1>2, <1>3, FixedIsInvariant, PTL DEF Spec

\* No more rows than the table has room for: then it always has.
LEMMA FewRowsFit ==
  ASSUME TypeInv, Cardinality(Rows) <= MaxCollisions
  PROVE  Fits(Extents, MaxCollisions)
<1>1. ExtentsOK(Extents) /\ DOMAIN Extents \subseteq Rows
  BY ExtentsAreOK DEF Contenders
<1>2. /\ Cardinality(DOMAIN Extents) \in Nat /\ Cardinality(Rows) \in Nat
      /\ Cardinality(DOMAIN Extents) <= Cardinality(Rows)
  <2> HIDE DEF Extents
  <2> QED BY <1>1, RowsAssumption, FS_Subset, FS_CardinalityType
<1>3. Cardinality(DOMAIN Extents) <= MaxCollisions
  BY <1>2, BoundsAssumption
<1> QED BY <1>1, <1>3, FewFit, BoundsAssumption

\* The same where the table of collisions has a row for each patch: nobody's clash goes
\* unreported, and all that is applied at one address can chain.
COROLLARY FewSharersCompatible ==
  ASSUME HostConfigures # "again", ExportsApart, Cardinality(Rows) <= MaxCollisions
  PROVE  Spec => []SharersCompatible
<1>1. TypeInv => Fits(Extents, MaxCollisions)
  BY FewRowsFit
<1> QED BY <1>1, TypeInvIsInvariant, SharersCompatibleHolds, PTL

-----------------------------------------------------------------------------
(* Why a row is collided.                                                        *)

\* Another row that cannot share r's address, or a slot in use that has no thunk.
Reason(r) ==
  \/ \E k \in Contenders \ {r} :
       row[k].desc.addr = row[r].desc.addr /\ ~Compatible(row[k].desc, row[r].desc)
  \/ /\ row[r].site \in SiteRows
     /\ site[row[r].site].committed /\ ~site[row[r].site].thunk

\* From the Tick that has seen everything until the host's next call: nothing waits to
\* be taken out, so that no reason goes unless the host takes it away.
Settled == tick.pc \in {"apply", "rollback"} \/ (Idle /\ ~dirty /\ cfg # NoConfig)

Reasoned ==
  /\ GivenUp = {}
  /\ \A r \in Rows : Waiting(r) /\ row[r].state = "collided" => Reason(r)

Reasons ==
  /\ Settled => Reasoned
  /\ tick.pc = "remove" /\ cfg.text /\ ready.text => tick.code

\* A row of the table that findCollisions marks has one in its group that it cannot
\* share with, however many are in the group.
LEMMA RefusedForAReason ==
  ASSUME TypeInv, NEW r \in Refused(Extents, MaxCollisions)
  PROVE  Reason(r)
<1> DEFINE there == Group(r) \cap Applied
           rep   == Lowest(there)
<1>1. /\ r \in Contenders /\ row[r].state # "applied" /\ r \in DOMAIN Extents
      /\ \E k \in DOMAIN Extents \ {r} : row[k].desc.addr = row[r].desc.addr
  BY RefusedRows
<1>2. PICK k \in DOMAIN Extents \ {r} : row[k].desc.addr = row[r].desc.addr
  BY <1>1
<1>3. /\ k \in Contenders /\ Contenders \subseteq Rows
      /\ \A x \in DOMAIN Extents : Shares(x) => x = Representative(x)
  BY ExtentsAreOK DEF Extents, Contenders
<1> HIDE DEF Extents
<1>4. /\ r \in Group(r) /\ k \in Group(r) /\ Group(k) = Group(r) /\ r \notin there
      /\ Group(r) \subseteq Contenders
      /\ \A x \in Group(r) : row[x].desc.addr = row[r].desc.addr
  BY <1>1, <1>2, <1>3 DEF Group, Applied
<1>5. SUFFICES ASSUME \A x \in Group(r) : x # r => Compatible(row[x].desc, row[r].desc)
               PROVE  FALSE
  BY <1>4 DEF Reason
<1>6. CASE there = {}
  <2>1. \A y, z \in Group(r) : y # z => Compatible(row[y].desc, row[z].desc)
    BY <1>5 DEF Compatible
  <2>2. Shares(r) /\ Shares(k)
    BY <1>4, <1>6, <2>1 DEF Shares
  <2>3. Representative(r) = Representative(k)
    BY <1>4 DEF Representative
  <2> QED BY <1>1, <1>2, <1>3, <2>2, <2>3
<1>7. CASE there # {}
  <2>1. rep \in there
    <3>1. there \subseteq Nat
      BY <1>3, <1>4, RowsAssumption
    <3> QED BY <1>7, <3>1, LowestIn
  <2>2. Compatible(row[r].desc, row[rep].desc) /\ \A y \in there : Chainable(row[y].desc)
    BY <1>4, <1>5, <2>1 DEF Compatible
  <2>3. Shares(r)
    BY <1>7, <2>2 DEF Shares
  <2>4. Representative(r) = rep
    BY <1>7 DEF Representative
  <2> QED BY <1>1, <1>3, <1>4, <2>1, <2>3, <2>4
<1> QED BY <1>6, <1>7

\* While no contender goes and no process is forgotten, a reason stays one.
LEMMA ReasonStays ==
  ASSUME TypeInv, Recorded, Fixed, HostConfigures # "again", [Next]_vars, ~Forgotten,
         NEW r \in Rows, Reason(r), row'[r].desc = row[r].desc, row'[r].site = row[r].site,
         Contenders \subseteq Contenders', \A k \in Contenders : row'[k].desc = row[k].desc
  PROVE  Reason(r)'
<1>1. ASSUME NEW k \in Contenders \ {r},
             row[k].desc.addr = row[r].desc.addr, ~Compatible(row[k].desc, row[r].desc)
      PROVE  Reason(r)'
  <2>1. k \in Contenders' \ {r} /\ row'[k].desc = row[k].desc
    BY <1>1
  <2> QED BY <1>1, <2>1 DEF Reason, Compatible, Chainable
<1>2. CASE /\ row[r].site \in SiteRows
           /\ site[row[r].site].committed /\ ~site[row[r].site].thunk
  <2>1. Frozen(site[row[r].site], site'[row[r].site])
    BY <1>2, SlotsFrozen
  <2> QED BY <1>2, <2>1 DEF Reason, Frozen
<1> QED BY <1>1, <1>2 DEF Reason

\* A row whose turn ends collided meets an installed site that it cannot share.
LEMMA JoinRefusedForAReason ==
  ASSUME TypeInv, Recorded, NEW r \in Rows, ApplyOne(r), row'[r].state = "collided"
  PROVE  Reason(r)'
<1>0. PICK d, i : d = row[r].desc /\ i = Bound(d)
  OBVIOUS
<1>1. /\ row' = [row EXCEPT ![r] = row'[r]] /\ row'[r].desc = d /\ r \notin Applied
      /\ row'[r].site = IF i = 0 THEN row[r].site ELSE i
      /\ row \in [Rows -> RowRecords]
  BY <1>0, TurnOf DEF TypeInv, TypeOK
<1>t. ASSUME NEW state, NEW wait, NEW shim, Turn(r, state, wait, shim) PROVE state = "collided"
  <2>1. row[r] \in RowRecords /\ row'[r].state = "collided"
    BY <1>1
  <2>2. row'[r] = [row[r] EXCEPT !.state = state, !.wait = wait, !.shim = shim,
                     !.site = IF Bound(row[r].desc) = 0 THEN row[r].site ELSE Bound(row[r].desc)]
    BY <1>t, <1>1 DEF Turn
  <2> QED BY <2>1, <2>2 DEF RowRecords
<1>2. JoinRefused(r)
  <2>1. ~ApplyUnbound(r)
    BY <1>t DEF ApplyUnbound
  <2>2. ~Join(r)
    BY <1>t DEF Join
  <2>3. ~JoinFails(r)
    BY <1>t DEF JoinFails
  <2>4. ~InstallRefused(r)
    BY <1>t DEF InstallRefused
  <2>5. ~Install(r)
    <3>1. Install(r) => \E shim : Turn(r, "applied", row[r].wait, shim)
      BY DEF Install
    <3> QED BY <1>t, <3>1
  <2>6. ~InstallFails(r)
    <3>1. InstallFails(r) => \E shim : Turn(r, "failed", row[r].wait, shim)
      BY DEF InstallFails
    <3> QED BY <1>t, <3>1
  <2> QED BY <2>1, <2>2, <2>3, <2>4, <2>5, <2>6 DEF ApplyOne
<1>3. /\ i # 0 /\ site[i].state = "applied" /\ UNCHANGED site
      /\ site[i].shape = "rewrite" \/ ~Chainable(d) \/ ~site[i].thunk
  <2>1. /\ i # 0 /\ site[i].state = "applied" /\ UNCHANGED site
        /\ \/ site[i].shape = "rewrite" \/ ~Chainable(d)
           \/ ~site[i].thunk
           \/ Turn(r, "refused", RetryTicks, row[r].shim)
    BY <1>0, <1>2 DEF JoinRefused
  <2>2. ~Turn(r, "refused", RetryTicks, row[r].shim)
    BY <1>t
  <2> QED BY <2>1, <2>2
<1>4. i \in SiteRows /\ i \in InstalledSites /\ Serves(site[i], d) /\ site[i].committed
  <2>1. i \in SiteRows /\ (Serves(site[i], d) \/ ~site[i].used)
    BY <1>0, <1>3, BoundIn
  <2>2. site[i].used
    BY <1>3, <2>1 DEF Recorded, SiteRecorded, NewSite
  <2>3. i \in InstalledSites
    BY <1>3, <2>1, <2>2 DEF InstalledSites
  <2> QED BY <2>1, <2>2, <2>3 DEF Recorded, SiteRecorded
<1>5. CASE ~site[i].thunk
  BY <1>1, <1>3, <1>4, <1>5, RowsAssumption DEF Reason
<1>6. CASE site[i].shape = "rewrite" \/ ~Chainable(d)
  <2>1. PICK k \in Applied : row[k].site = i
    BY <1>4 DEF Recorded, SiteRecorded
  <2>2. k # r /\ k \in Rows /\ row'[k] = row[k]
    BY <1>1, <2>1 DEF Applied
  <2>3. /\ row[k].used /\ row[k].state = "applied"
        /\ site[i].addr = row[k].desc.addr /\ site[i].shape = row[k].desc.shape
    BY <2>1 DEF Recorded, RowRecorded, TypeInv, RowOK, Applied
  <2>4. k \in Contenders' \ {r}
    BY <2>2, <2>3 DEF Contenders
  <2>5. row[k].desc.addr = d.addr
    BY <1>4, <2>3 DEF Serves
  <2>6. ~Compatible(row[k].desc, d)
    BY <1>6, <2>3 DEF Compatible, Chainable
  <2> QED BY <1>1, <2>2, <2>4, <2>5, <2>6 DEF Reason, Compatible, Chainable
<1> QED BY <1>3, <1>5, <1>6

\* A step that leaves the intent of the wanted rows alone, and marks nobody without a
\* reason.
LEMMA ReasonedKept ==
  ASSUME TypeInv, Recorded, Fixed, HostConfigures # "again", [Next]_vars, ~Forgotten,
         GivenUp = {},
         \A r \in Rows : row[r].used /\ row[r].wanted =>
           row'[r].used /\ row'[r].wanted /\ row'[r].desc = row[r].desc,
         \A r \in Applied' : row'[r].wanted,
         \A r \in Rows : Waiting(r)' /\ row'[r].state = "collided" =>
           \/ Reason(r)'
           \/ Reason(r) /\ row'[r].site = row[r].site /\ row'[r].desc = row[r].desc
  PROVE  Reasoned'
<1>1. /\ Contenders \subseteq Contenders'
      /\ \A k \in Contenders : row'[k].desc = row[k].desc
  BY DEF Contenders, GivenUp
<1>2. ASSUME NEW r \in Rows, Waiting(r)', row'[r].state = "collided" PROVE Reason(r)'
  <2>1. CASE Reason(r) /\ row'[r].site = row[r].site /\ row'[r].desc = row[r].desc
    BY <1>1, <2>1, ReasonStays
  <2> QED BY <1>2, <2>1
<1>3. GivenUp' = {}
  BY DEF GivenUp, Applied
<1> QED BY <1>2, <1>3 DEF Reasoned

\* What findCollisions marks has a reason, and what it does not mark is not collided.
LEMMA CollideReasons ==
  ASSUME TypeInv, Recorded, Fixed, Reasons, HostConfigures # "again", [Next]_vars,
         TickCollide(Refused(Extents, MaxCollisions))
  PROVE  Reasoned'
<1> DEFINE clashing == Refused(Extents, MaxCollisions)
           state(r) == IF r \in clashing THEN "collided" ELSE StateBefore(r)
           next(r) == IF ~tick.code /\ Waiting(r) /\ state(r) # "collided" THEN "blocked" ELSE state(r)
<1>0. row \in [Rows -> RowRecords] /\ \A r \in Rows : RowOK(row[r])
  BY DEF TypeInv, TypeOK
<1>1. /\ row' = [r \in Rows |-> [row[r] EXCEPT !.state = next(r)]]
      /\ tick.pc = "remove" /\ (tick.code => GivenUp = {}) /\ Applied' = Applied
      /\ UNCHANGED <<site, cfg, ready>>
  BY CollideTyped DEF TickCollide
<1>2. \A r \in clashing : Reason(r)
  BY RefusedForAReason
<1> HIDE DEF clashing
<1>3. ASSUME NEW r \in Rows
      PROVE  /\ row'[r].desc = row[r].desc /\ row'[r].used = row[r].used
             /\ row'[r].wanted = row[r].wanted /\ row'[r].site = row[r].site
             /\ row'[r].state = next(r)
  <2> HIDE DEF next
  <2> QED BY <1>0, <1>1 DEF RowRecords
<1>4. GivenUp = {}
  <2>1. CASE ~tick.code
    <3>1. InstalledSites = {}
      BY <1>1, <2>1 DEF Reasons, Recorded
    <3>2. \A r \in Applied : row[r].site \in InstalledSites
      BY DEF Recorded, RowRecorded, InstalledSites
    <3> QED BY <3>1, <3>2 DEF GivenUp, Applied
  <2> QED BY <1>1, <2>1
<1>5. \A r \in Applied' : row'[r].wanted
  <2>1. \A r \in Applied : r \in Rows /\ row[r].used /\ row[r].state = "applied"
    BY <1>0 DEF RowOK, Applied
  <2> QED BY <1>1, <1>3, <1>4, <2>1 DEF GivenUp
<1>6. ASSUME NEW r \in Rows, Waiting(r)', row'[r].state = "collided" PROVE Reason(r)
  <2>1. row[r].used /\ row[r].wanted /\ next(r) = "collided"
    BY <1>3, <1>6 DEF Waiting
  <2>2. state(r) = "collided"
    BY <2>1
  <2>3. r \in Contenders
    BY <2>1 DEF Contenders
  <2>4. r \in clashing
    BY <2>2, <2>3 DEF StateBefore
  <2> QED BY <1>2, <2>4
<1>7. ~Forgotten
  <2>1. ~Idle
    BY <1>1 DEF Idle
  <2> QED BY <2>1 DEF Forgotten, NextProcess, ConfigureMoved
<1> QED
  <2> HIDE DEF next, state
  <2> QED BY <1>3, <1>4, <1>5, <1>6, <1>7, ReasonedKept

\* No step takes the reason for a collision away, but the host's: and after that Tick starts over.
LEMMA ReasonsNext ==
  ASSUME HostConfigures # "again"
  PROVE  TypeInv /\ Recorded /\ Fixed /\ Reasons /\ [Next]_vars => Reasons'
<1> SUFFICES ASSUME TypeInv, Recorded, Fixed, Reasons, [Next]_vars PROVE Reasons'
  OBVIOUS
<1>0. row \in [Rows -> RowRecords] /\ \A r \in Rows : RowOK(row[r])
  BY DEF TypeInv, TypeOK
<1>1. ASSUME ~Forgotten, Reasoned, \A r \in Rows : SameRow(row[r], row'[r]),
             Applied' \subseteq Applied,
             \A r \in Rows : row'[r].state = "collided" => row[r].state = "collided"
      PROVE  Reasoned'
  <2>1. \A r \in Rows : row[r].used /\ row[r].wanted =>
          row'[r].used /\ row'[r].wanted /\ row'[r].desc = row[r].desc
    BY <1>1 DEF SameRow
  <2>2. \A r \in Applied : r \in Rows /\ row[r].used /\ row[r].state = "applied"
    BY <1>0 DEF RowOK, Applied
  <2>3. \A r \in Applied' : row'[r].wanted
    BY <1>1, <2>2 DEF Reasoned, GivenUp, SameRow
  <2>4. ASSUME NEW r \in Rows, Waiting(r)', row'[r].state = "collided"
        PROVE  Reason(r) /\ row'[r].site = row[r].site /\ row'[r].desc = row[r].desc
    BY <1>1, <2>4 DEF Reasoned, SameRow, Waiting
  <2> QED BY <1>1, <2>1, <2>3, <2>4, ReasonedKept DEF Reasoned
<1>2. ASSUME ~Forgotten, Reasoned, UNCHANGED row PROVE Reasoned'
  <2>1. \A r \in Rows : SameRow(row[r], row'[r])
    BY <1>2 DEF SameRow
  <2>2. Applied' = Applied
    BY <1>2 DEF Applied
  <2> QED BY <1>1, <1>2, <2>1, <2>2
\* The host's calls.
<1>3. ASSUME NEW d \in Descs, Declare(d), Settled' PROVE Reasoned'
  <2>0. PICK k, x : k = Lowest(FreeRows) /\ x = [NewRow EXCEPT !.used = TRUE, !.desc = d]
    OBVIOUS
  <2>1. k \in Rows /\ ~row[k].used
    <3>1. k \in FreeRows
      BY <1>3, <2>0, LowestIn, RowsAssumption DEF Declare, FreeRows
    <3> QED BY <3>1 DEF FreeRows
  <2>2. /\ row' = [row EXCEPT ![k] = x] /\ UNCHANGED <<site, cfg, dirty, tick>>
        /\ x.state = "declared"
    BY <1>3, <2>0 DEF Declare, NewRow
  <2>3. Reasoned
    BY <1>3, <2>2 DEF Reasons, Settled, Idle
  <2>4. \A r \in Rows : row'[r] = IF r = k THEN x ELSE row[r]
    BY <1>0, <2>2
  <2>5. \A r \in Applied' : r \in Applied /\ row'[r] = row[r]
    BY <2>2, <2>4 DEF Applied
  <2>6. \A r \in Applied : row[r].used
    BY <1>0 DEF RowOK, Applied
  <2>7. ~Forgotten
    BY <2>1, <2>2, <2>4, <2>0 DEF Forgotten, NextProcess, ConfigureMoved, ForgetProcess, NewRow
  <2> QED BY <2>1, <2>2, <2>3, <2>4, <2>5, <2>6, <2>7, ReasonedKept
       DEF Reasoned, GivenUp, Applied, Waiting
<1>4. ASSUME NEW gone \in SUBSET InstalledSites, RemoveAll(gone), Settled' PROVE Reasoned'
  <2>1. Reasoned
    BY <1>4 DEF RemoveAll, Reasons, Settled, Idle
  <2>2. (\A r \in Rows : SameRow(row[r], row'[r])) /\ Applied' = {}
    BY <1>4, RemoveAllEffect
  <2>3. ASSUME NEW r \in Rows, row'[r].state = "collided" PROVE row[r].state = "collided"
    <3>1. CASE row[r].state = "applied" /\ row[r].site \in InstalledSites
      <4>1. \E state \in {"declared", "failed"} : row'[r] = [row[r] EXCEPT !.state = state]
        BY <1>4, <3>1 DEF RemoveAll
      <4>2. row'[r].state \in {"declared", "failed"}
        BY <1>0, <4>1 DEF RowRecords
      <4> QED BY <2>3, <4>2
    <3>2. CASE ~(row[r].state = "applied" /\ row[r].site \in InstalledSites)
      BY <1>4, <2>3, <3>2 DEF RemoveAll
    <3> QED BY <3>1, <3>2
  <2>4. ~Forgotten
    <3>1. CASE dirty
      BY <1>4, <3>1 DEF RemoveAll, Settled, Idle
    <3>2. CASE ~dirty
      BY <1>4, <3>2 DEF RemoveAll, Forgotten, NextProcess, ConfigureMoved, ForgetProcess
    <3> QED BY <3>1, <3>2
  <2> QED BY <1>1, <2>1, <2>2, <2>3, <2>4
<1>5. ASSUME Host, Settled' PROVE Reasoned'
  <2>1. dirty' /\ tick'.pc = "idle" => ~Settled'
    BY DEF Settled, Idle
  <2>2. ASSUME NEW r \in Rows, Undeclare(r) \/ \E enabled \in BOOLEAN : SetEnabled(r, enabled)
        PROVE  FALSE
    BY <1>5, <2>1, <2>2 DEF Undeclare, SetEnabled, Idle
  <2>3. ~NextProcess /\ \A c \in Configs : ~ConfigureSame(c)
    BY <1>5, <2>1 DEF NextProcess, ForgetProcess, ConfigureSame, Idle
  <2>4. \A c \in Configs, gone \in SUBSET InstalledSites : ~ConfigureMoved(c, gone)
    BY <1>5, <2>1 DEF ConfigureMoved, ForgetProcess, Idle
  <2> QED BY <1>3, <1>4, <1>5, <2>2, <2>3, <2>4 DEF Host
\* The Tick.
<1>6. ASSUME TickBegin, Settled' PROVE Reasoned'
  <2>1. \A dataDirty \in DataDirty : ~TickStartIf(dataDirty)
    <3>1. (tick' = [NoTick EXCEPT !.pc = "remove", !.code = cfg.text /\ ready'.text])
            => tick'.pc = "remove"
      BY DEF NoTick
    <3> QED BY <1>6, <3>1 DEF TickStartIf, Settled, Idle
  <2>2. /\ Reasoned /\ ~Forgotten /\ Applied' = Applied
        /\ row' = [r \in Rows |-> IF Waiting(r) THEN [Aged[r] EXCEPT !.state = "blocked"] ELSE Aged[r]]
           \/ row' = Aged
    <3>1. /\ Idle /\ UNCHANGED <<site, cfg, dirty, tick>>
          /\ row' = [r \in Rows |-> IF Waiting(r) THEN [Aged[r] EXCEPT !.state = "blocked"] ELSE Aged[r]]
             \/ row' = Aged
      <4> HIDE DEF Aged
      <4> QED BY <1>6, <2>1 DEF TickBegin, TickBlocked, TickQuietIf
    <3>2. Reasoned /\ ~dirty'
      BY <1>6, <3>1 DEF Reasons, Settled, Idle
    <3>3. ~Forgotten
      BY <3>1, <3>2 DEF Forgotten, NextProcess, ConfigureMoved, ForgetProcess
    <3>4. Applied' = Applied
      BY <1>6, TickEffect DEF Quiet
    <3> QED BY <3>1, <3>2, <3>3, <3>4
  <2>3. ASSUME NEW r \in Rows
        PROVE  /\ SameRow(row[r], Aged[r]) /\ Aged[r].state = row[r].state
               /\ Aged[r] \in RowRecords
    <3>1. Aged[r] = [row[r] EXCEPT !.wait = IF row[r].wait = 0 THEN 0 ELSE row[r].wait - 1]
      BY <1>0 DEF Aged, RowRecords
    <3>2. SameRow(row[r], Aged[r])
      BY <1>0, <3>1 DEF RowRecords, SameRow
    <3> QED BY <3>2, AgedTyped
  <2> HIDE DEF Aged
  <2>4. ASSUME NEW r \in Rows
        PROVE  /\ SameRow(row[r], row'[r])
               /\ row'[r].state = "collided" => row[r].state = "collided"
    <3>1. row'[r] = Aged[r] \/ row'[r] = [Aged[r] EXCEPT !.state = "blocked"]
      BY <2>2
    <3>2. CASE row'[r] = [Aged[r] EXCEPT !.state = "blocked"]
      BY <2>3, <3>2 DEF RowRecords, SameRow
    <3> QED BY <2>3, <3>1, <3>2
  <2> QED BY <1>1, <2>2, <2>4
<1>7. CASE TickRemove
  BY <1>7 DEF TickRemove, Reasons, Settled, Idle
<1>8. ASSUME NEW r \in Rows, ApplyOne(r) PROVE Reasoned'
  <2>1. /\ tick.pc = "apply" /\ Waiting(r) /\ row' = [row EXCEPT ![r] = row'[r]]
        /\ row'[r].used /\ row'[r].desc = row[r].desc /\ row'[r].wanted = row[r].wanted
        /\ Applied' \subseteq Applied \cup {r} /\ dirty' = dirty /\ ready' = ready /\ cfg' = cfg
    BY <1>8, TurnOf
  <2>2. Reasoned
    BY <2>1 DEF Reasons, Settled
  <2>3. \A k \in Rows : k # r => row'[k] = row[k]
    BY <1>0, <2>1
  <2>4. row'[r].state = "collided" => Reason(r)'
    BY <1>8, JoinRefusedForAReason
  <2>5. ~Forgotten
    BY <2>1 DEF Forgotten, NextProcess, ConfigureMoved, Idle
  <2>6. \A k \in Applied' : row'[k].wanted
    <3>1. \A k \in Applied : k \in Rows /\ row[k].used /\ row[k].state = "applied"
      BY <1>0 DEF RowOK, Applied
    <3>2. \A k \in Applied : row[k].wanted
      BY <2>2, <3>1 DEF Reasoned, GivenUp
    <3> QED BY <2>1, <2>3, <3>1, <3>2 DEF Waiting
  <2>7. \A k \in Rows : row[k].used /\ row[k].wanted =>
          row'[k].used /\ row'[k].wanted /\ row'[k].desc = row[k].desc
    BY <2>1, <2>3
  <2>8. ASSUME NEW k \in Rows, Waiting(k)', row'[k].state = "collided"
        PROVE  \/ Reason(k)'
               \/ Reason(k) /\ row'[k].site = row[k].site /\ row'[k].desc = row[k].desc
    <3>1. CASE k = r
      BY <2>4, <2>8, <3>1
    <3>2. CASE k # r
      BY <2>2, <2>3, <2>8, <3>2 DEF Reasoned, Waiting
    <3> QED BY <3>1, <3>2
  <2> QED BY <2>2, <2>5, <2>6, <2>7, <2>8, ReasonedKept DEF Reasoned
<1>9. ASSUME TickRollback PROVE Reasoned'
  <2>1. /\ Reasoned /\ ~Forgotten
    BY <1>9 DEF TickRollback, Reasons, Settled, Forgotten, NextProcess, ConfigureMoved, Idle
  <2>2. tick.batch \subseteq Applied /\ tick.batch # {}
    BY <1>9 DEF TypeInv, Batched, TickRollback
  <2>3. Highest(tick.batch) \in tick.batch
    <3>1. Applied \subseteq Rows
      BY DEF Applied
    <3>2. tick.batch \subseteq Nat /\ IsFiniteSet(tick.batch)
      BY <2>2, <3>1, RowsAssumption, FS_Subset
    <3> QED BY <2>2, <3>2, HighestIn
  <2>4. PICK r \in Rows : row[r].state = "applied" /\ RemoveLink(r)
    BY <1>9, <2>2, <2>3 DEF Applied, TickRollback
  <2>5. /\ row' = [row EXCEPT ![r] = row'[r]] /\ SameRow(row[r], row'[r])
        /\ Applied' = Applied \ {r}
    BY <2>4, RemoveEffect
  <2>6. \A k \in Rows : k # r => row'[k] = row[k]
    BY <1>0, <2>5
  <2>7. row'[r].state \in {"declared", "failed"}
    <3>1. \E state \in {"declared", "failed"} : row' = [row EXCEPT ![r].state = state]
      BY <2>4 DEF RemoveLink
    <3> QED BY <1>0, <3>1 DEF RowRecords
  <2>8. \A k \in Rows : SameRow(row[k], row'[k])
    BY <2>5, <2>6 DEF SameRow
  <2>9. \A k \in Rows : row'[k].state = "collided" => row[k].state = "collided"
    BY <2>6, <2>7
  <2> QED BY <1>1, <2>1, <2>5, <2>8, <2>9
<1>10. ASSUME TickEnd PROVE Reasoned'
  <2>1. Reasoned /\ ~Forgotten
    BY <1>10 DEF TickEnd, Reasons, Settled, Forgotten, NextProcess, ConfigureMoved, Idle
  <2> QED BY <1>2, <1>10, <2>1 DEF TickEnd
<1>11. ASSUME UNCHANGED <<row, site, cfg, dirty, tick>>, Settled' PROVE Reasoned'
  <2>1. Reasoned
    BY <1>11 DEF Reasons, Settled, Idle
  <2>2. GivenUp' = {} /\ \A r \in Rows : Reason(r) => Reason(r)'
    BY <1>11, <2>1 DEF Reasoned, GivenUp, Reason, Contenders, Compatible, Chainable
  <2> QED BY <1>11, <2>1, <2>2 DEF Reasoned, Waiting
<1>12. Settled' => Reasoned'
  <2>1. (\E a \in Addrs, w \in Words : ForeignWrite(a, w)) \/ UNCHANGED vars
           => UNCHANGED <<row, site, cfg, dirty, tick>>
    BY DEF ForeignWrite, vars
  <2>2. TickRemove => tick'.pc = "remove"
    BY DEF TickRemove
  <2>3. TickRemove => ~Settled'
    BY <2>2 DEF Settled, Idle
  <2> QED BY <1>5, <1>6, <1>8, <1>9, <1>10, <1>11, <2>1, <2>3, CollideReasons
       DEF Next, TickStep, TickCode
\* Nothing but the Tick that has begun brings the text's backend up.
<1>13. tick'.pc = "remove" /\ cfg'.text /\ ready'.text => tick'.code
  <2>1. ASSUME UNCHANGED <<cfg, ready, tick>>
        PROVE  tick'.pc = "remove" /\ cfg'.text /\ ready'.text => tick'.code
    BY <2>1 DEF Reasons
  <2>2. ASSUME NEW dataDirty, TickStartIf(dataDirty)
        PROVE  cfg'.text /\ ready'.text => tick'.code
    BY <2>2 DEF TickStartIf, NoTick
  <2>3. Idle /\ UNCHANGED tick => tick'.pc # "remove"
    BY DEF Idle
  <2>4. Host => Idle /\ UNCHANGED tick
    BY DEF Host, Declare, Undeclare, SetEnabled, ConfigureSame, ConfigureMoved, RemoveAll,
           NextProcess
  <2>5. TickBegin =>
          (Idle /\ UNCHANGED tick) \/ \E dataDirty \in DataDirty : TickStartIf(dataDirty)
    BY DEF TickBegin, TickBlocked, TickQuietIf
  <2>6. ASSUME TickRollback \/ TickEnd \/ TickCollide(Refused(Extents, MaxCollisions))
        PROVE  tick'.pc # "remove"
    <3>1. NoTick.pc = "idle" /\ tick.pc = "rollback" =>
            [tick EXCEPT !.batch = @ \ {Highest(@)}].pc = tick.pc
      BY DEF TypeInv, TypeOK
    <3>2. tick \in [pc : {"idle", "remove", "apply", "rollback"}, at : Rows \cup {0},
                    batch : SUBSET Rows, held : SUBSET Rows, code : BOOLEAN]
      BY DEF TypeInv, TypeOK
    <3>3. CASE TickRollback
      BY <3>2, <3>3 DEF TickRollback
    <3>4. CASE TickEnd
      BY <3>4 DEF TickEnd, NoTick
    <3>5. CASE TickCollide(Refused(Extents, MaxCollisions))
      BY <3>2, <3>5 DEF TickCollide, NoTick
    <3> QED BY <2>6, <3>3, <3>4, <3>5
  <2>7. ASSUME NEW r \in Rows, ApplyOne(r) PROVE tick'.pc # "remove"
    <3>1. tick \in [pc : {"idle", "remove", "apply", "rollback"}, at : Rows \cup {0},
                    batch : SUBSET Rows, held : SUBSET Rows, code : BOOLEAN]
          /\ tick.pc = "apply"
      BY <2>7 DEF TypeInv, TypeOK, ApplyOne
    <3>2. Continue(r) \/ Batch(r) \/ Abort(r)
      BY <2>7 DEF ApplyOne, ApplyUnbound, JoinRefused, Join, JoinFails, InstallRefused,
                  Install, InstallFails
    <3> QED BY <3>1, <3>2 DEF Continue, Batch, Abort
  <2>8. (\E a \in Addrs, w \in Words : ForeignWrite(a, w)) \/ TickRemove \/ UNCHANGED vars
          => UNCHANGED <<cfg, ready, tick>>
    BY DEF ForeignWrite, TickRemove, vars
  <2> QED BY <2>1, <2>2, <2>3, <2>4, <2>5, <2>6, <2>7, <2>8 DEF Next, TickStep, TickCode
<1> QED BY <1>12, <1>13 DEF Reasons

\* A row that the host is told has collided is collided with something that is still
\* there: another that cannot share its address, or a site whose displaced word cannot
\* run from a stub.  No past conflict keeps it out, however many rows there are.
THEOREM CollidedForAReasonHolds ==
  ASSUME HostConfigures # "again"
  PROVE  Spec => []CollidedForAReason
<1>1. Init => Reasons
  BY DEF Init, NoTick, Reasons, Settled, Idle
<1>2. TypeInv /\ Recorded /\ Fixed /\ Reasons /\ [Next]_vars => Reasons'
  BY ReasonsNext
<1>3. TypeInv /\ Reasons => CollidedForAReason
  <2> SUFFICES ASSUME TypeInv, Reasons, Idle, ~dirty, cfg # NoConfig, NEW r \in Rows,
                      Waiting(r), row[r].state = "collided"
               PROVE  \/ \E k \in Contenders \ {r} :
                           /\ row[k].desc.addr = row[r].desc.addr
                           /\ ~Compatible(row[k].desc, row[r].desc)
                      \/ row[r].site # 0 /\ ~site[row[r].site].thunk
    BY DEF CollidedForAReason
  <2>1. Reason(r)
    BY DEF Reasons, Reasoned, Settled
  <2> QED BY <2>1, RowsAssumption DEF Reason
<1> QED BY <1>1, <1>2, <1>3, FixedIsInvariant, PTL DEF Spec

-----------------------------------------------------------------------------
(* What is in the text.                                                         *)

\* An installed site's branch or word is there, and whoever gives it back, the direct
\* backend or FunctionPatcher, has the loader's word for it; and there is nothing else.
HeldAt(i) ==
  LET s == site[i]
  IN  /\ mem[s.at] = InstalledWord(i, s)
      /\ ready.backend = "direct" => s.ours = InstalledWord(i, s) /\ s.saved = Text[s.at]
      /\ ready.backend = "fp" => s.handle /\ s.found = Text[s.at]

Held ==
  /\ \A i \in InstalledSites : HeldAt(i)
  /\ \A a \in Addrs : mem[a] = Text[a] \/ \E i \in InstalledSites : site[i].at = a

\* What a step finds where it looks is what it finds where it writes.
SeenNow == seen = mem

\* Nobody else writes the text, and no backend refuses to take a patch out.
Undisturbed == Foreign = {} /\ "remove" \notin Failures

\* An installed site has a backend, and an address of the text.
LEMMA InstalledHas ==
  ASSUME TypeInv, Recorded, Fixed, NEW i \in InstalledSites
  PROVE  /\ i \in SiteRows /\ ready.backend \in {"fp", "direct"} /\ cfg # NoConfig /\ ready.text
         /\ site[i].at \in Addrs /\ site[i].committed
<1>1. i \in SiteRows /\ InstalledSites # {}
  BY DEF InstalledSites
<1>2. cfg # NoConfig /\ cfg.text /\ ready.text /\ site[i].committed
  BY <1>1 DEF Recorded, SiteRecorded
<1>3. ready.backend \in {"fp", "direct"}
  BY <1>2 DEF TypeInv, TypeOK, TickOK
<1> QED BY <1>1, <1>2, <1>3 DEF Fixed

\* Then every site that is to go is given back, and none is kept.
LEMMA NoneKeptBack ==
  ASSUME TypeInv, Recorded, Fixed, Held, SeenNow, Undisturbed, NEW i \in InstalledSites
  PROVE  ~MayFail(site[i])
<1>1. ready.backend \in {"fp", "direct"}
  BY InstalledHas
<1>2. ready.backend = "direct" => seen[site[i].at] = site[i].ours
  BY DEF Held, HeldAt, SeenNow
<1> QED BY <1>1, <1>2 DEF MayFail, Undisturbed

\* What is given back is the loader's word.
LEMMA TextGivenBack ==
  ASSUME TypeInv, Recorded, Fixed, Held, NEW gone \in SUBSET InstalledSites, TextWithout(gone)
  PROVE  \A a \in Addrs :
           mem'[a] = IF \E i \in gone : site[i].at = a THEN Text[a] ELSE mem[a]
<1>1. \A i \in gone : Restored(i) /\ Original(site[i]) = Text[site[i].at]
  BY InstalledHas DEF Held, HeldAt, Restored, Original
<1>2. SUFFICES ASSUME NEW a \in Addrs
               PROVE  mem'[a] = IF \E i \in gone : site[i].at = a THEN Text[a] ELSE mem[a]
  OBVIOUS
<1> DEFINE undone == {i \in gone : Restored(i)}
           there  == {i \in undone : site[i].at = a}
<1>3. mem'[a] = IF \E i \in undone : site[i].at = a
                THEN Original(site[CHOOSE i \in undone : site[i].at = a]) ELSE mem[a]
  BY <1>2 DEF TextWithout
<1>4. undone = gone
  BY <1>1
<1> HIDE DEF undone
<1>5. ASSUME \E i \in undone : site[i].at = a
      PROVE  Original(site[CHOOSE i \in undone : site[i].at = a]) = Text[a]
  <2>1. PICK k : k = CHOOSE i \in undone : site[i].at = a
    OBVIOUS
  <2>2. k \in undone /\ site[k].at = a
    BY <1>5, <2>1
  <2> QED BY <1>1, <1>4, <2>1, <2>2
<1> QED BY <1>3, <1>4, <1>5

\* Nothing is installed any more, and everything was given back.
LEMMA AllHeldBack ==
  ASSUME TypeInv, Recorded, Fixed, Held, SeenNow, Undisturbed,
         NEW gone \in SUBSET InstalledSites, CanRemove(gone), TextWithout(gone)
  PROVE  \A a \in Addrs : mem'[a] = Text[a]
<1>1. gone = InstalledSites
  BY NoneKeptBack DEF CanRemove
<1>2. \A a \in Addrs : mem'[a] = IF \E i \in gone : site[i].at = a THEN Text[a] ELSE mem[a]
  BY TextGivenBack
<1> QED BY <1>1, <1>2 DEF Held

\* No step writes a word of the text that it does not record, or forgets one that is written.
LEMMA HeldNext ==
  ASSUME HostConfigures # "again", Undisturbed
  PROVE  /\ TypeInv /\ Recorded /\ Fixed /\ Handles /\ SharersCompatible /\ Held /\ SeenNow
         /\ SharersCompatible' /\ [Next]_vars
         => Held'
<1> SUFFICES ASSUME TypeInv, Recorded, Fixed, Handles, SharersCompatible, Held, SeenNow,
                    SharersCompatible', [Next]_vars
             PROVE  Held'
  OBVIOUS
<1>1. ASSUME InstalledSites' = {}, \A a \in Addrs : mem'[a] = Text[a] PROVE Held'
  BY <1>1 DEF Held
<1>2. ASSUME NEW i \in InstalledSites, HeldAt(i), site'[i].at = site[i].at,
             site'[i].shape = site[i].shape, site'[i].code = site[i].code,
             site'[i].ours = site[i].ours, site'[i].saved = site[i].saved,
             site'[i].handle = site[i].handle, site'[i].found = site[i].found,
             ready' = ready, mem'[site[i].at] = mem[site[i].at]
      PROVE  HeldAt(i)'
  BY <1>2 DEF HeldAt, InstalledWord
<1>3. CASE Quiet /\ UNCHANGED <<mem, entries>>
  <2>1. InstalledSites' = InstalledSites /\ UNCHANGED site
    BY <1>3 DEF Quiet, InstalledSites
  <2>2. \A i \in InstalledSites : ready' = ready
    BY <1>3, InstalledHas DEF Quiet
  <2>3. \A i \in InstalledSites : HeldAt(i)'
    BY <1>2, <1>3, <2>1, <2>2 DEF Held
  <2> QED BY <1>3, <2>1, <2>3 DEF Held
<1>4. CASE Forgotten
  <2>1. InstalledSites' = {}
    BY <1>4 DEF Forgotten, InstalledSites, NewSite
  <2>2. \A a \in Addrs : mem'[a] = Text[a]
    <3>1. CASE NextProcess
      <4>1. entries = {}
        BY <3>1 DEF NextProcess, Handles
      <4> QED BY <3>1, <4>1 DEF NextProcess
    <3>2. ASSUME NEW c \in Configs, NEW gone \in SUBSET InstalledSites, ConfigureMoved(c, gone)
          PROVE  \A a \in Addrs : mem'[a] = Text[a]
      BY <3>2, AllHeldBack DEF ConfigureMoved
    <3> QED BY <1>4, <3>1, <3>2 DEF Forgotten
  <2> QED BY <1>1, <2>1, <2>2
<1>5. ASSUME NEW gone \in SUBSET InstalledSites, RemoveAll(gone) PROVE Held'
  <2>1. InstalledSites' = {}
    BY <1>5, RemoveAllEffect DEF InstalledSites
  <2>2. \A a \in Addrs : mem'[a] = Text[a]
    BY <1>5, AllHeldBack DEF RemoveAll
  <2> QED BY <1>1, <2>1, <2>2
<1>6. ASSUME NEW r \in Rows, TakesOut(r) PROVE Held'
  <2>0. PICK i : i = row[r].site
    OBVIOUS
  <2>1. /\ i \in InstalledSites /\ site' = [site EXCEPT ![i] = site'[i]]
        /\ SameSlot(site[i], site'[i])
        /\ \/ /\ site'[i].state = "applied" /\ site'[i].handle = site[i].handle
              /\ UNCHANGED <<mem, entries>>
           \/ site'[i].state # "applied" /\ SiteRemoved(i, site[i], site'[i])
        /\ ready' = ready
    BY <1>6, <2>0, RemoveEffect DEF TakesOut
  <2>2. /\ i \in SiteRows /\ \A j \in SiteRows : j # i => site'[j] = site[j]
    BY <2>1 DEF TypeInv, TypeOK, InstalledSites
  <2>3. CASE /\ site'[i].state = "applied" /\ site'[i].handle = site[i].handle
             /\ UNCHANGED <<mem, entries>>
    <3>1. InstalledSites' = InstalledSites
      BY <2>1, <2>2, <2>3 DEF InstalledSites, SameSlot
    <3>2. ASSUME NEW j \in InstalledSites PROVE HeldAt(j)' /\ site'[j].at = site[j].at
      <4>1. /\ site'[j].at = site[j].at /\ site'[j].shape = site[j].shape
            /\ site'[j].code = site[j].code /\ site'[j].ours = site[j].ours
            /\ site'[j].saved = site[j].saved /\ site'[j].handle = site[j].handle
            /\ site'[j].found = site[j].found
        <5>1. CASE j = i
          BY <2>1, <2>3, <5>1 DEF SameSlot
        <5>2. CASE j # i
          <6>1. j \in SiteRows
            BY DEF InstalledSites
          <6> QED BY <2>2, <5>2, <6>1
        <5> QED BY <5>1, <5>2
      <4> QED BY <1>2, <2>1, <2>3, <4>1 DEF Held
    <3> QED BY <2>3, <3>1, <3>2 DEF Held
  <2>4. CASE site'[i].state # "applied" /\ SiteRemoved(i, site[i], site'[i])
    <3>1. TextWithout({i}) /\ {i} \in SUBSET InstalledSites
      BY <2>1, <2>4, NoneKeptBack DEF SiteRemoved
    <3>2. \A a \in Addrs : mem'[a] = IF a = site[i].at THEN Text[a] ELSE mem[a]
      BY <3>1, TextGivenBack
    <3>3. /\ InstalledSites' = InstalledSites \ {i}
          /\ \A j \in InstalledSites' : site'[j] = site[j]
      BY <2>2, <2>4 DEF InstalledSites
    <3>4. ASSUME NEW j \in InstalledSites' PROVE HeldAt(j)'
      <4>1. j \in InstalledSites /\ site'[j] = site[j] /\ site[j].at # site[i].at
        BY <2>1, <3>3 DEF SharersCompatible
      <4>2. mem'[site[j].at] = mem[site[j].at]
        BY <3>2, <4>1, InstalledHas
      <4> QED BY <1>2, <2>1, <4>1, <4>2 DEF Held
    <3>5. ASSUME NEW a \in Addrs, mem'[a] # Text[a] PROVE \E j \in InstalledSites' : site'[j].at = a
      <4>1. mem[a] # Text[a] /\ a # site[i].at
        BY <3>2, <3>5
      <4>2. PICK j \in InstalledSites : site[j].at = a
        BY <4>1 DEF Held
      <4> QED BY <3>3, <4>1, <4>2
    <3> QED BY <3>4, <3>5 DEF Held
  <2> QED BY <2>1, <2>3, <2>4
<1>7. ASSUME NEW r \in Rows, ApplyOne(r) PROVE Held'
  <2>0. PICK i : i = Bound(row[r].desc)
    OBVIOUS
  <2>1. /\ ready' = ready
        /\ \/ UNCHANGED <<site, mem>>
           \/ JoinedNow(r, i) /\ UNCHANGED mem
           \/ InstallsAt(r, i)
    BY <1>7, <2>0, ApplyEffect
  <2>2. CASE UNCHANGED <<site, mem>>
    <3>1. InstalledSites' = InstalledSites
      BY <2>2 DEF InstalledSites
    <3>2. \A j \in InstalledSites : HeldAt(j)'
      BY <1>2, <2>1, <2>2 DEF Held
    <3> QED BY <2>2, <3>1, <3>2 DEF Held
  <2>3. CASE JoinedNow(r, i) /\ UNCHANGED mem
    <3>1. /\ i \in SiteRows /\ site' = [site EXCEPT ![i] = site'[i]]
          /\ site'[i] = [site[i] EXCEPT !.links = @ \cup {r}]
      BY <2>3 DEF JoinedNow
    <3>2. ASSUME NEW j \in SiteRows
          PROVE  /\ site'[j].at = site[j].at /\ site'[j].shape = site[j].shape
                 /\ site'[j].code = site[j].code /\ site'[j].ours = site[j].ours
                 /\ site'[j].saved = site[j].saved /\ site'[j].handle = site[j].handle
                 /\ site'[j].found = site[j].found /\ site'[j].used = site[j].used
                 /\ site'[j].state = site[j].state
      <4>1. site[j] \in SiteRecords /\ (j # i => site'[j] = site[j])
        BY <3>1 DEF TypeInv, TypeOK
      <4> QED BY <3>1, <4>1 DEF SiteRecords
    <3>3. InstalledSites' = InstalledSites
      BY <3>2 DEF InstalledSites
    <3>4. \A j \in InstalledSites : HeldAt(j)' /\ site'[j].at = site[j].at
      BY <1>2, <2>1, <2>3, <3>2 DEF Held, InstalledSites
    <3> QED BY <2>3, <3>3, <3>4 DEF Held
  <2>4. CASE InstallsAt(r, i)
    <3>1. /\ i \in SiteRows /\ i \notin InstalledSites /\ site'[i].used
          /\ NotInstalledNow(r, site[i], site'[i]) \/ InstalledNow(r, i, site'[i])
      BY <2>4 DEF InstallsAt, InstalledSites, Serving
    <3>2. \A j \in SiteRows : j # i => site'[j] = site[j]
      BY <2>4 DEF InstallsAt, TypeInv, TypeOK
    <3>3. \A j \in InstalledSites : j # i /\ site'[j] = site[j]
      BY <3>1, <3>2 DEF InstalledSites
    <3>4. CASE NotInstalledNow(r, site[i], site'[i])
      <4>1. InstalledSites' = InstalledSites /\ UNCHANGED mem
        BY <3>1, <3>2, <3>4 DEF InstalledSites, NotInstalledNow
      <4>2. \A j \in InstalledSites : HeldAt(j)' /\ site'[j].at = site[j].at
        BY <1>2, <2>1, <3>3, <4>1 DEF Held
      <4> QED BY <4>1, <4>2 DEF Held
    <3>5. CASE InstalledNow(r, i, site'[i])
      <4>0. PICK t : t = site'[i]
        OBVIOUS
      <4>1. /\ t.state = "applied" /\ t.at \in Addrs /\ t.live = mem[t.at]
            /\ mem' = [mem EXCEPT ![t.at] = InstalledWord(i, t)]
            /\ IF ready.backend = "fp" THEN t.handle /\ t.found = mem[t.at]
               ELSE t.saved = t.live /\ t.ours = InstalledWord(i, t)
        BY <3>5, <4>0 DEF InstalledNow, SeenNow
      <4>2. InstalledSites' = InstalledSites \cup {i}
        BY <3>1, <3>2, <4>0, <4>1 DEF InstalledSites
      <4>3. \A j \in InstalledSites : site[j].at # t.at
        BY <3>3, <4>0, <4>2 DEF SharersCompatible
      <4>4. mem[t.at] = Text[t.at]
        BY <4>1, <4>3 DEF Held
      <4>5. \A a \in Addrs : mem'[a] = IF a = t.at THEN InstalledWord(i, t) ELSE mem[a]
        BY <4>1 DEF TypeInv, TypeOK
      <4>6. ASSUME NEW j \in InstalledSites PROVE HeldAt(j)' /\ site'[j].at = site[j].at
        <5>1. mem'[site[j].at] = mem[site[j].at]
          BY <4>3, <4>5, InstalledHas
        <5> QED BY <1>2, <2>1, <3>3, <5>1 DEF Held
      <4>7. HeldAt(i)'
        BY <2>1, <4>0, <4>1, <4>4, <4>5 DEF HeldAt, InstalledWord
      <4>8. \A a \in Addrs : mem'[a] = Text[a] \/ \E j \in InstalledSites' : site'[j].at = a
        BY <4>0, <4>2, <4>5, <4>6 DEF Held
      <4> QED BY <4>2, <4>6, <4>7, <4>8 DEF Held
    <3> QED BY <3>1, <3>4, <3>5
  <2> QED BY <2>1, <2>2, <2>3, <2>4
<1>8. \A a \in Addrs, w \in Words : ~ForeignWrite(a, w)
  BY DEF ForeignWrite, Undisturbed
<1> QED BY <1>3, <1>4, <1>5, <1>6, <1>7, <1>8, StepEffect

\* Without other patchers, nobody writes between a look and a store.
LEMMA SeenNowNext ==
  ASSUME Undisturbed
  PROVE  SeenNow /\ [Next]_vars => SeenNow'
<1>1. \A a \in Addrs, w \in Words : ~ForeignWrite(a, w)
  BY DEF ForeignWrite, Undisturbed
<1> QED BY <1>1, LooksAnew DEF LookAnew, SeenNow, vars, text

\* Every path that gives a site up gives its word back: intent withdrawn, RemoveAll, a
\* rollback, Configure and the next process; nothing else of the text is ever changed.
THEOREM TextIntactHolds ==
  ASSUME HostConfigures # "again", Undisturbed, ExportsApart
  PROVE  Spec /\ []Fits(Extents, MaxCollisions) => []TextIntact
<1> DEFINE Inv == BackendFits /\ Handles /\ SeenNow
<1>1. FpRemoves
  BY DEF FpRemoves, Undisturbed
<1>2. Init => Inv /\ Held
  BY DEF Init, NewSite, NotReady, BackendFits, Handles, Held, SeenNow, InstalledSites
<1>3. TypeInv /\ Recorded /\ Inv /\ [Next]_vars => Inv'
  BY <1>1, BackendFitsNext, HandlesNext, SeenNowNext
<1>4. /\ TypeInv /\ Recorded /\ Fixed /\ Inv /\ SharersCompatible /\ Held
      /\ SharersCompatible' /\ [Next]_vars
      => Held'
  BY HeldNext
<1>5. Held => TextIntact
  BY DEF Held, HeldAt, TextIntact
<1>6. Spec /\ []Fits(Extents, MaxCollisions) => []SharersCompatible
  BY SharersCompatibleHolds
<1> HIDE DEF Inv
<1> QED BY <1>2, <1>3, <1>4, <1>5, <1>6, FixedIsInvariant, PTL DEF Spec

\* So too without a word on the table of collisions, where it has a row for each.
COROLLARY FewTextIntact ==
  ASSUME HostConfigures # "again", Undisturbed, ExportsApart,
         Cardinality(Rows) <= MaxCollisions
  PROVE  Spec => []TextIntact
<1>1. TypeInv => Fits(Extents, MaxCollisions)
  BY FewRowsFit
<1>2. Spec /\ []Fits(Extents, MaxCollisions) => []TextIntact
  BY TextIntactHolds
<1> QED BY <1>1, <1>2, TypeInvIsInvariant, PTL

-----------------------------------------------------------------------------
(* Other patchers' words.                                                       *)

\* The backend that looks before it writes: FunctionPatcher puts the loader's word back
\* whatever it finds.
DirectOnly == \A c \in Configs : c.backend = "direct"

\* No descriptor takes another patcher's word for the title's, or writes one.  An
\* export's word is whatever the first look finds.
ForeignApart ==
  \A d \in Descs :
    /\ ~d.external /\ d.expected \notin Foreign /\ d.code \notin Foreign
    /\ d.expected \in Words => Forms[d.expected] \cap Foreign = {}

OursOwn == \A i \in SiteRows : site[i].ours \notin Foreign

\* What is given back was ours until then.
LEMMA OursGivenBack ==
  ASSUME TypeInv, BackendFits, DirectOnly, OursOwn, NEW gone \in SUBSET SiteRows,
         \A i \in gone : Removable(site[i]), TextWithout(gone),
         NEW a \in Addrs, mem[a] \in Foreign, mem[a] = seen[a]
  PROVE  mem'[a] = mem[a]
<1>1. ready.backend # "fp"
  BY DEF BackendFits, DirectOnly
<1>2. \A i \in gone : seen[site[i].at] = site[i].ours
  BY <1>1 DEF Removable
<1>3. \A i \in gone : site[i].at # a
  BY <1>2 DEF OursOwn
<1>4. mem'[a] = IF \E i \in {j \in gone : Restored(j)} : site[i].at = a
                THEN Original(site[CHOOSE i \in {j \in gone : Restored(j)} : site[i].at = a])
                ELSE mem[a]
  BY DEF TextWithout
<1> QED BY <1>3, <1>4

\* What a guard lets through is not another patcher's.
LEMMA GuardedOwn ==
  ASSUME TypeInv, ForeignApart, NEW r \in Rows, ApplyOne(r), NEW i \in SiteRows,
         Serving(site'[i], row[r].desc), InstalledNow(r, i, site'[i])
  PROVE  seen[site'[i].at] \notin Foreign /\ InstalledWord(i, site'[i]) \notin Foreign
<1> DEFINE d == row[r].desc
           t == site'[i]
<1>1. d \in Descs /\ seen[t.at] \in Cells
  BY TurnOf DEF TypeInv, TypeOK, RowOK, InstalledNow
<1>2. Matches(seen[t.at], d.expected)
  BY <1>1 DEF InstalledNow, Serving, ForeignApart
<1>3. seen[t.at] \notin Foreign
  BY <1>1, <1>2 DEF Matches, ForeignApart
<1>4. t.shape = "rewrite" => t.code = d.code
  BY DEF Serving, Replacement
<1>5. InstalledWord(i, t) = d.code \/ InstalledWord(i, t) = Branch(i)
  BY <1>4 DEF InstalledWord
<1> QED BY <1>1, <1>3, <1>5, WordsAssumption DEF ForeignApart

\* What a slot takes for its own word is never another patcher's.
LEMMA OursOwnNext ==
  ASSUME HostConfigures # "again", ForeignApart
  PROVE  TypeInv /\ Recorded /\ OursOwn /\ [Next]_vars => OursOwn'
<1> SUFFICES ASSUME TypeInv, Recorded, OursOwn, [Next]_vars PROVE OursOwn'
  OBVIOUS
<1>1. CASE Forgotten
  <2>1. NoWord \notin Foreign
    BY WordsAssumption DEF Cells
  <2> QED BY <1>1, <2>1 DEF Forgotten, NewSite, OursOwn
<1>2. CASE \A i \in SiteRows : SameSlot(site[i], site'[i])
  BY <1>2 DEF OursOwn, SameSlot
<1>3. ASSUME NEW r \in Rows, ApplyOne(r), InstallsAt(r, Bound(row[r].desc)) PROVE OursOwn'
  <2>0. PICK i : i = Bound(row[r].desc)
    OBVIOUS
  <2>1. /\ i \in SiteRows /\ site' = [site EXCEPT ![i] = site'[i]]
        /\ Serving(site'[i], row[r].desc)
        /\ NotInstalledNow(r, site[i], site'[i]) \/ InstalledNow(r, i, site'[i])
    BY <1>3, <2>0 DEF InstallsAt
  <2>2. \A j \in SiteRows : j # i => site'[j] = site[j]
    BY <2>1 DEF TypeInv, TypeOK
  <2>3. site'[i].ours = site[i].ours \/ site'[i].ours \notin Foreign
    <3>1. CASE NotInstalledNow(r, site[i], site'[i])
      BY <3>1 DEF NotInstalledNow
    <3>2. CASE InstalledNow(r, i, site'[i])
      <4>1. InstalledWord(i, site'[i]) \notin Foreign
        BY <1>3, <2>1, <3>2, GuardedOwn
      <4>2. site'[i].ours = site[i].ours \/ site'[i].ours = InstalledWord(i, site'[i])
        BY <3>2 DEF InstalledNow
      <4> QED BY <4>1, <4>2
    <3> QED BY <2>1, <3>1, <3>2
  <2> QED BY <2>2, <2>3 DEF OursOwn
<1> QED BY <1>1, <1>2, <1>3, SlotStep

\* What a step does to a word of another patcher's that it has seen.
LEMMA ForeignStays ==
  ASSUME HostConfigures # "again", DirectOnly, ForeignApart,
         TypeInv, Recorded, BackendFits, OursOwn, [Next]_vars,
         NEW a \in Addrs, mem[a] \in Foreign, mem[a] = seen[a]
  PROVE  mem'[a] = mem[a] \/ NextProcess \/ ForeignWrite(a, mem'[a])
<1>1. CASE Quiet /\ UNCHANGED <<mem, entries>>
  BY <1>1
<1>2. ASSUME NEW b \in Addrs, NEW w \in Words, ForeignWrite(b, w)
      PROVE  mem'[a] = mem[a] \/ ForeignWrite(a, mem'[a])
  <2>1. mem' = [mem EXCEPT ![b] = w]
    BY <1>2 DEF ForeignWrite
  <2>2. mem'[a] = IF a = b THEN w ELSE mem[a]
    BY <2>1 DEF TypeInv, TypeOK
  <2> QED BY <1>2, <2>2
<1>3. ASSUME NEW gone \in SUBSET InstalledSites, CanRemove(gone), TextWithout(gone)
      PROVE  mem'[a] = mem[a]
  <2>1. gone \subseteq InstalledSites /\ gone \in SUBSET SiteRows
    BY DEF InstalledSites
  <2>2. \A i \in gone : Removable(site[i])
    BY <1>3, <2>1 DEF CanRemove
  <2> QED BY <1>3, <2>1, <2>2, OursGivenBack
<1>4. CASE Forgotten
  BY <1>3, <1>4 DEF Forgotten, ConfigureMoved
<1>5. ASSUME NEW gone \in SUBSET InstalledSites, RemoveAll(gone) PROVE mem'[a] = mem[a]
  BY <1>3, <1>5 DEF RemoveAll
<1>6. ASSUME NEW r \in Rows, TakesOut(r) PROVE mem'[a] = mem[a]
  <2>0. PICK i : i = row[r].site
    OBVIOUS
  <2>1. i \in InstalledSites /\ (UNCHANGED mem \/ SiteRemoved(i, site[i], site'[i]))
    BY <1>6, <2>0, RemoveEffect DEF TakesOut
  <2>2. UNCHANGED mem \/ (Removable(site[i]) /\ TextWithout({i}))
    BY <2>1 DEF SiteRemoved
  <2>3. {i} \in SUBSET SiteRows
    BY <2>1 DEF InstalledSites
  <2> QED BY <2>2, <2>3, OursGivenBack
<1>7. ASSUME NEW r \in Rows, ApplyOne(r) PROVE mem'[a] = mem[a]
  <2>0. PICK i : i = Bound(row[r].desc)
    OBVIOUS
  <2>1. UNCHANGED mem \/ InstallsAt(r, i)
    BY <1>7, <2>0, ApplyEffect
  <2>2. CASE InstallsAt(r, i)
    <3>1. /\ i \in SiteRows /\ Serving(site'[i], row[r].desc)
          /\ UNCHANGED mem \/ InstalledNow(r, i, site'[i])
      BY <2>2 DEF InstallsAt, NotInstalledNow
    <3>2. ASSUME InstalledNow(r, i, site'[i]) PROVE mem'[a] = mem[a]
      <4>1. seen[site'[i].at] \notin Foreign
        BY <1>7, <3>1, <3>2, GuardedOwn
      <4>2. /\ mem' = [mem EXCEPT ![site'[i].at] = InstalledWord(i, site'[i])]
            /\ site'[i].at # a
        BY <3>2, <4>1 DEF InstalledNow
      <4> QED BY <4>2 DEF TypeInv, TypeOK
    <3> QED BY <3>1, <3>2
  <2> QED BY <2>1, <2>2
<1> QED BY <1>1, <1>2, <1>4, <1>5, <1>6, <1>7, StepEffect

\* Neither an install nor a removal, of one patch or of all of them, writes over a word
\* that another patcher has put into the text before the step looked at it; one that comes
\* between the look and the store of the very step may be lost, and no other.
THEOREM ForeignKeptHolds ==
  ASSUME HostConfigures # "again", DirectOnly, ForeignApart
  PROVE  Spec => ForeignKept
<1> DEFINE Inv == BackendFits /\ OursOwn
           Kept == \A a \in Addrs : mem[a] \in Foreign /\ mem'[a] # mem[a] =>
                     NextProcess \/ ForeignWrite(a, mem'[a]) \/ mem[a] # seen[a]
<1>1. Init => Inv
  <2>1. NoWord \notin Foreign
    BY WordsAssumption DEF Cells
  <2> QED BY <2>1 DEF Init, NewSite, NotReady, BackendFits, OursOwn
<1>2. TypeInv /\ Recorded /\ Inv /\ [Next]_vars => Inv'
  BY BackendFitsNext, OursOwnNext
<1>3. TypeInv /\ Recorded /\ Inv /\ [Next]_vars => [Kept]_vars
  BY ForeignStays
<1>4. Spec => [](TypeInv /\ Recorded)
  BY RecordedIsInvariant
<1> HIDE DEF Inv
<1> QED BY <1>1, <1>2, <1>3, <1>4, PTL DEF Spec, ForeignKept
=============================================================================
