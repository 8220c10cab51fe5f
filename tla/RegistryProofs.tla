--------------------------- MODULE RegistryProofs ----------------------------
(* For every set of rows, sites, descriptors and configurations, and whatever    *)
(* fails: the registry's state keeps its type, a Tick that fails part way leaves   *)
(* exactly the patches it found, and, of a host that does not call Configure again *)
(* with the deltas it gave, what the rows say and what the sites say agree.        *)
EXTENDS Registry, OverlapProofs

-----------------------------------------------------------------------------
(* The invariant.  A row that is not used is not applied either, an applied row   *)
(* has a site; a site that can be given back knows the word to put there; and a    *)
(* Tick past its collisions has been configured and has a backend.                *)

RowOK(x) ==
  /\ x \in RowRecords
  /\ x.used => x.desc \in Descs /\ ~x.retired
  /\ ~x.used => ~x.wanted /\ x.state # "applied" /\ ~x.shim
  /\ x.state = "applied" => x.site \in SiteRows

SiteOK(s) ==
  /\ s \in SiteRecords
  /\ s.ours # NoWord => s.saved \in Cells
  /\ s.committed => s.live \in Cells
  /\ s.handle => s.found \in Cells
  /\ s.shape = "rewrite" => s.code # NoWord

TickOK ==
  /\ tick.pc = "idle" => tick = NoTick
  /\ tick.pc # "idle" => cfg # NoConfig
  /\ tick.pc = "remove" => tick.batch = {}
  /\ tick.pc \in {"apply", "rollback"} => tick.code
  /\ tick.code => cfg.text /\ ready.text
  /\ ready.text => ready.checked /\ ready.backend # "none"

\* What is applied is what was when the rows' turns began, and the batch.
Batched ==
  tick.pc \in {"apply", "rollback"} =>
    Applied = tick.held \cup tick.batch /\ tick.held \cap tick.batch = {}

TypeInv ==
  /\ TypeOK
  /\ \A r \in Rows : RowOK(row[r])
  /\ \A i \in SiteRows : SiteOK(site[i])
  /\ TickOK
  /\ Batched

-----------------------------------------------------------------------------
(* Operators.                                                                  *)

\* The lowest of a set of naturals is one of them, and none is below it.
LEMMA LowestIn ==
  ASSUME NEW S, S \subseteq Nat, S # {}
  PROVE  Lowest(S) \in S /\ \A j \in S : Lowest(S) <= j
BY LeastNatural DEF Lowest

\* So with the highest of a finite set.
LEMMA HighestIn ==
  ASSUME NEW S, S \subseteq Nat, S # {}, IsFiniteSet(S)
  PROVE  Highest(S) \in S /\ \A j \in S : j <= Highest(S)
<1> DEFINE R == {p \in S \X S : p[1] < p[2]}
<1>1. \A x \in S : <<x, x>> \notin R
  OBVIOUS
<1>2. \A x, y, z \in S : <<x, y>> \in R /\ <<y, z>> \in R => <<x, z>> \in R
  OBVIOUS
<1>3. \A x, y \in S : <<x, y>> \in R <=> x < y
  OBVIOUS
<1> HIDE DEF R
<1>4. PICK x \in S : \A y \in S : <<x, y>> \notin R
  BY <1>1, <1>2, MaximalExists
<1>5. ASSUME NEW y \in S PROVE x >= y
  <2>1. ~(x < y)
    BY <1>3, <1>4
  <2> QED BY <2>1
<1> QED BY <1>5 DEF Highest

\* What a row binds to is a slot that serves it, or an unused one.
LEMMA BoundIn ==
  ASSUME NEW d, Bound(d) # 0
  PROVE  /\ Bound(d) \in SiteRows
         /\ Serves(site[Bound(d)], d) \/ ~site[Bound(d)].used
<1> DEFINE fitting == {i \in SiteRows : Serves(site[i], d)}
           unused  == {i \in SiteRows : ~site[i].used}
<1>1. SiteRows \subseteq Nat
  BY RowsAssumption
<1>2. Bound(d) = IF fitting # {} THEN Lowest(fitting)
                 ELSE IF unused # {} THEN Lowest(unused) ELSE 0
  BY DEF Bound
<1>3. CASE fitting # {}
  <2>1. Bound(d) \in fitting
    BY <1>1, <1>2, <1>3, LowestIn
  <2> QED BY <2>1
<1>4. CASE fitting = {}
  <2>1. Bound(d) \in unused
    BY <1>1, <1>2, <1>4, LowestIn
  <2> QED BY <2>1
<1> QED BY <1>3, <1>4

\* The extents Tick emits are those of rows, one word long.
LEMMA ExtentsAreOK ==
  ASSUME TypeInv
  PROVE  /\ ExtentsOK(Extents) /\ DOMAIN Extents \subseteq Contenders
         /\ \A r \in DOMAIN Extents :
              /\ Extents[r].segment = 0 /\ Extents[r].start = row[r].desc.addr
              /\ Extents[r].end = row[r].desc.addr + 1
              /\ Extents[r].applied = (row[r].state = "applied")
<1> DEFINE D == {k \in Contenders : Shares(k) => k = Representative(k)}
<1>1. /\ DOMAIN Extents = D /\ D \subseteq Contenders /\ D \subseteq Rows
      /\ \A r \in D : Extents[r] =
           [segment |-> 0, start |-> row[r].desc.addr, end |-> row[r].desc.addr + 1,
            applied |-> row[r].state = "applied"]
  BY DEF Extents, Contenders
<1> HIDE DEF D
<1>2. ASSUME NEW r \in D PROVE row[r].desc.addr \in Nat
  BY <1>1, <1>2, DescsAssumption DEF TypeInv, RowOK, Contenders
<1>3. IsFiniteSet(D)
  <2>1. IsFiniteSet(Rows)
    BY RowsAssumption
  <2> QED BY <1>1, <2>1, FS_Subset
<1>4. D \subseteq Int
  BY <1>1, RowsAssumption
<1>5. \A r \in D : /\ Extents[r].segment = 0 /\ Extents[r].start = row[r].desc.addr
                   /\ Extents[r].end = row[r].desc.addr + 1
                   /\ Extents[r].applied = (row[r].state = "applied")
  BY <1>1
<1>6. ExtentsOK(Extents)
  <2>1. \A r \in D : /\ Extents[r].segment \in Int /\ Extents[r].start \in Int
                     /\ Extents[r].end \in Int /\ Extents[r].start < Extents[r].end
    BY <1>2, <1>5
  <2> QED BY <1>1, <1>3, <1>4, <2>1 DEF ExtentsOK
<1> QED BY <1>1, <1>5, <1>6

\* Nobody who is applied is refused for a collision, and nobody without one: two
\* rows of one address are what a clash is.
LEMMA RefusedRows ==
  ASSUME TypeInv, NEW cap, NEW r \in Refused(Extents, cap)
  PROVE  /\ r \in Contenders /\ row[r].state # "applied"
         /\ \E k \in DOMAIN Extents \ {r} : row[k].desc.addr = row[r].desc.addr
         /\ r \in DOMAIN Extents
<1>1. /\ r \in DOMAIN Extents /\ ~Extents[r].applied
      /\ \E k \in DOMAIN Extents \ {r} : Clash(Extents[r], Extents[k])
  BY ExtentsAreOK, RefusedClash
<1>2. r \in Contenders /\ row[r].state # "applied"
  BY <1>1, ExtentsAreOK
<1>3. PICK k \in DOMAIN Extents \ {r} : Clash(Extents[r], Extents[k])
  BY <1>1
<1>4. \A m \in DOMAIN Extents : row[m].desc.addr \in Nat
  BY ExtentsAreOK, DescsAssumption DEF TypeInv, RowOK, Contenders
<1>5. row[k].desc.addr = row[r].desc.addr
  BY <1>1, <1>3, <1>4, ExtentsAreOK DEF Clash
<1> QED BY <1>1, <1>2, <1>5

-----------------------------------------------------------------------------
(* Giving sites back keeps the type.                                            *)

\* Whatever is put back is a word.
LEMMA TextWithoutTyped ==
  ASSUME TypeInv, NEW gone, gone \subseteq SiteRows,
         \A i \in gone : Removable(site[i]), TextWithout(gone)
  PROVE  mem' \in [Addrs -> Cells] /\ entries' \subseteq Addrs
<1> DEFINE undone == {i \in gone : Restored(i)}
<1>1. /\ mem' = [a \in Addrs |->
                   IF \E i \in undone : site[i].at = a
                   THEN Original(site[CHOOSE i \in undone : site[i].at = a])
                   ELSE mem[a]]
      /\ entries' \subseteq entries
  BY DEF TextWithout
<1>2. ASSUME NEW i \in undone, site[i].at \in Addrs PROVE Original(site[i]) \in Cells
  <2>1. SiteOK(site[i]) /\ Removable(site[i]) /\ Restored(i)
    BY <1>2 DEF TypeInv
  <2>2. CASE ready.backend = "direct"
    <3>1. seen[site[i].at] = site[i].ours
      BY <2>1, <2>2 DEF Removable
    <3>2. site[i].ours # NoWord
      BY <1>2, <3>1, WordsAssumption DEF TypeInv, TypeOK
    <3> QED BY <2>1, <2>2, <3>2 DEF SiteOK, Original
  <2>3. CASE ready.backend # "direct"
    BY <2>1, <2>3 DEF SiteOK, Original, Restored
  <2> QED BY <2>2, <2>3
<1> HIDE DEF undone
<1>3. ASSUME NEW a \in Addrs, \E i \in undone : site[i].at = a
      PROVE  Original(site[CHOOSE i \in undone : site[i].at = a]) \in Cells
  BY <1>2, <1>3
<1>4. mem \in [Addrs -> Cells] /\ entries \subseteq Addrs
  BY DEF TypeInv, TypeOK
<1> QED BY <1>1, <1>3, <1>4

\* A site is still well formed without some of its links, given back or kept back.
LEMMA LinksTyped ==
  ASSUME NEW s, SiteOK(s), NEW L \in SUBSET Rows
  PROVE  SiteOK([s EXCEPT !.links = L])
BY DEF SiteOK, SiteRecords

\* removeOrphan leaves a slot a slot, whether the word was given back or not.
LEMMA BackTyped ==
  ASSUME NEW s, SiteOK(s)
  PROVE  /\ SiteOK(GivenBack(s)) /\ SiteOK(KeptBack(s))
         /\ SiteOK([GivenBack(s) EXCEPT !.links = {}])
         /\ SiteOK([KeptBack(s) EXCEPT !.links = {}])
<1>1. SiteOK(GivenBack(s))
  <2>1. GivenBack(s) \in SiteRecords
    <3>1. [s EXCEPT !.state = "declared", !.handle = FALSE] \in SiteRecords
          /\ [s EXCEPT !.state = "declared", !.handle = s.handle] \in SiteRecords
      BY DEF SiteOK, SiteRecords, States
    <3> QED BY <3>1 DEF GivenBack
  <2>2. /\ GivenBack(s).ours = s.ours /\ GivenBack(s).saved = s.saved /\ GivenBack(s).found = s.found
        /\ GivenBack(s).handle => s.handle
        /\ GivenBack(s).committed = s.committed /\ GivenBack(s).live = s.live
        /\ GivenBack(s).shape = s.shape /\ GivenBack(s).code = s.code
    BY DEF SiteOK, SiteRecords, GivenBack
  <2> QED BY <2>1, <2>2 DEF SiteOK
<1>2. SiteOK(KeptBack(s))
  BY DEF SiteOK, SiteRecords, KeptBack, States
<1> QED BY <1>1, <1>2, LinksTyped

\* removeLink: the row is no longer applied, and nothing else of the rows changes.
LEMMA RemoveLinkTyped ==
  ASSUME TypeInv, NEW r \in Rows, row[r].state = "applied", RemoveLink(r)
  PROVE  /\ \E state \in {"declared", "failed"} : row' = [row EXCEPT ![r].state = state]
         /\ \E s : site' = [site EXCEPT ![row[r].site] = s] /\ SiteOK(s)
         /\ row[r].site \in SiteRows
         /\ mem' \in [Addrs -> Cells] /\ entries' \subseteq Addrs
<1> DEFINE i == row[r].site
           s == [site[i] EXCEPT !.links = site[i].links \ {r}]
<1>1. i \in SiteRows
  BY DEF TypeInv, RowOK
<1>2. SiteOK(s) /\ SiteOK(GivenBack(s)) /\ SiteOK(KeptBack(s))
  <2>1. site[i].links \ {r} \in SUBSET Rows
    BY <1>1 DEF TypeInv, SiteOK, SiteRecords
  <2> QED BY <1>1, <2>1, LinksTyped, BackTyped DEF TypeInv
<1>3. mem \in [Addrs -> Cells] /\ entries \subseteq Addrs
  BY DEF TypeInv, TypeOK
<1>4. ASSUME Removable(s), TextWithout({i})
      PROVE  mem' \in [Addrs -> Cells] /\ entries' \subseteq Addrs
  <2>1. Removable(site[i])
    BY <1>1, <1>4 DEF Removable, TypeInv, SiteOK, SiteRecords
  <2> QED BY <1>1, <1>4, <2>1, TextWithoutTyped
<1>5. \/ /\ row' = [row EXCEPT ![r].state = "declared"]
         /\ site' = [site EXCEPT ![i] = s]
         /\ UNCHANGED text
      \/ /\ Removable(s)
         /\ row' = [row EXCEPT ![r].state = "declared"]
         /\ site' = [site EXCEPT ![i] = GivenBack(s)]
         /\ TextWithout({i})
      \/ /\ row' = [row EXCEPT ![r].state = "failed"]
         /\ site' = [site EXCEPT ![i] = KeptBack(s)]
         /\ UNCHANGED text
  BY DEF RemoveLink
<1> HIDE DEF i, s
<1> QED BY <1>1, <1>2, <1>3, <1>4, <1>5 DEF text, i

-----------------------------------------------------------------------------
(* A row's turn keeps the type.                                                 *)

\* A slot that is taken into use for what a row displaces.
Taken(addr, external, shape, code, expected) ==
  [NewSite EXCEPT !.used = TRUE, !.addr = addr, !.external = external,
     !.shape = shape, !.code = code, !.expected = expected]

\* Such a slot is a slot, of that address and shape, with nothing built in it.
LEMMA SlotTaken ==
  ASSUME NEW addr \in Nat, NEW external \in BOOLEAN, NEW shape \in Shapes,
         NEW code \in Words \cup {NoWord}, NEW expected \in Words \cup {NoWord},
         shape = "rewrite" => code # NoWord
  PROVE  LET n == Taken(addr, external, shape, code, expected)
         IN  SiteOK(n) /\ n.used /\ n.addr = addr /\ n.external = external /\ n.shape = shape
             /\ ~n.committed
<1> DEFINE n == Taken(addr, external, shape, code, expected)
<1>1. /\ n.used /\ n.addr = addr /\ n.external = external /\ n.shape = shape
      /\ ~n.committed /\ ~n.handle /\ n.ours = NoWord /\ n.code = code
  BY DEF NewSite, Taken
<1>2. NewSite \in SiteRecords
  BY DEF NewSite, SiteRecords, States, Shapes
<1>3. expected \in Cells \cup {NoWord}
  BY DEF Cells
<1>4. n \in SiteRecords
  BY <1>2, <1>3 DEF SiteRecords, Taken
<1> HIDE DEF n
<1>5. SiteOK(n)
  BY <1>1, <1>4 DEF SiteOK
<1> QED BY <1>1, <1>5 DEF n

\* bindSite: the slot a row binds to is of its address and shape.
LEMMA BoundSiteTyped ==
  ASSUME TypeInv, NEW d \in Descs, Bound(d) # 0
  PROVE  LET b == BoundSite(d)
         IN  /\ SiteOK(b)
             /\ b.used /\ b.addr = d.addr /\ b.external = d.external /\ b.shape = d.shape
             /\ b.committed => b.code = Replacement(d)
<1> DEFINE s == site[Bound(d)]
<1>1. SiteOK(s) /\ (Serves(s, d) \/ ~s.used)
  BY BoundIn DEF TypeInv
<1>2. d \in [addr : Nat, expected : Words \cup {NoWord}, shape : Shapes,
             code : Words, exclusive : BOOLEAN, external : BOOLEAN]
  BY DescsAssumption
<1>3. d.code # NoWord /\ Replacement(d) \in Words \cup {NoWord}
      /\ (d.shape = "rewrite" => Replacement(d) # NoWord)
  BY <1>2, WordsAssumption DEF Cells, Replacement
<1> DEFINE c == Replacement(d)
<1>4. BoundSite(d) = IF ~s.used
      THEN [NewSite EXCEPT !.used = TRUE, !.addr = d.addr, !.external = d.external,
              !.shape = d.shape, !.code = c, !.expected = d.expected]
      ELSE IF Vacant(s) THEN [s EXCEPT !.shape = d.shape, !.code = c]
      ELSE s
  BY DEF BoundSite
<1> HIDE DEF s, c
<1>5. d.addr \in Nat /\ d.expected \in Words \cup {NoWord} /\ d.shape \in Shapes
      /\ d.external \in BOOLEAN
  BY <1>2
<1> SUFFICES /\ SiteOK(BoundSite(d))
             /\ BoundSite(d).used /\ BoundSite(d).addr = d.addr
             /\ BoundSite(d).external = d.external /\ BoundSite(d).shape = d.shape
             /\ BoundSite(d).committed => BoundSite(d).code = c
  BY DEF c
<1>6. CASE ~s.used
  <2> DEFINE n == Taken(d.addr, d.external, d.shape, c, d.expected)
  <2>1. BoundSite(d) = n
    BY <1>4, <1>6 DEF Taken
  <2>2. c \in Words \cup {NoWord} /\ (d.shape = "rewrite" => c # NoWord)
    BY <1>3 DEF c
  <2>3. SiteOK(n) /\ n.used /\ n.addr = d.addr /\ n.external = d.external /\ n.shape = d.shape
        /\ ~n.committed
    BY <1>5, <2>2, SlotTaken
  <2> HIDE DEF n
  <2> QED BY <2>1, <2>3
<1>7. CASE s.used /\ Vacant(s)
  <2>1. BoundSite(d) = [s EXCEPT !.shape = d.shape, !.code = c]
    BY <1>4, <1>7
  <2>2. c \in Words \cup {NoWord} /\ (d.shape = "rewrite" => c # NoWord)
    BY <1>3 DEF c
  <2>3. s.addr = d.addr /\ s.external = d.external /\ ~s.committed
    BY <1>1, <1>7 DEF Serves, Vacant
  <2>4. SiteOK([s EXCEPT !.shape = d.shape, !.code = c])
    BY <1>1, <1>5, <2>2 DEF SiteOK, SiteRecords
  <2> QED BY <1>1, <1>7, <2>1, <2>3, <2>4 DEF SiteOK, SiteRecords
<1>8. CASE s.used /\ ~Vacant(s)
  BY <1>1, <1>4, <1>8 DEF Serves, c
<1> QED BY <1>6, <1>7, <1>8

\* GuardSite: it is a site of this configuration.
LEMMA GuardTyped ==
  ASSUME TypeInv, cfg # NoConfig, NEW r \in Rows, row[r].used, Installs(r)
  PROVE  /\ SiteOK(Guard(r)) /\ Guard(r).used /\ Guard(r).shape = row[r].desc.shape
         /\ Guard(r).addr = row[r].desc.addr /\ Guard(r).external = row[r].desc.external
         /\ Guard(r).state # "applied"
         /\ Guard(r).committed => Guard(r).code = Replacement(row[r].desc)
<1> DEFINE d == row[r].desc
           b == BoundSite(d)
<1>1. d \in Descs /\ Bound(d) # 0 /\ b.state # "applied"
  BY DEF TypeInv, RowOK, Installs
<1>2. d \in [addr : Nat, expected : Words \cup {NoWord}, shape : Shapes,
             code : Words, exclusive : BOOLEAN, external : BOOLEAN]
  BY <1>1, DescsAssumption
<1>3. /\ SiteOK(b) /\ b.used /\ b.addr = d.addr /\ b.external = d.external /\ b.shape = d.shape
      /\ b.committed => b.code = Replacement(d)
  BY <1>1, BoundSiteTyped
<1>4. cfg.delta \in Nat /\ seen \in [Addrs -> Cells]
  BY ConfigsAssumption DEF TypeInv, TypeOK
<1> DEFINE e == IF ~d.external THEN d.expected
                ELSE IF RuntimeAddr(b) \in Addrs THEN seen[RuntimeAddr(b)] ELSE NoWord
<1>5. Guard(r) = [b EXCEPT !.at = RuntimeAddr(b), !.expected = e]
  BY DEF Guard, Guarded
<1>6. RuntimeAddr(b) \in Nat
  BY <1>3, <1>4 DEF RuntimeAddr, SiteOK, SiteRecords
<1>7. e \in Cells \cup {NoWord}
  BY <1>2, <1>4 DEF Cells
<1> HIDE DEF b, e, d
<1>8. /\ SiteOK(Guard(r)) /\ Guard(r).used /\ Guard(r).shape = b.shape
      /\ Guard(r).addr = b.addr /\ Guard(r).external = b.external
      /\ Guard(r).state = b.state /\ Guard(r).committed = b.committed
      /\ Guard(r).code = b.code
  BY <1>3, <1>5, <1>6, <1>7 DEF SiteOK, SiteRecords
<1> QED BY <1>1, <1>3, <1>8 DEF d

\* PrepareSite keeps the word the guard has seen.
LEMMA PreparedTyped ==
  ASSUME TypeInv, NEW g, SiteOK(g), GuardPasses(g)
  PROVE  /\ SiteOK(Prepared(g)) /\ Prepared(g).live \in Cells
         /\ Prepared(g).at = g.at /\ g.at \in Addrs
         /\ SiteOK([g EXCEPT !.state = "failed", !.live = Prepared(g).live])
<1>1. g.at \in Addrs /\ seen[g.at] \in Cells
  BY DEF GuardPasses, TypeInv, TypeOK
<1>2. SiteOK(Prepared(g)) /\ Prepared(g).live = seen[g.at] /\ Prepared(g).at = g.at
  BY <1>1 DEF Prepared, SiteOK, SiteRecords
<1>3. SiteOK([g EXCEPT !.state = "failed", !.live = seen[g.at]])
  BY <1>1 DEF SiteOK, SiteRecords, States
<1> QED BY <1>1, <1>2, <1>3

\* What is installed is a word of the text, and the site knows what was there.
LEMMA InstalledTyped ==
  ASSUME TypeInv, ready.backend # "none", NEW i \in SiteRows, NEW r \in Rows,
         NEW s, SiteOK(s), s.live \in Cells, s.at \in Addrs
  PROVE  /\ InstalledWord(i, s) \in Cells
         /\ SiteOK(Installed(i, Linked(r, s)))
         /\ SiteOK(NotInstalled(r, s))
<1>1. InstalledWord(i, s) \in Cells
  BY DEF InstalledWord, SiteOK, SiteRecords, Cells
<1> DEFINE l == Linked(r, s)
<1>2. SiteOK(l) /\ l.live = s.live /\ l.shape = s.shape /\ l.code = s.code /\ l.at = s.at
  BY DEF Linked, SiteOK, SiteRecords
<1>0. mem[l.at] \in Cells
  BY <1>2 DEF TypeInv, TypeOK
<1>3. InstalledWord(i, l) = InstalledWord(i, s)
  BY <1>2 DEF InstalledWord
<1> HIDE DEF l
<1>4. SiteOK([l EXCEPT !.state = "applied", !.handle = TRUE, !.found = mem[l.at]])
  <2> DEFINE t == [l EXCEPT !.state = "applied", !.handle = TRUE, !.found = mem[l.at]]
  <2>1. t \in SiteRecords
    BY <1>0, <1>2 DEF SiteOK, SiteRecords, States
  <2>2. /\ t.live = l.live /\ t.ours = l.ours /\ t.saved = l.saved /\ t.found \in Cells
        /\ t.shape = l.shape /\ t.code = l.code /\ t.committed = l.committed
    BY <1>0, <1>2 DEF SiteOK, SiteRecords
  <2> HIDE DEF t
  <2>3. SiteOK(t)
    BY <1>2, <2>1, <2>2 DEF SiteOK
  <2> QED BY <2>3 DEF t
<1>5. SiteOK([l EXCEPT !.state = "applied", !.saved = l.live, !.ours = InstalledWord(i, l)])
  <2> DEFINE t == [l EXCEPT !.state = "applied", !.saved = l.live, !.ours = InstalledWord(i, l)]
  <2>1. t \in SiteRecords
    BY <1>1, <1>2, <1>3 DEF SiteOK, SiteRecords, States
  <2>2. /\ t.live = l.live /\ t.saved = l.live /\ t.found = l.found /\ t.handle = l.handle
        /\ t.shape = l.shape /\ t.code = l.code /\ t.committed = l.committed
    BY <1>2 DEF SiteOK, SiteRecords
  <2> HIDE DEF t
  <2>3. SiteOK(t)
    BY <1>2, <2>1, <2>2 DEF SiteOK
  <2> QED BY <2>3 DEF t
<1>6. SiteOK(Installed(i, l))
  BY <1>4, <1>5 DEF Installed
<1>7. SiteOK(NotInstalled(r, s))
  BY DEF NotInstalled, SiteOK, SiteRecords, States
<1> QED BY <1>1, <1>6, <1>7 DEF l

\* The end of a turn: a row that was waiting has the state the turn gave it, and no
\* other row has changed.
LEMMA TurnTyped ==
  ASSUME TypeInv, NEW r \in Rows, Waiting(r),
         NEW state \in States, NEW wait \in 0..RetryTicks, NEW shim \in BOOLEAN,
         Turn(r, state, wait, shim), state = "applied" => Bound(row[r].desc) # 0
  PROVE  /\ row' \in [Rows -> RowRecords] /\ \A k \in Rows : RowOK(row'[k])
         /\ Applied' = IF state = "applied" THEN Applied \cup {r} ELSE Applied
         /\ row' = [row EXCEPT ![r] = row'[r]]
         /\ row'[r].used /\ row'[r].desc = row[r].desc /\ row'[r].wanted = row[r].wanted
         /\ row'[r].state = state /\ row'[r].wait = wait /\ row'[r].shim = shim
         /\ row'[r].site = IF Bound(row[r].desc) = 0 THEN row[r].site ELSE Bound(row[r].desc)
         /\ UNCHANGED <<cfg, ready, dirty, clock>>
<1> DEFINE b == IF Bound(row[r].desc) = 0 THEN row[r].site ELSE Bound(row[r].desc)
           x == [row[r] EXCEPT !.state = state, !.wait = wait, !.shim = shim, !.site = b]
<1>1. RowOK(row[r]) /\ row \in [Rows -> RowRecords]
  BY DEF TypeInv, TypeOK
<1>2. b \in SiteRows \cup {0} /\ (state = "applied" => b \in SiteRows)
  BY <1>1, BoundIn DEF RowOK, RowRecords
<1>3. row' = [row EXCEPT ![r] = x] /\ UNCHANGED <<cfg, ready, dirty, clock>>
  BY <1>1 DEF Turn
<1>4. row[r].used /\ row[r].state # "applied"
  BY DEF Waiting
<1> HIDE DEF b
<1>5. x \in RowRecords
  BY <1>1, <1>2 DEF RowOK, RowRecords
<1>6. /\ x.used = row[r].used /\ x.desc = row[r].desc /\ x.wanted = row[r].wanted
      /\ x.retired = row[r].retired
      /\ x.state = state /\ x.wait = wait /\ x.shim = shim /\ x.site = b
  BY <1>1 DEF RowOK, RowRecords
<1> HIDE DEF x
<1>7. RowOK(x)
  BY <1>1, <1>2, <1>4, <1>5, <1>6 DEF RowOK
<1>8. \A k \in Rows : row'[k] = IF k = r THEN x ELSE row[k]
  BY <1>1, <1>3
<1>9. Applied' = IF state = "applied" THEN Applied \cup {r} ELSE Applied
  BY <1>4, <1>6, <1>8 DEF Applied
<1>10. row' \in [Rows -> RowRecords] /\ \A k \in Rows : RowOK(row'[k])
  BY <1>1, <1>3, <1>5, <1>7, <1>8 DEF TypeInv
<1> QED BY <1>3, <1>4, <1>6, <1>8, <1>9, <1>10 DEF b

\* Where the row and its site end up well formed, and the batch has what was applied,
\* the invariant holds after the turn.
LEMMA TurnKeepsTypeInv ==
  ASSUME TypeInv, LookAnew, tick.pc = "apply", NEW r \in Rows, Waiting(r),
         NEW state \in States, NEW wait \in 0..RetryTicks, NEW shim \in BOOLEAN,
         Turn(r, state, wait, shim), state = "applied" => Bound(row[r].desc) # 0,
         \/ UNCHANGED site
         \/ \E i \in SiteRows : \E s : SiteOK(s) /\ site' = [site EXCEPT ![i] = s],
         mem' \in [Addrs -> Cells], entries' \subseteq Addrs,
         IF state = "applied" THEN Batch(r) ELSE Continue(r) \/ Abort(r)
  PROVE  TypeInv'
<1>1. /\ row' \in [Rows -> RowRecords] /\ \A k \in Rows : RowOK(row'[k])
      /\ Applied' = IF state = "applied" THEN Applied \cup {r} ELSE Applied
      /\ UNCHANGED <<cfg, ready, dirty, clock>>
  BY TurnTyped
<1>2. site' \in [SiteRows -> SiteRecords] /\ \A i \in SiteRows : SiteOK(site'[i])
  <2>1. site \in [SiteRows -> SiteRecords] /\ \A i \in SiteRows : SiteOK(site[i])
    BY DEF TypeInv, TypeOK
  <2>2. CASE UNCHANGED site
    BY <2>1, <2>2
  <2>3. ASSUME NEW i \in SiteRows, NEW s, SiteOK(s), site' = [site EXCEPT ![i] = s]
        PROVE  site' \in [SiteRows -> SiteRecords] /\ \A j \in SiteRows : SiteOK(site'[j])
    <3>1. s \in SiteRecords
      BY <2>3 DEF SiteOK
    <3>2. \A j \in SiteRows : site'[j] = IF j = i THEN s ELSE site[j]
      BY <2>1, <2>3
    <3> QED BY <2>1, <2>3, <3>1, <3>2
  <2> QED BY <2>2, <2>3
<1>3. /\ tick' \in [pc : {"idle", "remove", "apply", "rollback"}, at : Rows \cup {0},
                    batch : SUBSET Rows, held : SUBSET Rows, code : BOOLEAN]
      /\ tick'.pc \in {"apply", "rollback"} /\ tick'.code = tick.code /\ tick'.held = tick.held
      /\ tick'.batch = IF state = "applied" THEN tick.batch \cup {r} ELSE tick.batch
  <2>1. tick \in [pc : {"idle", "remove", "apply", "rollback"}, at : Rows \cup {0},
                  batch : SUBSET Rows, held : SUBSET Rows, code : BOOLEAN]
    BY DEF TypeInv, TypeOK
  <2>2. CASE state = "applied" /\ Batch(r)
    BY <2>1, <2>2 DEF Batch
  <2>3. CASE state # "applied" /\ Continue(r)
    BY <2>1, <2>3 DEF Continue
  <2>4. CASE state # "applied" /\ Abort(r)
    BY <2>1, <2>4 DEF Abort
  <2> QED BY <2>2, <2>3, <2>4
<1>4. TypeOK'
  BY <1>1, <1>2, <1>3 DEF TypeInv, TypeOK, LookAnew
<1>5. TickOK'
  BY <1>1, <1>3 DEF TypeInv, TickOK
<1>6. r \notin Applied
  BY DEF Applied, Waiting
<1>7. Batched'
  <2>1. Applied = tick.held \cup tick.batch /\ tick.held \cap tick.batch = {}
    BY DEF TypeInv, Batched
  <2>2. CASE state = "applied"
    BY <1>1, <1>3, <1>6, <2>1, <2>2 DEF Batched
  <2>3. CASE state # "applied"
    BY <1>1, <1>3, <2>1, <2>3 DEF Batched
  <2> QED BY <2>2, <2>3
<1> QED BY <1>1, <1>2, <1>4, <1>5, <1>7 DEF TypeInv

\* A row whose turn comes installs, joins or goes away with a reason: each keeps the
\* type, and what it applies is in the batch.
LEMMA ApplyOneTyped ==
  ASSUME TypeInv, LookAnew, NEW r \in Rows, ApplyOne(r)
  PROVE  TypeInv'
<1> DEFINE d == row[r].desc
           i == Bound(d)
<1>1. Waiting(r) /\ tick.pc = "apply" /\ row[r].used
  BY DEF ApplyOne, Todo, Waiting
<1>2. /\ cfg # NoConfig /\ ready.backend # "none"
      /\ RowOK(row[r]) /\ row[r].shim \in BOOLEAN /\ row[r].wait \in 0..RetryTicks
      /\ mem \in [Addrs -> Cells] /\ entries \subseteq Addrs
  BY <1>1 DEF TypeInv, TypeOK, TickOK, RowOK, RowRecords
<1>3. /\ 0 \in 0..RetryTicks /\ RetryTicks \in 0..RetryTicks
      /\ {"failed", "collided", "refused", "applied"} \subseteq States
  BY BoundsAssumption DEF States
<1>4. i # 0 => i \in SiteRows /\ SiteOK(site[i])
  BY BoundIn DEF TypeInv
<1>5. CASE ApplyUnbound(r)
  <2>1. Turn(r, "failed", 0, row[r].shim) /\ Continue(r) /\ UNCHANGED <<site, text>>
    BY <1>5 DEF ApplyUnbound
  <2> QED BY <1>1, <1>2, <1>3, <2>1, TurnKeepsTypeInv DEF text
<1>6. CASE JoinRefused(r)
  <2>1. /\ \/ Turn(r, "collided", row[r].wait, row[r].shim)
           \/ Turn(r, "collided", RetryTicks, row[r].shim)
           \/ Turn(r, "refused", RetryTicks, row[r].shim)
        /\ Continue(r) /\ UNCHANGED <<site, text>>
    BY <1>6 DEF JoinRefused
  <2> QED BY <1>1, <1>2, <1>3, <2>1, TurnKeepsTypeInv DEF text
<1>7. CASE Join(r)
  <2> DEFINE s == [site[i] EXCEPT !.links = site[i].links \cup {r}]
  <2>1. /\ i # 0 /\ Turn(r, "applied", row[r].wait, TRUE) /\ Batch(r) /\ UNCHANGED text
        /\ site' = [site EXCEPT ![i].links = @ \cup {r}]
    BY <1>7 DEF Join, MayJoin
  <2>2. SiteOK(s) /\ site' = [site EXCEPT ![i] = s]
    BY <1>4, <2>1, LinksTyped DEF SiteOK, SiteRecords
  <2> HIDE DEF s
  <2> QED BY <1>1, <1>2, <1>3, <1>4, <2>1, <2>2, TurnKeepsTypeInv DEF text
<1>8. CASE JoinFails(r)
  <2>1. Turn(r, "failed", row[r].wait, FALSE) /\ Abort(r) /\ UNCHANGED <<site, text>>
    BY <1>8 DEF JoinFails
  <2> QED BY <1>1, <1>2, <1>3, <2>1, TurnKeepsTypeInv DEF text
<1>9. ASSUME Installs(r)
      PROVE  /\ SiteOK(Guard(r)) /\ SiteOK([Guard(r) EXCEPT !.state = "refused"])
             /\ i # 0 /\ i \in SiteRows
  <2>1. SiteOK(Guard(r))
    BY <1>1, <1>2, <1>9, GuardTyped
  <2>2. SiteOK([Guard(r) EXCEPT !.state = "refused"])
    BY <2>1 DEF SiteOK, SiteRecords, States
  <2> QED BY <1>4, <1>9, <2>1, <2>2 DEF Installs
<1>10. ASSUME Installs(r), GuardPasses(Guard(r))
       PROVE  LET s == Prepared(Guard(r))
              IN  /\ InstalledWord(i, s) \in Cells /\ s.at \in Addrs
                  /\ SiteOK(Installed(i, Linked(r, s))) /\ SiteOK(NotInstalled(r, s))
                  /\ SiteOK([Guard(r) EXCEPT !.state = "failed", !.live = s.live])
  BY <1>2, <1>9, <1>10, PreparedTyped, InstalledTyped
<1>11. CASE InstallRefused(r)
  <2>1. /\ Installs(r) /\ Turn(r, "refused", RetryTicks, row[r].shim) /\ Continue(r)
        /\ site' = [site EXCEPT ![i] = [Guard(r) EXCEPT !.state = "refused"]]
        /\ UNCHANGED text
    BY <1>11 DEF InstallRefused
  <2>2. \E j \in SiteRows : \E s : SiteOK(s) /\ site' = [site EXCEPT ![j] = s]
    BY <1>9, <2>1
  <2>3. /\ Turn(r, "refused", RetryTicks, row[r].shim) /\ Continue(r)
        /\ mem' \in [Addrs -> Cells] /\ entries' \subseteq Addrs
    BY <1>2, <2>1 DEF text
  <2> QED BY <1>1, <1>2, <1>3, <2>2, <2>3, TurnKeepsTypeInv
<1>12. CASE Install(r)
  <2> DEFINE s == Prepared(Guard(r))
             shim == row[r].shim \/ s.shape # "rewrite"
  <2>1. /\ Installs(r) /\ GuardPasses(Guard(r))
        /\ Turn(r, "applied", row[r].wait, shim)
        /\ Batch(r)
        /\ site' = [site EXCEPT ![i] = Installed(i, Linked(r, s))]
        /\ mem' = [mem EXCEPT ![s.at] = InstalledWord(i, s)]
        /\ entries' = EntriesWith(s)
    BY <1>12 DEF Install
  <2>2. \E j \in SiteRows : \E t : SiteOK(t) /\ site' = [site EXCEPT ![j] = t]
    BY <1>9, <1>10, <2>1
  <2>3. mem' \in [Addrs -> Cells] /\ entries' \subseteq Addrs
    BY <1>2, <1>10, <2>1 DEF EntriesWith
  <2>4. /\ shim \in BOOLEAN /\ Bound(row[r].desc) # 0
        /\ Turn(r, "applied", row[r].wait, shim) /\ Batch(r)
    BY <1>2, <1>9, <2>1
  <2> HIDE DEF s, shim
  <2> QED BY <1>1, <1>2, <1>3, <2>2, <2>3, <2>4, TurnKeepsTypeInv
<1>13. CASE InstallFails(r)
  <2> DEFINE s == Prepared(Guard(r))
             shim == row[r].shim \/ s.shape # "rewrite"
  <2>1. /\ Installs(r) /\ GuardPasses(Guard(r)) /\ Abort(r) /\ UNCHANGED text
        /\ \/ /\ Turn(r, "failed", row[r].wait, row[r].shim)
              /\ site' = [site EXCEPT ![i] = [Guard(r) EXCEPT !.state = "failed", !.live = s.live]]
           \/ /\ Turn(r, "failed", row[r].wait, FALSE)
              /\ site' = [site EXCEPT ![i] = NotInstalled(r, s)]
           \/ /\ Turn(r, "failed", row[r].wait, shim)
              /\ site' = [site EXCEPT ![i] = NotInstalled(r, s)]
    BY <1>13 DEF InstallFails
  <2>2. \E j \in SiteRows : \E t : SiteOK(t) /\ site' = [site EXCEPT ![j] = t]
    BY <1>9, <1>10, <2>1
  <2>3. shim \in BOOLEAN
    BY <1>2
  <2>4. \E w \in 0..RetryTicks, b \in BOOLEAN : Turn(r, "failed", w, b)
    BY <1>2, <2>1, <2>3
  <2> HIDE DEF s, shim
  <2> QED BY <1>1, <1>2, <1>3, <2>1, <2>2, <2>4, TurnKeepsTypeInv DEF text
<1> QED BY <1>5, <1>6, <1>7, <1>8, <1>11, <1>12, <1>13 DEF ApplyOne

-----------------------------------------------------------------------------
(* The host's calls keep the type.                                              *)

\* While no Tick is under way, it is rows, sites, readiness and text that a step of
\* the host has to keep well formed.
LEMMA IdleKeepsTypeInv ==
  ASSUME TypeInv, LookAnew, Idle, UNCHANGED <<clock, tick>>,
         row' \in [Rows -> RowRecords], \A r \in Rows : RowOK(row'[r]),
         site' \in [SiteRows -> SiteRecords], \A i \in SiteRows : SiteOK(site'[i]),
         cfg' \in Configs \cup {NoConfig}, ready' = ready \/ ready' = NotReady,
         dirty' \in BOOLEAN, mem' \in [Addrs -> Cells], entries' \subseteq Addrs
  PROVE  TypeInv'
<1>1. ready' \in [backend : {"none", "fp", "direct"}, checked : BOOLEAN, text : BOOLEAN]
  <2>1. NotReady \in [backend : {"none", "fp", "direct"}, checked : BOOLEAN, text : BOOLEAN]
    BY DEF NotReady
  <2>2. ready \in [backend : {"none", "fp", "direct"}, checked : BOOLEAN, text : BOOLEAN]
    BY DEF TypeInv, TypeOK
  <2> QED BY <2>1, <2>2
<1>2. TypeOK'
  BY <1>1 DEF TypeInv, TypeOK, LookAnew
<1>3. TickOK'
  <2>1. tick' = NoTick
    BY DEF TypeInv, TickOK, Idle
  <2>2. tick'.pc = "idle" /\ ~tick'.code
    BY <2>1 DEF NoTick
  <2>3. (ready' = ready \/ ~ready'.text) /\ (ready.text => ready.checked /\ ready.backend # "none")
    BY DEF TypeInv, TickOK, NotReady
  <2> QED BY <2>1, <2>2, <2>3 DEF TickOK
<1>4. Batched'
  BY DEF Batched, Idle
<1> QED BY <1>2, <1>3, <1>4 DEF TypeInv

\* A row the host changes stays well formed if the new row is.
LEMMA RowChanged ==
  ASSUME TypeInv, NEW r \in Rows, NEW x, RowOK(x), row' = [row EXCEPT ![r] = x]
  PROVE  row' \in [Rows -> RowRecords] /\ \A k \in Rows : RowOK(row'[k])
<1>1. row \in [Rows -> RowRecords] /\ \A k \in Rows : RowOK(row[k])
  BY DEF TypeInv, TypeOK
<1>2. x \in RowRecords
  BY DEF RowOK
<1>3. \A k \in Rows : row'[k] = IF k = r THEN x ELSE row[k]
  BY <1>1
<1> QED BY <1>1, <1>2, <1>3

\* A row that was never declared is well formed.
LEMMA NewRowOK ==
  ASSUME NEW d \in Descs, NEW wanted \in BOOLEAN, NEW retired \in BOOLEAN
  PROVE  /\ RowOK(NewRow)
         /\ RowOK([NewRow EXCEPT !.used = TRUE, !.desc = d])
         /\ RowOK([NewRow EXCEPT !.used = TRUE, !.desc = d, !.wanted = wanted])
         /\ RowOK([NewRow EXCEPT !.retired = retired])
<1>1. 0 \in 0..RetryTicks
  BY BoundsAssumption
<1> QED BY <1>1 DEF RowOK, RowRecords, NewRow, States

\* RemoveAll, and Configure and the start of a process, which forget what it leaves.
LEMMA RemoveAllTyped ==
  ASSUME TypeInv, LookAnew, NEW gone \in SUBSET InstalledSites, RemoveAll(gone)
  PROVE  TypeInv'
<1>1. /\ Idle /\ CanRemove(gone) /\ TextWithout(gone)
      /\ UNCHANGED <<cfg, ready, dirty, clock, tick>>
      /\ row' = [r \in Rows |->
               IF row[r].state = "applied" /\ row[r].site \in InstalledSites
               THEN [row[r] EXCEPT !.state = IF row[r].site \in gone THEN "declared" ELSE "failed"]
               ELSE row[r]]
      /\ site' = [i \in SiteRows |->
                IF i \in gone THEN [GivenBack(site[i]) EXCEPT !.links = {}]
                ELSE IF i \in InstalledSites THEN [KeptBack(site[i]) EXCEPT !.links = {}]
                ELSE site[i]]
  BY DEF RemoveAll
<1>2. gone \subseteq SiteRows /\ gone \subseteq InstalledSites
  BY DEF InstalledSites
<1>3. mem' \in [Addrs -> Cells] /\ entries' \subseteq Addrs
  BY <1>1, <1>2, TextWithoutTyped DEF CanRemove
<1>4. ASSUME NEW r \in Rows PROVE RowOK(row'[r])
  <2>1. RowOK(row[r])
    BY DEF TypeInv
  <2>2. \A state \in {"declared", "failed"} : RowOK([row[r] EXCEPT !.state = state])
    BY <2>1 DEF RowOK, RowRecords, States
  <2>3. row'[r] = row[r] \/ \E state \in {"declared", "failed"} : row'[r] = [row[r] EXCEPT !.state = state]
    BY <1>1
  <2> QED BY <2>1, <2>2, <2>3
<1>5. ASSUME NEW i \in SiteRows PROVE SiteOK(site'[i])
  <2>1. SiteOK(site[i])
    BY DEF TypeInv
  <2>2. SiteOK([GivenBack(site[i]) EXCEPT !.links = {}])
    BY <2>1, BackTyped
  <2>3. SiteOK([KeptBack(site[i]) EXCEPT !.links = {}])
    BY <2>1, BackTyped
  <2> QED BY <1>1, <2>1, <2>2, <2>3
<1>6. row' \in [Rows -> RowRecords] /\ site' \in [SiteRows -> SiteRecords]
  <2>1. row' = [r \in Rows |-> row'[r]] /\ site' = [i \in SiteRows |-> site'[i]]
    BY <1>1
  <2> QED BY <1>4, <1>5, <2>1 DEF RowOK, SiteOK
<1>7. cfg \in Configs \cup {NoConfig} /\ dirty \in BOOLEAN
  BY DEF TypeInv, TypeOK
<1> QED BY <1>1, <1>3, <1>4, <1>5, <1>6, <1>7, IdleKeepsTypeInv

\* forgetProcess leaves well-formed rows and sites.
LEMMA ForgetProcessTyped ==
  ASSUME TypeInv, NEW keepIntent \in BOOLEAN, ForgetProcess(keepIntent)
  PROVE  /\ row' \in [Rows -> RowRecords] /\ \A r \in Rows : RowOK(row'[r])
         /\ site' \in [SiteRows -> SiteRecords] /\ \A i \in SiteRows : SiteOK(site'[i])
         /\ ready' = NotReady /\ dirty' = TRUE
<1>1. /\ row' = [r \in Rows |->
               IF row[r].used
               THEN [NewRow EXCEPT !.used = TRUE, !.desc = row[r].desc,
                                   !.wanted = keepIntent /\ row[r].wanted]
               ELSE NewRow]
      /\ site' = [i \in SiteRows |-> NewSite]
      /\ ready' = NotReady /\ dirty' = TRUE
  BY DEF ForgetProcess
<1>2. ASSUME NEW r \in Rows PROVE RowOK(row'[r])
  <2>1. RowOK(row[r])
    BY DEF TypeInv
  <2>2. CASE ~row[r].used
    <3>1. RowOK(NewRow)
      BY BoundsAssumption DEF RowOK, RowRecords, NewRow, States
    <3> QED BY <1>1, <2>2, <3>1
  <2>3. CASE row[r].used
    <3> DEFINE wanted == keepIntent /\ row[r].wanted
    <3>1. wanted \in BOOLEAN /\ row[r].desc \in Descs
      BY <2>1, <2>3 DEF RowOK, RowRecords
    <3>2. row'[r] = [NewRow EXCEPT !.used = TRUE, !.desc = row[r].desc, !.wanted = wanted]
      BY <1>1, <2>3
    <3> HIDE DEF wanted
    <3> QED BY <3>1, <3>2, NewRowOK
  <2> QED BY <2>2, <2>3
<1>3. SiteOK(NewSite)
  BY DEF SiteOK, SiteRecords, NewSite, States, Shapes
<1>4. row' \in [Rows -> RowRecords] /\ site' \in [SiteRows -> SiteRecords]
  <2>1. row' = [r \in Rows |-> row'[r]]
    BY <1>1
  <2>2. site' \in [SiteRows -> SiteRecords]
    BY <1>1, <1>3 DEF SiteOK
  <2> QED BY <1>2, <2>1, <2>2 DEF RowOK
<1> QED BY <1>1, <1>2, <1>3, <1>4

\* Whatever the host calls.
LEMMA HostTyped ==
  ASSUME TypeInv, LookAnew, Host
  PROVE  TypeInv'
<1>1. /\ row \in [Rows -> RowRecords] /\ \A r \in Rows : RowOK(row[r])
      /\ site \in [SiteRows -> SiteRecords] /\ \A i \in SiteRows : SiteOK(site[i])
      /\ cfg \in Configs \cup {NoConfig} /\ dirty \in BOOLEAN
      /\ mem \in [Addrs -> Cells] /\ entries \subseteq Addrs
  BY DEF TypeInv, TypeOK
<1>2. ASSUME NEW d \in Descs, Declare(d) PROVE TypeInv'
  <2> DEFINE x == [NewRow EXCEPT !.used = TRUE, !.desc = d]
  <2>1. Lowest(FreeRows) \in Rows
    BY <1>2, LowestIn, RowsAssumption DEF Declare, FreeRows
  <2>2. RowOK(x)
    BY NewRowOK
  <2>3. /\ Idle /\ UNCHANGED <<site, cfg, ready, dirty, clock, tick, text>>
        /\ row' = [row EXCEPT ![Lowest(FreeRows)] = x]
    BY <1>2 DEF Declare
  <2> HIDE DEF x
  <2> QED BY <1>1, <2>1, <2>2, <2>3, RowChanged, IdleKeepsTypeInv DEF text
<1>3. ASSUME NEW r \in Rows, Undeclare(r) PROVE TypeInv'
  <2> DEFINE x == [NewRow EXCEPT !.retired = row[r].shim]
  <2>1. RowOK(x)
    <3>1. row[r].shim \in BOOLEAN /\ row[r].desc \in Descs
      BY <1>1, <1>3 DEF Undeclare, RowRecords, RowOK
    <3> QED BY <3>1, NewRowOK
  <2>2. /\ Idle /\ UNCHANGED <<site, cfg, ready, clock, tick, text>> /\ dirty' = TRUE
        /\ row' = [row EXCEPT ![r] = x]
    BY <1>3 DEF Undeclare
  <2> HIDE DEF x
  <2> QED BY <1>1, <2>1, <2>2, RowChanged, IdleKeepsTypeInv DEF text
<1>4. ASSUME NEW r \in Rows, NEW enabled \in BOOLEAN, SetEnabled(r, enabled) PROVE TypeInv'
  <2> DEFINE x == [row[r] EXCEPT !.wanted = enabled, !.wait = 0]
  <2>1. RowOK(x)
    <3>1. RowOK(row[r]) /\ 0 \in 0..RetryTicks /\ row[r].used
      BY <1>1, <1>4, BoundsAssumption DEF SetEnabled
    <3> QED BY <3>1 DEF RowOK, RowRecords
  <2>2. /\ Idle /\ UNCHANGED <<site, cfg, ready, clock, tick, text>> /\ dirty' = TRUE
        /\ row' = [row EXCEPT ![r] = x]
    BY <1>1, <1>4 DEF SetEnabled
  <2> HIDE DEF x
  <2> QED BY <1>1, <2>1, <2>2, RowChanged, IdleKeepsTypeInv DEF text
<1>5. ASSUME NEW c \in Configs, ConfigureSame(c) PROVE TypeInv'
  BY <1>1, <1>5, IdleKeepsTypeInv DEF ConfigureSame, text
<1>6. ASSUME NEW c \in Configs, NEW gone \in SUBSET InstalledSites, ConfigureMoved(c, gone)
      PROVE  TypeInv'
  <2>1. /\ Idle /\ CanRemove(gone) /\ TextWithout(gone) /\ ForgetProcess(TRUE)
        /\ cfg' = c /\ UNCHANGED <<clock, tick>>
    BY <1>6 DEF ConfigureMoved
  <2>2. mem' \in [Addrs -> Cells] /\ entries' \subseteq Addrs
    BY <2>1, TextWithoutTyped DEF CanRemove, InstalledSites
  <2>3. TRUE \in BOOLEAN /\ cfg' \in Configs \cup {NoConfig}
    BY <2>1
  <2> QED BY <2>1, <2>2, <2>3, ForgetProcessTyped, IdleKeepsTypeInv
<1>7. ASSUME NEW gone \in SUBSET InstalledSites, RemoveAll(gone) PROVE TypeInv'
  BY <1>7, RemoveAllTyped
<1>8. CASE NextProcess
  <2>1. /\ Idle /\ ForgetProcess(FALSE) /\ UNCHANGED <<cfg, clock, tick, entries>>
        /\ mem' = [a \in Addrs |-> IF a \in entries THEN mem[a] ELSE Text[a]]
    BY <1>8 DEF NextProcess
  <2>2. mem' \in [Addrs -> Cells]
    BY <1>1, <2>1, TextAssumption DEF Cells
  <2>3. FALSE \in BOOLEAN
    OBVIOUS
  <2> QED BY <1>1, <2>1, <2>2, <2>3, ForgetProcessTyped, IdleKeepsTypeInv
<1> QED BY <1>2, <1>3, <1>4, <1>5, <1>6, <1>7, <1>8 DEF Host

-----------------------------------------------------------------------------
(* So do the steps of a Tick.                                                    *)

\* Rows a tick nearer to their retry, and rows waiting that are blocked.
LEMMA AgedTyped ==
  ASSUME TypeInv
  PROVE  /\ Aged \in [Rows -> RowRecords]
         /\ \A r \in Rows :
              /\ RowOK(Aged[r]) /\ Aged[r].state = row[r].state
              /\ Waiting(r) => RowOK([Aged[r] EXCEPT !.state = "blocked"])
<1>1. ASSUME NEW r \in Rows
      PROVE  /\ RowOK(Aged[r]) /\ Aged[r].state = row[r].state
             /\ Waiting(r) => RowOK([Aged[r] EXCEPT !.state = "blocked"])
  <2> DEFINE wait == IF row[r].wait = 0 THEN 0 ELSE row[r].wait - 1
  <2>1. RowOK(row[r]) /\ row[r].wait \in 0..RetryTicks
    BY DEF TypeInv, RowOK, RowRecords
  <2>2. wait \in 0..RetryTicks
    BY <2>1, BoundsAssumption
  <2>3. Aged[r] = [row[r] EXCEPT !.wait = wait]
    BY <2>1 DEF Aged
  <2> HIDE DEF wait
  <2>4. RowOK(Aged[r]) /\ Aged[r].state = row[r].state
    BY <2>1, <2>2, <2>3 DEF RowOK, RowRecords
  <2>5. RowOK([Aged[r] EXCEPT !.state = "blocked"])
    BY <2>4 DEF RowOK, RowRecords, States
  <2> QED BY <2>4, <2>5
<1>2. Aged = [r \in Rows |-> Aged[r]]
  BY DEF Aged
<1>3. Aged \in [Rows -> RowRecords]
  BY <1>1, <1>2 DEF RowOK
<1> QED BY <1>1, <1>3

\* The retry clock goes round.
LEMMA ClockTyped ==
  ASSUME TypeInv
  PROVE  (clock + 1) % RetryTicks \in 0..(RetryTicks - 1)
<1>1. clock + 1 \in Nat /\ RetryTicks \in Nat \ {0}
  BY BoundsAssumption DEF TypeInv, TypeOK
<1> QED BY <1>1

\* A Tick that is blocked, has nothing to do or begins.
LEMMA TickBeginTyped ==
  ASSUME TypeInv, LookAnew, TickBegin
  PROVE  TypeInv'
<1>1. /\ row \in [Rows -> RowRecords] /\ \A r \in Rows : RowOK(row[r])
      /\ site \in [SiteRows -> SiteRecords] /\ \A i \in SiteRows : SiteOK(site[i])
      /\ cfg \in Configs \cup {NoConfig} /\ dirty \in BOOLEAN
      /\ ready \in [backend : {"none", "fp", "direct"}, checked : BOOLEAN, text : BOOLEAN]
      /\ mem \in [Addrs -> Cells] /\ entries \subseteq Addrs
      /\ tick \in [pc : {"idle", "remove", "apply", "rollback"}, at : Rows \cup {0},
                   batch : SUBSET Rows, held : SUBSET Rows, code : BOOLEAN]
  BY DEF TypeInv, TypeOK
<1>2. CASE TickBlocked
  <2>1. /\ Idle /\ clock' = (clock + 1) % RetryTicks
        /\ row' = [r \in Rows |-> IF Waiting(r) THEN [Aged[r] EXCEPT !.state = "blocked"] ELSE Aged[r]]
        /\ UNCHANGED <<site, cfg, ready, dirty, tick, text>>
    BY <1>2 DEF TickBlocked
  <2>2. \A r \in Rows : RowOK(row'[r])
    BY <2>1, AgedTyped
  <2>3. row' \in [Rows -> RowRecords]
    <3>1. row' = [r \in Rows |-> row'[r]]
      BY <2>1
    <3> QED BY <2>2, <3>1 DEF RowOK
  <2>4. TypeOK'
    BY <1>1, <2>1, <2>3, ClockTyped DEF TypeOK, LookAnew, text
  <2>5. TickOK' /\ Batched'
    BY <2>1 DEF TypeInv, TickOK, Batched, Idle
  <2> QED BY <1>1, <2>1, <2>2, <2>4, <2>5 DEF TypeInv
<1>3. ASSUME NEW dataDirty, TickQuietIf(dataDirty) PROVE TypeInv'
  <2>1. /\ Idle /\ clock' = (clock + 1) % RetryTicks /\ row' = Aged
        /\ UNCHANGED <<site, cfg, ready, dirty, tick, text>>
    BY <1>3 DEF TickQuietIf
  <2>2. TypeOK'
    BY <1>1, <2>1, AgedTyped, ClockTyped DEF TypeOK, LookAnew, text
  <2>3. TickOK' /\ Batched'
    BY <2>1 DEF TypeInv, TickOK, Batched, Idle
  <2> QED BY <1>1, <2>1, <2>2, <2>3, AgedTyped DEF TypeInv
<1>4. ASSUME NEW dataDirty, TickStartIf(dataDirty) PROVE TypeInv'
  <2>1. /\ Idle /\ cfg # NoConfig /\ clock' = (clock + 1) % RetryTicks /\ row' = Aged
        /\ dirty' = FALSE /\ UNCHANGED <<site, cfg, text>>
        /\ tick' = [NoTick EXCEPT !.pc = "remove", !.code = cfg.text /\ ready'.text]
    BY <1>4 DEF TickStartIf
  <2>2. PICK fpUp \in FpAnswers, found \in ModuleAnswers :
          ready' = IF cfg.text THEN EnsureReady(cfg, fpUp, found) ELSE ready
    BY <1>4 DEF TickStartIf
  <2>3. fpUp \in BOOLEAN /\ found \in BOOLEAN /\ cfg.text \in BOOLEAN
    BY <1>1, <2>1, ConfigsAssumption
  <2>4. \A b : LET e == [backend |-> b, checked |-> TRUE, text |-> ready.text \/ (b # "none" /\ found)]
               IN  b \in {"none", "fp", "direct"} /\ (ready.text => b # "none") =>
                     /\ e \in [backend : {"none", "fp", "direct"}, checked : BOOLEAN, text : BOOLEAN]
                     /\ e.text => e.checked /\ e.backend # "none"
    BY <1>1, <2>3
  <2>5. ready.text => ready.checked /\ ready.backend # "none"
    BY DEF TypeInv, TickOK
  <2>6. /\ ready' \in [backend : {"none", "fp", "direct"}, checked : BOOLEAN, text : BOOLEAN]
        /\ ready'.text => ready'.checked /\ ready'.backend # "none"
    <3> DEFINE b == IF ready.checked THEN ready.backend ELSE SelectBackend(cfg, fpUp)
    <3>1. b \in {"none", "fp", "direct"} /\ (ready.text => b # "none")
      BY <1>1, <2>5 DEF SelectBackend
    <3>2. EnsureReady(cfg, fpUp, found) =
            [backend |-> b, checked |-> TRUE, text |-> ready.text \/ (b # "none" /\ found)]
      BY DEF EnsureReady
    <3> HIDE DEF b
    <3> QED BY <1>1, <2>2, <2>4, <2>5, <3>1, <3>2
  <2> DEFINE code == cfg.text /\ ready'.text
  <2>7. code \in BOOLEAN
    BY <2>3, <2>6
  <2>8. tick' = [pc |-> "remove", at |-> 0, batch |-> {}, held |-> {}, code |-> code]
    BY <2>1 DEF NoTick
  <2>9. code => cfg.text /\ ready'.text
    OBVIOUS
  <2> HIDE DEF code
  <2>10. /\ tick' \in [pc : {"idle", "remove", "apply", "rollback"}, at : Rows \cup {0},
                       batch : SUBSET Rows, held : SUBSET Rows, code : BOOLEAN]
         /\ tick'.pc = "remove" /\ tick'.batch = {} /\ tick'.code = code
    BY <2>7, <2>8
  <2>11. TypeOK'
    <3>1. UNCHANGED <<site, cfg, mem, entries>> /\ dirty' = FALSE /\ row' = Aged
      BY <2>1 DEF text
    <3>2. clock' \in 0..(RetryTicks - 1)
      BY <2>1, ClockTyped
    <3> QED BY <1>1, <2>6, <2>10, <3>1, <3>2, AgedTyped DEF TypeOK, LookAnew
  <2>12. TickOK' /\ Batched'
    <3>1. UNCHANGED cfg /\ cfg # NoConfig
      BY <2>1
    <3> QED BY <2>6, <2>9, <2>10, <3>1 DEF TickOK, Batched
  <2> QED BY <1>1, <2>1, <2>11, <2>12, AgedTyped DEF TypeInv
<1> QED BY <1>2, <1>3, <1>4 DEF TickBegin

\* What findCollisions does to the rows: nobody who is applied loses it.
LEMMA CollideTyped ==
  ASSUME TypeInv, TickCollide(Refused(Extents, MaxCollisions))
  PROVE  /\ (LookAnew => TypeInv') /\ Applied' = Applied
         /\ tick.pc = "remove" /\ (tick.code => GivenUp = {})
         /\ tick' = IF tick.code THEN [tick EXCEPT !.pc = "apply", !.held = Applied] ELSE NoTick
<1> DEFINE clashing == Refused(Extents, MaxCollisions)
           state(r) == IF r \in clashing THEN "collided" ELSE StateBefore(r)
           next(r) == IF ~tick.code /\ Waiting(r) /\ state(r) # "collided" THEN "blocked" ELSE state(r)
<1>1. /\ tick.pc = "remove" /\ (tick.code => GivenUp = {})
      /\ row' = [r \in Rows |-> [row[r] EXCEPT !.state = next(r)]]
      /\ tick' = IF tick.code THEN [tick EXCEPT !.pc = "apply", !.held = Applied] ELSE NoTick
      /\ UNCHANGED <<site, cfg, ready, dirty, clock, text>>
  BY DEF TickCollide
<1>2. ASSUME NEW r \in Rows
      PROVE  /\ next(r) \in States
             /\ next(r) = "applied" <=> row[r].state = "applied"
  <2>1. row[r].state \in States
    BY DEF TypeInv, RowOK, RowRecords
  <2>2. r \in clashing => row[r].state # "applied"
    BY RefusedRows
  <2> HIDE DEF clashing
  <2> QED BY <2>1, <2>2 DEF StateBefore, Waiting, States
<1> HIDE DEF next, clashing, state
<1>3. ASSUME NEW r \in Rows PROVE RowOK(row'[r]) /\ (row'[r].state = "applied" <=> row[r].state = "applied")
  <2>1. RowOK(row[r]) /\ row'[r] = [row[r] EXCEPT !.state = next(r)]
    BY <1>1 DEF TypeInv
  <2> QED BY <1>2, <2>1 DEF RowOK, RowRecords
<1>4. Applied' = Applied
  BY <1>3 DEF Applied
<1>5. row' \in [Rows -> RowRecords]
  <2>1. row' = [r \in Rows |-> row'[r]]
    BY <1>1
  <2> QED BY <1>3, <2>1 DEF RowOK
<1>6. tick \in [pc : {"idle", "remove", "apply", "rollback"}, at : Rows \cup {0},
                batch : SUBSET Rows, held : SUBSET Rows, code : BOOLEAN]
  BY DEF TypeInv, TypeOK
<1>7. Applied \subseteq Rows
  BY DEF Applied
<1>8. CASE tick.code
  <2>1. /\ tick' \in [pc : {"idle", "remove", "apply", "rollback"}, at : Rows \cup {0},
                      batch : SUBSET Rows, held : SUBSET Rows, code : BOOLEAN]
        /\ tick'.pc = "apply" /\ tick'.held = Applied /\ tick'.batch = tick.batch /\ tick'.code
    BY <1>1, <1>6, <1>7, <1>8
  <2>2. LookAnew => TypeOK'
    BY <1>1, <1>5, <2>1 DEF TypeInv, TypeOK, LookAnew, text
  <2>3. tick.batch = {} /\ cfg # NoConfig /\ cfg.text /\ ready.text
    BY <1>1, <1>8 DEF TypeInv, TickOK
  <2>4. TickOK'
    BY <1>1, <2>1, <2>3 DEF TypeInv, TickOK
  <2>5. Batched'
    BY <1>4, <2>1, <2>3 DEF Batched
  <2> QED BY <1>1, <1>3, <1>4, <2>2, <2>4, <2>5 DEF TypeInv
<1>9. CASE ~tick.code
  <2>1. tick' = NoTick
    BY <1>1, <1>9
  <2>2. /\ tick' \in [pc : {"idle", "remove", "apply", "rollback"}, at : Rows \cup {0},
                      batch : SUBSET Rows, held : SUBSET Rows, code : BOOLEAN]
        /\ tick'.pc = "idle" /\ ~tick'.code
    BY <2>1 DEF NoTick
  <2>3. LookAnew => TypeOK'
    BY <1>1, <1>5, <2>2 DEF TypeInv, TypeOK, LookAnew, text
  <2>4. TickOK' /\ Batched'
    BY <1>1, <2>1, <2>2 DEF TypeInv, TickOK, Batched
  <2> QED BY <1>1, <1>3, <1>4, <2>3, <2>4 DEF TypeInv
<1> QED BY <1>1, <1>8, <1>9

\* A removal of one row by the Tick under way: its rows and sites.
LEMMA RemovedTyped ==
  ASSUME TypeInv, NEW r \in Rows, row[r].state = "applied", RemoveLink(r)
  PROVE  /\ row' \in [Rows -> RowRecords] /\ \A k \in Rows : RowOK(row'[k])
         /\ site' \in [SiteRows -> SiteRecords] /\ \A i \in SiteRows : SiteOK(site'[i])
         /\ mem' \in [Addrs -> Cells] /\ entries' \subseteq Addrs
         /\ Applied' = Applied \ {r}
<1>1. /\ \E state \in {"declared", "failed"} : row' = [row EXCEPT ![r].state = state]
      /\ \E s : site' = [site EXCEPT ![row[r].site] = s] /\ SiteOK(s)
      /\ row[r].site \in SiteRows
      /\ mem' \in [Addrs -> Cells] /\ entries' \subseteq Addrs
  BY RemoveLinkTyped
<1>2. /\ row \in [Rows -> RowRecords] /\ \A k \in Rows : RowOK(row[k])
      /\ site \in [SiteRows -> SiteRecords] /\ \A i \in SiteRows : SiteOK(site[i])
  BY DEF TypeInv, TypeOK
<1>3. PICK state \in {"declared", "failed"} : row' = [row EXCEPT ![r].state = state]
  BY <1>1
<1> DEFINE x == [row[r] EXCEPT !.state = state]
<1>4. RowOK(x) /\ x.state = state
  <2>1. RowOK(row[r])
    BY <1>2
  <2> QED BY <2>1 DEF RowOK, RowRecords, States
<1>5. row' = [row EXCEPT ![r] = x]
  BY <1>2, <1>3
<1> HIDE DEF x
<1>6. /\ row' \in [Rows -> RowRecords] /\ \A k \in Rows : RowOK(row'[k])
      /\ Applied' = Applied \ {r}
  <2>1. \A k \in Rows : row'[k] = IF k = r THEN x ELSE row[k]
    BY <1>2, <1>5
  <2> QED BY <1>4, <1>5, <2>1, RowChanged DEF Applied
<1>7. PICK s : site' = [site EXCEPT ![row[r].site] = s] /\ SiteOK(s)
  BY <1>1
<1>8. site' \in [SiteRows -> SiteRecords] /\ \A i \in SiteRows : SiteOK(site'[i])
  <2>1. s \in SiteRecords
    BY <1>7 DEF SiteOK
  <2>2. \A i \in SiteRows : site'[i] = IF i = row[r].site THEN s ELSE site[i]
    BY <1>1, <1>2, <1>7
  <2> QED BY <1>1, <1>2, <1>7, <2>1, <2>2
<1> QED BY <1>1, <1>6, <1>8

\* The removals, the rollback and the end of a Tick.
LEMMA TickCodeTyped ==
  ASSUME TypeInv, LookAnew, TickCode
  PROVE  TypeInv'
<1>1. /\ cfg \in Configs \cup {NoConfig} /\ dirty \in BOOLEAN
      /\ ready \in [backend : {"none", "fp", "direct"}, checked : BOOLEAN, text : BOOLEAN]
      /\ tick \in [pc : {"idle", "remove", "apply", "rollback"}, at : Rows \cup {0},
                   batch : SUBSET Rows, held : SUBSET Rows, code : BOOLEAN]
      /\ clock \in 0..(RetryTicks - 1)
  BY DEF TypeInv, TypeOK
<1>2. CASE TickRemove
  <2>1. GivenUp # {} /\ GivenUp \subseteq Rows
    BY <1>2 DEF TickRemove, GivenUp
  <2>2. Lowest(GivenUp) \in Rows /\ row[Lowest(GivenUp)].state = "applied"
    <3>1. Lowest(GivenUp) \in GivenUp
      BY <2>1, LowestIn, RowsAssumption
    <3> QED BY <3>1 DEF GivenUp
  <2>3. /\ row' \in [Rows -> RowRecords] /\ \A k \in Rows : RowOK(row'[k])
        /\ site' \in [SiteRows -> SiteRecords] /\ \A i \in SiteRows : SiteOK(site'[i])
        /\ mem' \in [Addrs -> Cells] /\ entries' \subseteq Addrs
    BY <1>2, <2>2, RemovedTyped DEF TickRemove
  <2>4. tick.pc = "remove" /\ UNCHANGED <<cfg, ready, dirty, clock, tick>>
    BY <1>2 DEF TickRemove
  <2>5. TypeOK'
    BY <1>1, <2>3, <2>4 DEF TypeOK, LookAnew
  <2>6. TickOK' /\ Batched'
    BY <2>4 DEF TypeInv, TickOK, Batched
  <2> QED BY <2>3, <2>5, <2>6 DEF TypeInv
<1>3. ASSUME NEW r \in Rows, ApplyOne(r) PROVE TypeInv'
  BY <1>3, ApplyOneTyped
<1>4. CASE TickRollback
  <2> DEFINE r == Highest(tick.batch)
  <2>1. /\ tick.pc = "rollback" /\ tick.batch # {} /\ RemoveLink(r)
        /\ tick' = [tick EXCEPT !.batch = tick.batch \ {r}]
        /\ UNCHANGED <<cfg, ready, dirty, clock>>
    BY <1>4 DEF TickRollback
  <2>2. Applied = tick.held \cup tick.batch /\ tick.held \cap tick.batch = {}
    BY <2>1 DEF TypeInv, Batched
  <2>3. r \in tick.batch
    <3>1. tick.batch \subseteq Nat /\ IsFiniteSet(tick.batch)
      BY <1>1, RowsAssumption, FS_Subset
    <3> QED BY <2>1, <3>1, HighestIn
  <2> HIDE DEF r
  <2>4. r \in Rows /\ row[r].state = "applied"
    BY <2>2, <2>3 DEF Applied
  <2>5. /\ row' \in [Rows -> RowRecords] /\ \A k \in Rows : RowOK(row'[k])
        /\ site' \in [SiteRows -> SiteRecords] /\ \A i \in SiteRows : SiteOK(site'[i])
        /\ mem' \in [Addrs -> Cells] /\ entries' \subseteq Addrs
        /\ Applied' = Applied \ {r}
    BY <2>1, <2>4, RemovedTyped
  <2>6. /\ tick' \in [pc : {"idle", "remove", "apply", "rollback"}, at : Rows \cup {0},
                      batch : SUBSET Rows, held : SUBSET Rows, code : BOOLEAN]
        /\ tick'.pc = "rollback" /\ tick'.held = tick.held /\ tick'.batch = tick.batch \ {r}
        /\ tick'.code = tick.code
    BY <1>1, <2>1
  <2>7. TypeOK'
    BY <1>1, <2>1, <2>5, <2>6 DEF TypeOK, LookAnew
  <2>8. TickOK'
    BY <2>1, <2>6 DEF TypeInv, TickOK
  <2>9. Batched'
    BY <2>2, <2>3, <2>5, <2>6 DEF Batched
  <2> QED BY <2>5, <2>7, <2>8, <2>9 DEF TypeInv
<1>5. CASE TickEnd
  <2>1. tick' = NoTick /\ UNCHANGED <<row, site, cfg, ready, dirty, clock, text>>
    BY <1>5 DEF TickEnd
  <2>2. /\ tick' \in [pc : {"idle", "remove", "apply", "rollback"}, at : Rows \cup {0},
                      batch : SUBSET Rows, held : SUBSET Rows, code : BOOLEAN]
        /\ tick'.pc = "idle" /\ ~tick'.code
    BY <2>1 DEF NoTick
  <2>3. TypeOK'
    BY <2>1, <2>2 DEF TypeInv, TypeOK, LookAnew, text
  <2>4. TickOK' /\ Batched'
    BY <2>1, <2>2 DEF TypeInv, TickOK, Batched
  <2> QED BY <2>1, <2>3, <2>4 DEF TypeInv
<1> QED BY <1>2, <1>3, <1>4, <1>5 DEF TickCode

-----------------------------------------------------------------------------
(* The theorems.                                                               *)

\* Before the first call, nothing is declared and nothing is written.
LEMMA InitTyped == Init => TypeInv
<1> SUFFICES ASSUME Init PROVE TypeInv
  OBVIOUS
<1>1. RowOK(NewRow)
  BY BoundsAssumption DEF RowOK, RowRecords, NewRow, States
<1>2. SiteOK(NewSite)
  BY DEF SiteOK, SiteRecords, NewSite, States, Shapes
<1>3. 0 \in 0..(RetryTicks - 1) /\ Text \in [Addrs -> Cells]
  BY BoundsAssumption, TextAssumption DEF Cells
<1>4. NoTick \in [pc : {"idle", "remove", "apply", "rollback"}, at : Rows \cup {0},
                  batch : SUBSET Rows, held : SUBSET Rows, code : BOOLEAN]
  BY DEF NoTick
<1>5. TypeOK
  BY <1>1, <1>2, <1>3, <1>4 DEF Init, TypeOK, RowOK, SiteOK, NotReady
<1>6. TickOK /\ Batched
  BY DEF Init, TickOK, Batched, NoTick, NotReady
<1> QED BY <1>1, <1>2, <1>5, <1>6 DEF Init, TypeInv

\* Each call of the host, each step of Tick and of another patcher keeps the types and the batch.
LEMMA NextTyped == TypeInv /\ [Next]_vars => TypeInv'
<1> SUFFICES ASSUME TypeInv, [Next]_vars PROVE TypeInv'
  OBVIOUS
<1>1. CASE Host /\ LookAnew
  BY <1>1, HostTyped
<1>2. CASE TickBegin /\ LookAnew
  BY <1>2, TickBeginTyped
<1>3. CASE TickCode /\ LookAnew
  BY <1>3, TickCodeTyped
<1>4. CASE TickCollide(Refused(Extents, MaxCollisions)) /\ LookAnew
  BY <1>4, CollideTyped
<1>5. ASSUME NEW a \in Addrs, NEW w \in Words, ForeignWrite(a, w) PROVE TypeInv'
  <2>1. mem' = [mem EXCEPT ![a] = w] /\ w \in Cells /\ seen' \in {seen, [seen EXCEPT ![a] = w]}
        /\ UNCHANGED <<row, site, cfg, ready, dirty, clock, tick, entries>>
    BY <1>5 DEF ForeignWrite, Cells
  <2>2. mem' \in [Addrs -> Cells] /\ seen' \in [Addrs -> Cells]
    BY <2>1 DEF TypeInv, TypeOK
  <2>3. TypeOK'
    BY <2>1, <2>2 DEF TypeInv, TypeOK
  <2>4. TickOK' /\ Batched'
    BY <2>1 DEF TypeInv, TickOK, Batched, Applied
  <2> QED BY <2>1, <2>3, <2>4 DEF TypeInv
<1>6. CASE UNCHANGED vars
  <2>1. UNCHANGED <<row, site, cfg, ready, dirty, clock, tick, mem, seen, entries>>
    BY <1>6 DEF vars, text
  <2>2. TypeOK'
    BY <2>1 DEF TypeInv, TypeOK
  <2>3. TickOK' /\ Batched'
    BY <2>1 DEF TypeInv, TickOK, Batched, Applied
  <2> QED BY <2>1, <2>2, <2>3 DEF TypeInv
<1> QED BY <1>1, <1>2, <1>3, <1>4, <1>5, <1>6 DEF Next, TickStep

\* What Tick relies on between two of its steps holds in every reachable state.
THEOREM TypeInvIsInvariant == Spec => []TypeInv
BY InitTyped, NextTyped, PTL DEF Spec

\* The registry's state keeps its type, whatever the host calls, whatever fails, and
\* however many rows and slots there are.
THEOREM TypeOKHolds == Spec => []TypeOK
<1>1. TypeInv => TypeOK
  BY DEF TypeInv
<1> QED BY TypeInvIsInvariant, <1>1, PTL

\* A Tick leaves alone what was applied and is still wanted, and a Tick that fails
\* part way takes back all it did: the loop over s_batch at the end of Tick meets
\* exactly the rows this Tick applied.
THEOREM TickAllOrNothingHolds == Spec => TickAllOrNothing
<1> DEFINE Step == tick.pc \in {"apply", "rollback"} /\ tick'.pc = "idle" =>
                     /\ tick.held \subseteq Applied'
                     /\ tick.pc = "rollback" => Applied' = tick.held
<1>1. TypeInv /\ [Next]_vars => Step
  <2> SUFFICES ASSUME TypeInv, [Next]_vars, tick.pc \in {"apply", "rollback"}, tick'.pc = "idle"
               PROVE  /\ tick.held \subseteq Applied'
                      /\ tick.pc = "rollback" => Applied' = tick.held
    OBVIOUS
  <2>1. tick \in [pc : {"idle", "remove", "apply", "rollback"}, at : Rows \cup {0},
                  batch : SUBSET Rows, held : SUBSET Rows, code : BOOLEAN]
    BY DEF TypeInv, TypeOK
  <2>2. ~Idle /\ tick.pc # "remove" /\ tick' # tick
    BY DEF Idle
  <2>3. ~Host
    BY <2>2 DEF Host, Declare, Undeclare, SetEnabled, ConfigureSame, ConfigureMoved,
                RemoveAll, NextProcess
  <2>4. ~TickBegin
    BY <2>2 DEF TickBegin, TickBlocked, TickQuietIf, TickStartIf
  <2>5. ~TickCollide(Refused(Extents, MaxCollisions))
    BY <2>2 DEF TickCollide
  <2>6. ~\E r \in Rows : ApplyOne(r)
    <3> SUFFICES ASSUME NEW r \in Rows, ApplyOne(r) PROVE FALSE
      OBVIOUS
    <3>1. tick.pc = "apply"
      BY DEF ApplyOne
    <3>2. Continue(r) \/ Batch(r) \/ Abort(r)
      BY DEF ApplyOne, ApplyUnbound, JoinRefused, Join, JoinFails, InstallRefused, Install,
             InstallFails
    <3>3. tick'.pc \in {"apply", "rollback"}
      BY <2>1, <3>1, <3>2 DEF Continue, Batch, Abort
    <3> QED BY <3>3
  <2>7. ~TickRemove /\ ~TickRollback
    BY <2>1, <2>2 DEF TickRemove, TickRollback
  <2>8. tick' = tick => FALSE
    BY <2>2
  <2>9. TickEnd
    BY <2>3, <2>4, <2>5, <2>6, <2>7, <2>8
       DEF Next, TickStep, TickCode, ForeignWrite, vars
  <2>10. Applied' = Applied /\ (tick.pc = "rollback" => tick.batch = {})
    BY <2>9 DEF TickEnd, Applied
  <2> QED BY <2>10 DEF TypeInv, Batched
<1>2. TypeInv /\ [Next]_vars => [Step]_vars
  BY <1>1
<1> QED BY TypeInvIsInvariant, <1>2, PTL DEF Spec, TickAllOrNothing

-----------------------------------------------------------------------------
(* Rows and sites.  A REWRITE has no chain to be found in, so that it is alone at   *)
(* its site is a part of its own; and a site is installed only where the Tick's    *)
(* readiness checks have passed, so that UninstallSite always has a backend.       *)

RowRecorded(r) ==
  LET s == site[row[r].site]
  IN  /\ row[r].site \in SiteRows /\ s.used /\ s.state = "applied"
      /\ s.addr = row[r].desc.addr /\ s.shape = row[r].desc.shape
      /\ s.shape # "rewrite" => r \in s.links

SiteRecorded(i) ==
  /\ ~site[i].used => site[i] = NewSite
  /\ \A r \in site[i].links : row[r].state = "applied" /\ row[r].site = i
  /\ site[i].shape = "rewrite" => site[i].links = {}
  /\ i \in InstalledSites => site[i].committed /\ \E r \in Applied : row[r].site = i

Recorded ==
  /\ \A r \in Applied : RowRecorded(r)
  /\ \A i \in SiteRows : SiteRecorded(i)
  /\ \A r, k \in Applied :
       r # k /\ row[r].site = row[k].site => site[row[r].site].shape # "rewrite"
  /\ InstalledSites # {} => cfg # NoConfig /\ cfg.text /\ ready.text

\* The property the runs check is a part of the invariant.
LEMMA RecordedImplies == TypeInv /\ Recorded => InstalledAsRecorded
<1> SUFFICES ASSUME TypeInv, Recorded PROVE InstalledAsRecorded
  OBVIOUS
<1>1. ASSUME NEW r \in Applied
      PROVE  /\ row[r].used /\ row[r].site \in InstalledSites
             /\ LET s == site[row[r].site]
                IN  /\ s.addr = row[r].desc.addr /\ s.shape = row[r].desc.shape
                    /\ s.shape # "rewrite" => r \in s.links
  BY DEF Recorded, RowRecorded, InstalledSites, Applied, TypeInv, RowOK
<1>2. ASSUME NEW i \in SiteRows
      PROVE  /\ \A r \in site[i].links : row[r].state = "applied" /\ row[r].site = i
             /\ i \in InstalledSites =>
                  site[i].committed /\ \E r \in Applied : row[r].site = i
  BY DEF Recorded, SiteRecorded
<1> QED BY <1>1, <1>2 DEF InstalledAsRecorded

-----------------------------------------------------------------------------
(* What the steps do to rows and sites.                                          *)

\* A site that is not installed has nobody on its chain, and its slot is the row's to
\* take: what GuardSite looks at is a site of the row's address, shape and word.
LEMMA GuardFields ==
  ASSUME TypeInv, Recorded, cfg # NoConfig, NEW r \in Rows, row[r].used, Installs(r)
  PROVE  LET d == row[r].desc
             s == site[Bound(d)]
             g == Guard(r)
         IN  /\ SiteOK(g) /\ g.used /\ g.addr = d.addr /\ g.external = d.external
             /\ g.shape = d.shape /\ g.code = Replacement(d)
             /\ g.at = RuntimeAddr(g) /\ g.links = {} /\ g.state # "applied"
             /\ g.expected = IF ~d.external THEN d.expected
                             ELSE IF g.at \in Addrs THEN seen[g.at] ELSE NoWord
             /\ g.committed = s.committed /\ g.live = s.live /\ g.thunk = s.thunk
             /\ g.handle = s.handle /\ g.saved = s.saved /\ g.found = s.found /\ g.ours = s.ours
             /\ s.state # "applied" /\ s.links = {}
             /\ s.committed => /\ s.used /\ s.addr = g.addr /\ s.external = g.external
                               /\ s.shape = g.shape /\ s.code = g.code
<1> DEFINE d == row[r].desc
           i == Bound(d)
           s == site[i]
           b == BoundSite(d)
<1>1. d \in Descs /\ i # 0 /\ i \in SiteRows /\ (Serves(s, d) \/ ~s.used) /\ b.state # "applied"
  BY BoundIn DEF TypeInv, RowOK, Installs
<1>2. /\ SiteOK(b) /\ b.used /\ b.addr = d.addr /\ b.external = d.external /\ b.shape = d.shape
      /\ b.committed => b.code = Replacement(d)
  BY <1>1, BoundSiteTyped
<1>3. SiteOK(s) /\ SiteRecorded(i)
  BY <1>1 DEF TypeInv, Recorded
<1>4. /\ SiteOK(Guard(r)) /\ Guard(r).state # "applied"
  BY GuardTyped
<1>5. b = IF ~s.used
      THEN [NewSite EXCEPT !.used = TRUE, !.addr = d.addr, !.external = d.external,
              !.shape = d.shape, !.code = Replacement(d), !.expected = d.expected]
      ELSE IF Vacant(s) THEN [s EXCEPT !.shape = d.shape, !.code = Replacement(d)]
      ELSE s
  BY DEF BoundSite
<1> DEFINE e == IF ~d.external THEN d.expected
                ELSE IF RuntimeAddr(b) \in Addrs THEN seen[RuntimeAddr(b)] ELSE NoWord
<1>6. Guard(r) = [b EXCEPT !.at = RuntimeAddr(b), !.expected = e]
  BY DEF Guard, Guarded
<1> HIDE DEF d, i, s, b, e
<1>7. /\ b.committed = s.committed /\ b.live = s.live /\ b.thunk = s.thunk /\ b.links = s.links
      /\ b.handle = s.handle /\ b.saved = s.saved /\ b.found = s.found /\ b.ours = s.ours /\ b.state = s.state
      /\ b.code = Replacement(d) \/ (s.used /\ ~Vacant(s) /\ b = s)
  <2>1. CASE ~s.used
    <3>1. s = NewSite
      BY <1>3, <2>1 DEF SiteRecorded, s
    <3> QED BY <1>5, <2>1, <3>1 DEF NewSite
  <2>2. CASE s.used /\ Vacant(s)
    BY <1>3, <1>5, <2>2 DEF SiteOK, SiteRecords
  <2>3. CASE s.used /\ ~Vacant(s)
    BY <1>5, <2>3
  <2> QED BY <2>1, <2>2, <2>3
<1>8. s.state # "applied" /\ s.links = {}
  <2>1. s.state # "applied"
    BY <1>1, <1>7
  <2>2. \A k \in s.links : k \in Applied /\ row[k].site = i
    BY <1>1, <1>3 DEF SiteRecorded, s, SiteOK, SiteRecords, Applied
  <2>3. \A k \in Applied : site[row[k].site].state = "applied"
    BY DEF Recorded, RowRecorded
  <2>4. \A k \in s.links : FALSE
    BY <2>1, <2>2, <2>3 DEF s
  <2> QED BY <2>1, <2>4
<1>9. b.code = Replacement(d)
  BY <1>2, <1>7, <1>8 DEF Vacant
<1>10. s.committed => /\ s.used /\ s.addr = b.addr /\ s.external = b.external
                      /\ s.shape = b.shape /\ s.code = b.code
  <2> SUFFICES ASSUME s.committed
               PROVE  s.used /\ s.addr = b.addr /\ s.external = b.external
                      /\ s.shape = b.shape /\ s.code = b.code
    OBVIOUS
  <2>1. s.used
    BY <1>3 DEF SiteRecorded, NewSite, s
  <2>2. b = s
    BY <1>5, <2>1 DEF Vacant
  <2> QED BY <2>1, <2>2
<1>11. /\ Guard(r).used = b.used /\ Guard(r).addr = b.addr /\ Guard(r).external = b.external
       /\ Guard(r).shape = b.shape /\ Guard(r).code = b.code /\ Guard(r).links = b.links
       /\ Guard(r).committed = b.committed /\ Guard(r).live = b.live
       /\ Guard(r).thunk = b.thunk /\ Guard(r).handle = b.handle /\ Guard(r).saved = b.saved /\ Guard(r).found = b.found
       /\ Guard(r).ours = b.ours /\ Guard(r).at = RuntimeAddr(b) /\ Guard(r).expected = e
  BY <1>2, <1>6 DEF SiteOK, SiteRecords
<1>12. RuntimeAddr(Guard(r)) = RuntimeAddr(b)
  BY <1>11 DEF RuntimeAddr
<1> QED
  <2> SUFFICES /\ SiteOK(Guard(r)) /\ Guard(r).used /\ Guard(r).addr = d.addr
               /\ Guard(r).external = d.external
               /\ Guard(r).shape = d.shape /\ Guard(r).code = Replacement(d)
               /\ Guard(r).at = RuntimeAddr(Guard(r)) /\ Guard(r).links = {}
               /\ Guard(r).state # "applied"
               /\ Guard(r).expected = IF ~d.external THEN d.expected
                    ELSE IF Guard(r).at \in Addrs THEN seen[Guard(r).at] ELSE NoWord
               /\ Guard(r).committed = s.committed /\ Guard(r).live = s.live
               /\ Guard(r).thunk = s.thunk /\ Guard(r).handle = s.handle
               /\ Guard(r).saved = s.saved /\ Guard(r).found = s.found /\ Guard(r).ours = s.ours
               /\ s.state # "applied" /\ s.links = {}
               /\ s.committed => /\ s.used /\ s.addr = Guard(r).addr
                                 /\ s.external = Guard(r).external
                                 /\ s.shape = Guard(r).shape /\ s.code = Guard(r).code
    BY DEF s, i, d
  <2> QED BY <1>2, <1>4, <1>7, <1>8, <1>9, <1>10, <1>11, <1>12 DEF e

\* A turn in terms of its row: it was waiting, it keeps its descriptor and what the host
\* wants, and stubs that were committed stay so.
LEMMA TurnOf ==
  ASSUME TypeInv, NEW r \in Rows, ApplyOne(r)
  PROVE  /\ Waiting(r) /\ row[r].used /\ r \notin Applied /\ tick.pc = "apply"
         /\ row' = [row EXCEPT ![r] = row'[r]]
         /\ row'[r].used /\ row'[r].desc = row[r].desc /\ row'[r].wanted = row[r].wanted
         /\ row[r].shim => row'[r].shim
         /\ row'[r].state \in {"failed", "collided", "refused", "applied"}
         /\ row'[r].site = IF Bound(row[r].desc) = 0 THEN row[r].site ELSE Bound(row[r].desc)
         /\ Applied' = IF row'[r].state = "applied" THEN Applied \cup {r} ELSE Applied
         /\ cfg # NoConfig /\ cfg.text /\ ready.text /\ ready.backend \in {"fp", "direct"}
         /\ UNCHANGED <<cfg, ready, dirty, clock>>
<1>1. Waiting(r) /\ row[r].used /\ r \notin Applied /\ tick.pc = "apply"
  BY DEF ApplyOne, Todo, Waiting, Applied
<1>2. row[r].shim \in BOOLEAN /\ row[r].wait \in 0..RetryTicks
  BY DEF TypeInv, RowOK, RowRecords
<1>3. 0 \in 0..RetryTicks /\ RetryTicks \in 0..RetryTicks
  BY BoundsAssumption
<1>4. \E state \in {"failed", "collided", "refused", "applied"}, wait \in 0..RetryTicks,
         shim \in BOOLEAN :
        /\ Turn(r, state, wait, shim) /\ (row[r].shim => shim)
        /\ state = "applied" => Bound(row[r].desc) # 0
  <2>1. CASE ApplyUnbound(r)
    BY <1>2, <1>3, <2>1 DEF ApplyUnbound
  <2>2. CASE JoinRefused(r)
    BY <1>2, <1>3, <2>2 DEF JoinRefused
  <2>3. CASE Join(r)
    BY <1>2, <2>3 DEF Join, MayJoin
  <2>4. CASE JoinFails(r)
    BY <1>2, <2>4 DEF JoinFails, LinkMayNotLand
  <2>5. CASE InstallRefused(r)
    BY <1>2, <1>3, <2>5 DEF InstallRefused
  <2>6. CASE Install(r)
    <3> DEFINE shim == row[r].shim \/ Prepared(Guard(r)).shape # "rewrite"
    <3>1. Turn(r, "applied", row[r].wait, shim) /\ Bound(row[r].desc) # 0
      BY <2>6 DEF Install, Installs
    <3>2. shim \in BOOLEAN /\ (row[r].shim => shim)
      BY <1>2
    <3> HIDE DEF shim
    <3> QED BY <1>2, <3>1, <3>2
  <2>7. CASE InstallFails(r)
    <3> DEFINE shim == row[r].shim \/ Prepared(Guard(r)).shape # "rewrite"
    <3>1. \/ Turn(r, "failed", row[r].wait, row[r].shim)
          \/ Turn(r, "failed", row[r].wait, FALSE) /\ ~row[r].shim
          \/ Turn(r, "failed", row[r].wait, shim)
      BY <2>7 DEF InstallFails, LinkMayNotLand
    <3>2. shim \in BOOLEAN /\ (row[r].shim => shim)
      BY <1>2
    <3> HIDE DEF shim
    <3> QED BY <1>2, <3>1, <3>2
  <2> QED BY <2>1, <2>2, <2>3, <2>4, <2>5, <2>6, <2>7 DEF ApplyOne
<1>5. PICK state \in {"failed", "collided", "refused", "applied"}, wait \in 0..RetryTicks,
           shim \in BOOLEAN :
        /\ Turn(r, state, wait, shim) /\ (row[r].shim => shim)
        /\ state = "applied" => Bound(row[r].desc) # 0
  BY <1>4
<1>6. /\ row' = [row EXCEPT ![r] = row'[r]]
      /\ row'[r].used /\ row'[r].desc = row[r].desc /\ row'[r].wanted = row[r].wanted
      /\ row'[r].state = state /\ row'[r].shim = shim
      /\ row'[r].site = IF Bound(row[r].desc) = 0 THEN row[r].site ELSE Bound(row[r].desc)
      /\ Applied' = IF state = "applied" THEN Applied \cup {r} ELSE Applied
      /\ UNCHANGED <<cfg, ready, dirty, clock>>
  <2>1. state \in States
    BY DEF States
  <2> QED BY <1>1, <1>5, <2>1, TurnTyped
<1>7. cfg # NoConfig /\ cfg.text /\ ready.text /\ ready.backend \in {"fp", "direct"}
  BY <1>1 DEF TypeInv, TypeOK, TickOK
<1> QED BY <1>1, <1>5, <1>6, <1>7

\* A slot built for descriptor d in this configuration.
Serving(t, d) ==
  /\ t.used /\ t.addr = d.addr /\ t.external = d.external /\ t.shape = d.shape
  /\ t.code = Replacement(d) /\ t.at = RuntimeAddr(t)
  /\ t.expected = IF ~d.external THEN d.expected
                  ELSE IF t.at \in Addrs THEN seen[t.at] ELSE NoWord

\* What was committed in slot s is what is committed in t.
Keeps(s, t) ==
  s.committed =>
    /\ t.committed /\ s.used /\ t.addr = s.addr /\ t.external = s.external
    /\ t.shape = s.shape /\ t.code = s.code /\ t.live = s.live /\ t.thunk = s.thunk

\* A row that installs its site, or finds that it cannot: nobody had the site, and
\* either it is the row's now and branches away, or nothing has changed in the text.
NotInstalledNow(r, s, t) ==
  /\ t.state \in {"refused", "failed"} /\ t.links = {}
  /\ t.handle = s.handle /\ t.saved = s.saved /\ t.found = s.found /\ t.ours = s.ours
  /\ Applied' = Applied
  /\ UNCHANGED <<mem, entries>>

InstalledNow(r, i, t) ==
  /\ t.state = "applied" /\ t.committed
  /\ t.at \in Addrs /\ t.live = seen[t.at] /\ Matches(seen[t.at], t.expected)
  /\ t.links = IF t.shape = "rewrite" THEN {} ELSE {r}
  /\ Applied' = Applied \cup {r} /\ row'[r].site = i
  /\ mem' = [mem EXCEPT ![t.at] = InstalledWord(i, t)]
  /\ IF ready.backend = "fp"
     THEN /\ t.handle /\ entries' = entries \cup {t.at}
          /\ t.saved = site[i].saved /\ t.ours = site[i].ours /\ t.found = mem[t.at]
     ELSE /\ t.handle = site[i].handle /\ entries' = entries
          /\ t.saved = t.live /\ t.ours = InstalledWord(i, t) /\ t.found = site[i].found

\* What the guard saw of the text, if it let the row through.
Looked(s, t) ==
  \/ t.live = s.live /\ t.committed = s.committed
  \/ t.at \in Addrs /\ t.live = seen[t.at] /\ Matches(seen[t.at], t.expected)

\* One slot at most changes, and it was nobody's.
LEMMA InstallEffect ==
  ASSUME TypeInv, Recorded, NEW r \in Rows, ApplyOne(r), Installs(r)
  PROVE  LET i == Bound(row[r].desc)
             s == site[i]
             t == site'[i]
         IN  /\ i \in SiteRows /\ site' = [site EXCEPT ![i] = t]
             /\ s.state # "applied" /\ s.links = {}
             /\ Serving(t, row[r].desc) /\ Keeps(s, t) /\ Looked(s, t)
             /\ NotInstalledNow(r, s, t) \/ InstalledNow(r, i, t)
<1> DEFINE d == row[r].desc
           i == Bound(d)
           s == site[i]
           g == Guard(r)
           p == Prepared(g)
           t == site'[i]
<1>1. /\ Waiting(r) /\ row[r].used /\ cfg # NoConfig /\ ready.backend \in {"fp", "direct"}
      /\ row'[r].site = i
      /\ Applied' = IF row'[r].state = "applied" THEN Applied \cup {r} ELSE Applied
  BY TurnOf DEF Installs
<1>2. /\ SiteOK(g) /\ g.used /\ g.addr = d.addr /\ g.external = d.external
      /\ g.shape = d.shape /\ g.code = Replacement(d)
      /\ g.at = RuntimeAddr(g) /\ g.links = {} /\ g.state # "applied"
      /\ g.expected = IF ~d.external THEN d.expected
                      ELSE IF g.at \in Addrs THEN seen[g.at] ELSE NoWord
      /\ g.committed = s.committed /\ g.live = s.live /\ g.thunk = s.thunk
      /\ g.handle = s.handle /\ g.saved = s.saved /\ g.found = s.found /\ g.ours = s.ours
      /\ s.state # "applied" /\ s.links = {}
      /\ s.committed => /\ s.used /\ s.addr = g.addr /\ s.external = g.external
                        /\ s.shape = g.shape /\ s.code = g.code
  BY <1>1, GuardFields
<1>3. i \in SiteRows /\ site \in [SiteRows -> SiteRecords] /\ row \in [Rows -> RowRecords]
  BY BoundIn DEF Installs, TypeInv, TypeOK
<1> SUFFICES /\ site' = [site EXCEPT ![i] = t]
             /\ Serving(t, d) /\ Keeps(s, t) /\ Looked(s, t)
             /\ NotInstalledNow(r, s, t) \/ InstalledNow(r, i, t)
  BY <1>2, <1>3
<1>4. ~ApplyUnbound(r) /\ ~JoinRefused(r) /\ ~Join(r) /\ ~JoinFails(r)
  BY <1>2 DEF Installs, ApplyUnbound, JoinRefused, Join, JoinFails, MayJoin
<1> HIDE DEF d, i, s, g, p
<1>5. ASSUME NEW u, site' = [site EXCEPT ![i] = u]
      PROVE  t = u /\ site' = [site EXCEPT ![i] = t]
  BY <1>3, <1>5
<1>6. ASSUME NEW u, u.used, u.addr = g.addr, u.external = g.external, u.shape = g.shape,
             u.code = g.code, u.at = g.at, u.expected = g.expected
      PROVE  Serving(u, d)
  <2>1. RuntimeAddr(u) = RuntimeAddr(g)
    BY <1>6 DEF RuntimeAddr
  <2> QED BY <1>2, <1>6, <2>1 DEF Serving
<1>7. CASE InstallRefused(r)
  <2> DEFINE u == [g EXCEPT !.state = "refused"]
  <2>1. /\ Turn(r, "refused", RetryTicks, row[r].shim) /\ UNCHANGED text
        /\ site' = [site EXCEPT ![i] = u]
    BY <1>7 DEF InstallRefused, g, i, d
  <2>2. /\ u.used /\ u.addr = g.addr /\ u.external = g.external /\ u.shape = g.shape
        /\ u.code = g.code /\ u.at = g.at /\ u.expected = g.expected
        /\ u.state = "refused" /\ u.links = g.links /\ u.committed = g.committed
        /\ u.live = g.live /\ u.thunk = g.thunk /\ u.handle = g.handle /\ u.saved = g.saved /\ u.found = g.found
        /\ u.ours = g.ours
    BY <1>2 DEF SiteOK, SiteRecords
  <2> HIDE DEF u
  <2>3. t = u /\ site' = [site EXCEPT ![i] = t]
    BY <1>5, <2>1
  <2>4. Applied' = Applied
    <3>1. row'[r].state = "refused"
      BY <1>3, <2>1 DEF Turn
    <3> QED BY <1>1, <3>1
  <2>5. Serving(u, d)
    BY <1>6, <2>2
  <2>6. Keeps(s, u)
    BY <1>2, <2>2 DEF Keeps
  <2>7. NotInstalledNow(r, s, u)
    BY <1>2, <2>1, <2>2, <2>4 DEF NotInstalledNow, text
  <2>8. Looked(s, u)
    BY <1>2, <2>2 DEF Looked
  <2> QED BY <2>3, <2>5, <2>6, <2>7, <2>8
<1>8. ASSUME GuardPasses(g)
      PROVE  /\ SiteOK(p) /\ p.used /\ p.addr = g.addr /\ p.external = g.external
             /\ p.shape = g.shape
             /\ p.code = g.code /\ p.at = g.at /\ p.expected = g.expected
             /\ p.state = g.state /\ p.links = {} /\ p.committed /\ p.live = seen[g.at]
             /\ p.handle = g.handle /\ p.saved = g.saved /\ p.found = g.found /\ p.ours = g.ours
             /\ g.committed => p.live = g.live /\ p.thunk = g.thunk
             /\ g.at \in Addrs /\ Matches(seen[g.at], g.expected)
  <2>1. g.at \in Addrs /\ Matches(seen[g.at], g.expected) /\ (g.committed => seen[g.at] = g.live)
    BY <1>8 DEF GuardPasses
  <2>2. p = IF g.committed THEN [g EXCEPT !.live = seen[g.at]]
            ELSE [g EXCEPT !.live = seen[g.at], !.committed = TRUE,
                           !.thunk = g.shape # "rewrite" /\ seen[g.at] \in Pic]
    BY DEF Prepared, p
  <2>3. SiteOK(p)
    BY <1>2, <1>8, PreparedTyped DEF p
  <2>4. CASE g.committed
    BY <1>2, <2>1, <2>2, <2>3, <2>4 DEF SiteOK, SiteRecords
  <2>5. CASE ~g.committed
    <3>1. p = [g EXCEPT !.live = seen[g.at], !.committed = TRUE,
                        !.thunk = g.shape # "rewrite" /\ seen[g.at] \in Pic]
      BY <2>2, <2>5
    <3> HIDE DEF p
    <3> QED BY <1>2, <2>1, <2>3, <2>5, <3>1 DEF SiteOK, SiteRecords
  <2> QED BY <2>4, <2>5
<1>9. CASE Install(r)
  <2> DEFINE l == Linked(r, p)
             u == Installed(i, l)
  <2>1. /\ GuardPasses(g)
        /\ Turn(r, "applied", row[r].wait, row[r].shim \/ p.shape # "rewrite")
        /\ site' = [site EXCEPT ![i] = u]
        /\ mem' = [mem EXCEPT ![p.at] = InstalledWord(i, p)]
        /\ entries' = EntriesWith(p)
    BY <1>9 DEF Install, g, i, d, p
  <2>2. row'[r].state = "applied"
    BY <1>3, <2>1 DEF Turn
  <2>3. /\ SiteOK(l) /\ l.used = p.used /\ l.addr = p.addr /\ l.external = p.external
        /\ l.shape = p.shape
        /\ l.code = p.code /\ l.at = p.at /\ l.expected = p.expected /\ l.committed = p.committed
        /\ l.live = p.live /\ l.thunk = p.thunk /\ l.handle = p.handle
        /\ l.saved = p.saved /\ l.found = p.found /\ l.ours = p.ours
        /\ l.links = IF p.shape = "rewrite" THEN {} ELSE {r}
    BY <1>8, <2>1 DEF Linked, SiteOK, SiteRecords
  <2> HIDE DEF l
  <2>4. /\ u.used = l.used /\ u.addr = l.addr /\ u.external = l.external /\ u.shape = l.shape
        /\ u.code = l.code /\ u.at = l.at /\ u.expected = l.expected /\ u.committed = l.committed
        /\ u.live = l.live /\ u.thunk = l.thunk /\ u.links = l.links /\ u.state = "applied"
        /\ IF ready.backend = "fp" THEN u.handle /\ u.saved = l.saved /\ u.ours = l.ours /\ u.found = mem[l.at]
           ELSE /\ u.handle = l.handle /\ u.saved = l.live /\ u.ours = InstalledWord(i, l)
                /\ u.found = l.found
    BY <2>3 DEF Installed, SiteOK, SiteRecords
  <2>5. /\ InstalledWord(i, u) = InstalledWord(i, p) /\ InstalledWord(i, l) = InstalledWord(i, p)
    BY <2>3, <2>4 DEF InstalledWord
  <2> HIDE DEF u
  <2>6. t = u /\ site' = [site EXCEPT ![i] = t]
    BY <1>5, <2>1
  <2>7. Serving(u, d)
    BY <1>6, <1>8, <2>1, <2>3, <2>4
  <2>8. Keeps(s, u)
    BY <1>2, <1>8, <2>1, <2>3, <2>4 DEF Keeps
  <2>9. InstalledNow(r, i, u)
    <3>1. s = site[i]
      BY DEF s
    <3>2. /\ u.state = "applied" /\ u.committed
          /\ u.at \in Addrs /\ u.live = seen[u.at] /\ Matches(seen[u.at], u.expected)
          /\ u.links = IF u.shape = "rewrite" THEN {} ELSE {r}
          /\ Applied' = Applied \cup {r} /\ row'[r].site = i
          /\ mem' = [mem EXCEPT ![u.at] = InstalledWord(i, u)]
      BY <1>1, <1>8, <2>1, <2>2, <2>3, <2>4, <2>5
    <3>3. IF ready.backend = "fp"
          THEN /\ u.handle /\ entries' = entries \cup {u.at}
               /\ u.saved = site[i].saved /\ u.ours = site[i].ours /\ u.found = mem[u.at]
          ELSE /\ u.handle = site[i].handle /\ entries' = entries
               /\ u.saved = u.live /\ u.ours = InstalledWord(i, u) /\ u.found = site[i].found
      BY <1>2, <1>8, <2>1, <2>3, <2>4, <2>5, <3>1 DEF EntriesWith
    <3> QED BY <3>2, <3>3 DEF InstalledNow
  <2>10. Looked(s, u)
    BY <1>8, <2>1, <2>3, <2>4 DEF Looked
  <2> QED BY <2>6, <2>7, <2>8, <2>9, <2>10
<1>10. CASE InstallFails(r)
  <2> DEFINE u == [g EXCEPT !.state = "failed", !.live = p.live]
             v == NotInstalled(r, p)
  <2>1. /\ GuardPasses(g) /\ UNCHANGED text
        /\ \/ site' = [site EXCEPT ![i] = u] /\ ~g.committed
           \/ site' = [site EXCEPT ![i] = v]
        /\ \E wait, shim : Turn(r, "failed", wait, shim)
    BY <1>10 DEF InstallFails, g, i, d, p
  <2>2. Applied' = Applied
    <3>1. row'[r].state = "failed"
      BY <1>3, <2>1 DEF Turn
    <3> QED BY <1>1, <3>1
  <2>3. /\ u.used /\ u.addr = g.addr /\ u.external = g.external /\ u.shape = g.shape
        /\ u.code = g.code /\ u.at = g.at /\ u.expected = g.expected
        /\ u.state = "failed" /\ u.links = g.links /\ u.committed = g.committed
        /\ u.handle = g.handle /\ u.saved = g.saved /\ u.found = g.found
        /\ u.ours = g.ours /\ u.live = p.live
    BY <1>2 DEF SiteOK, SiteRecords
  <2>4. /\ v.used /\ v.addr = p.addr /\ v.external = p.external /\ v.shape = p.shape
        /\ v.code = p.code /\ v.at = p.at /\ v.expected = p.expected
        /\ v.state = "failed" /\ v.links = p.links /\ v.committed = p.committed
        /\ v.live = p.live /\ v.thunk = p.thunk /\ v.handle = p.handle /\ v.saved = p.saved /\ v.found = p.found
        /\ v.ours = p.ours
    BY <1>8, <2>1 DEF NotInstalled, SiteOK, SiteRecords
  <2> HIDE DEF u, v
  <2>5. CASE site' = [site EXCEPT ![i] = u] /\ ~g.committed
    <3>1. t = u /\ site' = [site EXCEPT ![i] = t]
      BY <1>5, <2>5
    <3>2. Serving(u, d)
      BY <1>6, <2>3
    <3>3. Keeps(s, u)
      BY <1>2, <2>5 DEF Keeps
    <3>4. NotInstalledNow(r, s, u)
      BY <1>2, <2>1, <2>2, <2>3 DEF NotInstalledNow, text
    <3>5. Looked(s, u)
      BY <1>8, <2>1, <2>3 DEF Looked
    <3> QED BY <3>1, <3>2, <3>3, <3>4, <3>5
  <2>6. CASE site' = [site EXCEPT ![i] = v]
    <3>1. t = v /\ site' = [site EXCEPT ![i] = t]
      BY <1>5, <2>6
    <3>2. Serving(v, d)
      BY <1>6, <1>8, <2>1, <2>4
    <3>3. Keeps(s, v)
      BY <1>2, <1>8, <2>1, <2>4 DEF Keeps
    <3>4. NotInstalledNow(r, s, v)
      BY <1>2, <1>8, <2>1, <2>2, <2>4 DEF NotInstalledNow, text
    <3>5. Looked(s, v)
      BY <1>8, <2>1, <2>4 DEF Looked
    <3> QED BY <3>1, <3>2, <3>3, <3>4, <3>5
  <2> QED BY <2>1, <2>5, <2>6
<1> QED BY <1>4, <1>7, <1>9, <1>10 DEF ApplyOne

\* A row that has a site to join, or none at all, leaves the text alone: it joins the
\* chain, or nothing has changed but the row's own state.
JoinedNow(r, i) ==
  /\ i \in SiteRows /\ MayJoin(r) /\ Serves(site[i], row[r].desc)
  /\ site' = [site EXCEPT ![i] = site'[i]]
  /\ site'[i] = [site[i] EXCEPT !.links = @ \cup {r}]
  /\ Applied' = Applied \cup {r} /\ row'[r].site = i

\* A turn of applyOne that installs nothing: the row waits or fails, or it joins the links of a slot.
LEMMA JoinEffect ==
  ASSUME TypeInv, Recorded, NEW r \in Rows, ApplyOne(r), ~Installs(r)
  PROVE  /\ UNCHANGED <<mem, entries>>
         /\ \/ UNCHANGED site /\ Applied' = Applied
            \/ JoinedNow(r, Bound(row[r].desc))
<1>1. /\ row \in [Rows -> RowRecords] /\ site \in [SiteRows -> SiteRecords]
      /\ Applied' = IF row'[r].state = "applied" THEN Applied \cup {r} ELSE Applied
      /\ row'[r].site = IF Bound(row[r].desc) = 0 THEN row[r].site ELSE Bound(row[r].desc)
  BY TurnOf DEF TypeInv, TypeOK
<1>2. ~InstallRefused(r) /\ ~Install(r) /\ ~InstallFails(r)
  BY DEF InstallRefused, Install, InstallFails
<1>3. CASE ApplyUnbound(r) \/ JoinRefused(r) \/ JoinFails(r)
  <2>1. UNCHANGED <<site, text>>
    BY <1>3 DEF ApplyUnbound, JoinRefused, JoinFails
  <2>2. \E state \in {"failed", "collided", "refused"} : \E wait, shim : Turn(r, state, wait, shim)
    BY <1>3 DEF ApplyUnbound, JoinRefused, JoinFails
  <2>3. row'[r].state # "applied"
    BY <1>1, <2>2 DEF Turn
  <2> QED BY <1>1, <2>1, <2>3 DEF text
<1>4. CASE Join(r)
  <2> DEFINE i == Bound(row[r].desc)
  <2>1. /\ MayJoin(r) /\ i # 0 /\ site[i].state = "applied" /\ UNCHANGED text
        /\ Turn(r, "applied", row[r].wait, TRUE)
        /\ site' = [site EXCEPT ![i].links = @ \cup {r}]
    BY <1>4 DEF Join, MayJoin
  <2>2. row'[r].state = "applied"
    BY <1>1, <2>1 DEF Turn
  <2>3. i \in SiteRows /\ Serves(site[i], row[r].desc)
    <3>1. i \in SiteRows /\ (Serves(site[i], row[r].desc) \/ ~site[i].used)
      BY <2>1, BoundIn
    <3>2. site[i].used
      BY <2>1, <3>1 DEF Recorded, SiteRecorded, NewSite
    <3> QED BY <3>1, <3>2
  <2> HIDE DEF i
  <2>4. /\ site'[i] = [site[i] EXCEPT !.links = @ \cup {r}]
        /\ site' = [site EXCEPT ![i] = site'[i]]
    BY <1>1, <2>1, <2>3
  <2>5. JoinedNow(r, i)
    BY <1>1, <2>1, <2>2, <2>3, <2>4 DEF JoinedNow, i
  <2> QED BY <2>1, <2>5 DEF text, i
<1> QED BY <1>2, <1>3, <1>4 DEF ApplyOne

\* What a removal never changes of a slot, and of a row.
SameSlot(s, t) ==
  /\ t.used = s.used /\ t.addr = s.addr /\ t.external = s.external /\ t.shape = s.shape
  /\ t.code = s.code /\ t.expected = s.expected /\ t.at = s.at /\ t.live = s.live
  /\ t.committed = s.committed /\ t.thunk = s.thunk /\ t.ours = s.ours
  /\ t.saved = s.saved /\ t.found = s.found

SameRow(x, y) ==
  /\ y.used = x.used /\ y.desc = x.desc /\ y.retired = x.retired /\ y.wanted = x.wanted
  /\ y.site = x.site /\ y.shim = x.shim

\* What removeOrphan leaves of a slot, word given back or kept: all but its state and the backend's note.
LEMMA BackFields ==
  ASSUME NEW s, SiteOK(s), ready.backend \in {"fp", "direct"}
  PROVE  /\ SameSlot(s, GivenBack(s)) /\ SameSlot(s, KeptBack(s))
         /\ GivenBack(s).links = s.links /\ KeptBack(s).links = s.links
         /\ GivenBack(s).state = "declared" /\ KeptBack(s).state = "failed"
         /\ GivenBack(s).handle = IF ready.backend = "fp" THEN FALSE ELSE s.handle
         /\ KeptBack(s).handle = s.handle
<1>1. /\ SameSlot(s, GivenBack(s)) /\ GivenBack(s).links = s.links /\ GivenBack(s).state = "declared"
      /\ GivenBack(s).handle = IF ready.backend = "fp" THEN FALSE ELSE s.handle
  BY DEF SiteOK, SiteRecords, GivenBack, SameSlot
<1>2. /\ SameSlot(s, KeptBack(s)) /\ KeptBack(s).links = s.links /\ KeptBack(s).state = "failed"
      /\ KeptBack(s).handle = s.handle
  BY DEF SiteOK, SiteRecords, KeptBack, SameSlot
<1> QED BY <1>1, <1>2

\* A row taken out of its site: the site is still installed while others are on its
\* chain, and is given or kept back with the last.
SiteRemoved(i, s, t) ==
  \/ /\ Removable(s) /\ TextWithout({i})
     /\ t.handle = IF ready.backend = "fp" THEN FALSE ELSE s.handle
  \/ /\ MayFail(s) /\ UNCHANGED <<mem, entries>>
     /\ t.handle = s.handle

\* removeLink: the row is off its slot, and with the last row the word is, if the backend gives it back.
LEMMA RemoveEffect ==
  ASSUME TypeInv, Recorded, NEW r \in Rows, row[r].state = "applied", RemoveLink(r)
  PROVE  LET i == row[r].site
             s == site[i]
             t == site'[i]
         IN  /\ i \in InstalledSites /\ site' = [site EXCEPT ![i] = t]
             /\ ready.backend \in {"fp", "direct"}
             /\ SameSlot(s, t) /\ t.links = s.links \ {r}
             /\ \/ t.links # {} /\ t.state = "applied" /\ t.handle = s.handle
                   /\ UNCHANGED <<mem, entries>>
                \/ t.links = {} /\ t.state # "applied" /\ SiteRemoved(i, s, t)
             /\ row' = [row EXCEPT ![r] = row'[r]] /\ SameRow(row[r], row'[r])
             /\ Applied' = Applied \ {r}
<1> DEFINE i == row[r].site
           s == site[i]
           l == [s EXCEPT !.links = s.links \ {r}]
<1>1. r \in Applied /\ RowRecorded(r) /\ i \in InstalledSites /\ i \in SiteRows /\ SiteOK(s)
  BY DEF Recorded, RowRecorded, InstalledSites, Applied, TypeInv
<1>2. ready.backend \in {"fp", "direct"}
  <2>1. ready.text
    BY <1>1 DEF Recorded
  <2> QED BY <2>1 DEF TypeInv, TickOK, TypeOK
<1>3. row \in [Rows -> RowRecords] /\ site \in [SiteRows -> SiteRecords]
  BY DEF TypeInv, TypeOK
<1>4. Applied' = Applied \ {r}
  BY RemovedTyped
<1>5. row' = [row EXCEPT ![r] = row'[r]] /\ SameRow(row[r], row'[r])
  <2>1. PICK state \in {"declared", "failed"} : row' = [row EXCEPT ![r].state = state]
    BY RemoveLinkTyped
  <2>2. row'[r] = [row[r] EXCEPT !.state = state] /\ row' = [row EXCEPT ![r] = row'[r]]
    BY <1>3, <2>1
  <2> QED BY <1>3, <2>2 DEF SameRow, RowRecords
<1>6. /\ SiteOK(l) /\ SameSlot(s, l) /\ l.links = s.links \ {r} /\ l.state = "applied"
      /\ l.handle = s.handle
  <2>1. SiteOK(l)
    BY <1>1, LinksTyped DEF SiteOK, SiteRecords
  <2> QED BY <1>1, <2>1 DEF SiteOK, SiteRecords, SameSlot, InstalledSites
<1>7. \/ /\ l.links # {} /\ site' = [site EXCEPT ![i] = l] /\ UNCHANGED text
      \/ /\ l.links = {} /\ Removable(l) /\ site' = [site EXCEPT ![i] = GivenBack(l)]
         /\ TextWithout({i})
      \/ /\ l.links = {} /\ MayFail(l) /\ site' = [site EXCEPT ![i] = KeptBack(l)]
         /\ UNCHANGED text
  BY DEF RemoveLink
<1>8. ASSUME NEW u, site' = [site EXCEPT ![i] = u]
      PROVE  site'[i] = u /\ site' = [site EXCEPT ![i] = site'[i]]
  BY <1>1, <1>3, <1>8
<1> HIDE DEF i, s, l
<1>9. /\ Removable(l) => Removable(s)
      /\ MayFail(l) => MayFail(s)
  BY <1>6 DEF Removable, MayFail, SameSlot
<1>10. \A u : SameSlot(l, u) => SameSlot(s, u)
  BY <1>6 DEF SameSlot
<1>11. CASE l.links # {} /\ site' = [site EXCEPT ![i] = l] /\ UNCHANGED text
  <2>1. site'[i] = l /\ site' = [site EXCEPT ![i] = site'[i]]
    BY <1>8, <1>11
  <2> QED BY <1>1, <1>2, <1>4, <1>5, <1>6, <1>11, <2>1 DEF i, s, text
<1>12. CASE l.links = {} /\ Removable(l) /\ site' = [site EXCEPT ![i] = GivenBack(l)] /\ TextWithout({i})
  <2>1. site'[i] = GivenBack(l) /\ site' = [site EXCEPT ![i] = site'[i]]
    BY <1>8, <1>12
  <2>2. /\ SameSlot(s, site'[i]) /\ site'[i].links = s.links \ {r} /\ site'[i].state = "declared"
        /\ site'[i].handle = IF ready.backend = "fp" THEN FALSE ELSE s.handle
    <3>1. /\ SameSlot(l, GivenBack(l)) /\ GivenBack(l).links = l.links
          /\ GivenBack(l).state = "declared"
          /\ GivenBack(l).handle = IF ready.backend = "fp" THEN FALSE ELSE l.handle
      BY <1>2, <1>6, BackFields
    <3> QED BY <1>6, <1>10, <2>1, <3>1
  <2>3. SiteRemoved(i, s, site'[i])
    BY <1>9, <1>12, <2>2 DEF SiteRemoved
  <2> QED BY <1>1, <1>2, <1>4, <1>5, <1>6, <1>12, <2>1, <2>2, <2>3 DEF i, s
<1>13. CASE l.links = {} /\ MayFail(l) /\ site' = [site EXCEPT ![i] = KeptBack(l)] /\ UNCHANGED text
  <2>1. site'[i] = KeptBack(l) /\ site' = [site EXCEPT ![i] = site'[i]]
    BY <1>8, <1>13
  <2>2. /\ SameSlot(s, site'[i]) /\ site'[i].links = s.links \ {r} /\ site'[i].state = "failed"
        /\ site'[i].handle = s.handle
    <3>1. /\ SameSlot(l, KeptBack(l)) /\ KeptBack(l).links = l.links
          /\ KeptBack(l).state = "failed" /\ KeptBack(l).handle = l.handle
      BY <1>2, <1>6, BackFields
    <3> QED BY <1>6, <1>10, <2>1, <3>1
  <2>3. SiteRemoved(i, s, site'[i])
    BY <1>9, <1>13, <2>2 DEF SiteRemoved, text
  <2> QED BY <1>1, <1>2, <1>4, <1>5, <1>6, <1>13, <2>1, <2>2, <2>3 DEF i, s
<1> QED BY <1>7, <1>11, <1>12, <1>13

\* Who is on a chain is applied there, and a site with a chain is installed.
LEMMA LinksInstalled ==
  ASSUME TypeInv, Recorded, NEW i \in SiteRows
  PROVE  /\ \A k \in site[i].links : k \in Applied /\ row[k].site = i
         /\ i \notin InstalledSites => site[i].links = {}
<1>1. \A k \in site[i].links : k \in Applied /\ row[k].site = i
  BY DEF Recorded, SiteRecorded, TypeInv, SiteOK, SiteRecords, Applied
<1>2. \A k \in Applied : site[row[k].site].used /\ site[row[k].site].state = "applied"
  BY DEF Recorded, RowRecorded
<1>3. \A k \in site[i].links : i \in InstalledSites
  BY <1>1, <1>2 DEF InstalledSites
<1> QED BY <1>1, <1>3

\* RemoveAll: no slot has a link or is applied, whichever words were given back.
LEMMA RemoveAllEffect ==
  ASSUME TypeInv, Recorded, NEW gone \in SUBSET InstalledSites, RemoveAll(gone)
  PROVE  /\ \A i \in SiteRows :
              /\ SameSlot(site[i], site'[i]) /\ site'[i].links = {} /\ site'[i].state # "applied"
              /\ site'[i].handle = IF i \in gone /\ ready.backend = "fp" THEN FALSE
                                   ELSE site[i].handle
         /\ \A r \in Rows : SameRow(row[r], row'[r])
         /\ Applied' = {}
         /\ InstalledSites # {} => ready.backend \in {"fp", "direct"}
<1>1. /\ row' = [r \in Rows |->
               IF row[r].state = "applied" /\ row[r].site \in InstalledSites
               THEN [row[r] EXCEPT !.state = IF row[r].site \in gone THEN "declared" ELSE "failed"]
               ELSE row[r]]
      /\ site' = [i \in SiteRows |->
                IF i \in gone THEN [GivenBack(site[i]) EXCEPT !.links = {}]
                ELSE IF i \in InstalledSites THEN [KeptBack(site[i]) EXCEPT !.links = {}]
                ELSE site[i]]
  BY DEF RemoveAll
<1>2. InstalledSites # {} => ready.backend \in {"fp", "direct"}
  BY DEF Recorded, TypeInv, TickOK, TypeOK
<1>3. ASSUME NEW i \in SiteRows
      PROVE  /\ SameSlot(site[i], site'[i]) /\ site'[i].links = {} /\ site'[i].state # "applied"
             /\ site'[i].handle = IF i \in gone /\ ready.backend = "fp" THEN FALSE
                                  ELSE site[i].handle
  <2>1. SiteOK(site[i])
    BY DEF TypeInv
  <2>2. ASSUME NEW u, SiteOK(u), SameSlot(site[i], u), NEW v, v = [u EXCEPT !.links = {}]
        PROVE  SameSlot(site[i], v) /\ v.links = {} /\ v.state = u.state /\ v.handle = u.handle
    BY <2>2 DEF SiteOK, SiteRecords, SameSlot
  <2>3. CASE i \in gone
    <3> DEFINE u == GivenBack(site[i])
    <3>1. /\ SiteOK(u) /\ SameSlot(site[i], u) /\ u.state = "declared"
          /\ u.handle = IF ready.backend = "fp" THEN FALSE ELSE site[i].handle
      BY <1>2, <2>1, <2>3, BackTyped, BackFields
    <3>2. site'[i] = [u EXCEPT !.links = {}]
      BY <1>1, <2>3
    <3> HIDE DEF u
    <3>3. /\ SameSlot(site[i], site'[i]) /\ site'[i].links = {}
          /\ site'[i].state = u.state /\ site'[i].handle = u.handle
      BY <2>2, <3>1, <3>2
    <3> QED BY <2>3, <3>1, <3>3
  <2>4. CASE i \notin gone /\ i \in InstalledSites
    <3> DEFINE u == KeptBack(site[i])
    <3>1. SiteOK(u) /\ SameSlot(site[i], u) /\ u.state = "failed" /\ u.handle = site[i].handle
      BY <1>2, <2>1, <2>4, BackTyped, BackFields
    <3>2. site'[i] = [u EXCEPT !.links = {}]
      BY <1>1, <2>4
    <3> HIDE DEF u
    <3>3. /\ SameSlot(site[i], site'[i]) /\ site'[i].links = {}
          /\ site'[i].state = u.state /\ site'[i].handle = u.handle
      BY <2>2, <3>1, <3>2
    <3> QED BY <2>4, <3>1, <3>3
  <2>5. CASE i \notin InstalledSites
    <3>1. site'[i] = site[i] /\ site[i].links = {} /\ i \notin gone
      BY <1>1, <2>5, LinksInstalled
    <3>2. site[i].state # "applied"
      BY <2>1, <2>5 DEF InstalledSites, Recorded, SiteRecorded, NewSite
    <3> QED BY <3>1, <3>2 DEF SameSlot
  <2> QED BY <2>3, <2>4, <2>5
<1>4. ASSUME NEW r \in Rows PROVE SameRow(row[r], row'[r]) /\ row'[r].state # "applied"
  <2>1. row[r] \in RowRecords
    BY DEF TypeInv, RowOK
  <2>2. row[r].state = "applied" => row[r].site \in InstalledSites
    BY DEF Recorded, RowRecorded, InstalledSites, Applied
  <2>3. CASE row[r].state = "applied"
    <3>1. PICK state \in {"declared", "failed"} : row'[r] = [row[r] EXCEPT !.state = state]
      BY <1>1, <2>2, <2>3
    <3> QED BY <2>1, <3>1 DEF RowRecords, SameRow
  <2>4. CASE row[r].state # "applied"
    <3>1. row'[r] = row[r]
      BY <1>1, <2>4
    <3> QED BY <2>4, <3>1 DEF SameRow
  <2> QED BY <2>3, <2>4
<1> QED BY <1>2, <1>3, <1>4 DEF Applied

-----------------------------------------------------------------------------
(* The steps, as far as sites are concerned.                                     *)

\* Nothing is installed, removed or joined, and nobody's readiness changes where a site
\* is installed.
Quiet ==
  /\ UNCHANGED site /\ Applied' = Applied
  /\ \A r \in Applied : row'[r].desc = row[r].desc /\ row'[r].site = row[r].site
  /\ \/ cfg' = cfg /\ (ready.text => ready' = ready)
     \/ cfg = NoConfig

\* The process is forgotten.
Forgotten ==
  /\ site' = [i \in SiteRows |-> NewSite] /\ Applied' = {}
  /\ \/ NextProcess
     \/ \E c \in Configs, gone \in SUBSET InstalledSites : ConfigureMoved(c, gone)

\* The host's calls leave the slots alone, forget them all, or take every patch out.
LEMMA HostEffect ==
  ASSUME TypeInv, Recorded, HostConfigures # "again", Host
  PROVE  \/ Quiet /\ UNCHANGED <<mem, entries>>
         \/ Forgotten
         \/ \E gone \in SUBSET InstalledSites : RemoveAll(gone)
<1>1. row \in [Rows -> RowRecords] /\ \A r \in Rows : RowOK(row[r])
  BY DEF TypeInv, TypeOK
<1>2. ASSUME NEW r \in Rows, NEW x, x.state # "applied", row[r].state # "applied",
             row' = [row EXCEPT ![r] = x]
      PROVE  /\ Applied' = Applied
             /\ \A k \in Applied : row'[k].desc = row[k].desc /\ row'[k].site = row[k].site
  <2>1. \A k \in Rows : row'[k] = IF k = r THEN x ELSE row[k]
    BY <1>1, <1>2
  <2> QED BY <1>2, <2>1 DEF Applied
<1>3. ASSUME NEW d \in Descs, Declare(d) PROVE Quiet /\ UNCHANGED <<mem, entries>>
  <2> DEFINE x == [NewRow EXCEPT !.used = TRUE, !.desc = d]
             r == Lowest(FreeRows)
  <2>1. r \in FreeRows
    BY <1>3, LowestIn, RowsAssumption DEF Declare, FreeRows
  <2>2. r \in Rows /\ row[r].state # "applied"
    BY <1>1, <2>1 DEF FreeRows, RowOK
  <2>3. x.state # "applied"
    BY DEF NewRow
  <2>4. row' = [row EXCEPT ![r] = x] /\ UNCHANGED <<site, cfg, ready, mem, entries>>
    BY <1>3 DEF Declare, text
  <2> HIDE DEF x, r
  <2> QED BY <1>2, <2>2, <2>3, <2>4 DEF Quiet
<1>4. ASSUME NEW r \in Rows, Undeclare(r) PROVE Quiet /\ UNCHANGED <<mem, entries>>
  <2> DEFINE x == [NewRow EXCEPT !.retired = row[r].shim]
  <2>1. x.state # "applied" /\ row[r].state # "applied" /\ row' = [row EXCEPT ![r] = x]
        /\ UNCHANGED <<site, cfg, ready, mem, entries>>
    BY <1>4 DEF Undeclare, NewRow, text
  <2> HIDE DEF x
  <2> QED BY <1>2, <2>1 DEF Quiet
<1>5. ASSUME NEW r \in Rows, NEW enabled \in BOOLEAN, SetEnabled(r, enabled)
      PROVE  Quiet /\ UNCHANGED <<mem, entries>>
  <2> DEFINE x == [row[r] EXCEPT !.wanted = enabled, !.wait = 0]
  <2>1. row' = [row EXCEPT ![r] = x] /\ UNCHANGED <<site, cfg, ready, mem, entries>>
    BY <1>1, <1>5 DEF SetEnabled, text
  <2>2. x.state = row[r].state /\ x.desc = row[r].desc /\ x.site = row[r].site
    BY <1>1 DEF RowRecords
  <2> HIDE DEF x
  <2>3. \A k \in Rows : row'[k] = IF k = r THEN x ELSE row[k]
    BY <1>1, <2>1
  <2>4. Applied' = Applied
    BY <2>2, <2>3 DEF Applied
  <2>5. \A k \in Applied : row'[k].desc = row[k].desc /\ row'[k].site = row[k].site
    BY <2>2, <2>3 DEF Applied
  <2> QED BY <2>1, <2>4, <2>5 DEF Quiet
<1>6. ASSUME NEW c \in Configs, ConfigureSame(c) PROVE Quiet /\ UNCHANGED <<mem, entries>>
  <2>1. cfg = NoConfig /\ UNCHANGED <<row, site, mem, entries>>
    BY <1>6 DEF ConfigureSame, text
  <2> QED BY <2>1 DEF Quiet, Applied
<1>7. ASSUME NEW keepIntent, ForgetProcess(keepIntent)
      PROVE  site' = [i \in SiteRows |-> NewSite] /\ Applied' = {}
  <2>1. \A r \in Rows : row'[r].state # "applied"
    BY <1>7 DEF ForgetProcess, NewRow
  <2> QED BY <1>7, <2>1 DEF ForgetProcess, Applied
<1>8. ASSUME NEW c \in Configs, NEW gone \in SUBSET InstalledSites, ConfigureMoved(c, gone)
      PROVE  Forgotten
  <2>1. ForgetProcess(TRUE)
    BY <1>8 DEF ConfigureMoved
  <2> QED BY <1>7, <1>8, <2>1 DEF Forgotten
<1>9. CASE NextProcess
  BY <1>7, <1>9 DEF NextProcess, Forgotten
<1> QED BY <1>3, <1>4, <1>5, <1>6, <1>8, <1>9 DEF Host

\* Where Tick begins, marks collisions and ends, no slot changes and nobody comes or goes.
LEMMA TickEffect ==
  ASSUME TypeInv, TickBegin \/ TickCollide(Refused(Extents, MaxCollisions)) \/ TickEnd
  PROVE  Quiet /\ UNCHANGED <<mem, entries>>
<1>1. row \in [Rows -> RowRecords] /\ \A r \in Rows : RowOK(row[r])
  BY DEF TypeInv, TypeOK
<1>2. ASSUME NEW r \in Rows
      PROVE  /\ Aged[r].state = row[r].state /\ Aged[r].desc = row[r].desc /\ Aged[r].site = row[r].site
             /\ LET x == [Aged[r] EXCEPT !.state = "blocked"]
                IN  x.state = "blocked" /\ x.desc = row[r].desc /\ x.site = row[r].site
  <2>1. row[r] \in RowRecords
    BY <1>1
  <2>2. Aged[r] = [row[r] EXCEPT !.wait = IF row[r].wait = 0 THEN 0 ELSE row[r].wait - 1]
    BY <2>1 DEF Aged
  <2>3. /\ Aged[r].state = row[r].state /\ Aged[r].desc = row[r].desc /\ Aged[r].site = row[r].site
    BY <2>1, <2>2 DEF RowRecords
  <2>4. Aged[r] \in RowRecords
    BY AgedTyped
  <2> HIDE DEF Aged
  <2> QED BY <2>3, <2>4 DEF RowRecords
<1>3. CASE TickBlocked
  <2>1. /\ row' = [r \in Rows |-> IF Waiting(r) THEN [Aged[r] EXCEPT !.state = "blocked"] ELSE Aged[r]]
        /\ UNCHANGED <<site, cfg, ready, mem, entries>>
    BY <1>3 DEF TickBlocked, text
  <2>2. ASSUME NEW r \in Rows
        PROVE  /\ row'[r].desc = row[r].desc /\ row'[r].site = row[r].site
               /\ row'[r].state = "applied" <=> row[r].state = "applied"
    BY <1>2, <2>1 DEF Waiting
  <2> QED BY <2>1, <2>2 DEF Quiet, Applied
<1>4. ASSUME NEW dataDirty, TickQuietIf(dataDirty) \/ TickStartIf(dataDirty)
      PROVE  Quiet /\ UNCHANGED <<mem, entries>>
  <2>1. row' = Aged /\ UNCHANGED <<site, cfg, mem, entries>>
    BY <1>4 DEF TickQuietIf, TickStartIf, text
  <2>2. Applied' = Applied
    BY <1>2, <2>1 DEF Applied
  <2>3. \A r \in Applied : row'[r].desc = row[r].desc /\ row'[r].site = row[r].site
    BY <1>2, <2>1 DEF Applied
  <2>4. ready.text => ready' = ready
    <3>1. CASE TickQuietIf(dataDirty)
      BY <3>1 DEF TickQuietIf
    <3>2. CASE TickStartIf(dataDirty)
      <4>1. PICK fpUp \in FpAnswers, found \in ModuleAnswers :
              ready' = IF cfg.text THEN EnsureReady(cfg, fpUp, found) ELSE ready
        BY <3>2 DEF TickStartIf
      <4>2. ready \in [backend : {"none", "fp", "direct"}, checked : BOOLEAN, text : BOOLEAN]
            /\ (ready.text => ready.checked)
        BY DEF TypeInv, TypeOK, TickOK
      <4>3. ASSUME ready.text PROVE EnsureReady(cfg, fpUp, found) = ready
        BY <4>2, <4>3 DEF EnsureReady
      <4> QED BY <4>1, <4>3
    <3> QED BY <1>4, <3>1, <3>2
  <2> QED BY <2>1, <2>2, <2>3, <2>4 DEF Quiet
<1>5. CASE TickCollide(Refused(Extents, MaxCollisions))
  <2>1. Applied' = Applied /\ UNCHANGED <<site, cfg, ready, mem, entries>>
    BY <1>5, CollideTyped DEF TickCollide, text
  <2>2. ASSUME NEW r \in Rows PROVE row'[r].desc = row[r].desc /\ row'[r].site = row[r].site
    <3>1. \E state : row'[r] = [row[r] EXCEPT !.state = state]
      BY <1>5 DEF TickCollide
    <3> QED BY <1>1, <3>1 DEF RowRecords
  <2> QED BY <2>1, <2>2 DEF Quiet, Applied
<1>6. CASE TickEnd
  BY <1>6 DEF TickEnd, Quiet, Applied, text
<1> QED BY <1>3, <1>4, <1>5, <1>6 DEF TickBegin

\* The Tick under way takes a row out of its site.
TakesOut(r) ==
  /\ row[r].state = "applied" /\ RemoveLink(r)
  /\ tick.pc \in {"remove", "rollback"} /\ UNCHANGED <<cfg, ready>>

\* What any step does to rows and slots, in the five kinds the proofs below go through.
LEMMA StepEffect ==
  ASSUME TypeInv, Recorded, HostConfigures # "again", [Next]_vars
  PROVE  \/ /\ Quiet
            /\ \/ UNCHANGED <<mem, entries>>
               \/ \E a \in Addrs, w \in Words : ForeignWrite(a, w)
         \/ Forgotten
         \/ \E gone \in SUBSET InstalledSites : RemoveAll(gone)
         \/ \E r \in Rows : TakesOut(r)
         \/ \E r \in Rows : ApplyOne(r)
<1>1. CASE Host
  BY <1>1, HostEffect
<1>2. CASE TickBegin \/ TickCollide(Refused(Extents, MaxCollisions)) \/ TickEnd
  BY <1>2, TickEffect
<1>3. CASE TickRemove
  <2>1. Lowest(GivenUp) \in GivenUp
    BY <1>3, LowestIn, RowsAssumption DEF TickRemove, GivenUp
  <2>2. Lowest(GivenUp) \in Rows /\ TakesOut(Lowest(GivenUp))
    BY <1>3, <2>1 DEF GivenUp, TakesOut, TickRemove
  <2> QED BY <2>2
<1>4. CASE TickRollback
  <2>1. tick.batch \subseteq Applied /\ tick.batch # {}
    BY <1>4 DEF TypeInv, Batched, TickRollback
  <2>2. Highest(tick.batch) \in tick.batch
    <3>1. Applied \subseteq Rows
      BY DEF Applied
    <3>2. tick.batch \subseteq Nat /\ IsFiniteSet(tick.batch)
      BY <2>1, <3>1, RowsAssumption, FS_Subset
    <3> QED BY <2>1, <3>2, HighestIn
  <2>3. Highest(tick.batch) \in Rows /\ TakesOut(Highest(tick.batch))
    BY <1>4, <2>1, <2>2 DEF Applied, TakesOut, TickRollback
  <2> QED BY <2>3
<1>5. ASSUME NEW a \in Addrs, NEW w \in Words, ForeignWrite(a, w) PROVE Quiet
  BY <1>5 DEF ForeignWrite, Quiet, Applied
<1>6. CASE UNCHANGED vars
  BY <1>6 DEF vars, text, Quiet, Applied
<1> QED BY <1>1, <1>2, <1>3, <1>4, <1>5, <1>6 DEF Next, TickStep, TickCode

-----------------------------------------------------------------------------
(* The agreement of rows and sites is kept.                                      *)

\* Before the first call, no slot is in use.
LEMMA RecordedInit == Init => Recorded
<1> SUFFICES ASSUME Init PROVE Recorded
  OBVIOUS
<1>1. \A r \in Rows : row[r].state # "applied"
  BY DEF Init, NewRow
<1>2. Applied = {}
  BY <1>1 DEF Applied
<1>3. \A i \in SiteRows : site[i] = NewSite /\ site[i].links = {} /\ site[i].state = "declared"
  BY DEF Init, NewSite
<1>4. InstalledSites = {}
  BY <1>3 DEF InstalledSites
<1> QED BY <1>2, <1>3, <1>4 DEF Recorded, SiteRecorded

\* No row in a site and no site installed: nothing to disagree about.
LEMMA NothingRecorded ==
  ASSUME Applied' = {},
         \A i \in SiteRows : /\ site'[i].links = {} /\ site'[i].state # "applied"
                             /\ ~site'[i].used => site'[i] = NewSite
  PROVE  Recorded'
<1>1. InstalledSites' = {}
  BY DEF InstalledSites
<1>2. ASSUME NEW i \in SiteRows PROVE SiteRecorded(i)'
  BY <1>1 DEF SiteRecorded
<1> QED BY <1>1, <1>2 DEF Recorded

\* A step that leaves slots and applied rows alone leaves their records true.
LEMMA RecordedQuiet ==
  ASSUME TypeInv, Recorded, Quiet
  PROVE  Recorded'
<1>1. InstalledSites' = InstalledSites
  BY DEF InstalledSites, Quiet
<1>2. ASSUME NEW r \in Applied' PROVE RowRecorded(r)'
  BY DEF Recorded, RowRecorded, Quiet
<1>3. ASSUME NEW i \in SiteRows PROVE SiteRecorded(i)'
  <2>1. site'[i] = site[i] /\ SiteRecorded(i)
    BY DEF Recorded, Quiet
  <2>2. \A k \in site[i].links : k \in Applied /\ row[k].site = i
    BY LinksInstalled
  <2>3. \A k \in Applied : row'[k].state = "applied" /\ row'[k].site = row[k].site
    BY DEF Quiet, Applied
  <2> QED BY <1>1, <2>1, <2>2, <2>3 DEF SiteRecorded, Quiet
<1>4. ASSUME NEW r \in Applied', NEW k \in Applied', r # k, row'[r].site = row'[k].site
      PROVE  site'[row'[r].site].shape # "rewrite"
  BY <1>4 DEF Recorded, Quiet
<1>5. InstalledSites' # {} => cfg' # NoConfig /\ cfg'.text /\ ready'.text
  BY <1>1 DEF Recorded, Quiet
<1> QED BY <1>2, <1>3, <1>4, <1>5 DEF Recorded

\* So does a row that is taken out.
LEMMA RecordedRemove ==
  ASSUME TypeInv, Recorded, NEW r \in Rows, TakesOut(r)
  PROVE  Recorded'
<1> DEFINE i == row[r].site
           s == site[i]
           t == site'[i]
<1>1. /\ i \in InstalledSites /\ i \in SiteRows /\ site' = [site EXCEPT ![i] = t]
      /\ SameSlot(s, t) /\ t.links = s.links \ {r}
      /\ t.links # {} <=> t.state = "applied"
      /\ row' = [row EXCEPT ![r] = row'[r]] /\ SameRow(row[r], row'[r])
      /\ Applied' = Applied \ {r} /\ UNCHANGED <<cfg, ready>>
  <2>1. i \in InstalledSites => i \in SiteRows
    BY DEF InstalledSites
  <2> QED BY <2>1, RemoveEffect DEF TakesOut
<1>2. /\ \A j \in SiteRows : site'[j] = IF j = i THEN t ELSE site[j]
      /\ \A k \in Rows : k # r => row'[k] = row[k]
  BY <1>1 DEF TypeInv, TypeOK
<1>3. r \in Applied /\ Applied \subseteq Rows
  BY DEF TakesOut, Applied
<1> HIDE DEF i, t, s
<1>4. ASSUME NEW k \in Applied, k # r, row[k].site = i PROVE k \in t.links
  <2>1. s.shape # "rewrite"
    BY <1>3, <1>4 DEF Recorded, i, s
  <2>2. k \in s.links
    BY <1>4, <2>1 DEF Recorded, RowRecorded, s
  <2> QED BY <1>1, <1>4, <2>2
<1>5. ASSUME NEW k \in Applied' PROVE RowRecorded(k)'
  <2>1. k \in Applied /\ k # r /\ row'[k] = row[k] /\ RowRecorded(k)
    BY <1>1, <1>2, <1>3 DEF Recorded
  <2>2. CASE row[k].site = i
    <3>1. k \in t.links
      BY <1>4, <2>1, <2>2
    <3>2. t.state = "applied"
      BY <1>1, <3>1
    <3> QED BY <1>1, <1>2, <2>1, <2>2, <3>1, <3>2 DEF RowRecorded, SameSlot, s
  <2>3. CASE row[k].site # i
    BY <1>2, <2>1, <2>3 DEF RowRecorded
  <2> QED BY <2>2, <2>3
<1>6. ASSUME NEW j \in SiteRows PROVE SiteRecorded(j)'
  <2>1. SiteRecorded(j) /\ \A k \in site[j].links : k \in Applied /\ row[k].site = j
    BY LinksInstalled DEF Recorded
  <2>2. CASE j = i
    <3>1. site'[j] = t /\ SiteRecorded(i)
      BY <1>2, <2>1, <2>2
    <3>2. t.used
      BY <1>1 DEF InstalledSites, SameSlot, s
    <3>3. \A k \in t.links : k \in Applied /\ k # r /\ row'[k] = row[k] /\ row[k].site = i
      BY <1>1, <1>2, <1>3, <2>1, <2>2 DEF s
    <3>4. \A k \in t.links : row'[k].state = "applied" /\ row'[k].site = i
      BY <3>3 DEF Applied
    <3>5. t.shape = "rewrite" => t.links = {}
      BY <1>1, <3>1 DEF SiteRecorded, SameSlot, s
    <3>6. t.committed
      BY <1>1, <3>1 DEF SiteRecorded, SameSlot, s
    <3>7. t.state = "applied" => \E k \in Applied' : row'[k].site = i
      BY <1>1, <3>3
    <3> QED BY <2>2, <3>1, <3>2, <3>4, <3>5, <3>6, <3>7 DEF SiteRecorded, InstalledSites
  <2>3. CASE j # i
    <3>1. site'[j] = site[j]
      BY <1>2, <2>3
    <3>2. \A k \in Applied : row[k].site = j => k # r /\ k \in Applied' /\ row'[k] = row[k]
      BY <1>1, <1>2, <1>3, <2>3 DEF i
    <3>3. j \in InstalledSites' => j \in InstalledSites
      BY <3>1 DEF InstalledSites
    <3>4. \A k \in site[j].links : row'[k].state = "applied" /\ row'[k].site = j
      BY <2>1, <3>2 DEF Applied
    <3>5. j \in InstalledSites => site[j].committed /\ \E k \in Applied' : row'[k].site = j
      BY <2>1, <3>2 DEF SiteRecorded
    <3> QED BY <2>1, <3>1, <3>3, <3>4, <3>5 DEF SiteRecorded
  <2> QED BY <2>2, <2>3
<1>7. ASSUME NEW k \in Applied', NEW m \in Applied', k # m, row'[k].site = row'[m].site
      PROVE  site'[row'[k].site].shape # "rewrite"
  <2>1. k \in Applied /\ m \in Applied /\ row'[k] = row[k] /\ row'[m] = row[m]
    BY <1>1, <1>2, <1>3
  <2>2. site[row[k].site].shape # "rewrite" /\ row[k].site \in SiteRows
    BY <1>7, <2>1 DEF Recorded, RowRecorded
  <2> QED BY <1>1, <1>2, <2>1, <2>2 DEF SameSlot, s
<1>8. InstalledSites' # {} => cfg' # NoConfig /\ cfg'.text /\ ready'.text
  BY <1>1 DEF Recorded
<1> QED BY <1>5, <1>6, <1>7, <1>8 DEF Recorded

\* A row whose turn comes has no site yet, and one site at most changes.
LEMMA RecordedApply ==
  ASSUME TypeInv, Recorded, NEW r \in Rows, ApplyOne(r)
  PROVE  Recorded'
<1>0. PICK d, i : d = row[r].desc /\ i = Bound(d)
  OBVIOUS
<1> DEFINE s == site[i]
           t == site'[i]
<1>1. /\ row' = [row EXCEPT ![r] = row'[r]] /\ row'[r].desc = d
      /\ r \notin Applied /\ Applied \subseteq Rows
      /\ cfg # NoConfig /\ cfg.text /\ ready.text /\ UNCHANGED <<cfg, ready>>
  BY <1>0, TurnOf DEF Applied
<1>2. \A k \in Rows : k # r => row'[k] = row[k]
  BY <1>1 DEF TypeInv, TypeOK
<1>3. \A k \in Applied : k # r /\ row'[k] = row[k] /\ RowRecorded(k) /\ k \in Rows
  BY <1>1, <1>2 DEF Recorded
<1>4. InstalledSites' # {} => cfg' # NoConfig /\ cfg'.text /\ ready'.text
  BY <1>1
<1>5. ASSUME NEW j \in SiteRows
      PROVE  /\ SiteRecorded(j)
             /\ \A k \in site[j].links : k \in Applied /\ row[k].site = j /\ row'[k] = row[k]
  BY <1>3, LinksInstalled DEF Recorded
<1>6. ASSUME NEW j \in SiteRows, site'[j] = site[j], Applied \subseteq Applied'
      PROVE  SiteRecorded(j)'
  <2>1. \A k \in site[j].links : row'[k].state = "applied" /\ row'[k].site = j
    BY <1>5 DEF Applied
  <2>2. (\E k \in Applied : row[k].site = j) => \E k \in Applied' : row'[k].site = j
    BY <1>3, <1>6
  <2>3. j \in InstalledSites' <=> j \in InstalledSites
    BY <1>6 DEF InstalledSites
  <2> QED BY <1>5, <1>6, <2>1, <2>2, <2>3 DEF SiteRecorded
<1>7. \A k \in Applied : row[k].site \in SiteRows
  BY <1>3 DEF RowRecorded
<1> HIDE DEF t, s
<1>8. CASE UNCHANGED site /\ Applied' = Applied
  <2>1. \A k \in Applied' : RowRecorded(k)'
    BY <1>3, <1>8 DEF RowRecorded
  <2>2. \A j \in SiteRows : SiteRecorded(j)'
    BY <1>6, <1>8
  <2>3. \A k, m \in Applied' : k # m /\ row'[k].site = row'[m].site => site'[row'[k].site].shape # "rewrite"
    BY <1>3, <1>8 DEF Recorded
  <2> QED BY <1>4, <2>1, <2>2, <2>3 DEF Recorded
<1>9. CASE JoinedNow(r, i)
  <2>1. /\ i \in SiteRows /\ t = [s EXCEPT !.links = @ \cup {r}]
        /\ s.state = "applied" /\ s.shape # "rewrite" /\ Serves(s, d)
        /\ Applied' = Applied \cup {r} /\ row'[r].site = i
    BY <1>0, <1>9 DEF JoinedNow, MayJoin, t, s
  <2>2. \A j \in SiteRows : j # i => site'[j] = site[j]
    <3>1. site' = [site EXCEPT ![i] = t]
      BY <1>9 DEF JoinedNow, t
    <3> QED BY <2>1, <3>1 DEF TypeInv, TypeOK
  <2>3. /\ t.used = s.used /\ t.state = s.state /\ t.addr = s.addr /\ t.shape = s.shape
        /\ t.committed = s.committed /\ t.links = s.links \cup {r}
    BY <2>1 DEF TypeInv, SiteOK, SiteRecords, s
  <2>4. /\ s.used /\ s.addr = d.addr /\ s.shape = d.shape
    BY <2>1 DEF Serves, Vacant
  <2>5. RowRecorded(r)'
    BY <1>1, <2>1, <2>3, <2>4 DEF RowRecorded, t
  <2>6. ASSUME NEW k \in Applied PROVE RowRecorded(k)'
    <3>1. CASE row[k].site = i
      <4>1. /\ row'[k] = row[k] /\ k \in s.links
            /\ s.addr = row[k].desc.addr /\ s.shape = row[k].desc.shape
        BY <1>3, <2>1, <3>1 DEF RowRecorded, s
      <4>2. k \in t.links /\ t.state = "applied" /\ t.used
        BY <2>1, <2>3, <2>4, <4>1
      <4> QED BY <2>1, <2>3, <3>1, <4>1, <4>2 DEF RowRecorded, t
    <3>2. CASE row[k].site # i
      BY <1>3, <1>7, <2>2, <3>2 DEF RowRecorded
    <3> QED BY <3>1, <3>2
  <2>7. SiteRecorded(i)'
    <3>1. SiteRecorded(i) /\ i \in InstalledSites /\ \A k \in s.links : k \in Applied /\ row[k].site = i /\ row'[k] = row[k]
      BY <1>5, <2>1, <2>4 DEF s, InstalledSites
    <3>2. row'[r].state = "applied" /\ r \in Applied'
      BY <1>1, <2>1 DEF Applied
    <3>3. \A k \in t.links : row'[k].state = "applied" /\ row'[k].site = i
      BY <2>1, <2>3, <3>1, <3>2 DEF Applied
    <3>4. t.used /\ t.committed /\ t.shape # "rewrite"
      BY <2>1, <2>3, <2>4, <3>1 DEF SiteRecorded, s
    <3> QED BY <2>1, <3>2, <3>3, <3>4 DEF SiteRecorded, t
  <2>8. ASSUME NEW k \in Applied', NEW m \in Applied', k # m, row'[k].site = row'[m].site
        PROVE  site'[row'[k].site].shape # "rewrite"
    <3>1. CASE row'[k].site = i
      BY <2>1, <2>3, <3>1 DEF t
    <3>2. CASE row'[k].site # i
      <4>1. k \in Applied /\ m \in Applied /\ row'[k] = row[k] /\ row'[m] = row[m]
        BY <1>3, <2>1, <2>8, <3>2
      <4>2. site[row[k].site].shape # "rewrite" /\ row[k].site \in SiteRows
        BY <1>7, <2>8, <4>1 DEF Recorded
      <4> QED BY <2>2, <3>2, <4>1, <4>2
    <3> QED BY <3>1, <3>2
  <2>9. \A k \in Applied' : RowRecorded(k)'
    BY <2>1, <2>5, <2>6
  <2>10. \A j \in SiteRows : SiteRecorded(j)'
    BY <1>6, <2>1, <2>2, <2>7
  <2> QED BY <1>4, <2>8, <2>9, <2>10 DEF Recorded
<1>10. CASE Installs(r)
  <2>1. /\ i \in SiteRows /\ site' = [site EXCEPT ![i] = t]
        /\ s.state # "applied" /\ s.links = {}
        /\ Serving(t, d)
        /\ NotInstalledNow(r, s, t) \/ InstalledNow(r, i, t)
    BY <1>0, <1>10, InstallEffect DEF s, t
  <2>2. \A j \in SiteRows : j # i => site'[j] = site[j]
    BY <2>1 DEF TypeInv, TypeOK
  <2>3. \A k \in Applied : row[k].site # i
    BY <1>3, <2>1 DEF RowRecorded, s
  <2>4. ASSUME NEW k \in Applied PROVE RowRecorded(k)'
    BY <1>3, <1>7, <2>2, <2>3 DEF RowRecorded
  <2>5. t.used /\ t.addr = d.addr /\ t.shape = d.shape
    BY <2>1 DEF Serving
  <2>6. CASE NotInstalledNow(r, s, t)
    <3>1. t.links = {} /\ t.state # "applied" /\ Applied' = Applied
      BY <2>6 DEF NotInstalledNow
    <3>2. SiteRecorded(i)'
      BY <2>1, <2>5, <3>1 DEF SiteRecorded, InstalledSites, t
    <3>3. \A j \in SiteRows : SiteRecorded(j)'
      BY <1>6, <2>2, <3>1, <3>2
    <3>4. \A k, m \in Applied' : k # m /\ row'[k].site = row'[m].site => site'[row'[k].site].shape # "rewrite"
      BY <1>3, <1>7, <2>2, <2>3, <3>1 DEF Recorded
    <3> QED BY <1>4, <2>4, <3>1, <3>3, <3>4 DEF Recorded
  <2>7. CASE InstalledNow(r, i, t)
    <3>1. /\ t.state = "applied" /\ t.committed
          /\ t.links = IF t.shape = "rewrite" THEN {} ELSE {r}
          /\ Applied' = Applied \cup {r} /\ row'[r].site = i
      BY <2>7 DEF InstalledNow
    <3>2. row'[r].state = "applied"
      BY <3>1 DEF Applied
    <3>3. RowRecorded(r)'
      BY <1>1, <2>1, <2>5, <3>1 DEF RowRecorded, t
    <3>4. SiteRecorded(i)'
      BY <2>5, <3>1, <3>2 DEF SiteRecorded, InstalledSites, t
    <3>5. \A j \in SiteRows : SiteRecorded(j)'
      BY <1>6, <2>2, <3>1, <3>4
    <3>6. \A k \in Applied' : RowRecorded(k)'
      BY <2>4, <3>1, <3>3
    <3>7. ASSUME NEW k \in Applied', NEW m \in Applied', k # m, row'[k].site = row'[m].site
          PROVE  site'[row'[k].site].shape # "rewrite"
      <4>1. k \in Applied /\ m \in Applied /\ row'[k] = row[k] /\ row'[m] = row[m]
        BY <1>3, <2>3, <3>1, <3>7
      <4>2. site[row[k].site].shape # "rewrite" /\ row[k].site \in SiteRows /\ row[k].site # i
        BY <1>7, <2>3, <3>7, <4>1 DEF Recorded
      <4> QED BY <2>2, <4>1, <4>2
    <3> QED BY <1>4, <3>5, <3>6, <3>7 DEF Recorded
  <2> QED BY <2>1, <2>6, <2>7
<1> QED BY <1>0, <1>8, <1>9, <1>10, JoinEffect

\* So does every step, as long as Configure is not called again with other deltas.
LEMMA RecordedNext ==
  ASSUME HostConfigures # "again"
  PROVE  TypeInv /\ Recorded /\ [Next]_vars => Recorded'
<1> SUFFICES ASSUME TypeInv, Recorded, [Next]_vars PROVE Recorded'
  OBVIOUS
<1>1. CASE Quiet
  BY <1>1, RecordedQuiet
<1>2. CASE Forgotten
  <2>1. \A i \in SiteRows : site'[i] = NewSite /\ NewSite.links = {} /\ NewSite.state # "applied"
    BY <1>2 DEF Forgotten, NewSite
  <2> QED BY <1>2, <2>1, NothingRecorded DEF Forgotten
<1>3. ASSUME NEW gone \in SUBSET InstalledSites, RemoveAll(gone) PROVE Recorded'
  <2>1. /\ Applied' = {}
        /\ \A i \in SiteRows : /\ SameSlot(site[i], site'[i]) /\ site'[i].links = {}
                               /\ site'[i].state # "applied"
    BY <1>3, RemoveAllEffect
  <2>2. ASSUME NEW i \in SiteRows, ~site'[i].used PROVE site'[i] = NewSite
    <3>1. ~site[i].used
      BY <2>1, <2>2 DEF SameSlot
    <3>2. site[i] = NewSite /\ i \notin InstalledSites
      BY <3>1 DEF Recorded, SiteRecorded, InstalledSites
    <3>3. site'[i] = site[i]
      BY <1>3, <3>2 DEF RemoveAll
    <3> QED BY <3>2, <3>3
  <2> QED BY <2>1, <2>2, NothingRecorded
<1>4. ASSUME NEW r \in Rows, TakesOut(r) PROVE Recorded'
  BY <1>4, RecordedRemove
<1>5. ASSUME NEW r \in Rows, ApplyOne(r) PROVE Recorded'
  BY <1>5, RecordedApply
<1> QED BY <1>1, <1>2, <1>3, <1>4, <1>5, StepEffect

\* Rows, slots and chains agree in every reachable state.
LEMMA RecordedIsInvariant ==
  ASSUME HostConfigures # "again"
  PROVE  Spec => [](TypeInv /\ Recorded)
<1>1. Init => TypeInv /\ Recorded
  BY InitTyped, RecordedInit
<1>2. TypeInv /\ Recorded /\ [Next]_vars => (TypeInv /\ Recorded)'
  BY NextTyped, RecordedNext
<1> QED BY <1>1, <1>2, PTL DEF Spec

\* s_records and s_sites never disagree: every applied row is on the chain of the
\* installed, committed site of its address and shape, and every installed site has a
\* row, whatever is removed, fails or is rolled back.
THEOREM InstalledAsRecordedHolds ==
  ASSUME HostConfigures # "again"
  PROVE  Spec => []InstalledAsRecorded
BY RecordedIsInvariant, RecordedImplies, PTL

-----------------------------------------------------------------------------
(* The members of a chain.                                                       *)

\* A turn as the rows that are applied see it: none of them is at the site that a row
\* installs, or fails to.
InstallsAt(r, i) ==
  /\ i \in SiteRows /\ site' = [site EXCEPT ![i] = site'[i]]
  /\ site[i].state # "applied" /\ site[i].links = {}
  /\ Serving(site'[i], row[r].desc) /\ Keeps(site[i], site'[i]) /\ Looked(site[i], site'[i])
  /\ \/ NotInstalledNow(r, site[i], site'[i])
     \/ InstalledNow(r, i, site'[i])
  /\ \A k \in Applied : row[k].site # i

\* One turn of applyOne: the row waits or fails, joins the links of a slot, or is the first at one.
LEMMA ApplyEffect ==
  ASSUME TypeInv, Recorded, NEW r \in Rows, ApplyOne(r)
  PROVE  /\ \A k \in Applied : k # r /\ row'[k] = row[k] /\ row[k].site \in SiteRows
         /\ row'[r].desc = row[r].desc /\ UNCHANGED <<cfg, ready>>
         /\ \/ UNCHANGED <<site, mem, entries>> /\ Applied' = Applied
            \/ JoinedNow(r, Bound(row[r].desc)) /\ UNCHANGED <<mem, entries>>
            \/ InstallsAt(r, Bound(row[r].desc))
<1>1. /\ row' = [row EXCEPT ![r] = row'[r]] /\ row'[r].desc = row[r].desc
      /\ r \notin Applied /\ Applied \subseteq Rows
      /\ UNCHANGED <<cfg, ready>>
  BY TurnOf DEF Applied
<1>2. \A k \in Rows : k # r => row'[k] = row[k]
  BY <1>1 DEF TypeInv, TypeOK
<1>3. \A k \in Applied : RowRecorded(k)
  BY DEF Recorded
<1>4. \A k \in Applied : k # r /\ row'[k] = row[k] /\ row[k].site \in SiteRows
  BY <1>1, <1>2, <1>3 DEF RowRecorded
<1>5. CASE Installs(r)
  <2> DEFINE i == Bound(row[r].desc)
  <2>1. /\ i \in SiteRows /\ site' = [site EXCEPT ![i] = site'[i]]
        /\ site[i].state # "applied" /\ site[i].links = {}
        /\ Serving(site'[i], row[r].desc) /\ Keeps(site[i], site'[i])
        /\ Looked(site[i], site'[i])
        /\ \/ NotInstalledNow(r, site[i], site'[i])
           \/ InstalledNow(r, i, site'[i])
    BY <1>5, InstallEffect
  <2> HIDE DEF i
  <2>2. \A k \in Applied : row[k].site # i
    BY <1>3, <2>1 DEF RowRecorded
  <2>3. InstallsAt(r, i)
    BY <2>1, <2>2 DEF InstallsAt
  <2> QED BY <1>1, <1>4, <2>3 DEF i
<1>6. CASE ~Installs(r)
  BY <1>1, <1>4, <1>6, JoinEffect
<1> QED BY <1>5, <1>6

\* All at one site are of the site's kind and displace the site's word, and two on a
\* chain have a thunk to run into at its end.
Member(r) ==
  LET s == site[row[r].site]
  IN  /\ row[r].desc.external = s.external /\ Replacement(row[r].desc) = s.code
      /\ row[r].desc.external \/ row[r].desc.expected = s.expected

Members ==
  /\ \A r \in Applied : Member(r)
  /\ \A i \in SiteRows : \A r, k \in site[i].links : r # k => site[i].thunk

\* A row that is applied becomes a member of its slot's chain, and leaves the other members there.
LEMMA MembersApply ==
  ASSUME TypeInv, Recorded, Members, NEW r \in Rows, ApplyOne(r)
  PROVE  Members'
<1>0. PICK d, i : d = row[r].desc /\ i = Bound(d)
  OBVIOUS
<1>1. /\ \A k \in Applied : k # r /\ row'[k] = row[k] /\ row[k].site \in SiteRows
      /\ row'[r].desc = d
      /\ \/ UNCHANGED <<site, mem, entries>> /\ Applied' = Applied
         \/ JoinedNow(r, i)
         \/ InstallsAt(r, i)
  BY <1>0, ApplyEffect
<1>2. CASE UNCHANGED site /\ Applied' = Applied
  <2>1. ASSUME NEW k \in Applied' PROVE Member(k)'
    BY <1>1, <1>2 DEF Members, Member
  <2> QED BY <1>2, <2>1 DEF Members
<1>3. CASE JoinedNow(r, i)
  <2>1. /\ i \in SiteRows /\ site'[i] = [site[i] EXCEPT !.links = @ \cup {r}]
        /\ site[i].state = "applied" /\ Serves(site[i], d) /\ site[i].thunk
        /\ site[i].external \/ d.expected = site[i].expected
        /\ Applied' = Applied \cup {r} /\ row'[r].site = i
        /\ site' = [site EXCEPT ![i] = site'[i]]
    BY <1>0, <1>3 DEF JoinedNow, MayJoin
  <2>2. /\ site'[i].external = site[i].external /\ site'[i].code = site[i].code
        /\ site'[i].expected = site[i].expected /\ site'[i].thunk = site[i].thunk
    BY <2>1 DEF TypeInv, SiteOK, SiteRecords
  <2>3. \A j \in SiteRows : j # i => site'[j] = site[j]
    BY <2>1 DEF TypeInv, TypeOK
  <2>4. site[i].external = d.external /\ site[i].code = Replacement(d)
    <3>1. i \in InstalledSites
      BY <2>1 DEF InstalledSites, Serves
    <3>2. site[i].committed
      BY <2>1, <3>1 DEF Recorded, SiteRecorded
    <3> QED BY <2>1, <3>2 DEF Serves, Vacant
  <2>5. Member(r)'
    BY <1>1, <2>1, <2>2, <2>4 DEF Member
  <2>6. ASSUME NEW k \in Applied PROVE Member(k)'
    <3>1. Member(k) /\ row'[k] = row[k] /\ row[k].site \in SiteRows
      BY <1>1 DEF Members
    <3> QED BY <2>2, <2>3, <3>1 DEF Member
  <2>7. \A k \in Applied' : Member(k)'
    BY <2>1, <2>5, <2>6
  <2>8. ASSUME NEW j \in SiteRows, NEW k \in site'[j].links, NEW m \in site'[j].links, k # m
        PROVE  site'[j].thunk
    <3>1. CASE j = i
      BY <2>1, <2>2, <3>1
    <3>2. CASE j # i
      BY <2>3, <2>8, <3>2 DEF Members
    <3> QED BY <3>1, <3>2
  <2> QED BY <2>7, <2>8 DEF Members
<1>4. CASE InstallsAt(r, i)
  <2>1. /\ i \in SiteRows /\ site' = [site EXCEPT ![i] = site'[i]] /\ Serving(site'[i], d)
        /\ \A k \in Applied : row[k].site # i
        /\ NotInstalledNow(r, site[i], site'[i]) \/ InstalledNow(r, i, site'[i])
    BY <1>0, <1>4 DEF InstallsAt
  <2>2. \A j \in SiteRows : j # i => site'[j] = site[j]
    BY <2>1 DEF TypeInv, TypeOK
  <2>3. /\ \A k \in Applied' : k \in Applied \/ (k = r /\ row'[r].site = i)
        /\ \A k, m \in site'[i].links : k = m
    BY <2>1 DEF NotInstalledNow, InstalledNow
  <2>4. ASSUME NEW k \in Applied PROVE Member(k)'
    <3>1. Member(k) /\ row'[k] = row[k] /\ row[k].site \in SiteRows /\ row[k].site # i
      BY <1>1, <2>1 DEF Members
    <3> QED BY <2>2, <3>1 DEF Member
  <2>5. row'[r].site = i => Member(r)'
    BY <1>1, <2>1 DEF Member, Serving
  <2>6. \A k \in Applied' : Member(k)'
    BY <2>3, <2>4, <2>5
  <2>7. ASSUME NEW j \in SiteRows, NEW k \in site'[j].links, NEW m \in site'[j].links, k # m
        PROVE  site'[j].thunk
    BY <2>2, <2>3, <2>7 DEF Members
  <2> QED BY <2>6, <2>7 DEF Members
<1> QED BY <1>1, <1>2, <1>3, <1>4

\* No step takes a member off its chain, but the one that takes the row out.
LEMMA MembersNext ==
  ASSUME HostConfigures # "again"
  PROVE  TypeInv /\ Recorded /\ Members /\ [Next]_vars => Members'
<1> SUFFICES ASSUME TypeInv, Recorded, Members, [Next]_vars PROVE Members'
  OBVIOUS
<1>1. ASSUME Applied' = {}, \A i \in SiteRows : site'[i].links = {} PROVE Members'
  BY <1>1 DEF Members
<1>2. CASE Quiet
  <2>1. ASSUME NEW k \in Applied' PROVE Member(k)'
    BY <1>2 DEF Members, Member, Quiet
  <2> QED BY <1>2, <2>1 DEF Members, Quiet
<1>3. CASE Forgotten
  <2>1. \A i \in SiteRows : site'[i].links = {}
    BY <1>3 DEF Forgotten, NewSite
  <2> QED BY <1>1, <1>3, <2>1 DEF Forgotten
<1>4. ASSUME NEW gone \in SUBSET InstalledSites, RemoveAll(gone) PROVE Members'
  BY <1>1, <1>4, RemoveAllEffect
<1>5. ASSUME NEW r \in Rows, TakesOut(r) PROVE Members'
  <2>0. PICK i : i = row[r].site
    OBVIOUS
  <2>1. /\ i \in InstalledSites /\ site' = [site EXCEPT ![i] = site'[i]]
        /\ SameSlot(site[i], site'[i]) /\ site'[i].links = site[i].links \ {r}
        /\ row' = [row EXCEPT ![r] = row'[r]] /\ Applied' = Applied \ {r}
    BY <1>5, <2>0, RemoveEffect DEF TakesOut
  <2>2. /\ \A j \in SiteRows : j # i => site'[j] = site[j]
        /\ \A k \in Rows : k # r => row'[k] = row[k]
    BY <2>1 DEF TypeInv, TypeOK
  <2>3. \A k \in Applied' : k \in Applied /\ row'[k] = row[k] /\ row[k].site \in SiteRows
    BY <2>1, <2>2 DEF Recorded, RowRecorded, Applied
  <2>4. ASSUME NEW k \in Applied' PROVE Member(k)'
    BY <2>1, <2>2, <2>3 DEF Members, Member, SameSlot
  <2>5. ASSUME NEW j \in SiteRows, NEW k \in site'[j].links, NEW m \in site'[j].links, k # m
        PROVE  site'[j].thunk
    BY <2>1, <2>2, <2>5 DEF Members, SameSlot
  <2> QED BY <2>4, <2>5 DEF Members
<1>6. ASSUME NEW r \in Rows, ApplyOne(r) PROVE Members'
  BY <1>6, MembersApply
<1> QED BY <1>2, <1>3, <1>4, <1>5, <1>6, StepEffect

\* A chain of two or more always has an end to run into, and its members agree on the
\* word the site displaced, however the Ticks before it came to order them.
THEOREM ChainsHaveAnEndHolds ==
  ASSUME HostConfigures # "again"
  PROVE  Spec => []ChainsHaveAnEnd
<1>1. Init => Members
  <2> SUFFICES ASSUME Init PROVE Members
    OBVIOUS
  <2>1. \A r \in Rows : row[r].state # "applied"
    BY DEF Init, NewRow
  <2>2. \A i \in SiteRows : site[i].links = {}
    BY DEF Init, NewSite
  <2> QED BY <2>1, <2>2 DEF Members, Applied
<1>2. TypeInv /\ Recorded /\ Members => ChainsHaveAnEnd
  <2> SUFFICES ASSUME TypeInv, Recorded, Members, NEW i \in InstalledSites,
                      Cardinality(site[i].links) > 1
               PROVE  /\ site[i].thunk
                      /\ \A r, k \in site[i].links :
                           row[r].desc.external \/ row[r].desc.expected = row[k].desc.expected
    BY DEF ChainsHaveAnEnd
  <2>1. i \in SiteRows
    BY DEF InstalledSites
  <2>2. \E r, k \in site[i].links : r # k
    <3> SUFFICES ASSUME \A r, k \in site[i].links : r = k PROVE FALSE
      OBVIOUS
    <3>1. CASE site[i].links = {}
      BY <3>1, FS_EmptySet
    <3>2. CASE site[i].links # {}
      <4>1. PICK r : r \in site[i].links
        BY <3>2
      <4>2. site[i].links = {r}
        BY <4>1
      <4>3. Cardinality({r}) = 1
        BY FS_Singleton
      <4> QED BY <4>2, <4>3
    <3> QED BY <3>1, <3>2
  <2>3. \A r \in site[i].links : Member(r) /\ row[r].site = i
    BY <2>1, LinksInstalled DEF Members
  <2> QED BY <2>1, <2>2, <2>3 DEF Members, Member
<1> QED BY <1>1, <1>2, RecordedIsInvariant, MembersNext, PTL DEF Spec

-----------------------------------------------------------------------------
(* Stubs are written once.                                                       *)

\* A committed slot is where its row's address is in this configuration.
Fixed ==
  \A i \in SiteRows :
    site[i].committed =>
      cfg # NoConfig /\ site[i].at = RuntimeAddr(site[i]) /\ site[i].at \in Addrs

\* What a core may be running in a slot.
Frozen(s, t) ==
  /\ t.committed /\ t.addr = s.addr /\ t.external = s.external /\ t.at = s.at
  /\ t.shape = s.shape /\ t.code = s.code /\ t.live = s.live /\ t.thunk = s.thunk

\* What a step does to the slots: it forgets them, or it leaves what they were built for,
\* or one of them is guarded for the row whose turn it is.
LEMMA SlotStep ==
  ASSUME TypeInv, Recorded, HostConfigures # "again", [Next]_vars
  PROVE  \/ Forgotten
         \/ \A i \in SiteRows : SameSlot(site[i], site'[i])
         \/ \E r \in Rows : ApplyOne(r) /\ InstallsAt(r, Bound(row[r].desc))
<1>1. \A i \in SiteRows : site'[i] = site[i] => SameSlot(site[i], site'[i])
  BY DEF SameSlot
<1>2. ASSUME NEW j \in SiteRows, site' = [site EXCEPT ![j] = site'[j]], SameSlot(site[j], site'[j])
      PROVE  \A i \in SiteRows : SameSlot(site[i], site'[i])
  <2>1. \A i \in SiteRows : i # j => site'[i] = site[i]
    BY <1>2 DEF TypeInv, TypeOK
  <2> QED BY <1>1, <1>2, <2>1
<1>3. CASE Quiet
  BY <1>1, <1>3 DEF Quiet
<1>4. CASE \E gone \in SUBSET InstalledSites : RemoveAll(gone)
  BY <1>4, RemoveAllEffect
<1>5. ASSUME NEW r \in Rows, TakesOut(r)
      PROVE  \A i \in SiteRows : SameSlot(site[i], site'[i])
  <2>0. PICK j : j = row[r].site
    OBVIOUS
  <2>1. /\ site' = [site EXCEPT ![j] = site'[j]] /\ SameSlot(site[j], site'[j])
        /\ j \in SiteRows
    BY <1>5, <2>0, RemoveEffect DEF TakesOut, InstalledSites
  <2> QED BY <1>2, <2>1
<1>6. ASSUME NEW r \in Rows, ApplyOne(r)
      PROVE  \/ \A i \in SiteRows : SameSlot(site[i], site'[i])
             \/ InstallsAt(r, Bound(row[r].desc))
  <2>0. PICK j : j = Bound(row[r].desc)
    OBVIOUS
  <2>1. UNCHANGED site \/ JoinedNow(r, j) \/ InstallsAt(r, j)
    BY <1>6, <2>0, ApplyEffect
  <2>2. CASE JoinedNow(r, j)
    <3>1. /\ j \in SiteRows /\ site'[j] = [site[j] EXCEPT !.links = @ \cup {r}]
          /\ site' = [site EXCEPT ![j] = site'[j]]
      BY <2>2 DEF JoinedNow
    <3>2. SameSlot(site[j], site'[j])
      BY <3>1 DEF TypeInv, SiteOK, SiteRecords, SameSlot
    <3> QED BY <1>2, <3>1, <3>2
  <2> QED BY <1>1, <2>0, <2>1, <2>2
<1> QED BY <1>3, <1>4, <1>5, <1>6, StepEffect

\* Whatever a step does to a slot in use, it leaves it as it is, unless it forgets the
\* process.
LEMMA SlotsFrozen ==
  ASSUME TypeInv, Recorded, Fixed, HostConfigures # "again", [Next]_vars, ~Forgotten
  PROVE  \A i \in SiteRows : site[i].committed => Frozen(site[i], site'[i])
<1> SUFFICES ASSUME NEW i \in SiteRows, site[i].committed PROVE Frozen(site[i], site'[i])
  OBVIOUS
<1>1. CASE \A j \in SiteRows : SameSlot(site[j], site'[j])
  BY <1>1 DEF SameSlot, Frozen
<1>2. ASSUME NEW r \in Rows, NEW j, InstallsAt(r, j) PROVE Frozen(site[i], site'[i])
  <2>1. /\ site' = [site EXCEPT ![j] = site'[j]] /\ Keeps(site[j], site'[j])
        /\ site'[j].at = RuntimeAddr(site'[j])
    BY <1>2 DEF InstallsAt, Serving
  <2>2. CASE i = j
    <3>1. /\ site'[i].committed /\ site'[i].addr = site[i].addr
          /\ site'[i].external = site[i].external /\ site'[i].shape = site[i].shape
          /\ site'[i].code = site[i].code /\ site'[i].live = site[i].live
          /\ site'[i].thunk = site[i].thunk
      BY <2>1, <2>2 DEF Keeps
    <3>2. site'[i].at = site[i].at
      BY <2>1, <2>2, <3>1 DEF Fixed, RuntimeAddr
    <3> QED BY <3>1, <3>2 DEF Frozen
  <2>3. CASE i # j
    <3>1. site'[i] = site[i]
      BY <2>1, <2>3 DEF TypeInv, TypeOK
    <3> QED BY <3>1 DEF Frozen
  <2> QED BY <2>2, <2>3
<1> QED BY <1>1, <1>2, SlotStep

\* A slot that was not in use and is now was guarded in this step.
LEMMA NewlyCommitted ==
  ASSUME TypeInv, Recorded, HostConfigures # "again", [Next]_vars,
         NEW i \in SiteRows, ~site[i].committed, site'[i].committed
  PROVE  /\ cfg # NoConfig /\ cfg' = cfg
         /\ site'[i].at = RuntimeAddr(site'[i]) /\ site'[i].at \in Addrs
         /\ site'[i].live = seen[site'[i].at]
<1>1. ~Forgotten
  BY DEF Forgotten, NewSite
<1>2. ~SameSlot(site[i], site'[i])
  BY DEF SameSlot
<1>3. PICK r \in Rows : ApplyOne(r) /\ InstallsAt(r, Bound(row[r].desc))
  BY <1>1, <1>2, SlotStep
<1>4. PICK j : j = Bound(row[r].desc)
  OBVIOUS
<1>5. /\ site' = [site EXCEPT ![j] = site'[j]] /\ site'[j].at = RuntimeAddr(site'[j])
      /\ site'[j].committed /\ ~site[j].committed =>
           site'[j].at \in Addrs /\ site'[j].live = seen[site'[j].at]
  BY <1>3, <1>4 DEF InstallsAt, Serving, Looked
<1>6. i = j
  <2>1. i # j => site'[i] = site[i]
    BY <1>5 DEF TypeInv, TypeOK
  <2> QED BY <2>1
<1>7. cfg # NoConfig /\ cfg' = cfg
  BY <1>3, TurnOf
<1> QED BY <1>5, <1>6, <1>7

\* A slot that is committed keeps the address it was built for.
LEMMA FixedNext ==
  ASSUME HostConfigures # "again"
  PROVE  TypeInv /\ Recorded /\ Fixed /\ [Next]_vars => Fixed'
<1> SUFFICES ASSUME TypeInv, Recorded, Fixed, [Next]_vars,
                    NEW i \in SiteRows, site'[i].committed
             PROVE  /\ cfg' # NoConfig /\ site'[i].at = RuntimeAddr(site[i])'
                    /\ site'[i].at \in Addrs
  BY DEF Fixed
<1>1. ~Forgotten
  BY DEF Forgotten, NewSite
<1>2. CASE site[i].committed
  <2>1. Frozen(site[i], site'[i])
    BY <1>1, <1>2, SlotsFrozen
  <2>2. cfg # NoConfig /\ site[i].at = RuntimeAddr(site[i]) /\ site[i].at \in Addrs
    BY <1>2 DEF Fixed
  <2>3. cfg' = cfg
    <3>1. CASE Quiet
      BY <2>2, <3>1 DEF Quiet
    <3>2. CASE \E gone \in SUBSET InstalledSites : RemoveAll(gone)
      BY <3>2 DEF RemoveAll
    <3>3. CASE \E r \in Rows : TakesOut(r)
      BY <3>3 DEF TakesOut
    <3>4. CASE \E r \in Rows : ApplyOne(r)
      BY <3>4, TurnOf
    <3> QED BY <1>1, <3>1, <3>2, <3>3, <3>4, StepEffect
  <2> QED BY <2>1, <2>2, <2>3 DEF Frozen, RuntimeAddr
<1>3. CASE ~site[i].committed
  <2>1. /\ cfg # NoConfig /\ cfg' = cfg
        /\ site'[i].at = RuntimeAddr(site'[i]) /\ site'[i].at \in Addrs
    BY <1>3, NewlyCommitted
  <2> QED BY <2>1 DEF RuntimeAddr
<1> QED BY <1>2, <1>3

\* What a core may be running of a row.
Stays(x, y) ==
  /\ x.shim => y.retired \/ (y.shim /\ y.desc = x.desc)
  /\ x.retired => y.retired

\* A row keeps what it was declared with until it is undeclared or declared anew.
LEMMA RowsStay ==
  ASSUME TypeInv, Recorded, HostConfigures = "once", [Next]_vars, ~NextProcess
  PROVE  \A r \in Rows : Stays(row[r], row'[r])
<1>0. row \in [Rows -> RowRecords] /\ \A r \in Rows : RowOK(row[r])
  BY DEF TypeInv, TypeOK
<1>1. ASSUME NEW r \in Rows, NEW x, row' = [row EXCEPT ![r] = x], Stays(row[r], x)
      PROVE  \A k \in Rows : Stays(row[k], row'[k])
  BY <1>0, <1>1 DEF Stays
<1>2. ASSUME \A r \in Rows : \/ row'[r] = row[r]
                             \/ SameRow(row[r], row'[r])
      PROVE  \A r \in Rows : Stays(row[r], row'[r])
  BY <1>2 DEF Stays, SameRow
<1>3. ASSUME NEW d \in Descs, Declare(d) PROVE \A r \in Rows : Stays(row[r], row'[r])
  <2>0. PICK k, x : k = Lowest(FreeRows) /\ x = [NewRow EXCEPT !.used = TRUE, !.desc = d]
    OBVIOUS
  <2>1. k \in Rows /\ ~row[k].used /\ ~row[k].retired
    <3>1. k \in FreeRows
      BY <1>3, <2>0, LowestIn, RowsAssumption DEF Declare, FreeRows
    <3> QED BY <3>1 DEF FreeRows
  <2>2. row' = [row EXCEPT ![k] = x]
    BY <1>3, <2>0 DEF Declare
  <2>3. Stays(row[k], x)
    BY <1>0, <2>1 DEF RowOK, Stays
  <2> QED BY <1>1, <2>1, <2>2, <2>3
<1>4. ASSUME NEW r \in Rows, Undeclare(r) PROVE \A k \in Rows : Stays(row[k], row'[k])
  <2>0. PICK x : x = [NewRow EXCEPT !.retired = row[r].shim]
    OBVIOUS
  <2>1. row' = [row EXCEPT ![r] = x] /\ ~row[r].retired /\ x.retired = row[r].shim
    BY <1>0, <1>4, <2>0 DEF Undeclare, RowOK, NewRow
  <2>2. Stays(row[r], x)
    BY <2>1 DEF Stays
  <2> QED BY <1>1, <2>1, <2>2
<1>5. ASSUME NEW r \in Rows, NEW enabled \in BOOLEAN, SetEnabled(r, enabled)
      PROVE  \A k \in Rows : Stays(row[k], row'[k])
  <2>0. PICK x : x = [row[r] EXCEPT !.wanted = enabled, !.wait = 0]
    OBVIOUS
  <2>1. row' = [row EXCEPT ![r] = x]
    BY <1>0, <1>5, <2>0 DEF SetEnabled
  <2>2. Stays(row[r], x)
    BY <1>0, <2>0 DEF Stays, RowRecords
  <2> QED BY <1>1, <2>1, <2>2
<1>6. CASE Host
  <2>1. ASSUME NEW c \in Configs, ConfigureSame(c) PROVE \A r \in Rows : Stays(row[r], row'[r])
    BY <1>2, <2>1 DEF ConfigureSame
  <2>2. ASSUME NEW c \in Configs, NEW gone \in SUBSET InstalledSites, ConfigureMoved(c, gone)
        PROVE  FALSE
    BY <2>2 DEF ConfigureMoved
  <2>3. ASSUME NEW gone \in SUBSET InstalledSites, RemoveAll(gone)
        PROVE  \A r \in Rows : Stays(row[r], row'[r])
    BY <1>2, <2>3, RemoveAllEffect
  <2> QED BY <1>3, <1>4, <1>5, <1>6, <2>1, <2>2, <2>3 DEF Host
<1>7. CASE TickBegin \/ TickCollide(Refused(Extents, MaxCollisions))
  <2>1. ASSUME NEW x \in RowRecords, NEW state PROVE SameRow(x, [x EXCEPT !.state = state])
    BY <2>1 DEF RowRecords, SameRow
  <2>2. ASSUME NEW r \in Rows PROVE SameRow(row[r], Aged[r]) /\ Aged[r] \in RowRecords
    <3>1. Aged[r] = [row[r] EXCEPT !.wait = IF row[r].wait = 0 THEN 0 ELSE row[r].wait - 1]
      BY <1>0 DEF Aged, RowRecords
    <3>2. SameRow(row[r], Aged[r])
      BY <1>0, <3>1 DEF RowRecords, SameRow
    <3> QED BY <3>2, AgedTyped
  <2>3. ASSUME NEW x, NEW y, NEW z, SameRow(x, y), SameRow(y, z) PROVE SameRow(x, z)
    BY <2>3 DEF SameRow
  <2>4. \A r \in Rows : SameRow(row[r], row'[r])
    <3>1. CASE TickBlocked
      <4>1. row' = [r \in Rows |-> IF Waiting(r) THEN [Aged[r] EXCEPT !.state = "blocked"] ELSE Aged[r]]
        BY <3>1 DEF TickBlocked
      <4> HIDE DEF Aged
      <4> QED BY <2>1, <2>2, <2>3, <4>1
    <3>2. CASE \E dataDirty \in DataDirty : TickQuietIf(dataDirty) \/ TickStartIf(dataDirty)
      <4>1. row' = Aged
        BY <3>2 DEF TickQuietIf, TickStartIf
      <4> QED BY <2>2, <4>1
    <3>3. CASE TickCollide(Refused(Extents, MaxCollisions))
      <4>1. ASSUME NEW r \in Rows PROVE \E state : row'[r] = [row[r] EXCEPT !.state = state]
        BY <3>3 DEF TickCollide
      <4>2. ASSUME NEW r \in Rows PROVE SameRow(row[r], row'[r])
        <5>1. PICK state : row'[r] = [row[r] EXCEPT !.state = state]
          BY <4>1
        <5>2. row[r] \in RowRecords
          BY <1>0
        <5> QED BY <2>1, <5>1, <5>2
      <4> QED BY <4>2
    <3> QED BY <1>7, <3>1, <3>2, <3>3 DEF TickBegin
  <2> QED BY <1>2, <2>4
<1>8. ASSUME NEW r \in Rows, row[r].state = "applied", RemoveLink(r)
      PROVE  \A k \in Rows : Stays(row[k], row'[k])
  <2>1. row' = [row EXCEPT ![r] = row'[r]] /\ SameRow(row[r], row'[r])
    BY <1>8, RemoveEffect
  <2>2. Stays(row[r], row'[r])
    BY <2>1 DEF Stays, SameRow
  <2> QED BY <1>1, <2>1, <2>2
<1>9. CASE TickRemove
  <2>1. Lowest(GivenUp) \in GivenUp
    BY <1>9, LowestIn, RowsAssumption DEF TickRemove, GivenUp
  <2> QED BY <1>8, <1>9, <2>1 DEF TickRemove, GivenUp
<1>10. CASE TickRollback
  <2>1. Highest(tick.batch) \in tick.batch /\ tick.batch \subseteq Applied
    <3>1. tick.batch \subseteq Applied /\ tick.batch # {}
      BY <1>10 DEF TypeInv, Batched, TickRollback
    <3>2. Applied \subseteq Rows
      BY DEF Applied
    <3>3. tick.batch \subseteq Nat /\ IsFiniteSet(tick.batch)
      BY <3>1, <3>2, RowsAssumption, FS_Subset
    <3> QED BY <3>1, <3>3, HighestIn
  <2> QED BY <1>8, <1>10, <2>1 DEF TickRollback, Applied
<1>11. ASSUME NEW r \in Rows, ApplyOne(r) PROVE \A k \in Rows : Stays(row[k], row'[k])
  <2>1. /\ row' = [row EXCEPT ![r] = row'[r]] /\ row'[r].desc = row[r].desc
        /\ row[r].shim => row'[r].shim
        /\ row[r].used
    BY <1>11, TurnOf
  <2>2. Stays(row[r], row'[r])
    BY <1>0, <2>1 DEF Stays, RowOK
  <2> QED BY <1>1, <2>1, <2>2
<1>12. CASE UNCHANGED row
  BY <1>2, <1>12
<1>13. (TickEnd \/ \E a \in Addrs, w \in Words : ForeignWrite(a, w)) => UNCHANGED row
  BY DEF TickEnd, ForeignWrite
<1> QED BY <1>6, <1>7, <1>9, <1>10, <1>11, <1>12, <1>13 DEF Next, TickStep, TickCode, vars

\* Every committed slot is where the configuration has its address, in every reachable state.
LEMMA FixedIsInvariant ==
  ASSUME HostConfigures # "again"
  PROVE  Spec => [](TypeInv /\ Recorded /\ Fixed)
<1>1. Init => Fixed
  BY DEF Init, Fixed, NewSite
<1>2. TypeInv /\ Recorded /\ Fixed /\ [Next]_vars => Fixed'
  BY FixedNext
<1> QED BY <1>1, <1>2, RecordedIsInvariant, PTL DEF Spec

\* No stub that a core may be in is rewritten while the process lasts: of a committed
\* site, or of a row whose link stubs were committed, declared or not.
THEOREM StubsFrozenHolds ==
  ASSUME HostConfigures = "once"
  PROVE  Spec => StubsFrozen
<1> DEFINE Kept ==
      /\ \A i \in SiteRows : site[i].committed =>
           /\ site'[i].committed
           /\ \A f \in {"addr", "at", "shape", "code", "live", "thunk"} : site'[i][f] = site[i][f]
      /\ \A r \in Rows :
           /\ row[r].shim => row'[r].retired \/ (row'[r].shim /\ row'[r].desc = row[r].desc)
           /\ row[r].retired => row'[r].retired
<1>1. TypeInv /\ Recorded /\ Fixed /\ [Next]_vars => [NextProcess \/ Kept]_vars
  <2> SUFFICES ASSUME TypeInv, Recorded, Fixed, [Next]_vars, ~NextProcess PROVE Kept
    OBVIOUS
  <2>1. ~Forgotten
    BY DEF Forgotten, ConfigureMoved
  <2>2. \A i \in SiteRows : site[i].committed => Frozen(site[i], site'[i])
    BY <2>1, SlotsFrozen
  <2>3. \A r \in Rows : Stays(row[r], row'[r])
    BY RowsStay
  <2> QED BY <2>2, <2>3 DEF Frozen, Stays
<1>2. Spec => [](TypeInv /\ Recorded /\ Fixed)
  BY FixedIsInvariant
<1> QED BY <1>1, <1>2, PTL DEF Spec, StubsFrozen

-----------------------------------------------------------------------------
(* Which slot serves what.                                                       *)

\* Slots are taken from the lowest, and two that serve one address are both there
\* because the lower is in use for something else.
Apart(i, j) ==
  i < j /\ site[i].used /\ site[j].used
  /\ site[i].addr = site[j].addr /\ site[i].external = site[j].external
    => site[i].committed /\ (site[i].shape # site[j].shape \/ site[i].code # site[j].code)

Slots ==
  /\ \A i \in SiteRows :
       /\ site[i].used => \A j \in SiteRows : j < i => site[j].used
       /\ site[i].shape = "rewrite" <=> site[i].code # NoWord
       /\ site[i].external => site[i].shape = "jump"
       /\ site[i].used =>
            \E d \in Descs : site[i].addr = d.addr /\ site[i].external = d.external
  /\ \A i, j \in SiteRows : Apart(i, j)

\* What bindSite took: the lowest slot that serves d, or else the lowest unused one.
LEMMA BoundLowest ==
  ASSUME NEW d, Bound(d) \in SiteRows
  PROVE  \/ /\ Serves(site[Bound(d)], d)
            /\ \A k \in SiteRows : k < Bound(d) => ~Serves(site[k], d)
         \/ /\ ~site[Bound(d)].used
            /\ \A k \in SiteRows : ~Serves(site[k], d)
            /\ \A k \in SiteRows : k < Bound(d) => site[k].used
<1> DEFINE fitting == {i \in SiteRows : Serves(site[i], d)}
           unused  == {i \in SiteRows : ~site[i].used}
<1>0. PICK b : b = Bound(d)
  OBVIOUS
<1>1. SiteRows \subseteq Nat /\ 0 \notin SiteRows /\ b \in SiteRows
  BY <1>0, RowsAssumption
<1>2. b = IF fitting # {} THEN Lowest(fitting)
          ELSE IF unused # {} THEN Lowest(unused) ELSE 0
  BY <1>0 DEF Bound
<1> SUFFICES \/ /\ b \in fitting
                /\ \A k \in SiteRows : k < b => k \notin fitting
             \/ /\ b \in unused /\ fitting = {}
                /\ \A k \in SiteRows : k < b => k \notin unused
  BY <1>0
<1> HIDE DEF fitting, unused
<1>3. fitting \subseteq SiteRows /\ unused \subseteq SiteRows
  BY DEF fitting, unused
<1>4. ASSUME NEW S \in SUBSET SiteRows, S # {}, b = Lowest(S)
      PROVE  b \in S /\ \A k \in SiteRows : k < b => k \notin S
  <2>1. b \in S /\ \A k \in S : b <= k
    BY <1>1, <1>4, LowestIn
  <2> QED BY <1>1, <2>1
<1> QED BY <1>1, <1>2, <1>3, <1>4

\* A slot that somebody's stub is in, or somebody's chain, is in use.
LEMMA VacantOrCommitted ==
  ASSUME TypeInv, Recorded, NEW i \in SiteRows
  PROVE  site[i].committed \/ Vacant(site[i])
<1>1. i \in InstalledSites => site[i].committed
  BY DEF Recorded, SiteRecorded
<1>2. i \notin InstalledSites => site[i].links = {} /\ site[i].state # "applied"
  <2>1. ~site[i].used => site[i].state = "declared"
    BY DEF Recorded, SiteRecorded, NewSite
  <2> QED BY <2>1, LinksInstalled DEF InstalledSites
<1> QED BY <1>1, <1>2 DEF Vacant

\* Slots are taken from the lowest, and a second one at an address only where the first does not serve.
LEMMA SlotsNext ==
  ASSUME HostConfigures # "again"
  PROVE  TypeInv /\ Recorded /\ Slots /\ [Next]_vars => Slots'
<1> SUFFICES ASSUME TypeInv, Recorded, Slots, [Next]_vars PROVE Slots'
  OBVIOUS
<1>0. SiteRows \subseteq Nat
  BY RowsAssumption
<1>1. CASE Forgotten
  <2>1. \A i \in SiteRows : /\ ~site'[i].used /\ site'[i].shape = "jump"
                            /\ site'[i].code = NoWord /\ ~site'[i].external
    BY <1>1 DEF Forgotten, NewSite
  <2> QED BY <2>1 DEF Slots, Apart
<1>2. CASE \A i \in SiteRows : SameSlot(site[i], site'[i])
  <2>1. ASSUME NEW i \in SiteRows
        PROVE  /\ site'[i].used => \A j \in SiteRows : j < i => site'[j].used
               /\ site'[i].shape = "rewrite" <=> site'[i].code # NoWord
               /\ site'[i].external => site'[i].shape = "jump"
               /\ site'[i].used =>
                    \E e \in Descs : site'[i].addr = e.addr /\ site'[i].external = e.external
    BY <1>2 DEF Slots, SameSlot
  <2>2. ASSUME NEW i \in SiteRows, NEW j \in SiteRows PROVE Apart(i, j)'
    BY <1>2 DEF Slots, SameSlot, Apart
  <2> QED BY <2>1, <2>2 DEF Slots
<1>3. ASSUME NEW r \in Rows, ApplyOne(r), InstallsAt(r, Bound(row[r].desc)) PROVE Slots'
  <2>0. PICK d, b : d = row[r].desc /\ b = Bound(d)
    OBVIOUS
  <2>1. /\ b \in SiteRows /\ site' = [site EXCEPT ![b] = site'[b]]
        /\ Serving(site'[b], d) /\ Keeps(site[b], site'[b])
    BY <1>3, <2>0 DEF InstallsAt
  <2>2. \A i \in SiteRows : i # b => site'[i] = site[i]
    BY <2>1 DEF TypeInv, TypeOK
  <2>3. /\ d \in Descs /\ d.code \in Words /\ (d.external => d.shape = "jump")
    <3>1. row[r].used
      BY <1>3, TurnOf
    <3> QED BY <2>0, <3>1, DescsAssumption DEF TypeInv, RowOK
  <2>4. /\ site'[b].used /\ site'[b].addr = d.addr /\ site'[b].external = d.external
        /\ site'[b].shape = d.shape /\ site'[b].code = Replacement(d)
    BY <2>1 DEF Serving
  <2>5. \/ /\ Serves(site[b], d)
           /\ \A k \in SiteRows : k < b => ~Serves(site[k], d)
        \/ /\ ~site[b].used
           /\ \A k \in SiteRows : ~Serves(site[k], d)
           /\ \A k \in SiteRows : k < b => site[k].used
    BY <2>0, <2>1, BoundLowest
  <2>6. ASSUME NEW i \in SiteRows
        PROVE  /\ site'[i].used => \A j \in SiteRows : j < i => site'[j].used
               /\ site'[i].shape = "rewrite" <=> site'[i].code # NoWord
               /\ site'[i].external => site'[i].shape = "jump"
               /\ site'[i].used =>
                    \E e \in Descs : site'[i].addr = e.addr /\ site'[i].external = e.external
    <3>1. site'[i].used => \A j \in SiteRows : j < i => site'[j].used
      <4>1. \A j \in SiteRows : j < b => site[j].used
        BY <2>1, <2>5 DEF Slots, Serves
      <4>2. \A j \in SiteRows : site[j].used => site'[j].used
        BY <2>2, <2>4
      <4> QED BY <2>2, <4>1, <4>2 DEF Slots
    <3>2. CASE i = b
      <4>1. NoWord \notin Words
        BY WordsAssumption DEF Cells
      <4>2. site'[i].code = IF d.shape = "rewrite" THEN d.code ELSE NoWord
        BY <2>4, <3>2 DEF Replacement
      <4>3. (site'[i].shape = "rewrite") <=> (site'[i].code # NoWord)
        BY <2>3, <2>4, <3>2, <4>1, <4>2
      <4>4. site'[i].external => site'[i].shape = "jump"
        BY <2>3, <2>4, <3>2
      <4> QED BY <2>3, <2>4, <3>1, <3>2, <4>3, <4>4
    <3>3. CASE i # b
      BY <2>2, <3>1, <3>3 DEF Slots
    <3> QED BY <3>2, <3>3
  <2>7. ASSUME NEW i \in SiteRows, NEW j \in SiteRows PROVE Apart(i, j)'
    <3> SUFFICES ASSUME i < j, site'[i].used, site'[j].used, site'[i].addr = site'[j].addr,
                        site'[i].external = site'[j].external
                 PROVE  /\ site'[i].committed
                        /\ site'[i].shape # site'[j].shape \/ site'[i].code # site'[j].code
      BY DEF Apart
    <3>1. CASE i # b /\ j # b
      BY <2>2, <3>1 DEF Slots, Apart
    <3>2. CASE i = b
      <4>1. i # j /\ site'[j] = site[j]
        BY <1>0, <2>2, <3>2
      <4>2. Serves(site[i], d)
        BY <2>5, <3>2, <4>1 DEF Slots
      <4>3. site[i].addr = site[j].addr /\ site[i].external = site[j].external /\ site[i].used
        BY <2>4, <3>2, <4>1, <4>2 DEF Serves
      <4>4. /\ site[i].committed
            /\ site[i].shape # site[j].shape \/ site[i].code # site[j].code
        BY <4>1, <4>3 DEF Slots, Apart
      <4> QED BY <2>1, <3>2, <4>1, <4>4 DEF Keeps
    <3>3. CASE j = b
      <4>1. i # j /\ site'[i] = site[i]
        BY <1>0, <2>2, <3>3
      <4>2. ~Serves(site[i], d)
        BY <2>5, <3>3
      <4>3. site[i].used /\ site[i].addr = d.addr /\ site[i].external = d.external
        BY <2>4, <3>3, <4>1
      <4>4. ~Vacant(site[i]) /\ ~(site[i].shape = d.shape /\ (site[i].committed => site[i].code = Replacement(d)))
        BY <4>2, <4>3 DEF Serves
      <4>5. site[i].committed
        BY <4>4, VacantOrCommitted
      <4> QED BY <2>4, <3>3, <4>1, <4>4, <4>5
    <3> QED BY <3>1, <3>2, <3>3
  <2> QED BY <2>6, <2>7 DEF Slots
<1> QED BY <1>1, <1>2, <1>3, SlotStep
=============================================================================
