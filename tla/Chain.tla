-------------------------------- MODULE Chain --------------------------------
(* The hook chain of one patched site (wupatch_chain.cpp), as the frame thread *)
(* edits it and the game's cores run through it without any lock.              *)
(*                                                                             *)
(* The editor keeps a linked list (firstLink, next, attached) that only it     *)
(* reads.  Cores read memory words instead: the dispatcher's word `head' and   *)
(* one forwarding word per link, `fwd'.  A word names what it jumps to: a link *)
(* (its hook, or its CALL shim), the thunk of the displaced word, or Zero for  *)
(* a word nobody ever wrote.                                                   *)
EXTENDS Integers, Sequences, FiniteSets

CONSTANTS
  Links,         \* rows of the registry that may hook the site
  Prio,          \* Prio[l], the priority of row l's descriptor
  Cores,         \* cores that run the site
  NoLink,        \* index -1 of the list
  Thunk,         \* the site's original thunk
  Zero           \* the word 0

ASSUME PrioAssumption == Prio \in [Links -> Int]
ASSUME LinksAssumption == IsFiniteSet(Links)
ASSUME NamesAssumption ==
  /\ NoLink \notin Links /\ Thunk \notin Links /\ Zero \notin Links
  /\ NoLink # Thunk /\ NoLink # Zero /\ Thunk # Zero
  /\ "out" \notin Links \cup {Thunk, Zero}
  /\ "dispatcher" \notin Links \cup {Thunk, Zero}

VARIABLES
  firstLink,   \* Chain::Site::firstLink
  next,        \* Chain::Link::next
  attached,    \* Chain::Link::attached
  head,        \* SiteRecord::head
  fwd,         \* PatchRecord::nextTarget
  edit,        \* the Attach under way: its step, link, prev and cur
  installed,   \* does the title's word branch to the dispatcher?
  stray,       \* does a word branch there that the registry has forgotten?
  at,          \* where each core is
  older,       \* history: <<a, b>> when b was attached after a last was
  trip         \* history: each core's current run through the chain

list  == <<firstLink, next, attached>>
words == <<head, fwd>>
vars  == <<list, words, edit, installed, stray, at, older, trip>>

Targets == Links \cup {Thunk, Zero}
Idle    == [step |-> "idle", link |-> NoLink, prev |-> NoLink, cur |-> NoLink]
Trips   == [must : SUBSET Links, seen : SUBSET Links, left : SUBSET Links, mixed : BOOLEAN,
            reset : BOOLEAN]
NoTrip  == [must |-> {}, seen |-> {}, left |-> {}, mixed |-> FALSE, reset |-> FALSE]
On      == {l \in Links : attached[l]}

\* The order a chain keeps: higher priority first, then the longer attached.
Before(a, b) ==
  \/ Prio[a] > Prio[b]
  \/ Prio[a] = Prio[b] /\ <<a, b>> \in older

TypeOK ==
  /\ firstLink \in Links \cup {NoLink}
  /\ next \in [Links -> Links \cup {NoLink}]
  /\ attached \in [Links -> BOOLEAN]
  /\ head \in Targets
  /\ fwd \in [Links -> Targets]
  /\ edit \in [step : {"idle", "seek", "splice"}, link : Links \cup {NoLink},
               prev : Links \cup {NoLink}, cur : Links \cup {NoLink}]
  /\ installed \in BOOLEAN
  /\ stray \in BOOLEAN
  /\ at \in [Cores -> Targets \cup {"out", "dispatcher"}]
  /\ older \in SUBSET (Links \X Links)
  /\ trip \in [Cores -> Trips]

Init ==
  /\ firstLink = NoLink
  /\ next = [l \in Links |-> NoLink]
  /\ attached = [l \in Links |-> FALSE]
  /\ head = Zero
  /\ fwd = [l \in Links |-> Zero]
  /\ edit = Idle
  /\ installed = FALSE
  /\ stray = FALSE
  /\ at = [c \in Cores |-> "out"]
  /\ older = {}
  /\ trip = [c \in Cores |-> NoTrip]

-----------------------------------------------------------------------------
(* History.  A trip remembers the links attached since it entered (must), the *)
(* hooks it ran (seen), the links detached since it entered (left), whether an *)
(* Attach brought back one of the last two, and so rewrote its word, while the *)
(* trip was still inside (mixed), and whether the words were zeroed under it, or *)
(* it came by a forgotten branch to a head that was zeroed already (reset).      *)

Returning(l) ==
  trip' = [c \in Cores |->
             IF at[c] = "out" THEN trip[c]
             ELSE [trip[c] EXCEPT !.mixed = @ \/ l \in trip[c].left \cup trip[c].seen]]

Joined(l) ==
  older' = {p \in older : p[1] # l} \cup {<<k, l>> : k \in Links \ {l}}

Left(ls, reset) ==
  /\ UNCHANGED older
  /\ trip' = [c \in Cores |->
                IF at[c] = "out" THEN trip[c]
                ELSE [trip[c] EXCEPT !.must = @ \ ls, !.left = @ \cup ls,
                                     !.reset = @ \/ reset]]

-----------------------------------------------------------------------------
(* Chain::Attach, one step for each thing a core could tell apart.            *)

AttachStart(l) ==
  /\ edit.step = "idle"
  /\ ~attached[l]
  /\ edit' = [step |-> "seek", link |-> l, prev |-> NoLink, cur |-> firstLink]
  /\ UNCHANGED <<list, words, installed, stray, at, older, trip>>

\* Mutant: the loop does not take its predecessor along.
AttachSeekAlone ==
  /\ edit.step = "seek"
  /\ edit.cur # NoLink
  /\ Prio[edit.cur] >= Prio[edit.link]
  /\ edit' = [edit EXCEPT !.cur = next[edit.cur]]
  /\ UNCHANGED <<list, words, installed, stray, at, older, trip>>

\* One turn of the loop that walks past every link of at least this priority.
AttachSeek ==
  /\ edit.step = "seek"
  /\ edit.cur # NoLink
  /\ Prio[edit.cur] >= Prio[edit.link]
  /\ edit' = [edit EXCEPT !.prev = edit.cur, !.cur = next[edit.cur]]
  /\ UNCHANGED <<list, words, installed, stray, at, older, trip>>

\* The new link's own forwarding word comes first.
ForwardTo(word) ==
  /\ edit.step = "seek"
  /\ edit.cur # NoLink => Prio[edit.cur] < Prio[edit.link]
  /\ next' = [next EXCEPT ![edit.link] = edit.cur]
  /\ fwd' = [fwd EXCEPT ![edit.link] = word]
  /\ edit' = [edit EXCEPT !.step = "splice"]
  /\ Returning(edit.link)
  /\ UNCHANGED <<firstLink, attached, head, installed, stray, at, older>>

\* Mutants: it names the list's next index even where there is none, the thunk
\* even where there is a successor, or the first link.
AttachForwardIndex == ForwardTo(edit.cur)
AttachForwardThunk == ForwardTo(Thunk)
AttachForwardFirst == ForwardTo(IF firstLink = NoLink THEN Thunk ELSE firstLink)

AttachForward == ForwardTo(IF edit.cur = NoLink THEN Thunk ELSE edit.cur)

\* Then the predecessor's word, or the dispatcher's, starts to name it.
AttachSplice ==
  LET l == edit.link
  IN  /\ edit.step = "splice"
      /\ IF edit.prev = NoLink
         THEN /\ firstLink' = l
              /\ head' = l
              /\ UNCHANGED <<next, fwd>>
         ELSE /\ next' = [next EXCEPT ![edit.prev] = l]
              /\ fwd' = [fwd EXCEPT ![edit.prev] = l]
              /\ UNCHANGED <<firstLink, head>>
      /\ attached' = [attached EXCEPT ![l] = TRUE]
      /\ edit' = Idle
      /\ Joined(l)
      /\ UNCHANGED <<installed, stray, at, trip>>

-----------------------------------------------------------------------------
\* predecessorOf, for a link that is on the list.
PredecessorOf(l) ==
  IF firstLink = l THEN NoLink ELSE CHOOSE p \in On : next[p] = l

(* Chain::Detach publishes one word.  The departing link's own word is left,  *)
(* and so is the head of a chain that empties.                                *)
Detach(l) ==
  LET p    == PredecessorOf(l)
      succ == IF next[l] = NoLink THEN Thunk ELSE next[l]
  IN  /\ edit.step = "idle"
      /\ attached[l]
      /\ IF p = NoLink
         THEN /\ firstLink' = next[l]
              /\ head' = IF next[l] = NoLink THEN head ELSE succ
              /\ next' = [next EXCEPT ![l] = NoLink]
              /\ UNCHANGED fwd
         ELSE /\ next' = [next EXCEPT ![p] = next[l], ![l] = NoLink]
              /\ fwd' = [fwd EXCEPT ![p] = succ]
              /\ UNCHANGED <<firstLink, head>>
      /\ attached' = [attached EXCEPT ![l] = FALSE]
      /\ Left({l}, FALSE)
      /\ UNCHANGED <<edit, installed, stray, at>>

\* Chain::Clear, as RemoveAll uses it: the site is given back (or, if its
\* backend fails, is not), and the list is forgotten without touching a word.
Clear(restored) ==
  /\ edit.step = "idle"
  /\ firstLink' = NoLink
  /\ next' = [l \in Links |-> IF attached[l] THEN NoLink ELSE next[l]]
  /\ attached' = [l \in Links |-> FALSE]
  /\ installed' = (installed /\ ~restored)
  /\ Left(On, FALSE)
  /\ UNCHANGED <<words, edit, stray, at>>

-----------------------------------------------------------------------------
(* The registry patches the title's word once the chain has a first link, and *)
(* puts it back once the chain is empty.                                      *)

\* Mutant: the site is patched before its chain has a first link.
InstallEmpty ==
  /\ edit.step = "idle"
  /\ ~installed
  /\ installed' = TRUE
  /\ UNCHANGED <<list, words, edit, stray, at, older, trip>>

Install ==
  /\ edit.step = "idle"
  /\ firstLink # NoLink
  /\ ~installed
  /\ installed' = TRUE
  /\ UNCHANGED <<list, words, edit, stray, at, older, trip>>

Uninstall ==
  /\ edit.step = "idle"
  /\ firstLink = NoLink
  /\ installed
  /\ installed' = FALSE
  /\ UNCHANGED <<list, words, edit, stray, at, older, trip>>

\* forgetProcess: ForgetSite and resetLinkState zero every word of the chain.
ForgetWords ==
  /\ edit.step = "idle"
  /\ firstLink' = NoLink
  /\ next' = [l \in Links |-> NoLink]
  /\ attached' = [l \in Links |-> FALSE]
  /\ head' = Zero
  /\ fwd' = [l \in Links |-> Zero]
  /\ Left(On, TRUE)
  /\ UNCHANGED <<edit, at>>

\* OnApplicationEnd: no core of the process is left.  The next one has a fresh text,
\* but a patch that FunctionPatcher could not be made to give back is in it again.
ProcessEnd(restored) ==
  /\ \A c \in Cores : at[c] = "out"
  /\ ForgetWords
  /\ installed' = FALSE
  /\ stray' = ((installed \/ stray) /\ ~restored)

\* Configure with other deltas: RemoveAll, then the same reset, mid-process.  What
\* RemoveAll could not give back, or was not given back before, nobody knows of now.
Reconfigure(restored) ==
  /\ ForgetWords
  /\ installed' = FALSE
  /\ stray' = (stray \/ (installed /\ ~restored))

-----------------------------------------------------------------------------
(* A core: the site's branch, the dispatcher's load of the head, and at each  *)
(* hook either a return or the load of that link's forwarding word.           *)

EnterBy(c, zeroed) ==
  /\ at[c] = "out"
  /\ at' = [at EXCEPT ![c] = "dispatcher"]
  /\ trip' = [trip EXCEPT ![c] = [NoTrip EXCEPT !.must = On, !.reset = zeroed]]
  /\ UNCHANGED <<list, words, edit, installed, stray, older>>

Enter(c) == installed /\ EnterBy(c, FALSE)

\* By the branch that was left behind.
EnterStray(c) == stray /\ EnterBy(c, head = Zero)

Arrive(c, t) ==
  /\ at' = [at EXCEPT ![c] = t]
  /\ trip' = [trip EXCEPT ![c].seen = IF t \in Links THEN @ \cup {t} ELSE @]
  /\ UNCHANGED <<list, words, edit, installed, stray, older>>

Dispatch(c) == at[c] = "dispatcher" /\ Arrive(c, head)

Forward(c) == at[c] \in Links /\ Arrive(c, fwd[at[c]])

\* A hook that returns ends the chain there; the thunk ends it for everyone.
Leave(c) ==
  /\ at[c] \in Links \cup {Thunk}
  /\ at' = [at EXCEPT ![c] = "out"]
  /\ trip' = [trip EXCEPT ![c] = NoTrip]
  /\ UNCHANGED <<list, words, edit, installed, stray, older>>

Run(c) == Dispatch(c) \/ Forward(c) \/ Leave(c)

-----------------------------------------------------------------------------
AttachStep == AttachSeek \/ AttachForward \/ AttachSplice

Edit ==
  \/ \E l \in Links : AttachStart(l) \/ Detach(l)
  \/ AttachStep
  \/ \E restored \in BOOLEAN : Clear(restored)
  \/ Install
  \/ Uninstall
  \/ \E restored \in BOOLEAN : ProcessEnd(restored) \/ Reconfigure(restored)

Next == (\E c \in Cores : Enter(c) \/ EnterStray(c) \/ Run(c)) \/ Edit

Spec == Init /\ [][Next]_vars

\* An Attach runs to its end, and a core that is inside keeps executing.
FairSpec ==
  /\ Spec
  /\ WF_vars(AttachStep)
  /\ \A c \in Cores : WF_vars(Run(c))

-----------------------------------------------------------------------------
(* Properties.                                                                *)

\* A core jumps to a word nobody wrote only if the words were zeroed while it was
\* inside, or if it came, before a chain was built there again, by a branch that
\* RemoveAll could not take back: whatever else is edited around it, it sees the old
\* successor or the new one, both valid.
NeverLost == \A c \in Cores : at[c] = Zero => trip[c].reset

\* wupatch_chain.h:8 "a core mid-chain sees the old successor or the new one, both
\* valid", and wupatch_chain.cpp:77 "the link forwards until the process ends".
AlwaysValid == \A c \in Cores : at[c] # Zero

\* Every forwarding word, a detached link's stale one included, leads strictly
\* down the order.  So the words can never form a cycle, whatever was detached,
\* re-attached and reordered since a stale word was written.
ForwardsDown == \A l \in Links : fwd[l] \in Links => Before(l, fwd[l])

\* The list is the order: the first link is before every other, and the link
\* after a is the first of those a is before.  Ties run in attach order
\* (README "higher runs earlier, ties in the order they were applied").
ListFollowsOrder ==
  /\ (firstLink = NoLink) = (On = {})
  /\ firstLink # NoLink =>
       firstLink \in On /\ \A l \in On \ {firstLink} : Before(firstLink, l)
  /\ \A a \in On :
       LET after == {b \in On : Before(a, b)}
       IN  IF next[a] = NoLink THEN after = {}
           ELSE next[a] \in after /\ \A b \in after \ {next[a]} : Before(next[a], b)

\* What cores read is what the editor means, at every step of every edit.
WordsFollowList ==
  /\ firstLink # NoLink => head = firstLink
  /\ \A a \in On : fwd[a] = IF next[a] = NoLink THEN Thunk ELSE next[a]

\* A call that reaches the thunk ran every hook that was attached for the whole
\* of it, however the chain was edited around it -- unless a link that left
\* during the call, or that it had run, was attached again before it was over.
NoHookSkipped ==
  \A c \in Cores :
    at[c] = Thunk /\ ~trip[c].mixed => trip[c].must \subseteq trip[c].seen

\* Under the same proviso no call runs a hook twice.
NoHookTwice ==
  [][\A c \in Cores :
       at'[c] \in Links /\ at'[c] # at[c] /\ ~trip[c].mixed => at'[c] \notin trip[c].seen]_vars

\* Once edits stop, every call that is inside the chain gets out of it, even if
\* every hook forwards -- or is lost, as NeverLost has it.
CallsReturn ==
  <>[][~Edit]_vars => \A c \in Cores : at[c] # "out" ~> at[c] \in {"out", Zero}

-----------------------------------------------------------------------------
(* What the properties above rest on: an invariant that every step preserves. *)

OlderIsAnOrder ==
  /\ \A a \in Links : <<a, a>> \notin older
  /\ \A a, b, c \in Links : <<a, b>> \in older /\ <<b, c>> \in older => <<a, c>> \in older
  /\ \A a \in On : \A b \in Links \ {a} : <<a, b>> \in older \/ <<b, a>> \in older

HasPredecessor == \A l \in On \ {firstLink} : \E p \in On : next[p] = l

\* Where the loop of Attach stands: everything up to prev keeps its place.
EditFollowsList ==
  edit.step # "idle" =>
    /\ edit.link \in Links \ On
    /\ edit.prev = NoLink => edit.cur = firstLink
    /\ edit.prev # NoLink =>
         /\ edit.prev \in On
         /\ next[edit.prev] = edit.cur
         /\ Prio[edit.prev] >= Prio[edit.link]
    /\ edit.step = "splice" =>
         /\ edit.cur # NoLink => Prio[edit.cur] < Prio[edit.link]
         /\ next[edit.link] = edit.cur
         /\ fwd[edit.link] = IF edit.cur = NoLink THEN Thunk ELSE edit.cur

\* Cores inside the chain whose words nobody has zeroed since they entered, and that
\* did not come by a branch to words zeroed before.
Unreset == {c \in Cores : at[c] # "out" /\ ~trip[c].reset}

\* No word is Zero that can be reached from the dispatcher, or by such a core.
WordsReachable ==
  /\ (installed \/ \E c \in Unreset : at[c] = "dispatcher") => head # Zero
  /\ firstLink # NoLink => head # Zero
  /\ head \in Links => fwd[head] # Zero
  /\ \A l \in Links : fwd[l] \in Links => fwd[fwd[l]] # Zero
  /\ \A c \in Unreset : at[c] # Zero /\ (at[c] \in Links => fwd[at[c]] # Zero)

\* Each field of the list, each word and the loop of Attach, together.
ChainInvariant ==
  /\ OlderIsAnOrder
  /\ ListFollowsOrder
  /\ HasPredecessor
  /\ WordsFollowList
  /\ ForwardsDown
  /\ EditFollowsList

-----------------------------------------------------------------------------
(* Refinement: the words a caller follows from the head are the sequence of   *)
(* ChainOrder, so each edit of two stores takes effect in one.                *)

\* What a caller that every hook passes on runs, from the dispatcher's word up to the
\* first word that names no link.
Walks ==
  {s \in UNION {[1..n -> Links] : n \in 1..Cardinality(Links)} :
     /\ s[1] = head
     /\ \A i \in 1..(Len(s) - 1) : fwd[s[i]] = s[i + 1]
     /\ fwd[s[Len(s)]] \notin Links}

\* Words lead nowhere twice, so there is one walk at most.  Of an empty chain the
\* head is stale, and nobody comes to it.
Path == IF firstLink = NoLink THEN <<>> ELSE CHOOSE s \in Walks : TRUE

Order == INSTANCE ChainOrder WITH path <- Path

ImplementsOrder == Order!Spec
=============================================================================
