----------------------------- MODULE ChainProofs -----------------------------
(* Proofs about Chain, for every set of links, cores and priorities: types,   *)
(* the order of the chain, that no core reaches a word nobody wrote, that a   *)
(* call runs each hook once, and that it keeps what ChainOrder promises.       *)
EXTENDS Chain, FiniteSetTheorems, SequenceTheorems, WellFoundedInduction, TLAPS

-----------------------------------------------------------------------------
(* Type correctness.                                                          *)

\* The predecessor a Detach looks up is a link, for any link with one.
LEMMA PredecessorIsLink ==
  ASSUME TypeOK, HasPredecessor, NEW l \in On, firstLink # l
  PROVE  PredecessorOf(l) \in On /\ next[PredecessorOf(l)] = l
BY DEF TypeOK, HasPredecessor, PredecessorOf

\* The history of a trip stays well-formed when links leave, ...
LEMMA LeftType ==
  ASSUME TypeOK, NEW ls \in SUBSET Links, NEW reset \in BOOLEAN, Left(ls, reset)
  PROVE  trip' \in [Cores -> Trips]
<1>1. ASSUME NEW c \in Cores
      PROVE  [trip[c] EXCEPT !.must = @ \ ls, !.left = @ \cup ls, !.reset = @ \/ reset] \in Trips
  <2>1. trip[c] \in Trips
    BY DEF TypeOK
  <2> QED BY <2>1 DEF Trips
<1> QED BY <1>1 DEF TypeOK, Left

\* ... when a core arrives somewhere, and when it enters or leaves.
LEMMA ArriveType ==
  ASSUME TypeOK, NEW c \in Cores, NEW t \in Targets, Arrive(c, t)
  PROVE  trip' \in [Cores -> Trips]
<1>1. trip[c] \in Trips
  BY DEF TypeOK
<1>2. [trip[c] EXCEPT !.seen = IF t \in Links THEN @ \cup {t} ELSE @] \in Trips
  BY <1>1 DEF Trips
<1>3. trip' = [trip EXCEPT ![c] =
                 [trip[c] EXCEPT !.seen = IF t \in Links THEN @ \cup {t} ELSE @]]
  BY DEF Arrive, TypeOK
<1> QED BY <1>2, <1>3 DEF TypeOK

\* The history of a call that is outside, or has just entered, is well-formed.
LEMMA NoTripType ==
  /\ NoTrip \in Trips
  /\ \A b \in BOOLEAN : [NoTrip EXCEPT !.must = On, !.reset = b] \in Trips
BY DEF NoTrip, Trips, On

\* Every variable keeps its type: list fields hold rows, words hold targets.
LEMMA TypeStep ==
  ASSUME TypeOK, HasPredecessor, EditFollowsList, [Next]_vars
  PROVE  TypeOK'
<1> USE NamesAssumption DEF TypeOK, Targets, list, words
<1>1. ASSUME NEW l \in Links, AttachStart(l) PROVE TypeOK'
  BY <1>1 DEF AttachStart
<1>2. CASE AttachSeek
  BY <1>2 DEF AttachSeek
<1>3. CASE AttachForward
  <2>1. edit.link \in Links
    BY <1>3 DEF AttachForward, ForwardTo, EditFollowsList
  <2>2. ASSUME NEW c \in Cores, NEW b \in BOOLEAN
        PROVE  [trip[c] EXCEPT !.mixed = b] \in Trips
    BY DEF Trips
  <2>3. ASSUME NEW c \in Cores
        PROVE  (trip[c].mixed \/ edit.link \in trip[c].left \cup trip[c].seen) \in BOOLEAN
    OBVIOUS
  <2>4. trip' \in [Cores -> Trips]
    BY <1>3, <2>2, <2>3 DEF AttachForward, ForwardTo, Returning
  <2> QED BY <1>3, <2>1, <2>4 DEF AttachForward, ForwardTo
<1>4. CASE AttachSplice
  <2>1. edit.link \in Links
    BY <1>4 DEF AttachSplice, EditFollowsList
  <2> QED BY <1>4, <2>1 DEF AttachSplice, Joined, Idle
<1>5. ASSUME NEW l \in Links, Detach(l) PROVE TypeOK'
  <2>1. trip' \in [Cores -> Trips]
    BY <1>5, LeftType DEF Detach
  <2>2. l \in On /\ next[l] \in Links \cup {NoLink}
    BY <1>5 DEF Detach, On
  <2>3. CASE PredecessorOf(l) = NoLink
    BY <1>5, <2>1, <2>2, <2>3 DEF Detach, Left
  <2>4. CASE PredecessorOf(l) # NoLink
    <3>1. PredecessorOf(l) \in Links
      BY <2>2, <2>4, PredecessorIsLink DEF PredecessorOf, On
    <3> QED BY <1>5, <2>1, <2>2, <2>4, <3>1 DEF Detach, Left
  <2> QED BY <2>3, <2>4
<1>6. ASSUME NEW restored \in BOOLEAN, Clear(restored) PROVE TypeOK'
  <2>1. trip' \in [Cores -> Trips]
    BY <1>6, LeftType DEF Clear, On
  <2> QED BY <1>6, <2>1 DEF Clear, Left
<1>7. CASE Install \/ Uninstall
  BY <1>7 DEF Install, Uninstall
<1>8. ASSUME NEW restored \in BOOLEAN, ProcessEnd(restored) \/ Reconfigure(restored)
      PROVE  TypeOK'
  <2>1. ForgetWords /\ installed' = FALSE /\ stray' \in BOOLEAN
    BY <1>8 DEF ProcessEnd, Reconfigure
  <2>2. trip' \in [Cores -> Trips]
    BY <2>1, LeftType DEF ForgetWords, On
  <2> QED BY <2>1, <2>2 DEF ForgetWords, Left
<1>9. ASSUME NEW c \in Cores, Enter(c) \/ EnterStray(c) PROVE TypeOK'
  <2>1. PICK b \in BOOLEAN : EnterBy(c, b)
    BY <1>9 DEF Enter, EnterStray
  <2>2. trip' \in [Cores -> Trips]
    BY <2>1, NoTripType DEF EnterBy
  <2> QED BY <2>1, <2>2 DEF EnterBy
<1>10. ASSUME NEW c \in Cores, Run(c) PROVE TypeOK'
  <2>1. CASE Dispatch(c)
    BY <2>1, ArriveType DEF Dispatch, Arrive
  <2>2. CASE Forward(c)
    BY <2>2, ArriveType DEF Forward, Arrive
  <2>3. CASE Leave(c)
    BY <2>3, NoTripType DEF Leave
  <2> QED BY <1>10, <2>1, <2>2, <2>3 DEF Run
<1>11. CASE UNCHANGED vars
  BY <1>11 DEF vars
<1> QED
  BY <1>1, <1>2, <1>3, <1>4, <1>5, <1>6, <1>7, <1>8, <1>9, <1>10, <1>11
  DEF Next, Edit, AttachStep
-----------------------------------------------------------------------------
(* The order.                                                                 *)

\* `Before' is a strict order, total on the links of the chain.
LEMMA BeforeIsAnOrder ==
  ASSUME TypeOK, OlderIsAnOrder
  PROVE  /\ \A a \in Links : ~Before(a, a)
         /\ \A a, b, c \in Links : Before(a, b) /\ Before(b, c) => Before(a, c)
         /\ \A a \in On : \A b \in Links \ {a} : Before(a, b) \/ Before(b, a)
         /\ \A a, b \in Links : Before(a, b) => Prio[a] >= Prio[b]
         /\ \A a, b \in Links : Prio[a] > Prio[b] => Before(a, b)
<1>a. \A a \in Links : Prio[a] \in Int
  BY PrioAssumption
<1>1. ASSUME NEW a \in Links PROVE ~Before(a, a)
  <2>1. <<a, a>> \notin older
    BY DEF OlderIsAnOrder
  <2>2. ~(Prio[a] > Prio[a])
    BY <1>a
  <2> QED BY <2>1, <2>2 DEF Before
<1>2. \A a, b, c \in Links : Before(a, b) /\ Before(b, c) => Before(a, c)
  BY <1>a DEF OlderIsAnOrder, Before
<1>3. ASSUME NEW a \in On, NEW b \in Links \ {a} PROVE Before(a, b) \/ Before(b, a)
  <2>1. <<a, b>> \in older \/ <<b, a>> \in older
    BY DEF OlderIsAnOrder
  <2>2. Prio[a] > Prio[b] \/ Prio[b] > Prio[a] \/ Prio[a] = Prio[b]
    BY <1>a DEF On
  <2> QED BY <2>1, <2>2 DEF Before
<1>4. \A a, b \in Links : Before(a, b) => Prio[a] >= Prio[b]
  BY <1>a DEF Before
<1>5. \A a, b \in Links : Prio[a] > Prio[b] => Before(a, b)
  BY DEF Before
<1> QED BY <1>1, <1>2, <1>3, <1>4, <1>5

\* An Attach makes l the youngest: it comes after every link of its priority,
\* and how any two others stand to each other is not disturbed.
LEMMA JoinedOrder ==
  ASSUME TypeOK, OlderIsAnOrder, NEW l \in Links, Joined(l),
         attached' = [attached EXCEPT ![l] = TRUE]
  PROVE  /\ OlderIsAnOrder'
         /\ \A a, b \in Links \ {l} : Before(a, b)' <=> Before(a, b)
         /\ \A a \in Links \ {l} : Before(a, l)' <=> Prio[a] >= Prio[l]
         /\ \A b \in Links : Before(l, b)' <=> Prio[l] > Prio[b]
<1>a. \A a \in Links : Prio[a] \in Int
  BY PrioAssumption
<1>1. \A a, b \in Links :
        <<a, b>> \in older' <=> (a # l /\ <<a, b>> \in older) \/ (b = l /\ a # l)
  BY DEF Joined, TypeOK
<1>2. On' = On \cup {l}
  BY DEF On, TypeOK
<1>3. OlderIsAnOrder'
  <2>1. \A a \in Links : <<a, a>> \notin older'
    BY <1>1 DEF OlderIsAnOrder
  <2>2. \A a, b, c \in Links :
          <<a, b>> \in older' /\ <<b, c>> \in older' => <<a, c>> \in older'
    BY <1>1 DEF OlderIsAnOrder
  <2>3. \A a \in On' : \A b \in Links \ {a} : <<a, b>> \in older' \/ <<b, a>> \in older'
    <3>1. SUFFICES ASSUME NEW a \in On', NEW b \in Links \ {a}
                   PROVE  <<a, b>> \in older' \/ <<b, a>> \in older'
      OBVIOUS
    <3>2. a \in Links
      BY DEF On
    <3>3. CASE a = l
      BY <1>1, <3>3
    <3>4. CASE a # l
      BY <1>1, <1>2, <3>2, <3>4 DEF OlderIsAnOrder
    <3> QED BY <3>3, <3>4
  <2> QED BY <2>1, <2>2, <2>3 DEF OlderIsAnOrder
<1>4. \A a, b \in Links \ {l} : Before(a, b)' <=> Before(a, b)
  BY <1>1 DEF Before
<1>5. \A a \in Links \ {l} : Before(a, l)' <=> Prio[a] >= Prio[l]
  BY <1>1, <1>a DEF Before
<1>6. \A b \in Links : Before(l, b)' <=> Prio[l] > Prio[b]
  BY <1>1, <1>a DEF Before
<1> QED BY <1>3, <1>4, <1>5, <1>6

\* The list with its `after' sets spelled out as facts about pairs of links.
LEMMA ListFacts ==
  ASSUME TypeOK, ListFollowsOrder
  PROVE  /\ On = {} <=> firstLink = NoLink
         /\ firstLink # NoLink => firstLink \in On
         /\ \A l \in On : l # firstLink => Before(firstLink, l)
         /\ \A a, b \in On : next[a] = NoLink => ~Before(a, b)
         /\ \A a \in On : next[a] # NoLink => next[a] \in On /\ Before(a, next[a])
         /\ \A a, b \in On : next[a] # NoLink /\ Before(a, b) /\ b # next[a]
                                 => Before(next[a], b)
BY DEF ListFollowsOrder

\* Where Attach left off its walk, prev and cur split the chain: what is ahead
\* of the new link has at least its priority, what is behind has less.
LEMMA SplitAtCursor ==
  ASSUME TypeOK, ChainInvariant, edit.step = "splice"
  PROVE  /\ edit.cur # NoLink => edit.cur \in On /\ Prio[edit.cur] < Prio[edit.link]
         /\ edit.prev # NoLink =>
              \A a \in On :
                /\ a = edit.prev \/ Before(a, edit.prev) => Prio[a] >= Prio[edit.link]
                /\ Before(edit.prev, a) => /\ edit.cur # NoLink
                                           /\ a = edit.cur \/ Before(edit.cur, a)
                                           /\ Prio[a] < Prio[edit.link]
         /\ edit.prev = NoLink =>
              \A a \in On : /\ edit.cur # NoLink
                            /\ a = edit.cur \/ Before(edit.cur, a)
                            /\ Prio[a] < Prio[edit.link]
<1> DEFINE l == edit.link  p == edit.prev  n == edit.cur
<1>1. /\ l \in Links
      /\ p = NoLink => n = firstLink
      /\ p # NoLink => p \in On /\ next[p] = n /\ Prio[p] >= Prio[l]
      /\ n # NoLink => Prio[n] < Prio[l]
  BY DEF ChainInvariant, EditFollowsList
<1>2. \A a \in Links : Prio[a] \in Int
  BY PrioAssumption
<1>3. On \subseteq Links
  BY DEF On
<1>4. \A a, b \in Links : Before(a, b) => Prio[a] >= Prio[b]
  BY BeforeIsAnOrder DEF ChainInvariant
<1>5. n # NoLink => n \in On
  BY <1>1, ListFacts DEF ChainInvariant
<1>6. ASSUME n # NoLink, NEW a \in On, a = n \/ Before(n, a) PROVE Prio[a] < Prio[l]
  BY <1>1, <1>2, <1>3, <1>4, <1>5, <1>6
<1>7. ASSUME p # NoLink, NEW a \in On
      PROVE  /\ a = p \/ Before(a, p) => Prio[a] >= Prio[l]
             /\ Before(p, a) => n # NoLink /\ (a = n \/ Before(n, a))
  <2>1. a = p \/ Before(a, p) => Prio[a] >= Prio[l]
    BY <1>1, <1>2, <1>3, <1>4, <1>7
  <2>2. Before(p, a) => n # NoLink /\ (a = n \/ Before(n, a))
    BY <1>1, <1>7, ListFacts DEF ChainInvariant
  <2> QED BY <2>1, <2>2
<1>8. ASSUME p = NoLink, NEW a \in On PROVE n # NoLink /\ (a = n \/ Before(n, a))
  BY <1>1, <1>8, ListFacts DEF ChainInvariant
<1> QED BY <1>1, <1>5, <1>6, <1>7, <1>8

\* The second store of an Attach puts the link where the order wants it.
LEMMA SpliceStep ==
  ASSUME TypeOK, ChainInvariant, AttachSplice
  PROVE  ChainInvariant'
<1> SUFFICES ASSUME NEW l, NEW p, NEW n,
                    l = edit.link, p = edit.prev, n = edit.cur
             PROVE  ChainInvariant'
  OBVIOUS
<1>s. /\ n # NoLink => n \in On /\ Prio[n] < Prio[l]
      /\ p # NoLink =>
           \A a \in On : /\ a = p \/ Before(a, p) => Prio[a] >= Prio[l]
                         /\ Before(p, a) => /\ n # NoLink
                                            /\ a = n \/ Before(n, a)
                                            /\ Prio[a] < Prio[l]
      /\ p = NoLink =>
           \A a \in On : n # NoLink /\ (a = n \/ Before(n, a)) /\ Prio[a] < Prio[l]
  BY SplitAtCursor DEF AttachSplice
<1>1. /\ edit.step = "splice"
      /\ l \in Links
      /\ l \notin On
      /\ p # NoLink => p \in On /\ p # l
      /\ n # NoLink => n \in On /\ n # l /\ Prio[n] < Prio[l]
      /\ next[l] = n
      /\ fwd[l] = IF n = NoLink THEN Thunk ELSE n
  BY <1>s DEF AttachSplice, ChainInvariant, EditFollowsList
<1>2. /\ firstLink' = IF p = NoLink THEN l ELSE firstLink
      /\ head' = IF p = NoLink THEN l ELSE head
      /\ next'[l] = n
      /\ fwd'[l] = fwd[l]
      /\ \A a \in Links \ {l} : next'[a] = IF a = p THEN l ELSE next[a]
      /\ \A a \in Links \ {l} : fwd'[a] = IF a = p THEN l ELSE fwd[a]
  BY <1>1, NamesAssumption DEF AttachSplice, TypeOK
<1>3. attached' = [attached EXCEPT ![l] = TRUE] /\ Joined(l)
  BY DEF AttachSplice
<1>4. On' = On \cup {l} /\ On \subseteq Links /\ On' \subseteq Links
  BY <1>1, <1>3 DEF On, TypeOK
<1>5. /\ OlderIsAnOrder'
      /\ \A a, b \in On : Before(a, b)' <=> Before(a, b)
      /\ \A a \in On : Before(a, l)' <=> Prio[a] >= Prio[l]
      /\ \A b \in Links : Before(l, b)' <=> Prio[l] > Prio[b]
      /\ \A a, b \in Links \ {l} : Before(a, b)' <=> Before(a, b)
      /\ \A a \in Links \ {l} : Before(a, l)' <=> Prio[a] >= Prio[l]
  BY <1>1, <1>3, <1>4, JoinedOrder DEF ChainInvariant
<1>6. \A a \in Links : Prio[a] \in Int
  BY PrioAssumption
<1>7. ListFollowsOrder'
  <2>1. /\ (firstLink = NoLink)' = (On = {})'
        /\ firstLink' \in On'
    BY <1>1, <1>2, <1>4, ListFacts, NamesAssumption DEF ChainInvariant, TypeOK
  <2>2. ASSUME NEW a \in On', a # firstLink' PROVE Before(firstLink, a)'
    <3>1. CASE p = NoLink
      BY <2>2, <3>1, <1>2, <1>4, <1>5, <1>6, <1>1, <1>s
    <3>2. CASE p # NoLink
      <4>1. firstLink' = firstLink /\ firstLink \in On
        BY <3>2, <1>1, <1>2, ListFacts DEF ChainInvariant
      <4>2. CASE a = l
        <5>1. firstLink = p \/ Before(firstLink, p)
          BY <4>1, <3>2, <1>1, ListFacts DEF ChainInvariant
        <5>2. Prio[firstLink] >= Prio[l]
          BY <5>1, <4>1, <3>2, <1>1, <1>s
        <5> QED BY <5>2, <4>1, <4>2, <1>5, <1>4
      <4>3. CASE a # l
        <5>1. Before(firstLink, a)
          BY <4>1, <4>3, <2>2, <1>4, ListFacts DEF ChainInvariant
        <5> QED BY <5>1, <4>1, <4>3, <1>4, <1>5
      <4> QED BY <4>2, <4>3
    <3> QED BY <3>1, <3>2
  <2>3. ASSUME NEW a \in On', NEW b \in On', Before(a, b)'
        PROVE  next'[a] # NoLink /\ (b = next'[a] \/ Before(next[a], b)')
    <3>1. CASE a = l
      <4>1. b # l /\ b \in On /\ Prio[b] < Prio[l]
        BY <3>1, <2>3, <1>4, <1>5, <1>6, <1>1
      <4>2. n # NoLink /\ (b = n \/ Before(n, b))
        <5>1. CASE p = NoLink
          BY <5>1, <4>1, <1>1, <1>s
        <5>2. CASE p # NoLink
          <6>1. ~(b = p \/ Before(b, p))
            BY <4>1, <1>1, <1>6, <1>4, <5>2, <1>s
          <6>2. Before(p, b)
            BY <6>1, <4>1, <5>2, <1>1, <1>4, BeforeIsAnOrder DEF ChainInvariant
          <6> QED BY <6>2, <4>1, <5>2, <1>1, <1>s
        <5> QED BY <5>1, <5>2
      <4> QED BY <4>1, <4>2, <3>1, <1>1, <1>2, <1>5
    <3>2. CASE a # l /\ a = p
      <4>1. a \in On /\ next'[a] = l
        BY <3>2, <1>2, <1>4, <1>1
      <4>2. CASE b = l
        BY <4>1, <4>2, <1>1, NamesAssumption
      <4>3. CASE b # l
        <5>1. b \in On /\ Before(p, b)
          BY <4>1, <4>3, <3>2, <2>3, <1>4, <1>5
        <5>2. Prio[b] < Prio[l]
          BY <5>1, <3>2, <4>1, <1>1, <1>s, NamesAssumption, <1>4
        <5> QED BY <5>1, <5>2, <4>1, <1>1, <1>4, <1>5, <1>6, NamesAssumption
      <4> QED BY <4>2, <4>3
    <3>3. CASE a # l /\ a # p
      <4>1. a \in On /\ next'[a] = next[a]
        BY <3>3, <1>2, <1>4
      <4>2. CASE b # l
        <5>1. b \in On /\ Before(a, b)
          BY <4>1, <4>2, <2>3, <1>4, <1>5
        <5>2. next[a] \in On /\ (b = next[a] \/ Before(next[a], b))
          BY <5>1, <4>1, ListFacts DEF ChainInvariant
        <5> QED BY <5>1, <5>2, <4>1, <1>4, <1>5, NamesAssumption
      <4>3. CASE b = l
        <5>1. Prio[a] >= Prio[l]
          BY <4>1, <4>3, <2>3, <1>5
        <5>2. p # NoLink /\ Before(a, p)
          BY <5>1, <4>1, <3>3, <1>1, <1>4, <1>6, <1>s, BeforeIsAnOrder
          DEF ChainInvariant
        <5>3. next[a] \in On /\ (next[a] = p \/ Before(next[a], p))
          BY <5>2, <4>1, <1>1, ListFacts DEF ChainInvariant
        <5>4. Prio[next[a]] >= Prio[l]
          BY <5>2, <5>3, <1>1, <1>s
        <5> QED BY <5>3, <5>4, <4>1, <4>3, <1>4, <1>5, NamesAssumption
      <4> QED BY <4>2, <4>3
    <3> QED BY <3>1, <3>2, <3>3
  <2>4. ASSUME NEW a \in On', next'[a] # NoLink
        PROVE  next'[a] \in On' /\ Before(a, next[a])'
    <3>1. CASE a = l
      BY <3>1, <2>4, <1>1, <1>2, <1>4, <1>5, <1>6
    <3>2. CASE a # l /\ a = p
      <4>1. next'[a] = l /\ a \in On
        BY <3>2, <1>1, <1>2, <1>4
      <4>2. Prio[a] >= Prio[l]
        BY <3>2, <4>1, <1>1, <1>4, <1>s, NamesAssumption
      <4> QED BY <4>1, <4>2, <1>4, <1>5
    <3>3. CASE a # l /\ a # p
      BY <3>3, <2>4, <1>2, <1>4, <1>5, ListFacts DEF ChainInvariant
    <3> QED BY <3>1, <3>2, <3>3
  <2> QED BY <2>1, <2>2, <2>3, <2>4 DEF ListFollowsOrder
<1>8. HasPredecessor'
  <2>1. SUFFICES ASSUME NEW b \in On', b # firstLink' PROVE \E q \in On' : next'[q] = b
    BY DEF HasPredecessor
  <2>2. CASE b = l
    BY <2>2, <2>1, <1>1, <1>2, <1>4
  <2>3. CASE b # l /\ b = n
    BY <2>3, <1>1, <1>2, <1>4
  <2>4. CASE b # l /\ b # n
    <3>1. b \in On /\ b # firstLink
      BY <2>1, <2>4, <1>2, <1>4, <1>1 DEF ChainInvariant, EditFollowsList
    <3>2. PICK q \in On : next[q] = b
      BY <3>1 DEF ChainInvariant, HasPredecessor
    <3>3. q # p
      BY <3>2, <2>4, <1>1, NamesAssumption, <1>4 DEF ChainInvariant, EditFollowsList
    <3> QED BY <3>2, <3>3, <1>1, <1>2, <1>4
  <2> QED BY <2>2, <2>3, <2>4
<1>9. WordsFollowList'
  <2>1. firstLink' # NoLink => head' = firstLink'
    BY <1>2 DEF ChainInvariant, WordsFollowList
  <2>2. ASSUME NEW a \in On' PROVE fwd'[a] = IF next'[a] = NoLink THEN Thunk ELSE next'[a]
    <3>1. CASE a = l
      BY <3>1, <1>1, <1>2
    <3>2. CASE a # l
      BY <3>2, <1>1, <1>2, <1>4, NamesAssumption DEF ChainInvariant, WordsFollowList
    <3> QED BY <3>1, <3>2
  <2> QED BY <2>1, <2>2 DEF WordsFollowList
<1>10. ForwardsDown'
  <2>1. SUFFICES ASSUME NEW k \in Links, fwd'[k] \in Links PROVE Before(k, fwd[k])'
    BY DEF ForwardsDown
  <2>2. CASE k = l
    BY <2>1, <2>2, <1>1, <1>2, <1>4, <1>5, <1>6, NamesAssumption
  <2>3. CASE k # l /\ k = p
    <3>1. p # NoLink /\ p \in On /\ fwd'[k] = l
      BY <2>3, <1>1, <1>2, NamesAssumption
    <3>2. Prio[k] >= Prio[l]
      BY <3>1, <2>3, <1>s
    <3> QED BY <3>1, <3>2, <2>3, <1>5
  <2>4. CASE k # l /\ k # p
    <3>1. fwd'[k] = fwd[k] /\ Before(k, fwd[k])
      BY <2>1, <2>4, <1>2 DEF ChainInvariant, ForwardsDown
    <3>2. fwd[k] = l => Prio[k] >= Prio[l]
      BY <3>1, <1>1, BeforeIsAnOrder DEF ChainInvariant
    <3> QED BY <3>1, <3>2, <2>1, <2>4, <1>5
  <2> QED BY <2>2, <2>3, <2>4
<1>11. EditFollowsList'
  BY DEF AttachSplice, Idle, EditFollowsList
<1> QED BY <1>5, <1>7, <1>8, <1>9, <1>10, <1>11 DEF ChainInvariant

\* The one store of a Detach closes the order over the link that leaves.
LEMMA DetachStep ==
  ASSUME TypeOK, ChainInvariant, NEW l \in Links, Detach(l)
  PROVE  ChainInvariant'
<1> SUFFICES ASSUME NEW p, NEW n, p = PredecessorOf(l), n = next[l]
             PROVE  ChainInvariant'
  OBVIOUS
<1>1. /\ l \in On
      /\ On' = On \ {l}
      /\ On \subseteq Links
      /\ \A a, b \in Links : Before(a, b)' <=> Before(a, b)
      /\ edit.step = "idle" /\ edit' = edit
  BY DEF Detach, Left, On, TypeOK, Before
<1>2. /\ firstLink = l => p = NoLink
      /\ firstLink # l => p \in On /\ next[p] = l /\ p # NoLink
  BY <1>1, PredecessorIsLink, NamesAssumption DEF ChainInvariant, PredecessorOf
<1>3. /\ firstLink' = IF firstLink = l THEN n ELSE firstLink
      /\ head' = IF firstLink = l /\ n # NoLink THEN n ELSE head
      /\ \A a \in Links \ {l} : next'[a] = IF a = p THEN n ELSE next[a]
      /\ \A a \in Links :
           fwd'[a] = IF a = p THEN (IF n = NoLink THEN Thunk ELSE n) ELSE fwd[a]
  <2>1. CASE firstLink = l
    BY <2>1, <1>1, <1>2, NamesAssumption DEF Detach, TypeOK
  <2>2. CASE firstLink # l
    BY <2>2, <1>1, <1>2, NamesAssumption DEF Detach, TypeOK
  <2> QED BY <2>1, <2>2
<1>4. /\ \A a \in Links : ~Before(a, a)
      /\ \A a, b, c \in Links : Before(a, b) /\ Before(b, c) => Before(a, c)
      /\ \A a \in On : \A b \in Links \ {a} : Before(a, b) \/ Before(b, a)
  BY BeforeIsAnOrder DEF ChainInvariant
<1>5. /\ n # NoLink => n \in On /\ n # l /\ Before(l, n)
      /\ \A b \in On : Before(l, b) => n # NoLink /\ (b = n \/ Before(n, b))
  BY <1>1, <1>4, ListFacts DEF ChainInvariant
<1>6. ASSUME NEW a \in On, next[a] = l PROVE a = p
  <2>1. l # NoLink /\ Before(a, l)
    BY <1>1, <1>6, ListFacts, NamesAssumption DEF ChainInvariant
  <2>2. firstLink # l
    BY <2>1, <1>1, <1>4, ListFacts DEF ChainInvariant
  <2>3. ~Before(a, p) /\ ~Before(p, a)
    <3>1. Before(p, l)
      BY <2>2, <1>1, <1>2, <2>1, ListFacts DEF ChainInvariant
    <3> QED BY <2>1, <2>2, <3>1, <1>1, <1>2, <1>4, <1>6, ListFacts DEF ChainInvariant
  <2> QED BY <2>2, <2>3, <1>1, <1>2, <1>4
<1>7. ListFollowsOrder'
  <2>1. /\ (firstLink = NoLink)' = (On = {})'
        /\ firstLink' # NoLink => firstLink' \in On'
    <3>1. CASE firstLink = l
      <4>1. n = NoLink => On' = {}
        BY <3>1, <1>1, <1>5, ListFacts DEF ChainInvariant
      <4> QED BY <4>1, <3>1, <1>1, <1>3, <1>5
    <3>2. CASE firstLink # l
      BY <3>2, <1>1, <1>2, <1>3, <1>4, ListFacts DEF ChainInvariant
    <3> QED BY <3>1, <3>2
  <2>2. ASSUME NEW a \in On', a # firstLink' PROVE Before(firstLink, a)'
    <3>1. a \in On /\ a # l
      BY <1>1
    <3>2. CASE firstLink = l
      <4>1. Before(l, a)
        BY <3>1, <3>2, ListFacts DEF ChainInvariant
      <4>2. firstLink' = n /\ n # NoLink /\ Before(n, a)
        BY <4>1, <3>1, <3>2, <2>2, <1>3, <1>5
      <4> QED BY <4>2, <3>1, <1>1, <1>5
    <3>3. CASE firstLink # l
      <4>1. firstLink' = firstLink /\ firstLink \in On /\ Before(firstLink, a)
        BY <3>1, <3>3, <2>2, <1>1, <1>3, ListFacts DEF ChainInvariant
      <4> QED BY <4>1, <3>1, <1>1
    <3> QED BY <3>2, <3>3
  <2>3. ASSUME NEW a \in On', NEW b \in On', Before(a, b)'
        PROVE  next'[a] # NoLink /\ (b = next'[a] \/ Before(next[a], b)')
    <3>1. a \in On /\ a # l /\ b \in On /\ b # l /\ Before(a, b)
      BY <2>3, <1>1
    <3>2. next[a] # NoLink /\ next[a] \in On /\ (b = next[a] \/ Before(next[a], b))
      BY <3>1, ListFacts DEF ChainInvariant
    <3>3. CASE a = p
      <4>1. next[a] = l
        BY <3>1, <3>3, <1>1, <1>2, NamesAssumption
      <4>2. next'[a] = n /\ n # NoLink /\ (b = n \/ Before(n, b))
        BY <4>1, <3>1, <3>2, <3>3, <1>1, <1>3, <1>5
      <4> QED BY <4>2, <3>1, <1>1, <1>5
    <3>4. CASE a # p
      BY <3>1, <3>2, <3>4, <1>1, <1>3
    <3> QED BY <3>3, <3>4
  <2>4. ASSUME NEW a \in On', next'[a] # NoLink
        PROVE  next'[a] \in On' /\ Before(a, next[a])'
    <3>1. a \in On /\ a # l
      BY <1>1
    <3>2. CASE a = p
      <4>1. next[a] = l /\ Before(a, l)
        BY <3>1, <3>2, <1>1, <1>2, ListFacts, NamesAssumption DEF ChainInvariant
      <4>2. next'[a] = n /\ n # NoLink /\ Before(a, n)
        BY <4>1, <3>1, <3>2, <2>4, <1>1, <1>3, <1>4, <1>5
      <4> QED BY <4>2, <3>1, <1>1, <1>5
    <3>3. CASE a # p
      BY <3>1, <3>3, <2>4, <1>1, <1>3, <1>6, ListFacts DEF ChainInvariant
    <3> QED BY <3>2, <3>3
  <2> QED BY <2>1, <2>2, <2>3, <2>4 DEF ListFollowsOrder
<1>8. HasPredecessor'
  <2>1. SUFFICES ASSUME NEW b \in On', b # firstLink' PROVE \E q \in On' : next'[q] = b
    BY DEF HasPredecessor
  <2>2. b \in On /\ b # l
    BY <1>1
  <2>3. b # firstLink
    BY <2>1, <2>2, <1>3
  <2>4. PICK q \in On : next[q] = b
    BY <2>2, <2>3 DEF ChainInvariant, HasPredecessor
  <2>5. CASE q = l
    <3>1. firstLink # l
      BY <2>1, <2>4, <2>5, <1>3
    <3> QED BY <3>1, <2>4, <2>5, <1>1, <1>2, <1>3, <1>4, ListFacts, NamesAssumption
        DEF ChainInvariant
  <2>6. CASE q # l
    <3>1. q # p
      BY <2>2, <2>4, <1>1, <1>2, NamesAssumption
    <3> QED BY <3>1, <2>4, <2>6, <1>1, <1>3
  <2> QED BY <2>5, <2>6
<1>9. WordsFollowList'
  <2>1. firstLink' # NoLink => head' = firstLink'
    BY <1>3 DEF ChainInvariant, WordsFollowList
  <2>2. ASSUME NEW a \in On' PROVE fwd'[a] = IF next'[a] = NoLink THEN Thunk ELSE next'[a]
    BY <1>1, <1>3 DEF ChainInvariant, WordsFollowList
  <2> QED BY <2>1, <2>2 DEF WordsFollowList
<1>10. ForwardsDown'
  <2>1. SUFFICES ASSUME NEW k \in Links, fwd'[k] \in Links PROVE Before(k, fwd[k])'
    BY DEF ForwardsDown
  <2>2. CASE k = p
    <3>1. Before(k, l)
      BY <2>2, <1>1, <1>2, ListFacts, NamesAssumption DEF ChainInvariant
    <3>2. fwd'[k] = n /\ n # NoLink
      BY <2>1, <2>2, <1>3, NamesAssumption
    <3> QED BY <3>1, <3>2, <2>1, <1>1, <1>4, <1>5
  <2>3. CASE k # p
    BY <2>1, <2>3, <1>1, <1>3 DEF ChainInvariant, ForwardsDown
  <2> QED BY <2>2, <2>3
<1>11. EditFollowsList'
  BY <1>1 DEF EditFollowsList
<1>12. OlderIsAnOrder'
  BY <1>1 DEF Detach, Left, ChainInvariant, OlderIsAnOrder
<1> QED BY <1>7, <1>8, <1>9, <1>10, <1>11, <1>12 DEF ChainInvariant

\* Emptying the list, by Clear or by a reset, leaves nothing to be out of order.
LEMMA EmptyStep ==
  ASSUME TypeOK, ChainInvariant, On' = {}, firstLink' = NoLink, UNCHANGED older,
         edit.step = "idle", UNCHANGED edit,
         UNCHANGED fwd \/ \A l \in Links : fwd'[l] = Zero
  PROVE  ChainInvariant'
<1>1. OlderIsAnOrder'
  BY DEF ChainInvariant, OlderIsAnOrder
<1>2. ForwardsDown'
  BY NamesAssumption DEF ChainInvariant, ForwardsDown, Before
<1>3. ListFollowsOrder' /\ HasPredecessor' /\ WordsFollowList' /\ EditFollowsList'
  BY DEF ListFollowsOrder, HasPredecessor, WordsFollowList, EditFollowsList
<1> QED BY <1>1, <1>2, <1>3 DEF ChainInvariant

\* A step that moves only cores, or the title's word, disturbs no edit.
LEMMA QuietStep ==
  ASSUME ChainInvariant, UNCHANGED <<list, words, edit, older>>
  PROVE  ChainInvariant'
BY DEF list, words, ChainInvariant, OlderIsAnOrder, ListFollowsOrder, HasPredecessor,
       WordsFollowList, ForwardsDown, EditFollowsList, Before, On

\* Attach's walk: it moves only past links of at least the new one's priority.
LEMMA WalkStep ==
  ASSUME TypeOK, ChainInvariant,
         AttachSeek \/ \E l \in Links : AttachStart(l)
  PROVE  ChainInvariant'
<1>1. UNCHANGED <<list, words, older>>
  BY DEF AttachSeek, AttachStart
<1>2. /\ OlderIsAnOrder' /\ ListFollowsOrder' /\ HasPredecessor'
      /\ WordsFollowList' /\ ForwardsDown'
  BY <1>1 DEF list, words, ChainInvariant, OlderIsAnOrder, ListFollowsOrder,
     HasPredecessor, WordsFollowList, ForwardsDown, Before, On
<1>3. EditFollowsList'
  <2>1. CASE AttachSeek
    <3>1. edit.cur \in On
      BY <2>1, ListFacts DEF AttachSeek, ChainInvariant, EditFollowsList
    <3> QED BY <2>1, <3>1, <1>1, NamesAssumption
        DEF AttachSeek, ChainInvariant, EditFollowsList, TypeOK, list, words, On
  <2>2. ASSUME NEW l \in Links, AttachStart(l) PROVE EditFollowsList'
    BY <2>2, <1>1 DEF AttachStart, EditFollowsList, list, words, On
  <2> QED BY <2>1, <2>2
<1> QED BY <1>2, <1>3 DEF ChainInvariant

\* The first store of an Attach: a word no caller can reach through the list.
LEMMA ForwardStep ==
  ASSUME TypeOK, ChainInvariant, AttachForward
  PROVE  ChainInvariant'
<1>1. /\ edit.link \in Links \ On
      /\ edit.cur # NoLink => edit.cur \in Links /\ Before(edit.link, edit.cur)
  BY BeforeIsAnOrder DEF AttachForward, ForwardTo, ChainInvariant, EditFollowsList, TypeOK
<1>2. /\ UNCHANGED <<firstLink, attached, head, older>>
      /\ On' = On
      /\ \A a \in On : next'[a] = next[a] /\ fwd'[a] = fwd[a]
      /\ \A k \in Links : fwd'[k] = IF k = edit.link
                                   THEN (IF edit.cur = NoLink THEN Thunk ELSE edit.cur)
                                   ELSE fwd[k]
  BY <1>1 DEF AttachForward, ForwardTo, On, TypeOK
<1>3. \A a, b \in Links : Before(a, b)' <=> Before(a, b)
  BY <1>2 DEF Before
<1>4. OlderIsAnOrder' /\ HasPredecessor' /\ WordsFollowList'
  BY <1>2 DEF ChainInvariant, OlderIsAnOrder, HasPredecessor, WordsFollowList
<1>5. ListFollowsOrder'
  <2>1. \A a \in On : next'[a] = next[a] /\ On' = On /\ firstLink' = firstLink
    BY <1>2
  <2>2. \A a, b \in On : Before(a, b)' <=> Before(a, b)
    BY <1>3 DEF On
  <2>3. \A a, b \in On' : Before(a, b)' => next'[a] # NoLink /\
                                           (b = next'[a] \/ Before(next[a], b)')
    BY <2>1, <2>2, <1>2, ListFacts DEF ChainInvariant
  <2>4. \A a \in On' : next'[a] # NoLink => next'[a] \in On' /\ Before(a, next[a])'
    BY <2>1, <2>2, <1>2, ListFacts DEF ChainInvariant
  <2>5. \A a \in On' : a # firstLink' => Before(firstLink, a)'
    BY <2>1, <2>2, <1>2, ListFacts DEF ChainInvariant
  <2>6. (firstLink = NoLink)' = (On = {})' /\ (firstLink' # NoLink => firstLink' \in On')
    BY <1>2, ListFacts DEF ChainInvariant
  <2> QED BY <2>3, <2>4, <2>5, <2>6 DEF ListFollowsOrder
<1>6. ForwardsDown'
  <2>1. SUFFICES ASSUME NEW k \in Links, fwd'[k] \in Links PROVE Before(k, fwd[k])'
    BY DEF ForwardsDown
  <2>2. CASE k = edit.link
    BY <2>1, <2>2, <1>1, <1>2, <1>3, NamesAssumption
  <2>3. CASE k # edit.link
    BY <2>1, <2>3, <1>2, <1>3 DEF ChainInvariant, ForwardsDown
  <2> QED BY <2>2, <2>3
<1>7. EditFollowsList'
  BY <1>1, <1>2 DEF AttachForward, ForwardTo, ChainInvariant, EditFollowsList, TypeOK, On
<1> QED BY <1>4, <1>5, <1>6, <1>7 DEF ChainInvariant

-----------------------------------------------------------------------------
(* The theorems.                                                              *)

\* In every state of every execution the variables are well-typed and the list,
\* the words and the edit under way agree with the order of the chain.
THEOREM InvariantHolds == Spec => [](TypeOK /\ ChainInvariant)
<1>1. Init => TypeOK /\ ChainInvariant
  <2>1. Init => TypeOK
    <3> SUFFICES ASSUME Init PROVE TypeOK
      OBVIOUS
    <3>1. edit \in [step : {"idle", "seek", "splice"}, link : Links \cup {NoLink},
                     prev : Links \cup {NoLink}, cur : Links \cup {NoLink}]
      BY DEF Init, Idle
    <3>2. trip \in [Cores -> Trips]
      BY NoTripType DEF Init
    <3>3. /\ next \in [Links -> Links \cup {NoLink}]
          /\ attached \in [Links -> BOOLEAN]
          /\ fwd \in [Links -> Targets]
          /\ at \in [Cores -> Targets \cup {"out", "dispatcher"}]
      BY DEF Init, Targets
    <3> QED BY <3>1, <3>2, <3>3 DEF Init, TypeOK, Targets
  <2>2. Init => ChainInvariant
    BY NamesAssumption
    DEF Init, Idle, ChainInvariant, OlderIsAnOrder, ListFollowsOrder, HasPredecessor,
        WordsFollowList, ForwardsDown, EditFollowsList, On
  <2> QED BY <2>1, <2>2
<1>2. TypeOK /\ ChainInvariant /\ [Next]_vars => TypeOK' /\ ChainInvariant'
  <2> SUFFICES ASSUME TypeOK, ChainInvariant, [Next]_vars
               PROVE  TypeOK' /\ ChainInvariant'
    OBVIOUS
  <2>1. TypeOK'
    BY TypeStep DEF ChainInvariant
  <2>2. ASSUME NEW l \in Links, AttachStart(l) PROVE ChainInvariant'
    BY <2>2, WalkStep
  <2>3. ASSUME AttachSeek PROVE ChainInvariant'
    BY <2>3, WalkStep
  <2>4. ASSUME AttachForward PROVE ChainInvariant'
    BY <2>4, ForwardStep
  <2>5. ASSUME AttachSplice PROVE ChainInvariant'
    BY <2>5, SpliceStep
  <2>6. ASSUME NEW l \in Links, Detach(l) PROVE ChainInvariant'
    BY <2>6, DetachStep
  <2>7. ASSUME NEW restored \in BOOLEAN, Clear(restored) PROVE ChainInvariant'
    <3>1. On' = {} /\ UNCHANGED <<fwd, older, edit>>
      BY <2>7 DEF Clear, Left, words, On
    <3> QED BY <2>7, <3>1, EmptyStep DEF Clear
  <2>8. ASSUME NEW restored \in BOOLEAN, ProcessEnd(restored) \/ Reconfigure(restored)
        PROVE  ChainInvariant'
    <3>1. ForgetWords
      BY <2>8 DEF ProcessEnd, Reconfigure
    <3>2. On' = {} /\ UNCHANGED <<older, edit>> /\ \A l \in Links : fwd'[l] = Zero
      BY <3>1 DEF ForgetWords, Left, On
    <3> QED BY <3>1, <3>2, EmptyStep DEF ForgetWords
  <2>9. ASSUME Install \/ Uninstall PROVE ChainInvariant'
    BY <2>9, QuietStep DEF Install, Uninstall
  <2>10. ASSUME NEW c \in Cores, Enter(c) \/ EnterStray(c) \/ Run(c) PROVE ChainInvariant'
    BY <2>10, QuietStep DEF Enter, EnterStray, EnterBy, Run, Dispatch, Forward, Leave, Arrive
  <2>11. ASSUME UNCHANGED vars PROVE ChainInvariant'
    BY <2>11, QuietStep DEF vars
  <2> QED
    BY <2>1, <2>2, <2>3, <2>4, <2>5, <2>6, <2>7, <2>8, <2>9, <2>10, <2>11
    DEF Next, Edit, AttachStep
<1> QED BY <1>1, <1>2, PTL DEF Spec

\* Types.
THEOREM TypeCorrect == Spec => []TypeOK
BY InvariantHolds, PTL

\* The forwarding words, stale ones included, always lead down the order.
THEOREM NoCycle == Spec => []ForwardsDown
<1>1. ChainInvariant => ForwardsDown
  BY DEF ChainInvariant
<1> QED BY <1>1, InvariantHolds, PTL

\* The list is always sorted by priority, ties in attach order.
THEOREM ListSorted == Spec => []ListFollowsOrder
<1>1. ChainInvariant => ListFollowsOrder
  BY DEF ChainInvariant
<1> QED BY <1>1, InvariantHolds, PTL

\* What cores read is always what the list says.
THEOREM WordsAgree == Spec => []WordsFollowList
<1>1. ChainInvariant => WordsFollowList
  BY DEF ChainInvariant
<1> QED BY <1>1, InvariantHolds, PTL

-----------------------------------------------------------------------------
(* No core is lost, unless its words are zeroed (Configure, a forgotten branch). *)

\* Only a core that enters can become one that no reset has hit.
LEMMA UnresetShrinks ==
  ASSUME TypeOK, Edit \/ (\E c \in Cores : Run(c)) \/ UNCHANGED vars
  PROVE  Unreset' \subseteq Unreset
<1>1. \A c \in Cores : trip[c] \in Trips
  BY DEF TypeOK
<1>2. ASSUME UNCHANGED <<at, trip>> PROVE Unreset' \subseteq Unreset
  BY <1>2 DEF Unreset
<1>3. ASSUME NEW l, Returning(l), UNCHANGED at PROVE Unreset' \subseteq Unreset
  BY <1>1, <1>3 DEF Returning, Unreset, Trips
<1>4. ASSUME NEW ls, NEW reset \in BOOLEAN, Left(ls, reset),
             UNCHANGED at \/ \A c \in Cores : at[c] = "out" /\ at'[c] = "out"
      PROVE  Unreset' \subseteq Unreset
  BY <1>1, <1>4 DEF Left, Unreset, Trips
<1>5. ASSUME NEW c \in Cores, NEW t, Arrive(c, t), at[c] # "out"
      PROVE  Unreset' \subseteq Unreset
  <2>1. \A d \in Cores : at'[d] = at[d] \/ d = c
    BY <1>5 DEF Arrive, TypeOK
  <2>2. \A d \in Cores : trip'[d].reset = trip[d].reset
    BY <1>1, <1>5 DEF Arrive, Trips, TypeOK
  <2> QED BY <1>5, <2>1, <2>2 DEF Unreset
<1>6. ASSUME NEW c \in Cores, Leave(c) PROVE Unreset' \subseteq Unreset
  <2>1. /\ at'[c] = "out"
        /\ \A d \in Cores : d # c => at'[d] = at[d] /\ trip'[d] = trip[d]
    BY <1>6 DEF Leave, TypeOK
  <2> QED BY <2>1 DEF Unreset
<1>7. ASSUME NEW c \in Cores, Run(c) PROVE Unreset' \subseteq Unreset
  BY <1>5, <1>6, <1>7, NamesAssumption DEF Run, Dispatch, Forward
<1>8. ASSUME Edit PROVE Unreset' \subseteq Unreset
  <2>1. ASSUME NEW l \in Links, AttachStart(l) PROVE Unreset' \subseteq Unreset
    BY <1>2, <2>1 DEF AttachStart
  <2>2. ASSUME NEW l \in Links, Detach(l) PROVE Unreset' \subseteq Unreset
    BY <1>4, <2>2 DEF Detach
  <2>3. ASSUME AttachStep PROVE Unreset' \subseteq Unreset
    BY <1>2, <1>3, <2>3 DEF AttachStep, AttachSeek, AttachForward, ForwardTo, AttachSplice
  <2>4. ASSUME NEW restored \in BOOLEAN, Clear(restored) PROVE Unreset' \subseteq Unreset
    BY <1>4, <2>4 DEF Clear
  <2>5. ASSUME Install \/ Uninstall PROVE Unreset' \subseteq Unreset
    BY <1>2, <2>5 DEF Install, Uninstall
  <2>6. ASSUME NEW restored \in BOOLEAN, ProcessEnd(restored) \/ Reconfigure(restored)
        PROVE  Unreset' \subseteq Unreset
    BY <1>4, <2>6 DEF ProcessEnd, Reconfigure, ForgetWords
  <2> QED BY <1>8, <2>1, <2>2, <2>3, <2>4, <2>5, <2>6 DEF Edit
<1> QED BY <1>2, <1>7, <1>8 DEF vars

\* After a reset no core inside is one that it has not hit.
LEMMA ResetHitsAll ==
  ASSUME TypeOK, NEW restored \in BOOLEAN, Reconfigure(restored)
  PROVE  Unreset' = {}
<1>1. ASSUME NEW c \in Cores, at[c] # "out" PROVE trip'[c].reset
  <2>1. trip[c] \in Trips
    BY DEF TypeOK
  <2> QED BY <1>1, <2>1 DEF Reconfigure, ForgetWords, Left, Trips
<1> QED BY <1>1 DEF Reconfigure, ForgetWords, Unreset

\* Every step leaves each word written that a core can reach whom no reset hit.
LEMMA ReachableStep ==
  ASSUME TypeOK, ChainInvariant, WordsReachable, [Next]_vars
  PROVE  WordsReachable'
<1> USE NamesAssumption
<1>0. ASSUME Edit \/ (\E c \in Cores : Run(c)) \/ UNCHANGED vars
      PROVE  Unreset' \subseteq Unreset
  BY <1>0, UnresetShrinks
<1>1. ASSUME UNCHANGED <<words, installed, at>>, firstLink' \in {firstLink, NoLink},
             Unreset' \subseteq Unreset
      PROVE  WordsReachable'
  BY <1>1 DEF words, WordsReachable
<1>2. ASSUME NEW l \in Links, AttachStart(l), Unreset' \subseteq Unreset
      PROVE  WordsReachable'
  BY <1>1, <1>2 DEF AttachStart, list
<1>3. ASSUME AttachSeek, Unreset' \subseteq Unreset
      PROVE  WordsReachable'
  BY <1>1, <1>3 DEF AttachSeek, list
<1>4. ASSUME AttachForward, Unreset' \subseteq Unreset
      PROVE  WordsReachable'
  <2>1. edit.link \in Links /\ (edit.cur # NoLink => edit.cur \in On /\ edit.cur \in Links)
    BY <1>4, ListFacts DEF AttachForward, ForwardTo, ChainInvariant, EditFollowsList, On
  <2>2. edit.cur # NoLink => fwd[edit.cur] # Zero
    BY <2>1, ListFacts DEF ChainInvariant, WordsFollowList, On
  <2>3. /\ UNCHANGED <<firstLink, head, installed, at>>
        /\ \A k \in Links : fwd'[k] = IF k = edit.link
                                     THEN (IF edit.cur = NoLink THEN Thunk ELSE edit.cur)
                                     ELSE fwd[k]
    BY <1>4, <2>1 DEF AttachForward, ForwardTo, TypeOK
  <2>4. \A k \in Links : fwd[k] # Zero => fwd'[k] # Zero
    BY <2>1, <2>3
  <2>5. \A k \in Links : fwd'[k] \in Links => fwd'[fwd'[k]] # Zero
    BY <2>1, <2>2, <2>3, <2>4 DEF WordsReachable
  <2> QED BY <1>4, <2>3, <2>4, <2>5 DEF WordsReachable
<1>5. ASSUME AttachSplice, Unreset' \subseteq Unreset
      PROVE  WordsReachable'
  <2>1. /\ edit.link \in Links /\ edit.link \notin On /\ fwd[edit.link] # Zero
        /\ edit.prev # NoLink => edit.prev \in On /\ firstLink # NoLink
        /\ On \subseteq Links
    <3>1. edit.cur # NoLink => edit.cur \in On /\ On \subseteq Links
      BY <1>5, SplitAtCursor DEF AttachSplice, On
    <3> QED BY <1>5, <3>1, ListFacts DEF AttachSplice, ChainInvariant, EditFollowsList, On
  <2>2. CASE edit.prev = NoLink
    BY <1>5, <2>1, <2>2 DEF AttachSplice, WordsReachable
  <2>3. CASE edit.prev # NoLink
    <3>1. /\ UNCHANGED <<firstLink, head, installed, at>>
          /\ \A k \in Links : fwd'[k] = IF k = edit.prev THEN edit.link ELSE fwd[k]
      BY <1>5, <2>1, <2>3 DEF AttachSplice, TypeOK
    <3> QED BY <1>5, <3>1, <2>1, <2>3 DEF WordsReachable
  <2> QED BY <2>2, <2>3
<1>6. ASSUME NEW l \in Links, Detach(l), Unreset' \subseteq Unreset
      PROVE  WordsReachable'
  <2>1. l \in On /\ On \subseteq Links /\ UNCHANGED <<installed, at>>
    BY <1>6 DEF Detach, On
  <2>2. /\ next[l] # NoLink => next[l] \in Links /\ fwd[next[l]] # Zero
        /\ fwd[l] # Zero
    BY <2>1, ListFacts DEF ChainInvariant, WordsFollowList
  <2>3. CASE firstLink = l
    <3>1. /\ UNCHANGED fwd
          /\ firstLink' = next[l]
          /\ head' = IF next[l] = NoLink THEN head ELSE next[l]
      BY <1>6, <2>3 DEF Detach, PredecessorOf
    <3> QED BY <1>6, <3>1, <2>1, <2>2, <2>3 DEF WordsReachable
  <2>4. CASE firstLink # l
    <3>1. PredecessorOf(l) \in Links /\ PredecessorOf(l) # NoLink
      BY <2>1, <2>4, PredecessorIsLink DEF ChainInvariant
    <3>2. /\ UNCHANGED <<firstLink, head>>
          /\ \A k \in Links :
               fwd'[k] = IF k = PredecessorOf(l)
                         THEN (IF next[l] = NoLink THEN Thunk ELSE next[l])
                         ELSE fwd[k]
      BY <1>6, <3>1 DEF Detach, TypeOK
    <3> HIDE DEF PredecessorOf
    <3> QED BY <1>6, <3>1, <3>2, <2>1, <2>2 DEF WordsReachable
  <2> QED BY <2>3, <2>4
<1>7. ASSUME NEW restored \in BOOLEAN, Clear(restored), Unreset' \subseteq Unreset
      PROVE  WordsReachable'
  BY <1>7 DEF Clear, words, WordsReachable
<1>8. ASSUME Install \/ Uninstall, Unreset' \subseteq Unreset
      PROVE  WordsReachable'
  BY <1>8 DEF Install, Uninstall, list, words, WordsReachable
<1>9. ASSUME NEW restored \in BOOLEAN, ProcessEnd(restored), Unreset' \subseteq Unreset
      PROVE  WordsReachable'
  <2>1. /\ head' = Zero /\ firstLink' = NoLink /\ installed' = FALSE
        /\ \A l \in Links : fwd'[l] = Zero
        /\ \A c \in Cores : at'[c] = "out"
    BY <1>9 DEF ProcessEnd, ForgetWords
  <2> QED BY <2>1 DEF WordsReachable, Unreset
<1>10. ASSUME NEW c \in Cores, Enter(c) \/ EnterStray(c) PROVE WordsReachable'
  <2>1. PICK b \in BOOLEAN : EnterBy(c, b) /\ (head = Zero => installed \/ b)
    BY <1>10 DEF Enter, EnterStray
  <2>2. /\ UNCHANGED <<firstLink, head, fwd, installed>>
        /\ \A d \in Cores : at'[d] = IF d = c THEN "dispatcher" ELSE at[d]
        /\ \A d \in Cores : d # c => trip'[d] = trip[d]
    BY <2>1 DEF EnterBy, list, words, TypeOK
  <2>3. trip'[c].reset = b
    BY <2>1 DEF EnterBy, NoTrip, TypeOK
  <2>4. head = Zero => c \notin Unreset'
    BY <2>1, <2>3 DEF Unreset, WordsReachable
  <2>5. \A d \in Unreset' : d = c \/ d \in Unreset
    BY <2>2 DEF Unreset
  <2>6. c \notin Unreset
    BY <2>1 DEF EnterBy, Unreset
  <2>7. /\ Unreset \subseteq Cores /\ Unreset' \subseteq Cores
        /\ c \in Unreset' => head # Zero
    BY <2>4 DEF Unreset
  <2>8. (installed' \/ \E d \in Unreset' : at'[d] = "dispatcher") => head' # Zero
    BY <2>2, <2>5, <2>7 DEF WordsReachable
  <2>9. \A d \in Unreset' : at'[d] # Zero /\ (at'[d] \in Links => fwd'[at'[d]] # Zero)
    BY <2>2, <2>5, <2>7 DEF WordsReachable
  <2> QED BY <2>2, <2>8, <2>9 DEF WordsReachable
<1>11. ASSUME NEW c \in Cores, NEW t \in Targets, Arrive(c, t),
              c \in Unreset => t # Zero /\ (t \in Links => fwd[t] # Zero),
              Unreset' \subseteq Unreset
       PROVE  WordsReachable'
  <2>1. /\ UNCHANGED <<firstLink, head, fwd, installed>>
        /\ \A d \in Cores : at'[d] = IF d = c THEN t ELSE at[d]
    BY <1>11 DEF Arrive, list, words, TypeOK
  <2>2. t # "dispatcher"
    BY <1>11 DEF Targets
  <2>3. Unreset \subseteq Cores
    BY DEF Unreset
  <2> QED BY <1>11, <2>1, <2>2, <2>3 DEF WordsReachable
<1>12. ASSUME NEW c \in Cores, Dispatch(c), Unreset' \subseteq Unreset
      PROVE  WordsReachable'
  BY <1>11, <1>12 DEF Dispatch, WordsReachable, TypeOK
<1>13. ASSUME NEW c \in Cores, Forward(c), Unreset' \subseteq Unreset
      PROVE  WordsReachable'
  BY <1>11, <1>13 DEF Forward, WordsReachable, TypeOK
<1>14. ASSUME NEW c \in Cores, Leave(c), Unreset' \subseteq Unreset
      PROVE  WordsReachable'
  <2>1. /\ UNCHANGED <<firstLink, head, fwd, installed>>
        /\ \A d \in Cores : at'[d] = IF d = c THEN "out" ELSE at[d]
    BY <1>14 DEF Leave, list, words, TypeOK
  <2>2. Unreset \subseteq Cores
    BY DEF Unreset
  <2> QED BY <1>14, <2>1, <2>2 DEF WordsReachable
<1>15. ASSUME UNCHANGED vars, Unreset' \subseteq Unreset
       PROVE  WordsReachable'
  BY <1>1, <1>15 DEF vars, list
<1>16. ASSUME NEW restored \in BOOLEAN, Reconfigure(restored) PROVE WordsReachable'
  <2>1. /\ head' = Zero /\ firstLink' = NoLink /\ installed' = FALSE
        /\ \A l \in Links : fwd'[l] = Zero
    BY <1>16 DEF Reconfigure, ForgetWords
  <2> QED BY <1>16, <2>1, ResetHitsAll DEF WordsReachable
<1>17. ASSUME Edit PROVE WordsReachable'
  BY <1>0, <1>2, <1>3, <1>4, <1>5, <1>6, <1>7, <1>8, <1>9, <1>16, <1>17 DEF Edit, AttachStep
<1>18. ASSUME NEW c \in Cores, Run(c) PROVE WordsReachable'
  BY <1>0, <1>12, <1>13, <1>14, <1>18 DEF Run
<1> QED BY <1>0, <1>10, <1>15, <1>17, <1>18 DEF Next

\* A core whose words nobody zeroed, before it came by a forgotten branch or while it was
\* inside, always finds a valid word, through any edit, removal or failed removal.
THEOREM NeverLostHolds == Spec => []NeverLost
<1>1. Init => WordsReachable
  BY NamesAssumption DEF Init, WordsReachable, Unreset
<1>2. TypeOK /\ ChainInvariant /\ WordsReachable /\ [Next]_vars => WordsReachable'
  BY ReachableStep
<1>3. WordsReachable => NeverLost
  BY NamesAssumption DEF WordsReachable, NeverLost, Unreset
<1> QED BY <1>1, <1>2, <1>3, InvariantHolds, PTL DEF Spec

-----------------------------------------------------------------------------
(* What a call runs.  Calls are spoken of only while nothing they passed, and  *)
(* nothing that left, has come back (trip.mixed).                             *)

\* Behind a call: each hook it ran comes before the one it is at, so none can come again.
\* A link whose word an Attach has just written was seen only on the way it leads now.
Behind(c) ==
  LET t == trip[c]
  IN  /\ at[c] = "dispatcher" => t.seen = {}
      /\ at[c] \in Links =>
           at[c] \in t.seen /\ \A s \in t.seen \ {at[c]} : Before(s, at[c])
      /\ edit.step = "splice" /\ edit.link \in t.seen /\ at[c] \in Links =>
           at[c] = edit.link \/ Prio[at[c]] < Prio[edit.link]

\* What left during a call is still gone, and its stale word leads to links that are
\* there or left as well, and past none that the call has to run.
Stale(c) ==
  LET t == trip[c]
  IN  \A k \in t.left :
        /\ fwd[k] \in On \cup t.left \cup {Thunk}
        /\ \A m \in t.must :
             Before(k, m) => fwd[k] \in Links /\ (m = fwd[k] \/ Before(fwd[k], m))

\* Ahead of a call: all it has to run and has not run comes after where it is.
Ahead(c) ==
  LET t == trip[c]
  IN  /\ at[c] \in Links =>
           at[c] \in On \cup t.left /\ \A m \in t.must \ t.seen : Before(at[c], m)
      /\ at[c] = Thunk => t.must \subseteq t.seen

OnCourse(c) ==
  /\ trip[c].must \subseteq On
  /\ trip[c].left \cap On = {}
  /\ edit.step = "splice" => edit.link \notin trip[c].left
  /\ Behind(c)
  /\ trip[c].must # {} => Stale(c) /\ Ahead(c)

Unmixed == {c \in Cores : at[c] # "out" /\ ~trip[c].mixed}
TripsOnCourse == \A c \in Unmixed : OnCourse(c)

\* The fields of a trip.
LEMMA TripTyped ==
  ASSUME TypeOK, NEW c \in Cores
  PROVE  /\ trip[c].must \subseteq Links /\ trip[c].seen \subseteq Links
         /\ trip[c].left \subseteq Links /\ trip[c].mixed \in BOOLEAN
         /\ On \subseteq Links
BY DEF TypeOK, Trips, On

\* An attached link's word leads to the next attached link, and past none.
LEMMA WordsPassNone ==
  ASSUME TypeOK, ChainInvariant, NEW k \in On
  PROVE  /\ fwd[k] \in On \cup {Thunk}
         /\ \A m \in On : Before(k, m) => fwd[k] \in On /\ (m = fwd[k] \/ Before(fwd[k], m))
<1>1. fwd[k] = IF next[k] = NoLink THEN Thunk ELSE next[k]
  BY DEF ChainInvariant, WordsFollowList
<1> QED BY <1>1, ListFacts DEF ChainInvariant

\* Steps that touch no word, and neither the call nor the chain it runs through.
LEMMA CourseQuiet ==
  ASSUME TypeOK, NEW c \in Unmixed, OnCourse(c),
         UNCHANGED <<words, attached, older>>, at'[c] = at[c], trip'[c] = trip[c],
         edit' = edit \/ edit'.step # "splice"
  PROVE  OnCourse(c)'
<1>1. On' = On /\ fwd' = fwd /\ \A a, b : Before(a, b)' <=> Before(a, b)
  BY DEF On, words, Before
<1>2. Behind(c)'
  BY <1>1 DEF OnCourse, Behind
<1>3. trip[c].must # {} => Stale(c)' /\ Ahead(c)'
  BY <1>1 DEF OnCourse, Stale, Ahead
<1> QED BY <1>1, <1>2, <1>3 DEF OnCourse

\* The first store of an Attach: the link that it writes the word of is not on any
\* unmixed call's way.
LEMMA CourseForward ==
  ASSUME TypeOK, ChainInvariant, NEW c \in Cores, c \in Unmixed => OnCourse(c),
         AttachForward, c \in Unmixed'
  PROVE  OnCourse(c)'
<1> DEFINE l == edit.link
<1>1. l \in Links \ On /\ at'[c] = at[c]
  BY DEF AttachForward, ForwardTo, ChainInvariant, EditFollowsList
<1>2. /\ at[c] # "out" /\ ~trip'[c].mixed
      /\ trip'[c] = [trip[c] EXCEPT !.mixed = @ \/ l \in trip[c].left \cup trip[c].seen]
  BY <1>1 DEF AttachForward, ForwardTo, Returning, Unmixed
<1>3. /\ ~trip[c].mixed /\ l \notin trip[c].left /\ l \notin trip[c].seen
      /\ trip'[c].must = trip[c].must /\ trip'[c].seen = trip[c].seen
      /\ trip'[c].left = trip[c].left
  <2>1. trip[c] \in Trips
    BY DEF TypeOK
  <2> QED BY <1>2, <2>1 DEF Trips
<1>4. c \in Unmixed /\ OnCourse(c)
  BY <1>2, <1>3 DEF Unmixed
<1>5. /\ On' = On /\ \A a, b : Before(a, b)' <=> Before(a, b)
      /\ \A k \in Links : k # l => fwd'[k] = fwd[k]
      /\ edit'.link = l
  BY DEF AttachForward, ForwardTo, On, Before, TypeOK
<1> HIDE DEF l
<1>6. Behind(c)'
  BY <1>1, <1>3, <1>4, <1>5 DEF OnCourse, Behind
<1>7. trip[c].must # {} => Stale(c)' /\ Ahead(c)'
  BY <1>1, <1>3, <1>4, <1>5, TripTyped DEF OnCourse, Stale, Ahead
<1> QED BY <1>3, <1>4, <1>5, <1>6, <1>7 DEF OnCourse

\* The second store: the new link is nowhere on the way of what left, and whoever ran
\* it is at it, or past its priority.
LEMMA CourseSplice ==
  ASSUME TypeOK, ChainInvariant, NEW c \in Unmixed, OnCourse(c), AttachSplice
  PROVE  OnCourse(c)'
<1>0. PICK l : l = edit.link
  OBVIOUS
<1>1. /\ l \in Links \ On /\ edit.step = "splice" /\ edit'.step # "splice"
      /\ edit.prev # NoLink => edit.prev \in On
  BY <1>0 DEF AttachSplice, ChainInvariant, EditFollowsList, Idle
<1>2. On' = On \cup {l} /\ at'[c] = at[c] /\ trip'[c] = trip[c]
  BY <1>0, <1>1 DEF AttachSplice, On, TypeOK
<1>3. \A k \in Links \ On : fwd'[k] = fwd[k]
  BY <1>1 DEF AttachSplice, TypeOK
<1>4. /\ \A a, b \in Links \ {l} : Before(a, b)' <=> Before(a, b)
      /\ \A a \in Links \ {l} : Before(a, l)' <=> Prio[a] >= Prio[l]
      /\ \A b \in Links : Before(l, b)' <=> Prio[l] > Prio[b]
      /\ \A a \in Links : Prio[a] \in Int
  <2>1. Joined(l) /\ attached' = [attached EXCEPT ![l] = TRUE]
    BY <1>0 DEF AttachSplice
  <2> QED BY <1>1, <2>1, JoinedOrder, PrioAssumption DEF ChainInvariant
<1>5. \A a, b \in Links : Before(a, b) => Prio[a] >= Prio[b]
  BY BeforeIsAnOrder DEF ChainInvariant
<1>6. c \in Cores /\ l \notin trip[c].left /\ l \notin trip[c].must
  BY <1>0, <1>1 DEF OnCourse, Unmixed
<1>7. Behind(c)'
  <2>1. at[c] = "dispatcher" => trip[c].seen = {}
    BY DEF OnCourse, Behind
  <2>2. ASSUME at[c] \in Links, NEW s \in trip[c].seen \ {at[c]} PROVE Before(s, at[c])'
    <3>1. Before(s, at[c]) /\ s \in Links
      BY <1>6, <2>2, TripTyped DEF OnCourse, Behind
    <3>2. CASE s = l
      BY <1>0, <1>1, <1>2, <1>4, <2>2, <3>2 DEF OnCourse, Behind
    <3>3. CASE s # l /\ at[c] = l
      BY <1>2, <1>4, <1>5, <2>2, <3>1, <3>3
    <3>4. CASE s # l /\ at[c] # l
      BY <1>2, <1>4, <2>2, <3>1, <3>4
    <3> QED BY <3>2, <3>3, <3>4
  <2>3. at[c] \in Links => at[c] \in trip[c].seen
    BY DEF OnCourse, Behind
  <2> QED BY <1>1, <1>2, <2>1, <2>2, <2>3 DEF Behind
<1>8. ASSUME trip[c].must # {} PROVE Stale(c)' /\ Ahead(c)'
  <2>1. ASSUME NEW k \in trip[c].left
        PROVE  /\ fwd'[k] \in On \cup trip[c].left \cup {Thunk}
               /\ \A m \in trip[c].must :
                    Before(k, m)' => fwd'[k] \in Links /\ (m = fwd'[k] \/ Before(fwd[k], m)')
    <3>1. k \in Links /\ k \notin On /\ k # l /\ fwd'[k] = fwd[k]
      BY <1>3, <1>6, <2>1, TripTyped DEF OnCourse
    <3>2. fwd[k] \in On \cup trip[c].left \cup {Thunk} /\ fwd[k] # l
      BY <1>1, <1>6, <1>8, <2>1, NamesAssumption DEF OnCourse, Stale
    <3>3. ASSUME NEW m \in trip[c].must, Before(k, m)'
          PROVE  fwd[k] \in Links /\ (m = fwd[k] \/ Before(fwd[k], m)')
      <4>1. m \in Links \ {l} /\ Before(k, m)
        BY <1>4, <1>6, <3>1, <3>3, TripTyped
      <4>2. fwd[k] \in Links /\ (m = fwd[k] \/ Before(fwd[k], m))
        BY <1>8, <2>1, <4>1 DEF OnCourse, Stale
      <4>3. \A a \in Links \ {l} : Before(a, m)' <=> Before(a, m)
        BY <1>4, <4>1
      <4> QED BY <3>1, <3>2, <4>2, <4>3 DEF Before
    <3> QED BY <3>1, <3>2, <3>3
  <2>2. Stale(c)'
    BY <1>2, <2>1 DEF Stale
  <2>3. at[c] \in Links => at[c] \in On \cup trip[c].left /\ at[c] # l
    BY <1>1, <1>6, <1>8 DEF OnCourse, Ahead
  <2>4. ASSUME at[c] \in Links, NEW m \in trip[c].must \ trip[c].seen PROVE Before(at[c], m)'
    <3>1. Before(at[c], m) /\ m \in Links \ {l}
      BY <1>6, <1>8, <2>4, TripTyped DEF OnCourse, Ahead
    <3> QED BY <1>2, <1>4, <2>3, <2>4, <3>1
  <2>5. at[c] = Thunk => trip[c].must \subseteq trip[c].seen
    BY <1>8 DEF OnCourse, Ahead
  <2>6. Ahead(c)'
    BY <1>2, <2>3, <2>4, <2>5 DEF Ahead
  <2> QED BY <2>2, <2>6
<1> QED BY <1>1, <1>2, <1>6, <1>7, <1>8 DEF OnCourse

\* What a trip remembers when links leave around it.
LEMMA TripLeft ==
  ASSUME TypeOK, NEW ls \in SUBSET Links, NEW reset \in BOOLEAN, Left(ls, reset),
         UNCHANGED at, NEW c \in Unmixed'
  PROVE  /\ c \in Unmixed
         /\ trip'[c].must = trip[c].must \ ls /\ trip'[c].left = trip[c].left \cup ls
         /\ trip'[c].seen = trip[c].seen
<1>1. c \in Cores /\ at[c] # "out" /\ ~trip'[c].mixed
  BY DEF Unmixed
<1>2. trip[c] \in Trips
  BY <1>1 DEF TypeOK
<1>3. trip'[c] = [trip[c] EXCEPT !.must = @ \ ls, !.left = @ \cup ls, !.reset = @ \/ reset]
  BY <1>1 DEF Left
<1>4. /\ trip'[c].must = trip[c].must \ ls /\ trip'[c].left = trip[c].left \cup ls
      /\ trip'[c].seen = trip[c].seen /\ trip'[c].mixed = trip[c].mixed
  BY <1>2, <1>3 DEF Trips
<1> QED BY <1>1, <1>4 DEF Unmixed

\* A link that leaves leads on past none that a call still has to run.
LEMMA CourseDetach ==
  ASSUME TypeOK, ChainInvariant, NEW c \in Cores, c \in Unmixed => OnCourse(c),
         NEW l \in Links, Detach(l), c \in Unmixed'
  PROVE  OnCourse(c)'
<1>1. /\ c \in Unmixed
      /\ trip'[c].must = trip[c].must \ {l} /\ trip'[c].left = trip[c].left \cup {l}
      /\ trip'[c].seen = trip[c].seen
  BY TripLeft DEF Detach
<1>2. /\ l \in On /\ On' = On \ {l} /\ at' = at
      /\ edit'.step # "splice"
      /\ \A a, b : Before(a, b)' <=> Before(a, b)
  BY DEF Detach, Left, On, TypeOK, Before
<1>3. \A k \in Links : k \notin On \/ k = l => fwd'[k] = fwd[k]
  <2>1. CASE firstLink = l
    BY <2>1 DEF Detach, PredecessorOf
  <2>2. CASE firstLink # l
    <3>1. PredecessorOf(l) \in On /\ next[PredecessorOf(l)] = l
      BY <1>2, <2>2, PredecessorIsLink DEF ChainInvariant
    <3>2. PredecessorOf(l) # l
      <4>1. next[l] # NoLink => Before(l, next[l])
        BY <1>2, ListFacts DEF ChainInvariant
      <4>2. ~Before(l, l)
        BY BeforeIsAnOrder DEF ChainInvariant
      <4> QED BY <3>1, <4>1, <4>2, NamesAssumption
    <3>3. PredecessorOf(l) # NoLink
      BY <3>1, NamesAssumption DEF On
    <3>4. fwd' = [fwd EXCEPT ![PredecessorOf(l)] = fwd'[PredecessorOf(l)]]
      BY <3>1, <3>3 DEF Detach, TypeOK, On
    <3> HIDE DEF PredecessorOf
    <3> QED BY <3>1, <3>2, <3>4 DEF TypeOK
  <2> QED BY <2>1, <2>2
<1>4. Behind(c)'
  BY <1>1, <1>2 DEF OnCourse, Behind
<1>5. ASSUME trip'[c].must # {} PROVE Stale(c)' /\ Ahead(c)'
  <2>1. Stale(c) /\ Ahead(c) /\ trip[c].must \subseteq On
    BY <1>1, <1>5 DEF OnCourse
  <2>2. ASSUME NEW k \in trip[c].left
        PROVE  /\ fwd'[k] \in On' \cup trip'[c].left \cup {Thunk}
               /\ \A m \in trip'[c].must :
                    Before(k, m) => fwd'[k] \in Links /\ (m = fwd'[k] \/ Before(fwd'[k], m))
    <3>1. k \in Links /\ k \notin On
      BY <1>1, <2>2, TripTyped DEF OnCourse
    <3>2. fwd'[k] = fwd[k]
      BY <1>3, <3>1
    <3> QED BY <1>1, <1>2, <2>1, <2>2, <3>2 DEF Stale
  <2>3. /\ fwd'[l] \in On' \cup trip'[c].left \cup {Thunk}
        /\ \A m \in trip'[c].must :
             Before(l, m) => fwd'[l] \in Links /\ (m = fwd'[l] \/ Before(fwd'[l], m))
    <3>1. fwd'[l] = fwd[l] /\ On \subseteq Links
      BY <1>3, TripTyped
    <3> QED BY <1>1, <1>2, <2>1, <3>1, WordsPassNone
  <2>4. Stale(c)'
    BY <1>1, <1>2, <2>2, <2>3 DEF Stale
  <2>5. Ahead(c)'
    BY <1>1, <1>2, <2>1 DEF Ahead
  <2> QED BY <2>4, <2>5
<1> QED BY <1>1, <1>2, <1>4, <1>5 DEF OnCourse

\* Where the whole list is forgotten, a call has nothing left to run.
LEMMA CourseEmpty ==
  ASSUME TypeOK, NEW c \in Cores, c \in Unmixed => OnCourse(c),
         NEW reset \in BOOLEAN, Left(On, reset), UNCHANGED <<at, edit>>, On' = {},
         edit.step = "idle", c \in Unmixed'
  PROVE  OnCourse(c)'
<1>1. /\ c \in Unmixed
      /\ trip'[c].must = trip[c].must \ On /\ trip'[c].seen = trip[c].seen
  BY TripLeft DEF On
<1>2. trip'[c].must = {}
  BY <1>1 DEF OnCourse
<1>3. Behind(c)'
  BY <1>1 DEF OnCourse, Behind, Before, Left
<1> QED BY <1>2, <1>3 DEF OnCourse

\* What a trip remembers of where its core goes.
LEMMA TripArrives ==
  ASSUME TypeOK, NEW c \in Cores, NEW t, Arrive(c, t), at[c] # "out", c \in Unmixed'
  PROVE  /\ c \in Unmixed /\ at'[c] = t
         /\ trip'[c].must = trip[c].must /\ trip'[c].left = trip[c].left
         /\ trip'[c].seen = IF t \in Links THEN trip[c].seen \cup {t} ELSE trip[c].seen
         /\ UNCHANGED <<list, words, edit, older>>
<1>1. trip[c] \in Trips
  BY DEF TypeOK
<1>2. trip'[c] = [trip[c] EXCEPT !.seen = IF t \in Links THEN @ \cup {t} ELSE @]
  BY DEF Arrive, TypeOK
<1>3. /\ trip'[c].must = trip[c].must /\ trip'[c].left = trip[c].left
      /\ trip'[c].seen = IF t \in Links THEN trip[c].seen \cup {t} ELSE trip[c].seen
      /\ trip'[c].mixed = trip[c].mixed
  BY <1>1, <1>2 DEF Trips
<1> QED BY <1>3 DEF Arrive, TypeOK, Unmixed

\* The dispatcher leads to the first link of a chain that has one.
LEMMA CourseDispatch ==
  ASSUME TypeOK, ChainInvariant, NEW c \in Cores, c \in Unmixed => OnCourse(c),
         Dispatch(c), c \in Unmixed'
  PROVE  OnCourse(c)'
<1>1. /\ c \in Unmixed /\ at[c] = "dispatcher" /\ at'[c] = head
      /\ trip'[c].must = trip[c].must /\ trip'[c].left = trip[c].left
      /\ trip'[c].seen = IF head \in Links THEN trip[c].seen \cup {head} ELSE trip[c].seen
      /\ UNCHANGED <<list, words, edit, older>>
  BY TripArrives DEF Dispatch
<1>2. OnCourse(c) /\ trip[c].seen = {}
  BY <1>1 DEF OnCourse, Behind
<1>3. /\ On' = On /\ fwd' = fwd /\ \A a, b : Before(a, b)' <=> Before(a, b)
      /\ head # "dispatcher"
  BY <1>1, NamesAssumption DEF list, words, On, Before, TypeOK, Targets
<1>4. Behind(c)'
  BY <1>1, <1>2, <1>3 DEF Behind
<1>5. ASSUME trip[c].must # {} PROVE Stale(c)' /\ Ahead(c)'
  <2>1. head \in On /\ \A m \in On : m = head \/ Before(head, m)
    <3>1. firstLink # NoLink /\ head = firstLink
      BY <1>2, <1>5, ListFacts DEF OnCourse, ChainInvariant, WordsFollowList
    <3> QED BY <3>1, ListFacts DEF ChainInvariant
  <2>2. head \in Links /\ head # Thunk
    BY <2>1, NamesAssumption DEF On
  <2>3. Stale(c)'
    BY <1>1, <1>2, <1>3, <1>5 DEF OnCourse, Stale
  <2> QED BY <1>1, <1>2, <1>3, <2>1, <2>2, <2>3 DEF OnCourse, Ahead
<1> QED BY <1>1, <1>2, <1>3, <1>4, <1>5 DEF OnCourse

\* A link's word leads to one the call has not run, and past none that it has to.
LEMMA CourseOnward ==
  ASSUME TypeOK, ChainInvariant, NEW c \in Cores, c \in Unmixed => OnCourse(c),
         Forward(c), c \in Unmixed'
  PROVE  OnCourse(c)' /\ (at'[c] \in Links => at'[c] \notin trip[c].seen)
<1>0. PICK k \in Links : k = at[c]
  BY DEF Forward
<1>1. /\ c \in Unmixed /\ at'[c] = fwd[k]
      /\ trip'[c].must = trip[c].must /\ trip'[c].left = trip[c].left
      /\ trip'[c].seen = IF fwd[k] \in Links THEN trip[c].seen \cup {fwd[k]} ELSE trip[c].seen
      /\ UNCHANGED <<list, words, edit, older>>
  BY <1>0, TripArrives, NamesAssumption DEF Forward
<1>2. /\ OnCourse(c) /\ k \in trip[c].seen /\ trip[c].seen \subseteq Links
      /\ \A s \in trip[c].seen : s = k \/ Before(s, k)
  BY <1>0, <1>1, TripTyped DEF OnCourse, Behind
<1>3. /\ On' = On /\ fwd' = fwd /\ \A a, b : Before(a, b)' <=> Before(a, b)
      /\ fwd[k] # "dispatcher" /\ fwd[k] \in Targets
  BY <1>1, NamesAssumption DEF list, words, On, Before, TypeOK, Targets
<1>4. /\ \A a \in Links : ~Before(a, a)
      /\ \A a, b, d \in Links : Before(a, b) /\ Before(b, d) => Before(a, d)
      /\ \A a, b \in Links : Before(a, b) => Prio[a] >= Prio[b]
      /\ \A a \in Links : Prio[a] \in Int
  BY BeforeIsAnOrder, PrioAssumption DEF ChainInvariant
<1>5. fwd[k] \in Links => Before(k, fwd[k])
  BY DEF ChainInvariant, ForwardsDown
<1>6. fwd[k] \in Links => \A s \in trip[c].seen : Before(s, fwd[k])
  BY <1>2, <1>4, <1>5
<1>7. fwd[k] \in Links => fwd[k] \notin trip[c].seen
  BY <1>4, <1>6
<1>8. ASSUME edit.step = "splice", edit.link \in trip[c].seen, fwd[k] \in Links
      PROVE  Prio[fwd[k]] < Prio[edit.link]
  <2>1. CASE k = edit.link
    BY <1>8, <2>1, NamesAssumption DEF ChainInvariant, EditFollowsList
  <2>2. CASE k # edit.link
    <3>1. Prio[k] < Prio[edit.link] /\ edit.link \in Links
      BY <1>0, <1>2, <1>8, <2>2 DEF OnCourse, Behind
    <3>2. Prio[k] >= Prio[fwd[k]]
      BY <1>4, <1>5, <1>8
    <3> QED BY <1>4, <1>8, <3>1, <3>2
  <2> QED BY <2>1, <2>2
<1>9. Behind(c)'
  BY <1>1, <1>3, <1>6, <1>8 DEF Behind
<1>10. ASSUME trip[c].must # {} PROVE Stale(c)' /\ Ahead(c)'
  <2>1. /\ Stale(c) /\ k \in On \cup trip[c].left /\ trip[c].must \subseteq On
        /\ \A m \in trip[c].must \ trip[c].seen : Before(k, m)
    BY <1>0, <1>2, <1>10 DEF OnCourse, Ahead
  <2>2. /\ fwd[k] \in On \cup trip[c].left \cup {Thunk}
        /\ \A m \in trip[c].must :
             Before(k, m) => fwd[k] \in Links /\ (m = fwd[k] \/ Before(fwd[k], m))
    <3>1. CASE k \in On
      BY <2>1, <3>1, WordsPassNone, TripTyped
    <3>2. CASE k \in trip[c].left
      BY <2>1, <3>2 DEF Stale
    <3> QED BY <2>1, <3>1, <3>2
  <2>3. Stale(c)'
    BY <1>1, <1>3, <2>1 DEF Stale
  <2>4. fwd[k] = Thunk => trip[c].must \subseteq trip[c].seen
    BY <2>1, <2>2, NamesAssumption
  <2>5. Ahead(c)'
    BY <1>1, <1>3, <2>1, <2>2, <2>4, NamesAssumption DEF Ahead
  <2> QED BY <2>3, <2>5
<1> QED BY <1>1, <1>2, <1>3, <1>7, <1>9, <1>10 DEF OnCourse

\* A call that enters has everything to run, and nothing behind it.
LEMMA CourseEnter ==
  ASSUME TypeOK, NEW c \in Cores, Enter(c) \/ EnterStray(c)
  PROVE  OnCourse(c)'
<1>0. PICK b \in BOOLEAN : EnterBy(c, b)
  BY DEF Enter, EnterStray
<1>1. /\ at'[c] = "dispatcher" /\ UNCHANGED <<attached, edit>>
      /\ trip'[c] = [NoTrip EXCEPT !.must = On, !.reset = b]
  BY <1>0 DEF EnterBy, TypeOK, list
<1>2. trip'[c].must = On /\ trip'[c].seen = {} /\ trip'[c].left = {} /\ On' = On
  BY <1>1 DEF NoTrip, On
<1>3. at'[c] \notin Links /\ at'[c] # Thunk
  BY <1>1, NamesAssumption
<1>4. Behind(c)'
  BY <1>1, <1>2, <1>3 DEF Behind
<1>5. Stale(c)' /\ Ahead(c)'
  BY <1>2, <1>3 DEF Stale, Ahead
<1> QED BY <1>2, <1>4, <1>5 DEF OnCourse

\* Another core's step does nothing to a call.
LEMMA CourseOfAnother ==
  ASSUME TypeOK, NEW c \in Cores, c \in Unmixed => OnCourse(c),
         NEW d \in Cores, d # c, Enter(d) \/ EnterStray(d) \/ Run(d), c \in Unmixed'
  PROVE  OnCourse(c)'
<1>1. UNCHANGED <<words, attached, older, edit>> /\ at'[c] = at[c] /\ trip'[c] = trip[c]
  BY DEF Enter, EnterStray, EnterBy, Run, Dispatch, Forward, Leave, Arrive, list, TypeOK
<1>2. c \in Unmixed
  BY <1>1 DEF Unmixed
<1> QED BY <1>1, <1>2, CourseQuiet

\* No edit, whatever runs, brings an unmixed call off its course.
LEMMA CourseEdit ==
  ASSUME TypeOK, ChainInvariant, TripsOnCourse, NEW c \in Cores, Edit, c \in Unmixed'
  PROVE  OnCourse(c)'
<1>0. c \in Unmixed => OnCourse(c)
  BY DEF TripsOnCourse
<1>1. ASSUME UNCHANGED <<words, attached, older, at, trip>>,
             edit' = edit \/ edit'.step # "splice"
      PROVE  OnCourse(c)'
  <2>1. c \in Unmixed
    BY <1>1 DEF Unmixed
  <2> QED BY <1>0, <1>1, <2>1, CourseQuiet
<1>2. ASSUME NEW l \in Links, AttachStart(l) PROVE OnCourse(c)'
  <2>1. edit'.step # "splice"
    BY <1>2 DEF AttachStart
  <2> QED BY <1>1, <1>2, <2>1 DEF AttachStart, list
<1>3. CASE AttachSeek
  <2>1. edit'.step # "splice"
    BY <1>3 DEF AttachSeek, TypeOK
  <2> QED BY <1>1, <1>3, <2>1 DEF AttachSeek, list
<1>4. CASE AttachForward
  BY <1>0, <1>4, CourseForward
<1>5. CASE AttachSplice
  <2>1. c \in Unmixed
    BY <1>5 DEF AttachSplice, Unmixed
  <2> QED BY <1>0, <1>5, <2>1, CourseSplice
<1>6. ASSUME NEW l \in Links, Detach(l) PROVE OnCourse(c)'
  BY <1>0, <1>6, CourseDetach
<1>7. ASSUME NEW restored \in BOOLEAN, Clear(restored) PROVE OnCourse(c)'
  <2>1. Left(On, FALSE) /\ UNCHANGED <<at, edit>> /\ On' = {} /\ edit.step = "idle"
    BY <1>7 DEF Clear, On
  <2> QED BY <1>0, <2>1, CourseEmpty
<1>8. CASE Install \/ Uninstall
  BY <1>1, <1>8 DEF Install, Uninstall, list
<1>9. ASSUME NEW restored \in BOOLEAN, ProcessEnd(restored) \/ Reconfigure(restored)
      PROVE  OnCourse(c)'
  <2>1. ForgetWords
    BY <1>9 DEF ProcessEnd, Reconfigure
  <2>2. Left(On, TRUE) /\ UNCHANGED <<at, edit>> /\ On' = {} /\ edit.step = "idle"
    BY <2>1 DEF ForgetWords, On
  <2> QED BY <1>0, <2>2, CourseEmpty
<1> QED BY <1>2, <1>3, <1>4, <1>5, <1>6, <1>7, <1>8, <1>9 DEF Edit, AttachStep

\* Nor does any step of a core.
LEMMA CourseStep ==
  ASSUME TypeOK, ChainInvariant, TripsOnCourse, [Next]_vars
  PROVE  TripsOnCourse'
<1> SUFFICES ASSUME NEW c \in Cores, c \in Unmixed' PROVE OnCourse(c)'
  BY DEF TripsOnCourse, Unmixed
<1>0. c \in Unmixed => OnCourse(c)
  BY DEF TripsOnCourse
<1>1. CASE Edit
  BY <1>1, CourseEdit
<1>2. CASE Enter(c) \/ EnterStray(c)
  BY <1>2, CourseEnter
<1>3. CASE Run(c)
  <2>1. ~Leave(c)
    BY DEF Leave, Unmixed, TypeOK
  <2>2. CASE Dispatch(c)
    BY <1>0, <2>2, CourseDispatch
  <2>3. CASE Forward(c)
    BY <1>0, <2>3, CourseOnward
  <2> QED BY <1>3, <2>1, <2>2, <2>3 DEF Run
<1>4. ASSUME NEW d \in Cores, d # c, Enter(d) \/ EnterStray(d) \/ Run(d) PROVE OnCourse(c)'
  BY <1>0, <1>4, CourseOfAnother
<1>5. CASE UNCHANGED vars
  <2>1. c \in Unmixed
    BY <1>5 DEF vars, Unmixed
  <2> QED BY <1>0, <1>5, <2>1, CourseQuiet DEF vars, list
<1> QED BY <1>1, <1>2, <1>3, <1>4, <1>5 DEF Next

\* Every unmixed call is on its course in every reachable state.
LEMMA CourseHolds == Spec => []TripsOnCourse
<1>1. Init => TripsOnCourse
  BY DEF Init, TripsOnCourse, Unmixed
<1> QED BY <1>1, CourseStep, InvariantHolds, PTL DEF Spec

\* A call that comes to the thunk has run every hook that was attached for the whole of
\* it, however the chain was edited around it, unless a link that left meanwhile, or that
\* it had run, was attached again.
THEOREM NoHookSkippedHolds == Spec => []NoHookSkipped
<1>1. TripsOnCourse => NoHookSkipped
  BY NamesAssumption DEF TripsOnCourse, Unmixed, OnCourse, Ahead, NoHookSkipped
<1> QED BY <1>1, CourseHolds, PTL

\* Nor has it run a hook twice, under the same proviso: through stale words too, it only
\* ever moves down the order.
THEOREM NoHookTwiceHolds == Spec => NoHookTwice
<1> DEFINE Once(c) == at'[c] \in Links /\ at'[c] # at[c] /\ ~trip[c].mixed
                        => at'[c] \notin trip[c].seen
<1>1. TypeOK /\ ChainInvariant /\ TripsOnCourse /\ [Next]_vars => \A c \in Cores : Once(c)
  <2> SUFFICES ASSUME TypeOK, ChainInvariant, TripsOnCourse, [Next]_vars, NEW c \in Cores,
                      at'[c] \in Links, at'[c] # at[c], ~trip[c].mixed
               PROVE  at'[c] \notin trip[c].seen
    OBVIOUS
  <2>1. UNCHANGED at \/ \E d \in Cores : Enter(d) \/ EnterStray(d) \/ Run(d)
    BY DEF Next, Edit, AttachStep, AttachStart, AttachSeek, AttachForward, ForwardTo, AttachSplice,
           Detach, Clear, Install, Uninstall, ProcessEnd, Reconfigure, ForgetWords, vars
  <2>2. PICK d \in Cores : Enter(d) \/ EnterStray(d) \/ Run(d)
    BY <2>1
  <2>3. d = c
    BY <2>2 DEF Enter, EnterStray, EnterBy, Run, Dispatch, Forward, Leave, Arrive, TypeOK
  <2>4. ~Enter(c) /\ ~EnterStray(c) /\ ~Leave(c)
    BY NamesAssumption DEF Enter, EnterStray, EnterBy, Leave, TypeOK
  <2>5. Dispatch(c) \/ Forward(c)
    BY <2>2, <2>3, <2>4 DEF Run
  <2>6. at[c] # "out" /\ c \in Unmixed /\ OnCourse(c)
    BY <2>5, NamesAssumption DEF Dispatch, Forward, Unmixed, TripsOnCourse
  <2>7. CASE Dispatch(c)
    BY <2>6, <2>7 DEF Dispatch, OnCourse, Behind
  <2>8. CASE Forward(c)
    <3>1. at'[c] = fwd[at[c]] /\ trip'[c].mixed = trip[c].mixed
      <4>1. trip[c] \in Trips
        BY DEF TypeOK
      <4>2. trip'[c].mixed = trip[c].mixed
        BY <2>8, <4>1 DEF Forward, Arrive, TypeOK, Trips
      <4> QED BY <2>8, <4>2 DEF Forward, Arrive, TypeOK
    <3>2. c \in Unmixed'
      BY <3>1, NamesAssumption DEF Unmixed
    <3> QED BY <2>6, <2>8, <3>2, CourseOnward
  <2> QED BY <2>5, <2>7, <2>8
<1>2. (\A c \in Cores : Once(c)) =>
        \A c \in Cores : at'[c] \in Links /\ at'[c] # at[c] /\ ~trip[c].mixed
                           => at'[c] \notin trip[c].seen
  OBVIOUS
<1> HIDE DEF Once
<1> QED BY <1>1, <1>2, InvariantHolds, CourseHolds, PTL DEF Spec, NoHookTwice

-----------------------------------------------------------------------------
(* Refinement: the links in their order are the path a caller follows, and an  *)
(* edit of the list is one step of ChainOrder.                                 *)

\* All links of the chain, in their order.
Sorted(s) ==
  /\ s \in Seq(Links)
  /\ \A i \in 1..Len(s) : s[i] \in On
  /\ \A l \in On : \E i \in 1..Len(s) : s[i] = l
  /\ \A i, j \in 1..Len(s) : i < j => Before(s[i], s[j])

\* A non-empty set of numbers has a least one.
LEMMA LeastNumber ==
  ASSUME NEW S, S \subseteq Nat, S # {}
  PROVE  \E x \in S : \A y \in S : x <= y
<1>1. \E x \in S : \A y \in S : ~ (<<y, x>> \in OpToRel(<,Nat))
  BY NatLessThanWellFounded, WFMin
<1>2. PICK x \in S : \A y \in S : ~ (<<y, x>> \in OpToRel(<,Nat))
  BY <1>1
<1>3. \A y \in S : ~ (y < x)
  BY <1>2 DEF OpToRel
<1> QED BY <1>3

\* Links in their order are told apart by their position.
LEMMA SortedIsInjective ==
  ASSUME TypeOK, OlderIsAnOrder, NEW s, Sorted(s)
  PROVE  /\ Len(s) \in Nat
         /\ \A i \in 1..Len(s) : s[i] \in On /\ s[i] \in Links
         /\ \A i, j \in 1..Len(s) : s[i] = s[j] => i = j
         /\ \A i, j \in 1..Len(s) : Before(s[i], s[j]) => i < j
<1>1. Len(s) \in Nat /\ \A i \in 1..Len(s) : s[i] \in Links
  BY DEF Sorted
<1>2. \A i, j \in 1..Len(s) : i < j => Before(s[i], s[j])
  BY DEF Sorted
<1>3. \A a, b \in Links : ~(Before(a, b) /\ Before(b, a)) /\ ~Before(a, a)
  BY BeforeIsAnOrder
<1>4. ASSUME NEW i \in 1..Len(s), NEW j \in 1..Len(s), s[i] = s[j] PROVE i = j
  <2>1. s[i] \in Links
    BY <1>1
  <2>2. ~(i < j) /\ ~(j < i)
    BY <1>2, <1>3, <1>4, <2>1
  <2> QED BY <2>2
<1>5. ASSUME NEW i \in 1..Len(s), NEW j \in 1..Len(s), Before(s[i], s[j]) PROVE i < j
  <2>1. s[i] \in Links /\ s[j] \in Links
    BY <1>1
  <2>2. ~(j < i) /\ i # j
    BY <1>2, <1>3, <1>5, <2>1
  <2> QED BY <2>2
<1> QED BY <1>1, <1>4, <1>5 DEF Sorted

\* No more than there are links.
LEMMA SortedIsShort ==
  ASSUME TypeOK, OlderIsAnOrder, NEW s, Sorted(s)
  PROVE  Len(s) <= Cardinality(Links)
<1>1. s \in [1..Len(s) -> Links]
  BY DEF Sorted
<1>2. s \in Injection(1..Len(s), Links)
  BY <1>1, SortedIsInjective DEF Injection, IsInjective
<1>3. Len(s) \in Nat
  BY SortedIsInjective
<1>4. Cardinality(1..Len(s)) <= Cardinality(Links)
  BY <1>2, LinksAssumption, FS_Injection
<1>5. Cardinality(1..Len(s)) = Len(s)
  BY <1>3, FS_Interval
<1> QED BY <1>4, <1>5

\* In their order, each link's word names the next one, and the last one's none.
LEMMA SortedIsLinked ==
  ASSUME TypeOK, ChainInvariant, firstLink # NoLink, NEW s, Sorted(s)
  PROVE  /\ Len(s) >= 1
         /\ s[1] = head
         /\ \A i \in 1..(Len(s) - 1) : fwd[s[i]] = s[i + 1]
         /\ fwd[s[Len(s)]] \notin Links
<1>a. OlderIsAnOrder /\ ListFollowsOrder /\ WordsFollowList
  BY DEF ChainInvariant
<1>b. /\ Len(s) \in Nat
      /\ \A i \in 1..Len(s) : s[i] \in On /\ s[i] \in Links
      /\ \A i, j \in 1..Len(s) : s[i] = s[j] => i = j
      /\ \A i, j \in 1..Len(s) : Before(s[i], s[j]) => i < j
  BY <1>a, SortedIsInjective
<1>c. /\ \A l \in On : \E i \in 1..Len(s) : s[i] = l
      /\ \A i, j \in 1..Len(s) : i < j => Before(s[i], s[j])
  BY DEF Sorted
<1>d. \A a \in On : fwd[a] = IF next[a] = NoLink THEN Thunk ELSE next[a]
  BY <1>a DEF WordsFollowList
<1>1. PICK f \in 1..Len(s) : s[f] = firstLink
  BY <1>a, <1>c, ListFacts
<1>2. f = 1
  <2>1. SUFFICES ASSUME f # 1 PROVE FALSE
    OBVIOUS
  <2>2. 1 \in 1..Len(s) /\ 1 < f /\ s[1] # firstLink
    BY <1>1, <1>b, <2>1
  <2>3. Before(firstLink, s[1])
    BY <1>a, <1>b, <2>2, ListFacts
  <2> QED BY <1>1, <1>b, <2>2, <2>3
<1>3. s[1] = head
  BY <1>1, <1>2, <1>a DEF WordsFollowList
<1>4. ASSUME NEW i \in 1..Len(s), next[s[i]] # NoLink
      PROVE  i < Len(s) /\ next[s[i]] = s[i + 1]
  <2>1. next[s[i]] \in On /\ Before(s[i], next[s[i]])
    BY <1>a, <1>b, <1>4, ListFacts
  <2>2. PICK k \in 1..Len(s) : s[k] = next[s[i]]
    BY <1>c, <2>1
  <2>3. i < k
    BY <1>b, <2>1, <2>2
  <2>4. i + 1 \in 1..Len(s) /\ i < i + 1
    BY <1>b, <2>3
  <2>5. ASSUME k # i + 1 PROVE FALSE
    <3>1. s[i + 1] # s[k] /\ Before(s[i], s[i + 1])
      BY <1>b, <1>c, <2>4, <2>5
    <3>2. Before(s[k], s[i + 1])
      BY <1>a, <1>b, <1>4, <2>2, <2>4, <3>1, ListFacts
    <3>3. k < i + 1
      BY <1>b, <2>4, <3>2
    <3> QED BY <2>3, <3>3
  <2> QED BY <1>b, <2>2, <2>3, <2>5
<1>5. ASSUME NEW i \in 1..(Len(s) - 1) PROVE fwd[s[i]] = s[i + 1]
  <2>1. i \in 1..Len(s) /\ i + 1 \in 1..Len(s) /\ i < i + 1
    BY <1>b
  <2>2. Before(s[i], s[i + 1])
    BY <1>c, <2>1
  <2>3. next[s[i]] # NoLink
    BY <1>a, <1>b, <2>1, <2>2, ListFacts
  <2>4. next[s[i]] = s[i + 1]
    BY <1>4, <2>1, <2>3
  <2> QED BY <1>b, <1>d, <2>1, <2>3, <2>4
<1>6. fwd[s[Len(s)]] \notin Links
  <2>1. Len(s) \in 1..Len(s)
    BY <1>1, <1>b
  <2>2. next[s[Len(s)]] = NoLink
    BY <1>4, <1>b, <2>1
  <2> QED BY <1>b, <1>d, <2>1, <2>2, NamesAssumption
<1> QED BY <1>1, <1>b, <1>3, <1>5, <1>6

\* From one head the words lead one way: two walks are equal.
LEMMA WalkIsUnique ==
  ASSUME NEW s \in Walks, NEW t \in Walks
  PROVE  s = t
<1>1. /\ s \in Seq(Links) /\ t \in Seq(Links)
      /\ Len(s) \in Nat \ {0} /\ Len(t) \in Nat \ {0}
      /\ s[1] = t[1]
      /\ \A i \in 1..(Len(s) - 1) : fwd[s[i]] = s[i + 1]
      /\ \A i \in 1..(Len(t) - 1) : fwd[t[i]] = t[i + 1]
      /\ fwd[s[Len(s)]] \notin Links /\ fwd[t[Len(t)]] \notin Links
  <2>1. ASSUME NEW u \in Walks
        PROVE  /\ u \in Seq(Links) /\ Len(u) \in Nat \ {0} /\ u[1] = head
               /\ \A i \in 1..(Len(u) - 1) : fwd[u[i]] = u[i + 1]
               /\ fwd[u[Len(u)]] \notin Links
    <3>1. PICK n \in 1..Cardinality(Links) : u \in [1..n -> Links]
      BY DEF Walks
    <3>2. n \in Nat \ {0} /\ Len(u) = n /\ u \in Seq(Links)
      BY <3>1, FS_CardinalityType, LinksAssumption
    <3> QED BY <3>2 DEF Walks
  <2> QED BY <2>1
<1> DEFINE apart == {i \in Nat : i \in 1..Len(s) /\ i \in 1..Len(t) /\ s[i] # t[i]}
<1>2. apart = {}
  <2>1. SUFFICES ASSUME apart # {} PROVE FALSE
    OBVIOUS
  <2>2. PICK i \in apart : \A j \in apart : i <= j
    BY <2>1, LeastNumber
  <2>3. i # 1 /\ i \in Nat /\ i \in 1..Len(s) /\ i \in 1..Len(t) /\ s[i] # t[i]
    BY <1>1, <2>2
  <2>4. /\ i - 1 \in Nat /\ i - 1 \in 1..(Len(s) - 1) /\ i - 1 \in 1..(Len(t) - 1)
        /\ (i - 1) + 1 = i /\ ~(i <= i - 1)
    BY <1>1, <2>3
  <2>5. i - 1 \notin apart
    BY <2>2, <2>4
  <2>6. s[i - 1] = t[i - 1]
    BY <1>1, <2>4, <2>5
  <2>7. fwd[s[i - 1]] = s[i] /\ fwd[t[i - 1]] = t[i]
    BY <1>1, <2>4
  <2> QED BY <2>3, <2>6, <2>7
<1>3. \A i \in 1..Len(s) : i \in 1..Len(t) => s[i] = t[i]
  BY <1>1, <1>2
<1>4. Len(s) = Len(t)
  <2>1. CASE Len(s) < Len(t)
    <3>1. /\ Len(s) \in 1..Len(s) /\ Len(s) \in 1..(Len(t) - 1)
          /\ Len(s) \in 1..Len(t) /\ Len(s) + 1 \in 1..Len(t)
      BY <1>1, <2>1
    <3>2. fwd[s[Len(s)]] = t[Len(s) + 1]
      BY <1>1, <1>3, <3>1
    <3> QED BY <1>1, <3>1, <3>2, ElementOfSeq
  <2>2. CASE Len(t) < Len(s)
    <3>1. /\ Len(t) \in 1..Len(t) /\ Len(t) \in 1..(Len(s) - 1)
          /\ Len(t) \in 1..Len(s) /\ Len(t) + 1 \in 1..Len(s)
      BY <1>1, <2>2
    <3>2. fwd[t[Len(t)]] = s[Len(t) + 1]
      BY <1>1, <1>3, <3>1
    <3> QED BY <1>1, <3>1, <3>2, ElementOfSeq
  <2> QED BY <1>1, <2>1, <2>2
<1> QED BY <1>1, <1>3, <1>4, SeqEqual

\* The path is the links of the chain in their order.
LEMMA SortedIsPath ==
  TypeOK /\ ChainInvariant => \A s \in Seq(Links) : Sorted(s) => Path = s
<1> SUFFICES ASSUME TypeOK, ChainInvariant, NEW s \in Seq(Links), Sorted(s)
             PROVE  Path = s
  OBVIOUS
<1>a. OlderIsAnOrder /\ ListFollowsOrder
  BY DEF ChainInvariant
<1>1. CASE firstLink = NoLink
  <2>1. On = {}
    BY <1>1, <1>a, ListFacts
  <2>2. Len(s) = 0
    BY <2>1 DEF Sorted
  <2>3. s = <<>>
    BY <2>2, EmptySeq
  <2> QED BY <1>1, <2>3 DEF Path
<1>2. CASE firstLink # NoLink
  <2>1. /\ Len(s) >= 1 /\ s[1] = head
        /\ \A i \in 1..(Len(s) - 1) : fwd[s[i]] = s[i + 1]
        /\ fwd[s[Len(s)]] \notin Links
    BY <1>2, SortedIsLinked
  <2>2. Len(s) \in 1..Cardinality(Links) /\ s \in [1..Len(s) -> Links]
    <3>1. Len(s) \in Nat /\ Cardinality(Links) \in Nat
      BY LinksAssumption, FS_CardinalityType
    <3>2. Len(s) <= Cardinality(Links)
      BY <1>a, SortedIsShort
    <3> QED BY <2>1, <3>1, <3>2
  <2>3. s \in Walks
    BY <2>1, <2>2 DEF Walks
  <2>4. (CHOOSE t \in Walks : TRUE) \in Walks
    BY <2>3
  <2>5. (CHOOSE t \in Walks : TRUE) = s
    BY <2>3, <2>4, WalkIsUnique
  <2> QED BY <1>2, <2>5 DEF Path
<1> QED BY <1>1, <1>2

\* A sequence with one more element, ...
LEMMA InsertedAt ==
  ASSUME NEW S, NEW s \in Seq(S), NEW i \in 0..Len(s), NEW e \in S
  PROVE  /\ Order!InsertAt(s, i + 1, e) \in Seq(S)
         /\ Len(Order!InsertAt(s, i + 1, e)) = Len(s) + 1
         /\ \A k \in 1..(Len(s) + 1) :
              Order!InsertAt(s, i + 1, e)[k] =
                IF k <= i THEN s[k] ELSE IF k = i + 1 THEN e ELSE s[k - 1]
<1> DEFINE front == SubSeq(s, 1, (i + 1) - 1)
           back  == SubSeq(s, i + 1, Len(s))
<1>1. Len(s) \in Nat /\ i \in Nat /\ i <= Len(s) /\ \A k \in 1..Len(s) : s[k] \in S
  BY ElementOfSeq
<1>2. /\ front \in Seq(S) /\ Len(front) = i
      /\ \A k \in 1..i : front[k] = s[k]
  BY <1>1, SubSeqProperties
<1>3. /\ back \in Seq(S) /\ Len(back) = Len(s) - i
      /\ \A k \in 1..(Len(s) - i) : back[k] = s[i + k]
  BY <1>1, SubSeqProperties
<1>4. Order!InsertAt(s, i + 1, e) = (front \o <<e>>) \o back
  BY DEF Order!InsertAt
<1> HIDE DEF front, back
<1>5. /\ front \o <<e>> \in Seq(S) /\ Len(front \o <<e>>) = i + 1
      /\ \A k \in 1..(i + 1) : (front \o <<e>>)[k] = IF k <= i THEN s[k] ELSE e
  <2>1. <<e>> \in Seq(S) /\ Len(<<e>>) = 1 /\ <<e>>[1] = e
    OBVIOUS
  <2> QED BY <1>1, <1>2, <2>1, ConcatProperties
<1>6. /\ (front \o <<e>>) \o back \in Seq(S)
      /\ Len((front \o <<e>>) \o back) = Len(front \o <<e>>) + Len(back)
      /\ \A k \in 1..(Len(front \o <<e>>) + Len(back)) :
           ((front \o <<e>>) \o back)[k] =
             IF k <= Len(front \o <<e>>) THEN (front \o <<e>>)[k]
                                        ELSE back[k - Len(front \o <<e>>)]
  BY <1>3, <1>5, ConcatProperties
<1>7. Len(front \o <<e>>) + Len(back) = Len(s) + 1
  <2>1. Len(front \o <<e>>) = i + 1
    BY <1>5
  <2>2. Len(back) = Len(s) - i
    BY <1>3
  <2>3. Len(s) \in Nat /\ i \in Nat
    BY <1>1
  <2> QED BY <2>1, <2>2, <2>3
<1>8. ASSUME NEW k \in 1..(Len(s) + 1)
      PROVE  Order!InsertAt(s, i + 1, e)[k] =
               IF k <= i THEN s[k] ELSE IF k = i + 1 THEN e ELSE s[k - 1]
  <2>1. CASE k <= i + 1
    <3>1. k \in 1..(i + 1)
      BY <1>1, <2>1
    <3>2. Order!InsertAt(s, i + 1, e)[k] = (front \o <<e>>)[k]
      BY <1>4, <1>5, <1>6, <1>7, <2>1
    <3> QED BY <1>1, <1>5, <2>1, <3>1, <3>2
  <2>2. CASE k > i + 1
    <3>1. k - (i + 1) \in 1..(Len(s) - i) /\ i + (k - (i + 1)) = k - 1
      BY <1>1, <2>2
    <3>2. ~(k <= i + 1)
      BY <1>1, <2>2
    <3>3. Order!InsertAt(s, i + 1, e)[k] = back[k - (i + 1)]
      BY <1>4, <1>5, <1>6, <1>7, <3>2
    <3> QED BY <1>1, <1>3, <2>2, <3>1, <3>3
  <2> QED BY <1>1, <2>1, <2>2
<1> QED BY <1>4, <1>6, <1>7, <1>8

\* ... and with one less.
LEMMA RemovedAt ==
  ASSUME NEW S, NEW s \in Seq(S), NEW i \in 1..Len(s)
  PROVE  /\ Order!RemoveAt(s, i) \in Seq(S)
         /\ Len(Order!RemoveAt(s, i)) = Len(s) - 1
         /\ \A k \in 1..(Len(s) - 1) :
              Order!RemoveAt(s, i)[k] = IF k < i THEN s[k] ELSE s[k + 1]
<1> DEFINE front == SubSeq(s, 1, i - 1)
           back  == SubSeq(s, i + 1, Len(s))
<1>1. /\ Len(s) \in Nat /\ i \in Nat /\ 1 <= i /\ i <= Len(s)
      /\ \A k \in 1..Len(s) : s[k] \in S
  BY ElementOfSeq
<1>2. /\ front \in Seq(S) /\ Len(front) = i - 1
      /\ \A k \in 1..(i - 1) : front[k] = s[k]
  BY <1>1, SubSeqProperties
<1>3. /\ back \in Seq(S) /\ Len(back) = Len(s) - i
      /\ \A k \in 1..(Len(s) - i) : back[k] = s[i + k]
  BY <1>1, SubSeqProperties
<1>4. Order!RemoveAt(s, i) = front \o back
  BY DEF Order!RemoveAt
<1> HIDE DEF front, back
<1>5. /\ front \o back \in Seq(S)
      /\ Len(front \o back) = Len(front) + Len(back)
      /\ \A k \in 1..(Len(front) + Len(back)) :
           (front \o back)[k] = IF k <= Len(front) THEN front[k] ELSE back[k - Len(front)]
  BY <1>2, <1>3, ConcatProperties
<1>6. Len(front) + Len(back) = Len(s) - 1
  BY <1>1, <1>2, <1>3
<1>7. ASSUME NEW k \in 1..(Len(s) - 1)
      PROVE  Order!RemoveAt(s, i)[k] = IF k < i THEN s[k] ELSE s[k + 1]
  <2>1. CASE k < i
    <3>1. k \in 1..(i - 1) /\ k <= i - 1
      BY <1>1, <2>1
    <3> QED BY <1>2, <1>4, <1>5, <1>6, <2>1, <3>1
  <2>2. CASE ~(k < i)
    <3>1. ~(k <= i - 1) /\ k - (i - 1) \in 1..(Len(s) - i) /\ i + (k - (i - 1)) = k + 1
      BY <1>1, <2>2
    <3> QED BY <1>3, <1>4, <1>5, <1>6, <2>2, <3>1
  <2> QED BY <2>1, <2>2
<1> QED BY <1>4, <1>5, <1>6, <1>7

\* That the path is the links in their order, after a step.
PathIsOrder == \A s \in Seq(Links) : Sorted(s) => Path = s

\* An Attach takes effect where its second store names the new link.
LEMMA SpliceIsAttach ==
  ASSUME TypeOK, ChainInvariant, Sorted(Path), PathIsOrder', AttachSplice
  PROVE  Sorted(Path)' /\ Order!Attach(edit.link)
<1> SUFFICES ASSUME NEW s, s = Path, NEW l, l = edit.link, NEW p, p = edit.prev,
                    NEW n, n = edit.cur
             PROVE  Sorted(Path)' /\ Order!Attach(l)
  OBVIOUS
<1>a. OlderIsAnOrder /\ Sorted(s)
  BY DEF ChainInvariant
<1>b. /\ Len(s) \in Nat
      /\ \A i \in 1..Len(s) : s[i] \in On /\ s[i] \in Links
      /\ \A i, j \in 1..Len(s) : s[i] = s[j] => i = j
      /\ \A i, j \in 1..Len(s) : Before(s[i], s[j]) => i < j
  BY <1>a, SortedIsInjective
<1>c. /\ s \in Seq(Links)
      /\ \A k \in On : \E i \in 1..Len(s) : s[i] = k
      /\ \A i, j \in 1..Len(s) : i < j => Before(s[i], s[j])
  BY <1>a DEF Sorted
<1>d. /\ l \in Links /\ l \notin On /\ (p # NoLink => p \in On)
      /\ attached' = [attached EXCEPT ![l] = TRUE] /\ Joined(l)
  BY DEF AttachSplice, ChainInvariant, EditFollowsList
<1>e. /\ \A a, b \in Links \ {l} : Before(a, b)' <=> Before(a, b)
      /\ \A a \in Links \ {l} : Before(a, l)' <=> Prio[a] >= Prio[l]
      /\ \A b \in Links : Before(l, b)' <=> Prio[l] > Prio[b]
  BY <1>a, <1>d, JoinedOrder
<1>f. On' = On \cup {l}
  BY <1>d DEF On, TypeOK
<1>g. \A a \in Links : Prio[a] \in Int
  BY PrioAssumption
<1>1. PICK i \in 0..Len(s) :
        /\ \A k \in 1..i : Prio[s[k]] >= Prio[l]
        /\ \A k \in (i + 1)..Len(s) : Prio[s[k]] < Prio[l]
  <2>1. CASE p = NoLink
    <3>1. \A a \in On : Prio[a] < Prio[l]
      BY <2>1, SplitAtCursor DEF AttachSplice
    <3>2. \A k \in (0 + 1)..Len(s) : k \in 1..Len(s)
      BY <1>b
    <3>3. 0 \in 0..Len(s) /\ 1..0 = {}
      BY <1>b
    <3> QED BY <1>b, <3>1, <3>2, <3>3
  <2>2. CASE p # NoLink
    <3>1. PICK i \in 1..Len(s) : s[i] = p
      BY <1>c, <1>d, <2>2
    <3>2. \A a \in On : /\ a = p \/ Before(a, p) => Prio[a] >= Prio[l]
                        /\ Before(p, a) => Prio[a] < Prio[l]
      BY <2>2, SplitAtCursor DEF AttachSplice
    <3>3. ASSUME NEW k \in 1..i PROVE Prio[s[k]] >= Prio[l]
      <4>1. k \in 1..Len(s) /\ (k = i \/ k < i)
        BY <1>b
      <4> QED BY <1>b, <1>c, <3>1, <3>2, <4>1
    <3>4. ASSUME NEW k \in (i + 1)..Len(s) PROVE Prio[s[k]] < Prio[l]
      <4>1. k \in 1..Len(s) /\ i < k
        BY <1>b
      <4> QED BY <1>b, <1>c, <3>1, <3>2, <4>1
    <3>5. i \in 0..Len(s)
      BY <1>b
    <3> QED BY <3>3, <3>4, <3>5
  <2> QED BY <2>1, <2>2
<1> DEFINE t == Order!InsertAt(s, i + 1, l)
<1>2. /\ t \in Seq(Links) /\ Len(t) = Len(s) + 1
      /\ \A k \in 1..(Len(s) + 1) :
           t[k] = IF k <= i THEN s[k] ELSE IF k = i + 1 THEN l ELSE s[k - 1]
  BY <1>c, <1>d, InsertedAt
<1> HIDE DEF t
<1>i. i \in Nat /\ i <= Len(s) /\ Len(s) \in Nat
  BY <1>b
<1>3. Sorted(t)'
  <2>1. ASSUME NEW k \in 1..Len(t) PROVE t[k] \in On'
    <3>1. CASE k <= i
      <4>1. k \in 1..Len(s) /\ t[k] = s[k]
        BY <1>i, <1>2, <3>1
      <4> QED BY <1>b, <1>f, <4>1
    <3>2. CASE k = i + 1
      <4>1. t[k] = l
        BY <1>i, <1>2, <3>2
      <4> QED BY <1>f, <4>1
    <3>3. CASE k > i + 1
      <4>1. k - 1 \in 1..Len(s) /\ t[k] = s[k - 1]
        BY <1>i, <1>2, <3>3
      <4> QED BY <1>b, <1>f, <4>1
    <3> QED BY <1>i, <1>2, <3>1, <3>2, <3>3
  <2>2. ASSUME NEW a \in On' PROVE \E k \in 1..Len(t) : t[k] = a
    <3>1. CASE a = l
      <4>1. i + 1 \in 1..Len(t) /\ t[i + 1] = l
        BY <1>i, <1>2
      <4> QED BY <3>1, <4>1
    <3>2. CASE a # l
      <4>1. PICK j \in 1..Len(s) : s[j] = a
        BY <1>c, <1>f, <3>2
      <4>2. CASE j <= i
        <5>1. j \in 1..Len(t) /\ t[j] = s[j]
          BY <1>i, <1>2, <4>2
        <5> QED BY <4>1, <5>1
      <4>3. CASE j > i
        <5>1. j + 1 \in 1..Len(t) /\ t[j + 1] = s[(j + 1) - 1] /\ (j + 1) - 1 = j
          BY <1>i, <1>2, <4>3
        <5> QED BY <4>1, <5>1
      <4> QED BY <1>i, <4>2, <4>3
    <3> QED BY <3>1, <3>2
  <2>3. ASSUME NEW j \in 1..Len(t), NEW k \in 1..Len(t), j < k PROVE Before(t[j], t[k])'
    <3> DEFINE was(m) == IF m <= i THEN m ELSE m - 1
    <3>1. ASSUME j # i + 1, k # i + 1 PROVE Before(t[j], t[k])'
      <4>1. /\ was(j) \in 1..Len(s) /\ t[j] = s[was(j)]
            /\ was(k) \in 1..Len(s) /\ t[k] = s[was(k)] /\ was(j) < was(k)
        BY <1>i, <1>2, <2>3, <3>1
      <4> HIDE DEF was
      <4>2. s[was(j)] \in Links \ {l} /\ s[was(k)] \in Links \ {l}
        BY <1>b, <1>d, <4>1
      <4>3. Before(s[was(j)], s[was(k)])
        BY <1>c, <4>1
      <4> QED BY <1>e, <4>1, <4>2, <4>3
    <3>2. ASSUME j = i + 1 PROVE Before(t[j], t[k])'
      <4>1. k - 1 \in (i + 1)..Len(s) /\ k - 1 \in 1..Len(s) /\ t[j] = l /\ t[k] = s[k - 1]
        BY <1>i, <1>2, <2>3, <3>2
      <4>2. Prio[l] > Prio[s[k - 1]] /\ s[k - 1] \in Links
        BY <1>1, <1>b, <1>d, <1>g, <4>1
      <4> QED BY <1>e, <4>1, <4>2
    <3>3. ASSUME k = i + 1 PROVE Before(t[j], t[k])'
      <4>1. j \in 1..i /\ j \in 1..Len(s) /\ t[k] = l /\ t[j] = s[j]
        BY <1>i, <1>2, <2>3, <3>3
      <4>2. Prio[s[j]] >= Prio[l] /\ s[j] \in Links \ {l}
        BY <1>1, <1>b, <1>d, <4>1
      <4> QED BY <1>e, <4>1, <4>2
    <3> QED BY <3>1, <3>2, <3>3
  <2> QED BY <1>2, <2>1, <2>2, <2>3 DEF Sorted
<1>4. Path' = t
  BY <1>2, <1>3 DEF PathIsOrder
<1>5. ~Order!On(l)
  BY <1>b, <1>c, <1>d DEF Order!On
<1>6. Order!Attach(l)
  BY <1>1, <1>4, <1>5 DEF Order!Attach, t
<1> QED BY <1>3, <1>4, <1>6

\* A Detach takes effect with the one word it publishes.
LEMMA DetachIsDetach ==
  ASSUME TypeOK, ChainInvariant, Sorted(Path), PathIsOrder', NEW l \in Links, Detach(l)
  PROVE  Sorted(Path)' /\ Order!Detach(l)
<1> SUFFICES ASSUME NEW s, s = Path PROVE Sorted(Path)' /\ Order!Detach(l)
  OBVIOUS
<1>a. OlderIsAnOrder /\ Sorted(s)
  BY DEF ChainInvariant
<1>b. /\ Len(s) \in Nat
      /\ \A i \in 1..Len(s) : s[i] \in On /\ s[i] \in Links
      /\ \A i, j \in 1..Len(s) : s[i] = s[j] => i = j
  BY <1>a, SortedIsInjective
<1>c. /\ s \in Seq(Links)
      /\ \A k \in On : \E i \in 1..Len(s) : s[i] = k
      /\ \A i, j \in 1..Len(s) : i < j => Before(s[i], s[j])
  BY <1>a DEF Sorted
<1>d. l \in On /\ On' = On \ {l}
  BY DEF Detach, On, TypeOK
<1>e. \A a, b \in Links : Before(a, b)' <=> Before(a, b)
  BY DEF Detach, Left, Before
<1>1. PICK i \in 1..Len(s) : s[i] = l
  BY <1>c, <1>d
<1> DEFINE t == Order!RemoveAt(s, i)
<1>2. /\ t \in Seq(Links) /\ Len(t) = Len(s) - 1
      /\ \A k \in 1..(Len(s) - 1) : t[k] = IF k < i THEN s[k] ELSE s[k + 1]
  BY <1>c, RemovedAt
<1> HIDE DEF t
<1>i. i \in Nat /\ 1 <= i /\ i <= Len(s) /\ Len(s) \in Nat
  BY <1>b
<1>3. Sorted(t)'
  <2> DEFINE was(m) == IF m < i THEN m ELSE m + 1
  <2>1. ASSUME NEW k \in 1..Len(t)
        PROVE  was(k) \in 1..Len(s) /\ was(k) # i /\ t[k] = s[was(k)]
    BY <1>i, <1>2
  <2>2. \A j, k \in 1..Len(t) : j < k => was(j) < was(k)
    BY <1>i, <1>2
  <2>3. ASSUME NEW a \in On' PROVE \E k \in 1..Len(t) : t[k] = a
    <3>1. PICK j \in 1..Len(s) : s[j] = a
      BY <1>c, <1>d
    <3>2. j # i
      BY <1>1, <1>d, <3>1
    <3>3. CASE j < i
      <4>1. j \in 1..Len(t) /\ t[j] = s[j]
        BY <1>i, <1>2, <3>3
      <4> QED BY <3>1, <4>1
    <3>4. CASE j > i
      <4>1. j - 1 \in 1..Len(t) /\ t[j - 1] = s[(j - 1) + 1] /\ (j - 1) + 1 = j
        BY <1>i, <1>2, <3>4
      <4> QED BY <3>1, <4>1
    <3> QED BY <1>i, <3>2, <3>3, <3>4
  <2> HIDE DEF was
  <2>4. \A k \in 1..Len(t) : t[k] \in On'
    BY <1>1, <1>b, <1>d, <2>1
  <2>5. ASSUME NEW j \in 1..Len(t), NEW k \in 1..Len(t), j < k PROVE Before(t[j], t[k])'
    <3>1. Before(s[was(j)], s[was(k)])
      BY <1>c, <2>1, <2>2, <2>5
    <3> QED BY <1>b, <1>e, <2>1, <3>1
  <2> QED BY <1>2, <2>3, <2>4, <2>5 DEF Sorted
<1>4. Path' = t
  BY <1>2, <1>3 DEF PathIsOrder
<1>5. Order!Detach(l)
  <2>1. i \in DOMAIN s
    BY <1>c
  <2> QED BY <1>1, <1>4, <2>1 DEF Order!Detach, t
<1> QED BY <1>3, <1>4, <1>5

\* Where the chain is left empty, so is the path.
LEMMA EmptyIsClear ==
  ASSUME PathIsOrder', On' = {}
  PROVE  Sorted(Path)' /\ Order!Clear
<1>1. <<>> \in Seq(Links) /\ Len(<<>>) = 0
  BY EmptySeq
<1>2. Sorted(<<>>)'
  BY <1>1 DEF Sorted
<1>3. Path' = <<>>
  BY <1>1, <1>2 DEF PathIsOrder
<1> QED BY <1>2, <1>3 DEF Order!Clear

\* Where the same links stay on the chain in the same order, the path stays.
LEMMA QuietIsStutter ==
  ASSUME Sorted(Path), PathIsOrder', On' = On, UNCHANGED older
  PROVE  Sorted(Path)' /\ UNCHANGED Path
<1> SUFFICES ASSUME NEW s, s = Path PROVE Sorted(Path)' /\ Path' = s
  OBVIOUS
<1>1. \A a, b \in Links : Before(a, b)' <=> Before(a, b)
  BY DEF Before
<1>2. Sorted(s) /\ s \in Seq(Links)
  BY DEF Sorted
<1>3. Sorted(s)'
  <2>1. \A i \in 1..Len(s) : s[i] \in Links
    BY <1>2, ElementOfSeq
  <2> QED BY <1>1, <1>2, <2>1 DEF Sorted
<1>4. Path' = s
  BY <1>2, <1>3 DEF PathIsOrder
<1> QED BY <1>3, <1>4

\* Every step of the list and its words is one of the order, or none.
LEMMA OrderStep ==
  ASSUME TypeOK, ChainInvariant, Sorted(Path), PathIsOrder', [Next]_vars
  PROVE  Sorted(Path)' /\ [Order!Next]_Path
<1>1. ASSUME NEW l \in Links, AttachStart(l) PROVE On' = On /\ UNCHANGED older
  BY <1>1 DEF AttachStart, list, On
<1>2. ASSUME AttachSeek \/ AttachForward PROVE On' = On /\ UNCHANGED older
  BY <1>2 DEF AttachSeek, AttachForward, ForwardTo, list, On
<1>3. ASSUME Install \/ Uninstall PROVE On' = On /\ UNCHANGED older
  BY <1>3 DEF Install, Uninstall, list, On
<1>4. ASSUME NEW c \in Cores, Enter(c) \/ EnterStray(c) \/ Run(c) PROVE On' = On /\ UNCHANGED older
  BY <1>4 DEF Enter, EnterStray, EnterBy, Run, Dispatch, Forward, Leave, Arrive, list, On
<1>5. ASSUME UNCHANGED vars PROVE On' = On /\ UNCHANGED older
  BY <1>5 DEF vars, list, On
<1>6. CASE AttachSplice
  <2>1. edit.link \in Links
    BY <1>6 DEF AttachSplice, ChainInvariant, EditFollowsList
  <2> QED BY <1>6, <2>1, SpliceIsAttach DEF Order!Next
<1>7. ASSUME NEW l \in Links, Detach(l) PROVE Sorted(Path)' /\ [Order!Next]_Path
  BY <1>7, DetachIsDetach DEF Order!Next
<1>8. ASSUME NEW restored \in BOOLEAN, Clear(restored)
      PROVE  Sorted(Path)' /\ [Order!Next]_Path
  <2>1. On' = {}
    BY <1>8 DEF Clear, On
  <2> QED BY <2>1, EmptyIsClear DEF Order!Next
<1>9. ASSUME NEW restored \in BOOLEAN, ProcessEnd(restored) \/ Reconfigure(restored)
      PROVE  Sorted(Path)' /\ [Order!Next]_Path
  <2>1. On' = {}
    BY <1>9 DEF ProcessEnd, Reconfigure, ForgetWords, On
  <2> QED BY <2>1, EmptyIsClear DEF Order!Next
<1> QED
  BY <1>1, <1>2, <1>3, <1>4, <1>5, <1>6, <1>7, <1>8, <1>9, QuietIsStutter
  DEF Next, Edit, AttachStep

\* Whatever the links, their priorities and the cores, the words a caller follows are
\* at every moment a sequence that an edit changes in one step, as ChainOrder has it:
\* a new link goes right behind the last one of at least its priority, one that leaves
\* is taken out, and the others keep their order.
THEOREM ImplementsOrderHolds == Spec => ImplementsOrder
<1>1. TypeOK /\ ChainInvariant => PathIsOrder
  BY SortedIsPath DEF PathIsOrder
<1>2. Init => Path = <<>>
  BY DEF Init, Path
<1>3. Init => Sorted(Path)
  <2>1. <<>> \in Seq(Links) /\ Len(<<>>) = 0
    BY EmptySeq
  <2>2. Init => On = {}
    BY DEF Init, On
  <2> QED BY <1>2, <2>1, <2>2 DEF Sorted
<1>4. Init => Order!Init
  BY <1>2 DEF Order!Init
<1>5. TypeOK /\ ChainInvariant /\ Sorted(Path) /\ PathIsOrder' /\ [Next]_vars
        => Sorted(Path)' /\ [Order!Next]_Path
  BY OrderStep
<1> QED BY <1>1, <1>3, <1>4, <1>5, InvariantHolds, PTL DEF Spec, ImplementsOrder, Order!Spec
=============================================================================
