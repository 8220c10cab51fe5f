---------------------------- MODULE StubsProofs ----------------------------
(* For every set of words, addresses and deltas: the guard takes what the loader *)
(* made of a word and refuses a patched site; a branch that is encoded reaches     *)
(* what it was encoded for; FunctionPatcher patches the word that was guarded; and  *)
(* a core that comes to the site enters every hook, and runs the displaced word, as *)
(* it would have run without the patch.                                             *)
EXTENDS Stubs, FiniteSetTheorems, TLAPS

-----------------------------------------------------------------------------
(* Halves of addresses: what the loader makes of a word.                         *)

\* Remainders and quotients of a sum.
LEMMA RemainderOfSum ==
  ASSUME NEW x \in Int, NEW y \in Int, NEW carry \in 0..1
  PROVE  (x + y + carry) % 65536 = ((x % 65536) + (y % 65536) + carry) % 65536
BY SMT

\* High halves add up, with a carry when the low ones overflow.
LEMMA QuotientOfSum ==
  ASSUME NEW x \in Int, NEW y \in Int
  PROVE  /\ (x % 65536) + (y % 65536) < 65536
              => (x + y) \div 65536 = (x \div 65536) + (y \div 65536) + 0
         /\ ~((x % 65536) + (y % 65536) < 65536)
              => (x + y) \div 65536 = (x \div 65536) + (y \div 65536) + 1
BY SMT

\* Halves of a sum: the low ones add up modulo 2^16, and the high ones with a
\* carry out of the low ones.
LEMMA HalvesOfSum ==
  ASSUME NEW x \in Nat, NEW d \in Nat
  PROVE  /\ Low(x + d) = Low(Low(x) + Low(d))
         /\ \E carry \in 0..1 : High(x + d) = Low(High(x) + High(d) + carry)
<1>1. Low(x + d) = Low(Low(x) + Low(d))
  BY SMT DEF Low, Half
<1>2. PICK carry \in 0..1 :
        (x + d) \div 65536 = (x \div 65536) + (d \div 65536) + carry
  <2>1. x \in Int /\ d \in Int /\ 0 \in 0..1 /\ 1 \in 0..1
    OBVIOUS
  <2>2. CASE (x % 65536) + (d % 65536) < 65536
    BY <2>1, <2>2, QuotientOfSum
  <2>3. CASE ~((x % 65536) + (d % 65536) < 65536)
    BY <2>1, <2>3, QuotientOfSum
  <2> QED BY <2>2, <2>3
<1>3. x \div 65536 \in Int /\ d \div 65536 \in Int
  BY SMT
<1>4. ((x \div 65536) + (d \div 65536) + carry) % 65536
        = (((x \div 65536) % 65536) + ((d \div 65536) % 65536) + carry) % 65536
  BY <1>3, RemainderOfSum
<1>5. High(x + d) = Low(High(x) + High(d) + carry)
  BY <1>2, <1>4 DEF High, Low, Half
<1> QED BY <1>1, <1>5

\* Setting the immediate: of a word with another immediate it makes the same word.
LEMMA ImmediateSet ==
  ASSUME NEW word, IsWord(word), NEW a, NEW b
  PROVE  /\ [word EXCEPT !.imm = a].op = word.op
         /\ [word EXCEPT !.imm = a].imm = a
         /\ IsWord([word EXCEPT !.imm = a])
         /\ [[word EXCEPT !.imm = a] EXCEPT !.imm = b] = [word EXCEPT !.imm = b]
BY DEF IsWord

\* A lis of either half, loaded, is accepted.
LEMMA LisAccepted ==
  ASSUME NEW word, IsWord(word), word.op = 15, NEW x \in Nat, NEW delta \in Nat
  PROVE  MatchesHighHalf([word EXCEPT !.imm = High(x + delta)],
                         [word EXCEPT !.imm = High(x)], delta)
<1> DEFINE expected == [word EXCEPT !.imm = High(x)]
           found    == [word EXCEPT !.imm = High(x + delta)]
<1>1. expected.op = 15 /\ expected.imm = High(x)
  BY ImmediateSet
<1>2. found = [expected EXCEPT !.imm = High(x + delta)]
  BY ImmediateSet
<1> HIDE DEF expected, found
<1>3. \E carry \in 0..1 : High(x + delta) = Low(expected.imm + High(delta) + carry)
  BY <1>1, HalvesOfSum
<1>4. \E carry \in 0..1 : found = [expected EXCEPT !.imm = Low(@ + High(delta) + carry)]
  BY <1>2, <1>3
<1> SUFFICES MatchesHighHalf(found, expected, delta)
  BY DEF expected, found
<1> QED BY <1>1, <1>4, Zenon DEF MatchesHighHalf

\* A word that holds a half of an address of .data, loaded with .data moved by any
\* delta, is accepted by the guard that knows it as the image has it.
THEOREM LoadedIsAccepted ==
  ASSUME NEW word, IsWord(word), NEW half \in MayHold(word.op),
         NEW address \in Nat, NEW delta \in Nat
  PROVE  MatchesNative(LinkedAs(word, half, address + delta),
                       LinkedAs(word, half, address), delta)
<1> DEFINE found    == LinkedAs(word, half, address + delta)
           expected == LinkedAs(word, half, address)
           with(i)  == [word EXCEPT !.imm = i]
<1> SUFFICES MatchesNative(found, expected, delta)
  OBVIOUS
<1>1. CASE half = "none"
  BY <1>1 DEF MatchesNative, LinkedAs
<1>2. CASE delta = 0
  <2>1. address + delta = address
    BY <1>2
  <2> QED BY <2>1 DEF MatchesNative
<1>3. CASE half = "low" /\ delta # 0
  <2>1. word.op \in LowFields
    BY <1>3 DEF MayHold
  <2>2. HalfOf(half, address) = Low(address) /\ HalfOf(half, address + delta) = Low(address + delta)
    BY <1>3 DEF HalfOf
  <2>3. found = with(Low(address + delta)) /\ expected = with(Low(address))
    BY <1>3, <2>2 DEF LinkedAs
  <2>4. RelocateLowHalf(expected, delta) = with(Low(Low(address) + Low(delta)))
    <3>1. with(Low(address)).op = word.op /\ with(Low(address)).imm = Low(address)
      BY ImmediateSet
    <3>2. RelocateLowHalf(with(Low(address)), delta)
            = [with(Low(address)) EXCEPT !.imm = Low(Low(address) + Low(delta))]
      BY <2>1, <3>1 DEF RelocateLowHalf
    <3>3. [with(Low(address)) EXCEPT !.imm = Low(Low(address) + Low(delta))]
            = with(Low(Low(address) + Low(delta)))
      BY ImmediateSet
    <3> QED BY <2>3, <3>2, <3>3
  <2>5. Low(address + delta) = Low(Low(address) + Low(delta))
    BY HalvesOfSum
  <2>6. found = RelocateLowHalf(expected, delta)
    BY <2>3, <2>4, <2>5
  <2> QED BY <1>3, <2>6 DEF MatchesNative
<1>4. CASE half \in {"high", "adjusted"} /\ delta # 0
  <2>1. PICK x \in Nat : /\ HalfOf(half, address) = High(x)
                         /\ HalfOf(half, address + delta) = High(x + delta)
    <3>1. CASE half = "high"
      BY <3>1 DEF HalfOf
    <3>2. CASE half = "adjusted"
      <4>1. /\ address + 32768 \in Nat
            /\ address + delta + 32768 = address + 32768 + delta
        OBVIOUS
      <4> QED BY <3>2, <4>1 DEF HalfOf
    <3> QED BY <1>4, <3>1, <3>2
  <2>2. word.op = 15
    BY <1>4 DEF MayHold, LowFields
  <2>3. found = with(High(x + delta)) /\ expected = with(High(x))
    BY <1>4, <2>1 DEF LinkedAs
  <2>4. MatchesHighHalf(with(High(x + delta)), with(High(x)), delta)
    BY <2>2, LisAccepted
  <2>5. MatchesHighHalf(found, expected, delta)
    BY <2>3, <2>4
  <2> HIDE DEF found, expected
  <2> QED BY <1>4, <2>5 DEF MatchesNative
<1> QED BY <1>1, <1>2, <1>3, <1>4 DEF MayHold

-----------------------------------------------------------------------------
(* The guard.                                                                  *)

\* What the guard knows a site by is a word, and not another patcher's branch.
LEMMA InstructionIsWord ==
  ASSUME NEW word, Instruction(word)
  PROVE  IsWord(word)
<1>1. word \in [op : 0..63, xo : Nat, t : Registers, a : Registers, imm : Nat,
                abs : BOOLEAN, link : BOOLEAN, dec : BOOLEAN, cond : BOOLEAN]
  BY DEF Instruction
<1>2. word = [op |-> word.op, xo |-> word.xo, t |-> word.t, a |-> word.a, imm |-> word.imm,
              abs |-> word.abs, link |-> word.link, dec |-> word.dec, cond |-> word.cond]
  BY <1>1
<1> QED BY <1>2 DEF IsWord

\* What the loader makes of a word is a word again, and a branch it makes is one it
\* could have encoded.
LEMMA ExpectedIsWord ==
  ASSUME NEW word \in Words, NEW half \in MayHold(word.op), NEW address
  PROVE  LET expected == LinkedAs(word, half, address)
         IN  IsWord(expected) /\ (expected.op = 18 => expected.imm # 2048)
<1> DEFINE expected == LinkedAs(word, half, address)
<1> SUFFICES IsWord(expected) /\ (expected.op = 18 => expected.imm # 2048)
  OBVIOUS
<1>1. IsWord(word)
  BY WordsAssumption, InstructionIsWord
<1>2. CASE half = "none"
  BY <1>1, <1>2, ForeignAssumption DEF LinkedAs
<1>3. CASE half # "none"
  <2>1. word.op # 18
    BY <1>3 DEF MayHold, LowFields
  <2>2. expected = [word EXCEPT !.imm = HalfOf(half, address)]
    BY <1>3 DEF LinkedAs
  <2> HIDE DEF expected
  <2>3. IsWord(expected) /\ expected.op = word.op
    BY <1>1, <2>2, ImmediateSet
  <2> QED BY <2>1, <2>3
<1> QED BY <1>2, <1>3

\* No form of a word is another patcher's branch.
LEMMA ForeignIsRefused ==
  ASSUME NEW word, IsWord(word), word.op = 18 => word.imm # 2048, NEW delta
  PROVE  ~MatchesNative(Foreign, word, delta)
<1>1. Foreign.op = 18 /\ Foreign.imm = 2048
  BY DEF Foreign, Blank
<1>2. Foreign # word
  BY <1>1
<1>3. \A i : [word EXCEPT !.imm = i].op = word.op
  BY DEF IsWord
<1>4. Foreign # RelocateLowHalf(word, delta)
  <2>1. CASE word.op \in LowFields
    <3>1. RelocateLowHalf(word, delta) = [word EXCEPT !.imm = Low(word.imm + Low(delta))]
      BY <2>1 DEF RelocateLowHalf
    <3>2. RelocateLowHalf(word, delta).op = word.op
      BY <1>3, <3>1
    <3> QED BY <1>1, <2>1, <3>2 DEF LowFields
  <2>2. CASE word.op \notin LowFields
    BY <1>2, <2>2 DEF RelocateLowHalf
  <2> QED BY <2>1, <2>2
<1>5. ASSUME MatchesHighHalf(Foreign, word, delta) PROVE FALSE
  <2>1. word.op = 15
    BY <1>5 DEF MatchesHighHalf
  <2>2. PICK carry \in 0..1 : Foreign = [word EXCEPT !.imm = Low(word.imm + High(delta) + carry)]
    BY <1>5, Zenon DEF MatchesHighHalf
  <2>3. Foreign.op = word.op
    BY <1>3, <2>2
  <2> QED BY <1>1, <2>1, <2>3
<1> QED BY <1>2, <1>4, <1>5 DEF MatchesNative

\* The guard tells the two kinds of site apart, and what became of the site follows.
GuardTells ==
  /\ scene.native \in BOOLEAN /\ scene.external \in BOOLEAN
  /\ Guard <=> (scene.external \/ (scene.native /\ InText(scene.place)))

GuardInv ==
  /\ GuardTells
  /\ site.state \in {"DECLARED", "REFUSED", "APPLIED", "FAILED"}
  /\ site.state = "REFUSED" => ~Guard
  /\ site.state \in {"APPLIED", "FAILED"} => Guard

\* Before the first turn, no site is guarded.
LEMMA InitGuard == Init => GuardInv
<1> SUFFICES ASSUME Init PROVE GuardInv
  OBVIOUS
<1>1. site.state = "DECLARED"
  BY DEF Init
<1> DEFINE Set(word, native, held, shape, place, backend, external, replacement, hooks) ==
        [shape |-> shape, place |-> place, backend |-> backend,
         external |-> external, delta |-> held.delta, native |-> native,
         expected |-> LinkedAs(word, held.half, held.address),
         live |-> IF native THEN LinkedAs(word, held.half, held.address + held.delta)
                            ELSE Foreign,
         replacement |-> replacement, hooks |-> hooks]
<1>2. PICK shape \in Shapes, word \in Words, place \in Places,
           backend \in {"direct", "fp"}, native \in BOOLEAN :
        \E held \in Halved(word), external \in IF shape = "JUMP" THEN BOOLEAN ELSE {FALSE},
           replacement \in IF shape = "REWRITE" THEN Replacements ELSE {Blank},
           hooks \in IF shape = "REWRITE" THEN {0} ELSE 1..MaxHooks :
          scene = Set(word, native, held, shape, place, backend, external, replacement, hooks)
  BY Zenon DEF Init
<1>3. PICK held \in Halved(word), external \in IF shape = "JUMP" THEN BOOLEAN ELSE {FALSE},
            replacement \in IF shape = "REWRITE" THEN Replacements ELSE {Blank},
            hooks \in IF shape = "REWRITE" THEN {0} ELSE 1..MaxHooks :
          scene = Set(word, native, held, shape, place, backend, external, replacement, hooks)
  BY <1>2, Zenon
<1>4. /\ scene.native = native /\ scene.external \in BOOLEAN
      /\ scene.expected = LinkedAs(word, held.half, held.address)
      /\ scene.live = IF native THEN LinkedAs(word, held.half, held.address + held.delta)
                                ELSE Foreign
      /\ scene.delta = held.delta
  BY <1>3
<1>5. held.half \in MayHold(word.op) /\ held.address \in Nat /\ held.delta \in Nat
  <2>1. CASE held \in [half : {"none"}, address : {0}, delta : {0}]
    BY <2>1 DEF MayHold
  <2>2. CASE held \in [half : MayHold(word.op) \ {"none"}, address : Linked, delta : DataDeltas]
    BY <2>2, LinkedAssumption
  <2> QED BY <1>4, <2>1, <2>2 DEF Halved
<1>6. MatchesNative(scene.live, scene.expected, scene.delta) <=> native
  <2>1. CASE native
    BY <1>4, <1>5, <2>1, WordsAssumption, InstructionIsWord, LoadedIsAccepted
  <2>2. CASE ~native
    <3>1. IsWord(scene.expected) /\ (scene.expected.op = 18 => scene.expected.imm # 2048)
      BY <1>4, <1>5, ExpectedIsWord
    <3>2. scene.live = Foreign
      BY <1>4, <2>2
    <3> QED BY <2>2, <3>1, <3>2, ForeignIsRefused
  <2> QED BY <2>1, <2>2
<1>7. GuardTells
  BY <1>4, <1>6 DEF GuardTells, Guard
<1> QED BY <1>1, <1>7 DEF GuardInv

\* No step of a row or of a core changes what a site was guarded with.
LEMMA NextGuard == GuardInv /\ [Next]_vars => GuardInv'
<1> SUFFICES ASSUME GuardInv, [Next]_vars PROVE GuardInv'
  OBVIOUS
<1>1. scene' = scene
  BY DEF Next, Refuse, Apply, Run, HookGoesOn, HookReturns, vars
<1>2. Guard' = Guard /\ GuardTells'
  BY <1>1 DEF Guard, GuardTells, GuardInv
<1>3. CASE Refuse
  <2>1. ~Guard /\ site' = [site EXCEPT !.state = "REFUSED"]
    BY <1>3 DEF Refuse
  <2> QED BY <1>2, <2>1 DEF GuardInv
<1>4. CASE Apply
  <2>1. Guard /\ site'.state \in {"APPLIED", "FAILED"}
    BY <1>4 DEF Apply
  <2> QED BY <1>2, <2>1 DEF GuardInv
<1>5. CASE site' = site
  BY <1>2, <1>5 DEF GuardInv
<1> QED BY <1>3, <1>4, <1>5 DEF Next, Run, HookGoesOn, HookReturns, vars

\* The guard takes every site the loader may have made of a known one, and refuses
\* one that holds another patcher's branch.
THEOREM GuardTakesNative == Spec => []NativeIsTaken
<1>1. GuardInv => NativeIsTaken
  BY DEF GuardInv, GuardTells, NativeIsTaken
<1> QED BY InitGuard, NextGuard, <1>1, PTL DEF Spec

-----------------------------------------------------------------------------
(* Branches.                                                                   *)

\* A field of 26 bits holds every distance within 32 MB, and gives it back.
LEMMA FieldHolds ==
  ASSUME NEW distance \in Int, Reaches(distance)
  PROVE  Signed(distance % 67108864, 67108864) = distance
<1>1. 67108864 \div 2 = 33554432
  BY SMT
<1>2. distance \in Int /\ -33554432 <= distance /\ distance < 33554432
  BY SMT DEF Reaches
<1>3. CASE distance >= 0
  <2>1. distance % 67108864 = distance
    BY <1>2, <1>3, SMT
  <2> QED BY <1>1, <1>2, <2>1 DEF Signed
<1>4. CASE distance < 0
  <2>1. distance % 67108864 = distance + 67108864
    BY <1>2, <1>4, SMT
  <2> QED BY <1>1, <1>2, <1>4, <2>1 DEF Signed
<1> QED BY <1>2, <1>3, <1>4

\* A core that runs an unconditional branch at the address it was encoded for is
\* then where it was encoded to go, wherever in the 32 MB each way that is.
THEOREM BranchReaches ==
  ASSUME NEW at \in Nat, NEW to \in Nat, NEW link \in BOOLEAN,
         NEW word \in EncodeBranch(at, to, link),
         NEW s, s = [field \in DOMAIN s |-> s[field]], "pc" \in DOMAIN s, s.pc = at
  PROVE  Branch(word, s).pc = to
<1>1. to - at \in Int /\ Reaches(to - at)
  BY DEF EncodeBranch
<1>2. word = [Blank EXCEPT !.op = 18, !.imm = (to - at) % 67108864, !.link = link]
  BY <1>1 DEF EncodeBranch
<1>3. /\ word.op = 18 /\ word.imm = (to - at) % 67108864
      /\ word.abs = FALSE /\ word.cond = FALSE /\ word.dec = FALSE
  BY <1>2 DEF Blank
<1>4. Signed(word.imm, 67108864) = to - at
  BY <1>1, <1>3, FieldHolds
<1>5. at + (to - at) = to
  OBVIOUS
<1>6. Displacement(word) + (IF word.abs THEN 0 ELSE s.pc) = to
  BY <1>3, <1>4, <1>5 DEF Displacement
<1> QED BY <1>3, <1>6 DEF Branch

-----------------------------------------------------------------------------
(* Descriptions.                                                              *)

\* A list has one first module of a name at most.
LEMMA FirstIsOne ==
  ASSUME NEW p, NEW found, found \subseteq Nat,
         NEW m \in First(p, found), NEW n \in First(p, found)
  PROVE  m = n
<1>1. PICK i \in found : m = p.modules[i] /\ \A j \in found : i <= j
  BY DEF First
<1>2. PICK k \in found : n = p.modules[k] /\ \A j \in found : k <= j
  BY DEF First
<1>3. i = k
  BY <1>1, <1>2
<1> QED BY <1>1, <1>2, <1>3

\* If the loader's array holds all modules without a name, whatever the backend has
\* accepted by FunctionPatcher makes it patch the site, and nothing else.
THEOREM PatchesTheSite ==
  ASSUME NEW p, p.site \in Nat, NEW count \in Nat, DOMAIN p.modules = 1..count,
         \A i \in 1..count : p.modules[i].text \in Nat,
         kMaxModules \in Nat,
         \A i \in 1..count : p.modules[i].name = NoName => i <= kMaxModules,
         NEW external \in BOOLEAN, NEW told \in FpApply(p, external)
  PROVE  Patches(p, told) = {p.site}
<1>1. Infos(p) = {i \in 1..count : i <= kMaxModules}
  BY DEF Infos
<1>2. told \in Describe(p, external)
  BY DEF FpApply
<1>3. CASE external /\ ~p.byAddress
  <2>1. told.kind = "export"
    BY <1>2, <1>3 DEF Describe
  <2> QED BY <2>1 DEF Patches
<1>4. CASE ~(external /\ ~p.byAddress) /\ (external \/ p.byPhysical)
  <2>1. PICK at \in {OSEffectiveToPhysical(p)} \ {0} :
          told = [kind |-> "physical", at |-> at, gated |-> external]
    BY <1>2, <1>4 DEF Describe
  <2>2. told.kind = "physical" /\ told.at = p.site + Shifted
    BY <2>1 DEF OSEffectiveToPhysical
  <2>3. Patches(p, told) = {(p.site + Shifted) - Shifted}
    BY <2>2 DEF Patches
  <2>4. (p.site + Shifted) - Shifted = p.site
    BY DEF Shifted
  <2> QED BY <2>3, <2>4
<1>5. CASE ~(external \/ p.byPhysical)
  <2>1. PICK m \in {found \in Find(p) : CountUnnamed(p) = 0} :
          told = [kind |-> "executable", at |-> p.site - m.text, gated |-> FALSE]
    BY <1>2, <1>5 DEF Describe
  <2>2. told.kind = "executable" /\ told.at = p.site - m.text
    BY <2>1
  <2>3. \A i \in DOMAIN p.modules : p.modules[i].name # NoName
    <3> DEFINE unnamed == {i \in Infos(p) : p.modules[i].name = NoName}
    <3>1. IsFiniteSet(unnamed)
      <4>1. IsFiniteSet(1..count) /\ unnamed \subseteq 1..count
        BY <1>1, FS_Interval
      <4> QED BY <4>1, FS_Subset
    <3>2. Cardinality(unnamed) = 0
      BY <2>1 DEF CountUnnamed
    <3>3. unnamed = {}
      BY <3>1, <3>2, FS_EmptySet
    <3> QED BY <1>1, <3>3
  <2> DEFINE found == Ending(p, DOMAIN p.modules)
  <2>4. found \subseteq 1..count /\ m \in First(p, found)
    <3> DEFINE listed == Ending(p, Infos(p))
    <3>1. PICK i \in listed : m = p.modules[i] /\ \A j \in listed : i <= j
      BY <2>1 DEF Find, First
    <3>2. found \subseteq 1..count /\ i \in found /\ i <= kMaxModules
      BY <1>1, <3>1 DEF Ending
    <3>3. \A j \in found : i <= j
      <4> TAKE j \in found
      <4>1. CASE j <= kMaxModules
        BY <1>1, <3>1, <3>2, <4>1 DEF Ending
      <4>2. CASE ~(j <= kMaxModules)
        BY <3>2, <4>2
      <4> QED BY <4>1, <4>2
    <3> QED BY <3>1, <3>2, <3>3 DEF First
  <2>5. \A n \in First(p, found) : n = m
    <3> found \subseteq Nat
      BY <2>4
    <3> QED BY <2>4, FirstIsOne
  <2>6. m.text \in Nat
    BY <2>4 DEF First
  <2>7. Patches(p, told) = {n.text + told.at : n \in First(p, found)}
    BY <2>2, <2>3 DEF Patches
  <2>8. m.text + told.at = p.site
    BY <2>2, <2>6
  <2> QED BY <2>4, <2>5, <2>7, <2>8
<1> QED BY <1>3, <1>4, <1>5

-----------------------------------------------------------------------------
(* A core's state, and what each word of a stub makes of it.                    *)

\* A machine: its registers, and a memory of words.
IsMachine(m) ==
  /\ m = [pc |-> m.pc, r |-> m.r, lr |-> m.lr, ctr |-> m.ctr, cr |-> m.cr, mem |-> m.mem]
  /\ m.pc \in Int /\ m.lr \in Int /\ m.ctr \in Int /\ m.cr \in BOOLEAN
  /\ m.r \in [Registers -> Int]
  /\ \A a \in DOMAIN m.mem : m.mem[a] \in Int

\* `n' is `m' one word on.
On(n, m) == /\ IsMachine(n) /\ n.pc = m.pc + 4 /\ n.r = m.r
            /\ n.lr = m.lr /\ n.ctr = m.ctr /\ n.cr = m.cr /\ n.mem = m.mem

\* ... with `x' in a register.
Sets(n, m, reg, x) ==
  /\ IsMachine(n) /\ n.pc = m.pc + 4 /\ n.r = [m.r EXCEPT ![reg] = x]
  /\ n.lr = m.lr /\ n.ctr = m.ctr /\ n.cr = m.cr /\ n.mem = m.mem

\* ... with a word stored.
Stores(n, m, at, x) ==
  /\ IsMachine(n) /\ n.pc = m.pc + 4 /\ n.r = m.r
  /\ n.lr = m.lr /\ n.ctr = m.ctr /\ n.cr = m.cr /\ n.mem = Store(m.mem, at, x)

\* ... and its address put into a register.
Pushes(n, m, reg, at, x) ==
  /\ IsMachine(n) /\ n.pc = m.pc + 4 /\ n.r = [m.r EXCEPT ![reg] = at]
  /\ n.lr = m.lr /\ n.ctr = m.ctr /\ n.cr = m.cr /\ n.mem = Store(m.mem, at, x)

\* A store changes what is read at one address, and nothing else.
LEMMA StoreThenRead ==
  ASSUME NEW mem, NEW a, NEW x
  PROVE  /\ DOMAIN Store(mem, a, x) = DOMAIN mem \cup {a}
         /\ Store(mem, a, x)[a] = x
         /\ Read(Store(mem, a, x), a) = x
         /\ \A b : b # a => Read(Store(mem, a, x), b) = Read(mem, b)
         /\ \A b \in DOMAIN mem : b # a => Store(mem, a, x)[b] = mem[b]
BY DEF Store, Read

\* What is read is a number.
LEMMA ReadIsInt ==
  ASSUME NEW m, IsMachine(m), NEW a
  PROVE  Read(m.mem, a) \in Int
BY DEF IsMachine, Read

\* Small displacements, as fields of 16 bits.
LEMMA Displacements ==
  /\ Signed((-16) % Half, Half) = -16
  /\ Signed(8 % Half, Half) = 8
  /\ Signed(16 % Half, Half) = 16
  /\ Signed(0 % Half, Half) = 0
BY DEF Signed, Half

\* A field of 16 bits is a number between the ends of its range.
LEMMA SignedBounds ==
  ASSUME NEW imm \in Nat, imm < Half
  PROVE  /\ Signed(imm, Half) \in Int
         /\ -32768 <= Signed(imm, Half) /\ Signed(imm, Half) <= 32767
         /\ imm < 32768 => Signed(imm, Half) = imm
BY DEF Signed, Half

\* An address from its two halves.
LEMMA HalvesMake ==
  ASSUME NEW address \in Nat, address <= kTop
  PROVE  /\ High(address) \in Nat /\ Low(address) \in Nat
         /\ High(address) % Half = High(address) /\ Low(address) % Half = Low(address)
         /\ (High(address) * Half) + Low(address) = address
<1>1. address <= 2147483647
  BY SMT DEF kTop
<1>2. /\ address \div 65536 \in Nat /\ address \div 65536 < 65536
      /\ address % 65536 \in Nat /\ address % 65536 < 65536
  BY <1>1, SMT
<1>3. \A half \in Nat : half < 65536 => half % 65536 = half
  BY SMT
<1>4. (address \div 65536) % 65536 = address \div 65536
  BY <1>2, <1>3
<1>5. ((address \div 65536) * 65536) + (address % 65536) = address
  BY <1>1, SMT
<1>6. (address % 65536) % 65536 = address % 65536
  BY <1>2, <1>3
<1>7. /\ High(address) = address \div 65536 /\ Low(address) = address % 65536
      /\ Half = 65536
  BY <1>4 DEF High, Low, Half
<1> HIDE DEF Half
<1> QED BY <1>2, <1>4, <1>5, <1>6, <1>7

-----------------------------------------------------------------------------

\* A machine put together from its parts.
LEMMA MachineBuilt ==
  ASSUME NEW pc \in Int, NEW r \in [Registers -> Int], NEW lr \in Int, NEW ctr \in Int,
         NEW cr \in BOOLEAN, NEW mem, \A a \in DOMAIN mem : mem[a] \in Int
  PROVE  IsMachine([pc |-> pc, r |-> r, lr |-> lr, ctr |-> ctr, cr |-> cr, mem |-> mem])
BY DEF IsMachine

\* The parts of a machine.
LEMMA MachineTyped ==
  ASSUME NEW m, IsMachine(m)
  PROVE  /\ m.pc \in Int /\ m.pc + 4 \in Int /\ m.lr \in Int /\ m.ctr \in Int
         /\ m.cr \in BOOLEAN /\ m.r \in [Registers -> Int]
         /\ \A reg \in Registers : m.r[reg] \in Int
         /\ \A a \in DOMAIN m.mem : m.mem[a] \in Int
BY DEF IsMachine

\* Setting a register and going on leaves the rest of the machine alone.
LEMMA SetsRegister ==
  ASSUME NEW m, IsMachine(m), NEW reg \in Registers, NEW x \in Int,
         NEW n, n = [[m EXCEPT !.pc = @ + 4] EXCEPT !.r[reg] = x]
  PROVE  Sets(n, m, reg, x)
<1> DEFINE r == [m.r EXCEPT ![reg] = x]
<1>1. n = [pc |-> m.pc + 4, r |-> r, lr |-> m.lr, ctr |-> m.ctr, cr |-> m.cr, mem |-> m.mem]
  BY DEF IsMachine
<1>2. r \in [Registers -> Int]
  BY DEF IsMachine
<1> HIDE DEF r
<1>3. /\ m.pc + 4 \in Int /\ m.lr \in Int /\ m.ctr \in Int /\ m.cr \in BOOLEAN
      /\ \A a \in DOMAIN m.mem : m.mem[a] \in Int
  BY MachineTyped
<1>4. IsMachine([pc |-> m.pc + 4, r |-> r, lr |-> m.lr, ctr |-> m.ctr, cr |-> m.cr,
                 mem |-> m.mem])
  BY <1>2, <1>3, MachineBuilt
<1>5. IsMachine(n)
  BY <1>1, <1>4
<1> QED BY <1>1, <1>5 DEF Sets, r

\* addi sets its target to the sum.
LEMMA SumRuns ==
  ASSUME NEW word, word.op = 14, NEW m, IsMachine(m), word.a \in Registers,
         word.t \in Registers, Signed(word.imm, Half) \in Int
  PROVE  Sets(Exec(word, m), m, word.t, m.r[word.a] + Signed(word.imm, Half))
<1>1. Exec(word, m) = [[m EXCEPT !.pc = @ + 4] EXCEPT
                         !.r[word.t] = m.r[word.a] + Signed(word.imm, Half)]
  BY DEF Exec
<1>2. m.r[word.a] + Signed(word.imm, Half) \in Int
  BY DEF IsMachine
<1> QED BY <1>1, <1>2, SetsRegister

\* lis sets its target to the shifted immediate.
LEMMA LisRuns ==
  ASSUME NEW word, word.op = 15, NEW m, IsMachine(m),
         word.t \in Registers, word.imm \in Nat
  PROVE  Sets(Exec(word, m), m, word.t, word.imm * Half)
<1>1. Exec(word, m) = [[m EXCEPT !.pc = @ + 4] EXCEPT !.r[word.t] = word.imm * Half]
  BY DEF Exec
<1>2. word.imm * Half \in Int
  BY DEF Half
<1> QED BY <1>1, <1>2, SetsRegister

\* ori adds its low half, of a register whose low half is empty.
LEMMA OriRuns ==
  ASSUME NEW word, word.op = 24, NEW m, IsMachine(m),
         word.t \in Registers, word.a \in Registers, word.imm \in Nat
  PROVE  Sets(Exec(word, m), m, word.a, m.r[word.t] + word.imm)
<1>1. Exec(word, m) = [[m EXCEPT !.pc = @ + 4] EXCEPT !.r[word.a] = m.r[word.t] + word.imm]
  BY DEF Exec
<1>2. m.r[word.t] + word.imm \in Int
  BY DEF IsMachine
<1> QED BY <1>1, <1>2, SetsRegister

\* lwz sets its target to the word at the address.
LEMMA LoadRuns ==
  ASSUME NEW word, word.op = 32, NEW m, IsMachine(m), word.t \in Registers
  PROVE  Sets(Exec(word, m), m, word.t, Read(m.mem, m.r[word.a] + Signed(word.imm, Half)))
<1>1. Exec(word, m) = [[m EXCEPT !.pc = @ + 4] EXCEPT
                         !.r[word.t] = Read(m.mem, m.r[word.a] + Signed(word.imm, Half))]
  BY DEF Exec
<1>2. Read(m.mem, m.r[word.a] + Signed(word.imm, Half)) \in Int
  BY ReadIsInt
<1> QED BY <1>1, <1>2, SetsRegister

\* What a store leaves in the memory is a machine's.
LEMMA StoreIsTyped ==
  ASSUME NEW m, IsMachine(m), NEW a, NEW x \in Int
  PROVE  \A b \in DOMAIN Store(m.mem, a, x) : Store(m.mem, a, x)[b] \in Int
BY DEF IsMachine, Store

\* stw stores its register at the address, and does nothing else.
LEMMA StoreRuns ==
  ASSUME NEW word, word.op = 36, NEW m, IsMachine(m), word.t \in Registers
  PROVE  Stores(Exec(word, m), m, m.r[word.a] + Signed(word.imm, Half), m.r[word.t])
<1> DEFINE mem == Store(m.mem, m.r[word.a] + Signed(word.imm, Half), m.r[word.t])
<1>1. Exec(word, m) = [[m EXCEPT !.pc = @ + 4] EXCEPT !.mem = Store(@,
                         m.r[word.a] + Signed(word.imm, Half), m.r[word.t])]
  BY DEF Exec
<1>2. m.r[word.t] \in Int
  BY DEF IsMachine
<1>3. \A b \in DOMAIN mem : mem[b] \in Int
  BY <1>2, StoreIsTyped
<1>4. Exec(word, m) = [pc |-> m.pc + 4, r |-> m.r, lr |-> m.lr, ctr |-> m.ctr, cr |-> m.cr,
                       mem |-> mem]
  BY <1>1 DEF IsMachine
<1> HIDE DEF mem
<1>5. IsMachine(Exec(word, m))
  BY <1>3, <1>4 DEF IsMachine
<1> QED BY <1>4, <1>5 DEF mem, Stores

\* stwu stores its register at the address, which its base register becomes.
LEMMA PushRuns ==
  ASSUME NEW word, word.op = 37, NEW m, IsMachine(m), word.t \in Registers,
         word.a \in Registers, Signed(word.imm, Half) \in Int
  PROVE  Pushes(Exec(word, m), m, word.a, m.r[word.a] + Signed(word.imm, Half), m.r[word.t])
<1> DEFINE at  == m.r[word.a] + Signed(word.imm, Half)
           mem == Store(m.mem, at, m.r[word.t])
           r   == [m.r EXCEPT ![word.a] = at]
<1>1. Exec(word, m) = [[m EXCEPT !.pc = @ + 4] EXCEPT !.mem = Store(@, at, m.r[word.t]),
                                                      !.r[word.a] = at]
  BY DEF Exec
<1>2. m.r[word.t] \in Int /\ at \in Int
  BY DEF IsMachine
<1>3. \A b \in DOMAIN mem : mem[b] \in Int
  BY <1>2, StoreIsTyped
<1>4. Exec(word, m) = [pc |-> m.pc + 4, r |-> r, lr |-> m.lr, ctr |-> m.ctr, cr |-> m.cr,
                       mem |-> mem]
  BY <1>1 DEF IsMachine
<1>5. r \in [Registers -> Int]
  BY <1>2 DEF IsMachine
<1> HIDE DEF mem, r
<1>6. IsMachine(Exec(word, m))
  BY <1>3, <1>4, <1>5 DEF IsMachine
<1> QED BY <1>4, <1>6 DEF mem, r, Pushes

\* mtlr sets the link register alone.
LEMMA MoveToLrRuns ==
  ASSUME NEW word, word.op = 31, word.xo = 467, word.imm = 8, NEW m, IsMachine(m),
         word.t \in Registers
  PROVE  LET n == Exec(word, m)
         IN  /\ IsMachine(n) /\ n.pc = m.pc + 4 /\ n.r = m.r
             /\ n.lr = m.r[word.t] /\ n.ctr = m.ctr /\ n.cr = m.cr /\ n.mem = m.mem
<1>1. PICK n : n = Exec(word, m)
  OBVIOUS
<1>2. PICK x : x = m.r[word.t]
  OBVIOUS
<1>3. n = [[m EXCEPT !.pc = @ + 4] EXCEPT !.lr = x]
  BY <1>1, <1>2 DEF Exec
<1>4. x \in Int
  BY <1>2, MachineTyped
<1>5. n = [pc |-> m.pc + 4, r |-> m.r, lr |-> x, ctr |-> m.ctr, cr |-> m.cr, mem |-> m.mem]
  BY <1>3 DEF IsMachine
<1>6. /\ m.pc + 4 \in Int /\ m.lr \in Int /\ m.ctr \in Int /\ m.cr \in BOOLEAN
      /\ m.r \in [Registers -> Int]
      /\ \A a \in DOMAIN m.mem : m.mem[a] \in Int
  BY MachineTyped
<1>7. IsMachine([pc |-> m.pc + 4, r |-> m.r, lr |-> x, ctr |-> m.ctr, cr |-> m.cr,
                 mem |-> m.mem])
  BY <1>4, <1>6, MachineBuilt
<1> QED BY <1>1, <1>2, <1>5, <1>7

\* mtctr sets the counter alone.
LEMMA MoveToCtrRuns ==
  ASSUME NEW word, word.op = 31, word.xo = 467, word.imm # 8, NEW m, IsMachine(m),
         word.t \in Registers
  PROVE  LET n == Exec(word, m)
         IN  /\ IsMachine(n) /\ n.pc = m.pc + 4 /\ n.r = m.r
             /\ n.lr = m.lr /\ n.ctr = m.r[word.t] /\ n.cr = m.cr /\ n.mem = m.mem
<1>1. PICK n : n = Exec(word, m)
  OBVIOUS
<1>2. PICK x : x = m.r[word.t]
  OBVIOUS
<1>3. n = [[m EXCEPT !.pc = @ + 4] EXCEPT !.ctr = x]
  BY <1>1, <1>2 DEF Exec
<1>4. x \in Int
  BY <1>2, MachineTyped
<1>5. n = [pc |-> m.pc + 4, r |-> m.r, lr |-> m.lr, ctr |-> x, cr |-> m.cr, mem |-> m.mem]
  BY <1>3 DEF IsMachine
<1>6. /\ m.pc + 4 \in Int /\ m.lr \in Int /\ m.ctr \in Int /\ m.cr \in BOOLEAN
      /\ m.r \in [Registers -> Int]
      /\ \A a \in DOMAIN m.mem : m.mem[a] \in Int
  BY MachineTyped
<1>7. IsMachine([pc |-> m.pc + 4, r |-> m.r, lr |-> m.lr, ctr |-> x, cr |-> m.cr,
                 mem |-> m.mem])
  BY <1>4, <1>6, MachineBuilt
<1> QED BY <1>1, <1>2, <1>5, <1>7

\* mflr and mfctr set their target to the link register and to the counter.
LEMMA MoveFromRuns ==
  ASSUME NEW word, word.op = 31, word.xo = 339, NEW m, IsMachine(m), word.t \in Registers
  PROVE  Sets(Exec(word, m), m, word.t, IF word.imm = 8 THEN m.lr ELSE m.ctr)
<1> DEFINE x == IF word.imm = 8 THEN m.lr ELSE m.ctr
<1>1. Exec(word, m) = [[m EXCEPT !.pc = @ + 4] EXCEPT !.r[word.t] = x]
  BY DEF Exec
<1>2. x \in Int
  BY MachineTyped
<1> HIDE DEF x
<1>3. Sets(Exec(word, m), m, word.t, x)
  BY <1>1, <1>2, SetsRegister
<1> QED BY <1>3 DEF x

\* The words that Branch runs.
IsBranch(word) == word.op \in {16, 18} \/ (word.op = 19 /\ word.xo \in {16, 528})

\* A branch runs as Branch says.
LEMMA BranchRuns ==
  ASSUME NEW word, NEW m, IsBranch(word)
  PROVE  Exec(word, m) = Branch(word, m)
BY DEF Exec, IsBranch

\* All other words go on to the next.
LEMMA OtherRuns ==
  ASSUME NEW word, NEW m, IsMachine(m), ~IsBranch(word),
         word.op \notin {14, 15, 24, 31, 32, 36, 37}
           \/ (word.op = 31 /\ word.xo \notin {467, 339})
  PROVE  On(Exec(word, m), m)
<1>1. Exec(word, m) = [m EXCEPT !.pc = @ + 4]
  BY DEF Exec, IsBranch
<1>2. Exec(word, m) = [pc |-> m.pc + 4, r |-> m.r, lr |-> m.lr, ctr |-> m.ctr, cr |-> m.cr,
                       mem |-> m.mem]
  BY <1>1 DEF IsMachine
<1>3. /\ m.pc + 4 \in Int /\ m.lr \in Int /\ m.ctr \in Int /\ m.cr \in BOOLEAN
      /\ m.r \in [Registers -> Int]
      /\ \A a \in DOMAIN m.mem : m.mem[a] \in Int
  BY MachineTyped
<1>4. IsMachine([pc |-> m.pc + 4, r |-> m.r, lr |-> m.lr, ctr |-> m.ctr, cr |-> m.cr,
                 mem |-> m.mem])
  BY <1>3, MachineBuilt
<1> QED BY <1>2, <1>4 DEF On

-----------------------------------------------------------------------------
(* The words the stubs are made of.                                            *)

\* What fields the words of the stubs have.
LEMMA DFields ==
  ASSUME NEW op, NEW t, NEW a, NEW imm
  PROVE  /\ DForm(op, t, a, imm).op = op /\ DForm(op, t, a, imm).t = t
         /\ DForm(op, t, a, imm).a = a /\ DForm(op, t, a, imm).imm = imm % Half
         /\ DForm(op, t, a, imm).xo = 0
BY DEF DForm, Blank

\* The fields of a move to or from a special register.
LEMMA SprFields ==
  ASSUME NEW xo, NEW t, NEW spr
  PROVE  /\ Spr(xo, t, spr).op = 31 /\ Spr(xo, t, spr).xo = xo
         /\ Spr(xo, t, spr).t = t /\ Spr(xo, t, spr).imm = spr
BY DEF Spr, Blank

\* The fields of bctr.
LEMMA BctrFields ==
  /\ Bctr.op = 19 /\ Bctr.xo = 528
  /\ Bctr.link = FALSE /\ Bctr.cond = FALSE /\ Bctr.dec = FALSE
BY DEF Bctr, Blank

\* stwu r1, -16(r1)
LEMMA FrameMade ==
  ASSUME NEW m, IsMachine(m)
  PROVE  Pushes(Exec(Stwu(1, 1, -16), m), m, 1, m.r[1] - 16, m.r[1])
<1>1. PICK word : word = Stwu(1, 1, -16)
  OBVIOUS
<1>2. word.op = 37 /\ word.t = 1 /\ word.a = 1 /\ Signed(word.imm, Half) = -16
  BY <1>1, DFields, Displacements DEF Stwu
<1>3. m.r[1] \in Int /\ m.r[1] + (-16) = m.r[1] - 16
  BY MachineTyped DEF Registers
<1>4. 1 \in Registers
  BY DEF Registers
<1> QED BY <1>1, <1>2, <1>3, <1>4, PushRuns

\* stw r11, 8(r1)
LEMMA R11Saved ==
  ASSUME NEW m, IsMachine(m)
  PROVE  Stores(Exec(Stw(11, 1, 8), m), m, m.r[1] + 8, m.r[11])
<1>1. PICK word : word = Stw(11, 1, 8)
  OBVIOUS
<1>2. word.op = 36 /\ word.t = 11 /\ word.a = 1 /\ Signed(word.imm, Half) = 8
  BY <1>1, DFields, Displacements DEF Stw
<1>3. 11 \in Registers
  BY DEF Registers
<1> QED BY <1>1, <1>2, <1>3, StoreRuns

\* lis r11, high half
LEMMA HalfLoaded ==
  ASSUME NEW m, IsMachine(m), NEW address \in Nat, address <= kTop
  PROVE  Sets(Exec(Lis(11, address), m), m, 11, High(address) * Half)
<1>1. PICK word : word = Lis(11, address)
  OBVIOUS
<1>2. word.op = 15 /\ word.t = 11 /\ word.imm = High(address) /\ word.imm \in Nat
  BY <1>1, DFields, HalvesMake DEF Lis
<1>3. 11 \in Registers
  BY DEF Registers
<1> QED BY <1>1, <1>2, <1>3, LisRuns

\* ori r11, r11, low half
LEMMA AddressMade ==
  ASSUME NEW m, IsMachine(m), NEW address \in Nat, address <= kTop,
         m.r[11] = High(address) * Half
  PROVE  Sets(Exec(Ori(11, address), m), m, 11, address)
<1>1. PICK word : word = Ori(11, address)
  OBVIOUS
<1>2. word.op = 24 /\ word.t = 11 /\ word.a = 11 /\ word.imm = Low(address) /\ word.imm \in Nat
  BY <1>1, DFields, HalvesMake DEF Ori
<1>3. m.r[11] + word.imm = address
  BY <1>2, HalvesMake
<1>4. 11 \in Registers
  BY DEF Registers
<1> QED BY <1>1, <1>2, <1>3, <1>4, OriRuns

\* lwz r11, 0(r11)
LEMMA PointerRead ==
  ASSUME NEW m, IsMachine(m)
  PROVE  Sets(Exec(Lwz(11, 11, 0), m), m, 11, Read(m.mem, m.r[11]))
<1>1. PICK word : word = Lwz(11, 11, 0)
  OBVIOUS
<1>2. word.op = 32 /\ word.t = 11 /\ word.a = 11 /\ Signed(word.imm, Half) = 0
  BY <1>1, DFields, Displacements DEF Lwz
<1>3. m.r[11] \in Int /\ m.r[11] + 0 = m.r[11]
  BY MachineTyped DEF Registers
<1>4. 11 \in Registers
  BY DEF Registers
<1> QED BY <1>1, <1>2, <1>3, <1>4, LoadRuns

\* lwz r11, 8(r1)
LEMMA R11Restored ==
  ASSUME NEW m, IsMachine(m)
  PROVE  Sets(Exec(Lwz(11, 1, 8), m), m, 11, Read(m.mem, m.r[1] + 8))
<1>1. PICK word : word = Lwz(11, 1, 8)
  OBVIOUS
<1>2. word.op = 32 /\ word.t = 11 /\ word.a = 1 /\ Signed(word.imm, Half) = 8
  BY <1>1, DFields, Displacements DEF Lwz
<1>3. 11 \in Registers
  BY DEF Registers
<1> QED BY <1>1, <1>2, <1>3, LoadRuns

\* addi r1, r1, 16
LEMMA FrameGone ==
  ASSUME NEW m, IsMachine(m)
  PROVE  Sets(Exec(Addi(1, 1, 16), m), m, 1, m.r[1] + 16)
<1>1. PICK word : word = Addi(1, 1, 16)
  OBVIOUS
<1>2. word.op = 14 /\ word.t = 1 /\ word.a = 1 /\ Signed(word.imm, Half) = 16
  BY <1>1, DFields, Displacements DEF Addi
<1>3. 1 \in Registers
  BY DEF Registers
<1> QED BY <1>1, <1>2, <1>3, SumRuns

\* mtlr r11
LEMMA LinkMade ==
  ASSUME NEW m, IsMachine(m)
  PROVE  LET n == Exec(MtLr(11), m)
         IN  /\ IsMachine(n) /\ n.pc = m.pc + 4 /\ n.r = m.r
             /\ n.lr = m.r[11] /\ n.ctr = m.ctr /\ n.cr = m.cr /\ n.mem = m.mem
<1>1. PICK word : word = MtLr(11)
  OBVIOUS
<1>2. word.op = 31 /\ word.xo = 467 /\ word.t = 11 /\ word.imm = 8
  BY <1>1, SprFields DEF MtLr
<1>3. 11 \in Registers
  BY DEF Registers
<1> QED BY <1>1, <1>2, <1>3, MoveToLrRuns

\* mtctr r11
LEMMA CountMade ==
  ASSUME NEW m, IsMachine(m)
  PROVE  LET n == Exec(MtCtr(11), m)
         IN  /\ IsMachine(n) /\ n.pc = m.pc + 4 /\ n.r = m.r
             /\ n.lr = m.lr /\ n.ctr = m.r[11] /\ n.cr = m.cr /\ n.mem = m.mem
<1>1. PICK word : word = MtCtr(11)
  OBVIOUS
<1>2. word.op = 31 /\ word.xo = 467 /\ word.t = 11 /\ word.imm = 9
  BY <1>1, SprFields DEF MtCtr
<1>3. 11 \in Registers /\ word.imm # 8
  BY <1>2 DEF Registers
<1> QED BY <1>1, <1>2, <1>3, MoveToCtrRuns

\* Of a branch: what it leaves in CTR, whether it is taken, and where to.
Count(word, m)    == IF word.dec THEN m.ctr - 1 ELSE m.ctr
Taken(word, m)    == (word.cond => m.cr) /\ (word.dec => Count(word, m) # 0)
BranchTo(word, m) == IF word.op = 19 THEN IF word.xo = 16 THEN m.lr ELSE m.ctr
                     ELSE Displacement(word) + (IF word.abs THEN 0 ELSE m.pc)

\* A branch sets pc, LR and CTR.
LEMMA BranchSets ==
  ASSUME NEW word, NEW m, IsMachine(m), BranchTo(word, m) \in Int
  PROVE  LET n == Branch(word, m)
         IN  /\ IsMachine(n) /\ n.r = m.r /\ n.cr = m.cr /\ n.mem = m.mem
             /\ n.pc = (IF Taken(word, m) THEN BranchTo(word, m) ELSE m.pc + 4)
             /\ n.lr = (IF word.link THEN m.pc + 4 ELSE m.lr) /\ n.ctr = Count(word, m)
<1>1. PICK n : n = Branch(word, m)
  OBVIOUS
<1>2. PICK pc : pc = IF Taken(word, m) THEN BranchTo(word, m) ELSE m.pc + 4
  OBVIOUS
<1>3. PICK lr : lr = IF word.link THEN m.pc + 4 ELSE m.lr
  OBVIOUS
<1>4. PICK ctr : ctr = Count(word, m)
  OBVIOUS
<1>5. n = [m EXCEPT !.pc = pc, !.lr = lr, !.ctr = ctr]
  BY <1>1, <1>2, <1>3, <1>4 DEF Branch, Count, Taken, BranchTo
<1>6. n = [pc |-> pc, r |-> m.r, lr |-> lr, ctr |-> ctr, cr |-> m.cr, mem |-> m.mem]
  BY <1>5 DEF IsMachine
<1>7. pc \in Int /\ lr \in Int /\ ctr \in Int
  BY <1>2, <1>3, <1>4, MachineTyped DEF Count
<1>8. /\ m.cr \in BOOLEAN /\ m.r \in [Registers -> Int]
      /\ \A a \in DOMAIN m.mem : m.mem[a] \in Int
  BY MachineTyped
<1>9. IsMachine([pc |-> pc, r |-> m.r, lr |-> lr, ctr |-> ctr, cr |-> m.cr, mem |-> m.mem])
  BY <1>7, <1>8, MachineBuilt
<1> QED BY <1>1, <1>2, <1>3, <1>4, <1>6, <1>9

\* bctr
LEMMA CountTaken ==
  ASSUME NEW m, IsMachine(m)
  PROVE  LET n == Exec(Bctr, m)
         IN  /\ IsMachine(n) /\ n.pc = m.ctr /\ n.r = m.r
             /\ n.lr = m.lr /\ n.ctr = m.ctr /\ n.cr = m.cr /\ n.mem = m.mem
<1>1. PICK n : n = Exec(Bctr, m)
  OBVIOUS
<1>2. n = Branch(Bctr, m)
  BY <1>1, BctrFields, BranchRuns DEF IsBranch
<1>3. /\ BranchTo(Bctr, m) = m.ctr /\ Count(Bctr, m) = m.ctr
      /\ Taken(Bctr, m)
  <2>1. Taken(Bctr, m)
    BY BctrFields, Zenon DEF Taken
  <2>2. BranchTo(Bctr, m) = m.ctr
    <3>1. Bctr.op = 19 /\ Bctr.xo # 16
      BY BctrFields
    <3> QED BY <3>1 DEF BranchTo
  <2>3. Count(Bctr, m) = m.ctr
    BY BctrFields DEF Count
  <2> QED BY <2>1, <2>2, <2>3
<1>4. m.ctr \in Int
  BY MachineTyped
<1> QED BY <1>1, <1>2, <1>3, <1>4, BctrFields, BranchSets

-----------------------------------------------------------------------------
(* The stubs, word by word.  `m' is a core in one, `f' the machine as it was at  *)
(* the site, or as the last hook left it.                                        *)

\* Nothing changes in memory but the frame a stub has below the stack pointer.
Kept(m, f) == \A a : a \notin {SP - 16, SP - 8} => Read(m.mem, a) = Read(f.mem, a)

\* What a stub never touches.
Carried(m, f) == IsMachine(m) /\ Kept(m, f) /\ m.r[0] = f.r[0] /\ m.r[3] = f.r[3]

\* At the k-th word of a BuildIndirect at `at' that goes through `ptr' to `to'.
InIndirect(at, ptr, to, k, m, f) ==
  /\ m.pc = at + (4 * (k - 1))
  /\ m.r[1] = IF k \in 2..8 THEN SP - 16 ELSE SP
  /\ k \in 3..7 => Read(m.mem, SP - 8) = f.r[11]
  /\ k \in {1, 2, 3, 8, 9} => m.r[11] = f.r[11]
  /\ k = 4 => m.r[11] = High(ptr) * Half
  /\ k = 5 => m.r[11] = ptr
  /\ k \in 6..7 => m.r[11] = to
  /\ k >= 7 => m.ctr = to

\* At the k-th word of a BuildRewrite at `at' that goes on at `ret', up to the word
\* it runs for the site's.
InRewrite(at, ret, k, m, f) ==
  /\ m.pc = at + (4 * (k - 1))
  /\ m.r[1] = IF k \in 2..7 THEN SP - 16 ELSE SP
  /\ k \in 3..6 => Read(m.mem, SP - 8) = f.r[11]
  /\ k \in {1, 2, 3, 7, 8} => m.r[11] = f.r[11]
  /\ k = 4 => m.r[11] = High(ret) * Half
  /\ k \in 5..6 => m.r[11] = ret
  /\ k >= 6 => m.ctr = ret

\* At the k-th word of a BuildCall at `at' that enters `hook' to return to `ret'.
InCall(at, ret, hook, k, m) ==
  /\ m.pc = at + (4 * (k - 1))
  /\ m.r[1] = SP
  /\ k = 2 => m.r[11] = High(ret) * Half
  /\ k = 3 => m.r[11] = ret
  /\ k >= 4 => m.lr = ret
  /\ k = 5 => m.r[11] = High(hook) * Half
  /\ k >= 6 => m.r[11] = hook
  /\ k >= 7 => m.ctr = hook

\* The two addresses of the frame are apart, and below the stack pointer.
LEMMA FrameAddresses ==
  /\ SP \in Nat /\ SP - 16 \in Int /\ SP - 8 \in Int /\ SP - 16 # SP - 8
  /\ (SP - 16) + 8 = SP - 8 /\ (SP - 16) + 16 = SP
BY StackAssumption

\* A word that sets r1 or r11.
LEMMA SetsCarries ==
  ASSUME NEW m, NEW f, Carried(m, f), NEW reg \in {1, 11}, NEW x, NEW n, Sets(n, m, reg, x)
  PROVE  /\ Carried(n, f) /\ n.pc = m.pc + 4 /\ n.r[reg] = x
         /\ reg = 1 => n.r[11] = m.r[11]
         /\ reg = 11 => n.r[1] = m.r[1]
         /\ n.lr = m.lr /\ n.ctr = m.ctr /\ n.cr = m.cr /\ n.mem = m.mem
<1>1. m.r \in [Registers -> Int] /\ {0, 1, 3, 11} = Registers
  BY MachineTyped DEF Carried, Registers
<1>2. n.r = [m.r EXCEPT ![reg] = x]
  BY DEF Sets
<1>3. n.r[reg] = x /\ \A other \in {0, 1, 3, 11} : other # reg => n.r[other] = m.r[other]
  BY <1>1, <1>2
<1>4. Kept(n, f)
  BY DEF Sets, Carried, Kept
<1> QED BY <1>3, <1>4 DEF Sets, Carried

\* A word that stores into the frame.
LEMMA StoresCarries ==
  ASSUME NEW m, NEW f, Carried(m, f), NEW at \in {SP - 16, SP - 8}, NEW x, NEW n,
         Stores(n, m, at, x)
  PROVE  /\ Carried(n, f) /\ n.pc = m.pc + 4 /\ n.r = m.r /\ Read(n.mem, at) = x
         /\ n.lr = m.lr /\ n.ctr = m.ctr /\ n.cr = m.cr
<1>1. n.mem = Store(m.mem, at, x)
  BY DEF Stores
<1>2. Read(n.mem, at) = x /\ \A b : b # at => Read(n.mem, b) = Read(m.mem, b)
  <2>1. /\ Read(Store(m.mem, at, x), at) = x
        /\ \A b : b # at => Read(Store(m.mem, at, x), b) = Read(m.mem, b)
    BY DEF Store, Read
  <2> QED BY <1>1, <2>1
<1>3. Kept(n, f)
  BY <1>2 DEF Carried, Kept
<1> QED BY <1>2, <1>3 DEF Stores, Carried

\* The word that makes the frame.
LEMMA PushesCarries ==
  ASSUME NEW m, NEW f, Carried(m, f), NEW x, NEW n, Pushes(n, m, 1, SP - 16, x)
  PROVE  /\ Carried(n, f) /\ n.pc = m.pc + 4 /\ n.r[1] = SP - 16 /\ n.r[11] = m.r[11]
         /\ n.lr = m.lr /\ n.ctr = m.ctr /\ n.cr = m.cr
<1>1. n.mem = Store(m.mem, SP - 16, x)
  BY DEF Pushes
<1>2. \A b : b # SP - 16 => Read(n.mem, b) = Read(m.mem, b)
  <2>1. \A b : b # SP - 16 => Read(Store(m.mem, SP - 16, x), b) = Read(m.mem, b)
    BY DEF Store, Read
  <2> QED BY <1>1, <2>1
<1>3. Kept(n, f)
  BY <1>2 DEF Carried, Kept
<1>4. m.r \in [Registers -> Int] /\ {0, 1, 3, 11} = Registers
  BY MachineTyped DEF Carried, Registers
<1>5. n.r = [m.r EXCEPT ![1] = SP - 16]
  BY DEF Pushes
<1>6. n.r[1] = SP - 16 /\ \A other \in {0, 3, 11} : n.r[other] = m.r[other]
  BY <1>4, <1>5
<1> QED BY <1>3, <1>6 DEF Pushes, Carried

\* One word of BuildIndirect: r11 is saved and comes back, and CTR has the target.
LEMMA IndirectStep ==
  ASSUME NEW at \in Int, NEW ptr \in Nat, ptr <= kTop, ptr \notin {SP - 16, SP - 8},
         NEW to, NEW m, NEW f, Carried(m, f), Read(f.mem, ptr) = to,
         NEW k \in 1..8, InIndirect(at, ptr, to, k, m, f)
  PROVE  LET n == Exec(BuildIndirect(ptr)[k], m)
         IN  /\ Carried(n, f) /\ InIndirect(at, ptr, to, k + 1, n, f)
             /\ n.lr = m.lr /\ n.cr = m.cr
<1>1. IsMachine(m) /\ m.pc \in Int
  BY MachineTyped DEF Carried
<1>2. PICK n : n = Exec(BuildIndirect(ptr)[k], m)
  OBVIOUS
<1> SUFFICES /\ Carried(n, f) /\ InIndirect(at, ptr, to, k + 1, n, f)
             /\ n.lr = m.lr /\ n.cr = m.cr
  BY <1>2
<1> USE FrameAddresses
<1>3. CASE k = 1
  <2>1. n = Exec(Stwu(1, 1, -16), m)
    BY <1>2, <1>3 DEF BuildIndirect
  <2>2. m.r[1] = SP /\ m.r[11] = f.r[11] /\ m.pc = at
    BY <1>3 DEF InIndirect
  <2>3. Pushes(n, m, 1, SP - 16, SP)
    BY <1>1, <2>1, <2>2, FrameMade
  <2>4. /\ Carried(n, f) /\ n.pc = at + 4 /\ n.r[1] = SP - 16 /\ n.r[11] = f.r[11]
        /\ n.lr = m.lr /\ n.cr = m.cr
    BY <2>2, <2>3, PushesCarries
  <2> QED BY <1>3, <2>4 DEF InIndirect
<1>4. CASE k = 2
  <2>1. n = Exec(Stw(11, 1, 8), m)
    BY <1>2, <1>4 DEF BuildIndirect
  <2>2. m.r[1] = SP - 16 /\ m.r[11] = f.r[11] /\ m.pc = at + 4
    BY <1>4 DEF InIndirect
  <2>3. Stores(n, m, SP - 8, f.r[11])
    BY <1>1, <2>1, <2>2, R11Saved
  <2>4. /\ Carried(n, f) /\ n.pc = at + 8 /\ n.r = m.r /\ Read(n.mem, SP - 8) = f.r[11]
        /\ n.lr = m.lr /\ n.cr = m.cr
    BY <2>2, <2>3, StoresCarries
  <2> QED BY <1>4, <2>2, <2>4 DEF InIndirect
<1>5. CASE k = 3
  <2>1. n = Exec(Lis(11, ptr), m)
    BY <1>2, <1>5 DEF BuildIndirect
  <2>2. m.r[1] = SP - 16 /\ Read(m.mem, SP - 8) = f.r[11] /\ m.pc = at + 8
    BY <1>5 DEF InIndirect
  <2>3. Sets(n, m, 11, High(ptr) * Half)
    BY <1>1, <2>1, HalfLoaded
  <2>4. /\ Carried(n, f) /\ n.pc = at + 12 /\ n.r[11] = High(ptr) * Half
        /\ n.r[1] = SP - 16 /\ n.lr = m.lr /\ n.cr = m.cr /\ n.mem = m.mem
    BY <2>2, <2>3, SetsCarries
  <2> QED BY <1>5, <2>2, <2>4 DEF InIndirect
<1>6. CASE k = 4
  <2>1. n = Exec(Ori(11, ptr), m)
    BY <1>2, <1>6 DEF BuildIndirect
  <2>2. /\ m.r[1] = SP - 16 /\ Read(m.mem, SP - 8) = f.r[11] /\ m.pc = at + 12
        /\ m.r[11] = High(ptr) * Half
    BY <1>6 DEF InIndirect
  <2>3. Sets(n, m, 11, ptr)
    BY <1>1, <2>1, <2>2, AddressMade
  <2>4. /\ Carried(n, f) /\ n.pc = at + 16 /\ n.r[11] = ptr
        /\ n.r[1] = SP - 16 /\ n.lr = m.lr /\ n.cr = m.cr /\ n.mem = m.mem
    BY <2>2, <2>3, SetsCarries
  <2> QED BY <1>6, <2>2, <2>4 DEF InIndirect
<1>7. CASE k = 5
  <2>1. n = Exec(Lwz(11, 11, 0), m)
    BY <1>2, <1>7 DEF BuildIndirect
  <2>2. /\ m.r[1] = SP - 16 /\ Read(m.mem, SP - 8) = f.r[11] /\ m.pc = at + 16
        /\ m.r[11] = ptr
    BY <1>7 DEF InIndirect
  <2>3. Read(m.mem, ptr) = to
    BY DEF Carried, Kept
  <2>4. Sets(n, m, 11, to)
    BY <1>1, <2>1, <2>2, <2>3, PointerRead
  <2>5. /\ Carried(n, f) /\ n.pc = at + 20 /\ n.r[11] = to
        /\ n.r[1] = SP - 16 /\ n.lr = m.lr /\ n.cr = m.cr /\ n.mem = m.mem
    BY <2>2, <2>4, SetsCarries
  <2> QED BY <1>7, <2>2, <2>5 DEF InIndirect
<1>8. CASE k = 6
  <2>1. n = Exec(MtCtr(11), m)
    BY <1>2, <1>8 DEF BuildIndirect
  <2>2. /\ m.r[1] = SP - 16 /\ Read(m.mem, SP - 8) = f.r[11] /\ m.pc = at + 20
        /\ m.r[11] = to
    BY <1>8 DEF InIndirect
  <2>3. /\ IsMachine(n) /\ n.pc = at + 24 /\ n.r = m.r /\ n.lr = m.lr /\ n.ctr = to
        /\ n.cr = m.cr /\ n.mem = m.mem
    BY <1>1, <2>1, <2>2, CountMade
  <2>4. Carried(n, f)
    BY <2>3 DEF Carried, Kept
  <2> QED BY <1>8, <2>2, <2>3, <2>4 DEF InIndirect
<1>9. CASE k = 7
  <2>1. n = Exec(Lwz(11, 1, 8), m)
    BY <1>2, <1>9 DEF BuildIndirect
  <2>2. /\ m.r[1] = SP - 16 /\ Read(m.mem, SP - 8) = f.r[11] /\ m.pc = at + 24
        /\ m.ctr = to
    BY <1>9 DEF InIndirect
  <2>3. Sets(n, m, 11, f.r[11])
    BY <1>1, <2>1, <2>2, R11Restored
  <2>4. /\ Carried(n, f) /\ n.pc = at + 28 /\ n.r[11] = f.r[11]
        /\ n.r[1] = SP - 16 /\ n.lr = m.lr /\ n.ctr = to /\ n.cr = m.cr
    BY <2>2, <2>3, SetsCarries
  <2> QED BY <1>9, <2>2, <2>4 DEF InIndirect
<1>10. CASE k = 8
  <2>1. n = Exec(Addi(1, 1, 16), m)
    BY <1>2, <1>10 DEF BuildIndirect
  <2>2. /\ m.r[1] = SP - 16 /\ m.pc = at + 28 /\ m.r[11] = f.r[11] /\ m.ctr = to
    BY <1>10 DEF InIndirect
  <2>3. Sets(n, m, 1, SP)
    BY <1>1, <2>1, <2>2, FrameGone
  <2>4. /\ Carried(n, f) /\ n.pc = at + 32 /\ n.r[1] = SP
        /\ n.r[11] = f.r[11] /\ n.lr = m.lr /\ n.ctr = to /\ n.cr = m.cr
    BY <2>2, <2>3, SetsCarries
  <2> QED BY <1>10, <2>4 DEF InIndirect
<1> QED BY <1>3, <1>4, <1>5, <1>6, <1>7, <1>8, <1>9, <1>10

\* One word of BuildRewrite, up to the one it is for.
LEMMA RewriteStep ==
  ASSUME NEW at \in Int, NEW ret \in Nat, ret <= kTop, NEW word,
         NEW m, NEW f, Carried(m, f),
         NEW k \in 1..7, InRewrite(at, ret, k, m, f)
  PROVE  LET n == Exec(BuildRewrite(ret, word)[k], m)
         IN  /\ Carried(n, f) /\ InRewrite(at, ret, k + 1, n, f)
             /\ n.lr = m.lr /\ n.cr = m.cr
<1>1. IsMachine(m) /\ m.pc \in Int
  BY MachineTyped DEF Carried
<1>2. PICK n : n = Exec(BuildRewrite(ret, word)[k], m)
  OBVIOUS
<1> SUFFICES /\ Carried(n, f) /\ InRewrite(at, ret, k + 1, n, f)
             /\ n.lr = m.lr /\ n.cr = m.cr
  BY <1>2
<1> USE FrameAddresses
<1>3. CASE k = 1
  <2>1. n = Exec(Stwu(1, 1, -16), m)
    BY <1>2, <1>3 DEF BuildRewrite
  <2>2. m.r[1] = SP /\ m.r[11] = f.r[11] /\ m.pc = at
    BY <1>3 DEF InRewrite
  <2>3. Pushes(n, m, 1, SP - 16, SP)
    BY <1>1, <2>1, <2>2, FrameMade
  <2>4. /\ Carried(n, f) /\ n.pc = at + 4 /\ n.r[1] = SP - 16 /\ n.r[11] = f.r[11]
        /\ n.lr = m.lr /\ n.cr = m.cr
    BY <2>2, <2>3, PushesCarries
  <2> QED BY <1>3, <2>4 DEF InRewrite
<1>4. CASE k = 2
  <2>1. n = Exec(Stw(11, 1, 8), m)
    BY <1>2, <1>4 DEF BuildRewrite
  <2>2. m.r[1] = SP - 16 /\ m.r[11] = f.r[11] /\ m.pc = at + 4
    BY <1>4 DEF InRewrite
  <2>3. Stores(n, m, SP - 8, f.r[11])
    BY <1>1, <2>1, <2>2, R11Saved
  <2>4. /\ Carried(n, f) /\ n.pc = at + 8 /\ n.r = m.r /\ Read(n.mem, SP - 8) = f.r[11]
        /\ n.lr = m.lr /\ n.cr = m.cr
    BY <2>2, <2>3, StoresCarries
  <2> QED BY <1>4, <2>2, <2>4 DEF InRewrite
<1>5. CASE k = 3
  <2>1. n = Exec(Lis(11, ret), m)
    BY <1>2, <1>5 DEF BuildRewrite
  <2>2. m.r[1] = SP - 16 /\ Read(m.mem, SP - 8) = f.r[11] /\ m.pc = at + 8
    BY <1>5 DEF InRewrite
  <2>3. Sets(n, m, 11, High(ret) * Half)
    BY <1>1, <2>1, HalfLoaded
  <2>4. /\ Carried(n, f) /\ n.pc = at + 12 /\ n.r[11] = High(ret) * Half
        /\ n.r[1] = SP - 16 /\ n.lr = m.lr /\ n.cr = m.cr /\ n.mem = m.mem
    BY <2>2, <2>3, SetsCarries
  <2> QED BY <1>5, <2>2, <2>4 DEF InRewrite
<1>6. CASE k = 4
  <2>1. n = Exec(Ori(11, ret), m)
    BY <1>2, <1>6 DEF BuildRewrite
  <2>2. /\ m.r[1] = SP - 16 /\ Read(m.mem, SP - 8) = f.r[11] /\ m.pc = at + 12
        /\ m.r[11] = High(ret) * Half
    BY <1>6 DEF InRewrite
  <2>3. Sets(n, m, 11, ret)
    BY <1>1, <2>1, <2>2, AddressMade
  <2>4. /\ Carried(n, f) /\ n.pc = at + 16 /\ n.r[11] = ret
        /\ n.r[1] = SP - 16 /\ n.lr = m.lr /\ n.cr = m.cr /\ n.mem = m.mem
    BY <2>2, <2>3, SetsCarries
  <2> QED BY <1>6, <2>2, <2>4 DEF InRewrite
<1>7. CASE k = 5
  <2>1. n = Exec(MtCtr(11), m)
    BY <1>2, <1>7 DEF BuildRewrite
  <2>2. /\ m.r[1] = SP - 16 /\ Read(m.mem, SP - 8) = f.r[11] /\ m.pc = at + 16
        /\ m.r[11] = ret
    BY <1>7 DEF InRewrite
  <2>3. /\ IsMachine(n) /\ n.pc = at + 20 /\ n.r = m.r /\ n.lr = m.lr /\ n.ctr = ret
        /\ n.cr = m.cr /\ n.mem = m.mem
    BY <1>1, <2>1, <2>2, CountMade
  <2>4. Carried(n, f)
    BY <2>3 DEF Carried, Kept
  <2> QED BY <1>7, <2>2, <2>3, <2>4 DEF InRewrite
<1>8. CASE k = 6
  <2>1. n = Exec(Lwz(11, 1, 8), m)
    BY <1>2, <1>8 DEF BuildRewrite
  <2>2. /\ m.r[1] = SP - 16 /\ Read(m.mem, SP - 8) = f.r[11] /\ m.pc = at + 20
        /\ m.ctr = ret
    BY <1>8 DEF InRewrite
  <2>3. Sets(n, m, 11, f.r[11])
    BY <1>1, <2>1, <2>2, R11Restored
  <2>4. /\ Carried(n, f) /\ n.pc = at + 24 /\ n.r[11] = f.r[11]
        /\ n.r[1] = SP - 16 /\ n.lr = m.lr /\ n.ctr = ret /\ n.cr = m.cr
    BY <2>2, <2>3, SetsCarries
  <2> QED BY <1>8, <2>2, <2>4 DEF InRewrite
<1>9. CASE k = 7
  <2>1. n = Exec(Addi(1, 1, 16), m)
    BY <1>2, <1>9 DEF BuildRewrite
  <2>2. /\ m.r[1] = SP - 16 /\ m.pc = at + 24 /\ m.r[11] = f.r[11] /\ m.ctr = ret
    BY <1>9 DEF InRewrite
  <2>3. Sets(n, m, 1, SP)
    BY <1>1, <2>1, <2>2, FrameGone
  <2>4. /\ Carried(n, f) /\ n.pc = at + 28 /\ n.r[1] = SP
        /\ n.r[11] = f.r[11] /\ n.lr = m.lr /\ n.ctr = ret /\ n.cr = m.cr
    BY <2>2, <2>3, SetsCarries
  <2> QED BY <1>9, <2>4 DEF InRewrite
<1> QED BY <1>3, <1>4, <1>5, <1>6, <1>7, <1>8, <1>9

\* One word of BuildCall.
LEMMA CallStep ==
  ASSUME NEW at \in Int, NEW ret \in Nat, ret <= kTop, NEW hook \in Nat, hook <= kTop,
         NEW m, NEW f, Carried(m, f),
         NEW k \in 1..6, InCall(at, ret, hook, k, m)
  PROVE  LET n == Exec(BuildCall(ret, hook)[k], m)
         IN  Carried(n, f) /\ InCall(at, ret, hook, k + 1, n) /\ n.cr = m.cr
<1>1. IsMachine(m) /\ m.pc \in Int
  BY MachineTyped DEF Carried
<1>2. PICK n : n = Exec(BuildCall(ret, hook)[k], m)
  OBVIOUS
<1> SUFFICES Carried(n, f) /\ InCall(at, ret, hook, k + 1, n) /\ n.cr = m.cr
  BY <1>2
<1>3. CASE k = 1
  <2>1. n = Exec(Lis(11, ret), m)
    BY <1>2, <1>3 DEF BuildCall
  <2>2. m.r[1] = SP /\ m.pc = at
    BY <1>3 DEF InCall
  <2>3. Sets(n, m, 11, High(ret) * Half)
    BY <1>1, <2>1, HalfLoaded
  <2>4. /\ Carried(n, f) /\ n.pc = at + 4 /\ n.r[11] = High(ret) * Half
        /\ n.r[1] = SP /\ n.cr = m.cr
    BY <2>2, <2>3, SetsCarries
  <2> QED BY <1>3, <2>4 DEF InCall
<1>4. CASE k = 2
  <2>1. n = Exec(Ori(11, ret), m)
    BY <1>2, <1>4 DEF BuildCall
  <2>2. m.r[1] = SP /\ m.pc = at + 4 /\ m.r[11] = High(ret) * Half
    BY <1>4 DEF InCall
  <2>3. Sets(n, m, 11, ret)
    BY <1>1, <2>1, <2>2, AddressMade
  <2>4. Carried(n, f) /\ n.pc = at + 8 /\ n.r[11] = ret /\ n.r[1] = SP /\ n.cr = m.cr
    BY <2>2, <2>3, SetsCarries
  <2> QED BY <1>4, <2>4 DEF InCall
<1>5. CASE k = 3
  <2>1. n = Exec(MtLr(11), m)
    BY <1>2, <1>5 DEF BuildCall
  <2>2. m.r[1] = SP /\ m.pc = at + 8 /\ m.r[11] = ret
    BY <1>5 DEF InCall
  <2>3. /\ IsMachine(n) /\ n.pc = at + 12 /\ n.r = m.r /\ n.lr = ret
        /\ n.cr = m.cr /\ n.mem = m.mem
    BY <1>1, <2>1, <2>2, LinkMade
  <2>4. Carried(n, f)
    BY <2>3 DEF Carried, Kept
  <2> QED BY <1>5, <2>2, <2>3, <2>4 DEF InCall
<1>6. CASE k = 4
  <2>1. n = Exec(Lis(11, hook), m)
    BY <1>2, <1>6 DEF BuildCall
  <2>2. m.r[1] = SP /\ m.pc = at + 12 /\ m.lr = ret
    BY <1>6 DEF InCall
  <2>3. Sets(n, m, 11, High(hook) * Half)
    BY <1>1, <2>1, HalfLoaded
  <2>4. /\ Carried(n, f) /\ n.pc = at + 16 /\ n.r[11] = High(hook) * Half
        /\ n.r[1] = SP /\ n.lr = ret /\ n.cr = m.cr
    BY <2>2, <2>3, SetsCarries
  <2> QED BY <1>6, <2>4 DEF InCall
<1>7. CASE k = 5
  <2>1. n = Exec(Ori(11, hook), m)
    BY <1>2, <1>7 DEF BuildCall
  <2>2. m.r[1] = SP /\ m.pc = at + 16 /\ m.lr = ret /\ m.r[11] = High(hook) * Half
    BY <1>7 DEF InCall
  <2>3. Sets(n, m, 11, hook)
    BY <1>1, <2>1, <2>2, AddressMade
  <2>4. /\ Carried(n, f) /\ n.pc = at + 20 /\ n.r[11] = hook
        /\ n.r[1] = SP /\ n.lr = ret /\ n.cr = m.cr
    BY <2>2, <2>3, SetsCarries
  <2> QED BY <1>7, <2>4 DEF InCall
<1>8. CASE k = 6
  <2>1. n = Exec(MtCtr(11), m)
    BY <1>2, <1>8 DEF BuildCall
  <2>2. m.r[1] = SP /\ m.pc = at + 20 /\ m.lr = ret /\ m.r[11] = hook
    BY <1>8 DEF InCall
  <2>3. /\ IsMachine(n) /\ n.pc = at + 24 /\ n.r = m.r /\ n.lr = ret /\ n.ctr = hook
        /\ n.cr = m.cr /\ n.mem = m.mem
    BY <1>1, <2>1, <2>2, CountMade
  <2>4. Carried(n, f)
    BY <2>3 DEF Carried, Kept
  <2> QED BY <1>8, <2>2, <2>3, <2>4 DEF InCall
<1> QED BY <1>3, <1>4, <1>5, <1>6, <1>7, <1>8

\* The last word of a stub leaves all but pc.
LEMMA LastWord ==
  ASSUME NEW m, NEW f, Carried(m, f)
  PROVE  LET n == Exec(Bctr, m)
         IN  /\ Carried(n, f) /\ n.pc = m.ctr /\ n.r = m.r /\ n.lr = m.lr /\ n.cr = m.cr
<1>1. PICK n : n = Exec(Bctr, m)
  OBVIOUS
<1>2. /\ IsMachine(n) /\ n.pc = m.ctr /\ n.r = m.r
      /\ n.lr = m.lr /\ n.ctr = m.ctr /\ n.cr = m.cr /\ n.mem = m.mem
  BY <1>1, CountTaken DEF Carried
<1>3. Carried(n, f)
  BY <1>2 DEF Carried, Kept
<1> QED BY <1>1, <1>2, <1>3

-----------------------------------------------------------------------------
(* The displaced word: what it does in a stub is what it does at the site.       *)

\* Two machines that differ in pc and CTR and, in memory, in a stub's frame.
Twins(m, g) ==
  /\ IsMachine(m) /\ IsMachine(g)
  /\ m.r = g.r /\ m.lr = g.lr /\ m.cr = g.cr /\ Kept(m, g)

\* What a word loads is not in the frame.
LoadsApart(word, g) ==
  word.op = 32 => g.r[word.a] + Signed(word.imm, Half) \notin {SP - 16, SP - 8}

\* What `w' has, who went on from `g', `n' has too, outside a stub's frame and where
\* `w' wrote.
MemAlike(n, w, g) ==
  \A a : a \notin {SP - 16, SP - 8} \/ Read(w.mem, a) # Read(g.mem, a)
           => Read(n.mem, a) = Read(w.mem, a)

\* They are alike in all but pc and CTR.
RestAlike(n, w, g) == n.r = w.r /\ n.lr = w.lr /\ n.cr = w.cr /\ MemAlike(n, w, g)

\* What Classify takes.
LEMMA TakenWords ==
  ASSUME NEW word, Classify(word) = "PIC"
  PROVE  /\ word.op \in {16, 18} => word.abs
         /\ ~(word.op = 19 /\ word.xo = 528)
         /\ ~(word.op = 31 /\ word.xo \in {467, 339} /\ word.imm = 9)
<1>1. CASE word.op \in {16, 18}
  BY <1>1 DEF Classify
<1>2. CASE word.op = 19 /\ word.xo = 528
  BY <1>2 DEF Classify
<1>3. CASE word.op = 31 /\ word.xo \in {467, 339} /\ word.imm = 9
  BY <1>3 DEF Classify
<1> QED BY <1>1, <1>2, <1>3

\* The fields of a word a title or a patch may have, and their ranges.
LEMMA InstructionFields ==
  ASSUME NEW word, Instruction(word)
  PROVE  /\ word.op \in 0..63 /\ word.xo \in Nat /\ word.t \in Registers /\ word.a \in Registers
         /\ word.imm \in Nat
         /\ word.abs \in BOOLEAN /\ word.link \in BOOLEAN /\ word.dec \in BOOLEAN
         /\ word.cond \in BOOLEAN
         /\ word.op # 18 => word.imm < Half
         /\ word.op # 18 => Signed(word.imm, Half) \in Int
         /\ Displacement(word) \in Int
         /\ word.op = 18 => word.xo = 0
         /\ word.op = 31 /\ word.xo \in {467, 339} => word.imm \in {8, 9}
         /\ word.op = 32 /\ word.a = 1 => word.imm < 32768
<1>1. /\ word.op \in 0..63 /\ word.xo \in Nat /\ word.t \in Registers /\ word.a \in Registers
      /\ word.imm \in Nat
      /\ word.abs \in BOOLEAN /\ word.link \in BOOLEAN /\ word.dec \in BOOLEAN
      /\ word.cond \in BOOLEAN
  BY DEF Instruction
<1>2. /\ word.op # 18 => word.imm < Half
      /\ word.op = 18 => word.xo = 0
      /\ word.op = 31 /\ word.xo \in {467, 339} => word.imm \in {8, 9}
      /\ word.op = 32 /\ word.a = 1 => word.imm < 32768
  BY DEF Instruction
<1>3. Signed(word.imm, Half) \in Int
  BY <1>1 DEF Signed, Half
<1>4. Displacement(word) \in Int
  BY <1>1 DEF Displacement, Signed, Half
<1> QED BY <1>1, <1>2, <1>3, <1>4

\* Two machines alike in memory stay so when neither stores.
LEMMA SameMemory ==
  ASSUME NEW n, NEW w, NEW m, NEW g, Kept(m, g), n.mem = m.mem, w.mem = g.mem
  PROVE  MemAlike(n, w, g)
<1>1. ASSUME NEW a, a \notin {SP - 16, SP - 8} \/ Read(w.mem, a) # Read(g.mem, a)
      PROVE  Read(n.mem, a) = Read(w.mem, a)
  <2>1. a \notin {SP - 16, SP - 8}
    BY <1>1
  <2> QED BY <2>1 DEF Kept
<1> QED BY <1>1 DEF MemAlike

\* Two machines alike in memory stay so when both store the same word at one address.
LEMMA SameStore ==
  ASSUME NEW n, NEW w, NEW m, NEW g, Kept(m, g), NEW at, NEW x,
         n.mem = Store(m.mem, at, x), w.mem = Store(g.mem, at, x)
  PROVE  MemAlike(n, w, g)
<1>1. ASSUME NEW a, a \notin {SP - 16, SP - 8} \/ Read(w.mem, a) # Read(g.mem, a)
      PROVE  Read(n.mem, a) = Read(w.mem, a)
  <2>1. CASE a = at
    <3>1. Read(Store(m.mem, at, x), at) = x /\ Read(Store(g.mem, at, x), at) = x
      BY DEF Store, Read
    <3> QED BY <2>1, <3>1
  <2>2. CASE a # at
    <3>1. /\ Read(Store(m.mem, at, x), a) = Read(m.mem, a)
          /\ Read(Store(g.mem, at, x), a) = Read(g.mem, a)
      BY <2>2 DEF Store, Read
    <3>2. a \notin {SP - 16, SP - 8}
      BY <1>1, <3>1
    <3> QED BY <3>1, <3>2 DEF Kept
  <2> QED BY <2>1, <2>2
<1> QED BY <1>1 DEF MemAlike

\* Both put the same into a register.
LEMMA TwinsSet ==
  ASSUME NEW m, NEW g, Twins(m, g), NEW reg, NEW x, NEW n, NEW w,
         Sets(n, m, reg, x), Sets(w, g, reg, x)
  PROVE  IsMachine(n) /\ n.pc = m.pc + 4 /\ w.pc = g.pc + 4 /\ n.ctr = m.ctr /\ RestAlike(n, w, g)
<1>1. n.mem = m.mem /\ w.mem = g.mem
  BY DEF Sets
<1>2. MemAlike(n, w, g)
  BY <1>1, SameMemory DEF Twins
<1> QED BY <1>2 DEF Sets, Twins, RestAlike

\* A word that is no branch does the same to both, and goes on to the next.
LEMMA TwinsGoOn ==
  ASSUME NEW m, NEW g, Twins(m, g), NEW word, Instruction(word), Classify(word) = "PIC",
         LoadsApart(word, g), ~IsBranch(word)
  PROVE  LET n == Exec(word, m)
             w == Exec(word, g)
         IN  /\ IsMachine(n) /\ n.pc = m.pc + 4 /\ w.pc = g.pc + 4 /\ n.ctr = m.ctr
             /\ RestAlike(n, w, g)
<1>1. PICK n : n = Exec(word, m)
  OBVIOUS
<1>2. PICK w : w = Exec(word, g)
  OBVIOUS
<1> SUFFICES /\ IsMachine(n) /\ n.pc = m.pc + 4 /\ w.pc = g.pc + 4 /\ n.ctr = m.ctr
             /\ RestAlike(n, w, g)
  BY <1>1, <1>2
<1>3. /\ word.t \in Registers /\ word.a \in Registers /\ word.imm \in Nat
      /\ word.op \in 0..63
      /\ word.op # 18 => Signed(word.imm, Half) \in Int
      /\ word.op = 31 /\ word.xo \in {467, 339} => word.imm \in {8, 9}
  BY InstructionFields
<1>4. ~(word.op = 31 /\ word.xo \in {467, 339} /\ word.imm = 9)
  BY TakenWords
<1>5. IsMachine(m) /\ IsMachine(g) /\ m.r = g.r /\ m.lr = g.lr
  BY DEF Twins
<1>6. CASE word.op = 14
  <2>1. Signed(word.imm, Half) \in Int
    BY <1>3, <1>6
  <2>2. Sets(n, m, word.t, m.r[word.a] + Signed(word.imm, Half))
    BY <1>1, <1>3, <1>5, <1>6, <2>1, SumRuns
  <2>3. Sets(w, g, word.t, g.r[word.a] + Signed(word.imm, Half))
    BY <1>2, <1>3, <1>5, <1>6, <2>1, SumRuns
  <2> QED BY <1>5, <2>2, <2>3, TwinsSet
<1>7. CASE word.op = 15
  <2>1. Sets(n, m, word.t, word.imm * Half)
    BY <1>1, <1>3, <1>5, <1>7, LisRuns
  <2>2. Sets(w, g, word.t, word.imm * Half)
    BY <1>2, <1>3, <1>5, <1>7, LisRuns
  <2> QED BY <2>1, <2>2, TwinsSet
<1>8. CASE word.op = 24
  <2>1. Sets(n, m, word.a, m.r[word.t] + word.imm)
    BY <1>1, <1>3, <1>5, <1>8, OriRuns
  <2>2. Sets(w, g, word.a, g.r[word.t] + word.imm)
    BY <1>2, <1>3, <1>5, <1>8, OriRuns
  <2> QED BY <1>5, <2>1, <2>2, TwinsSet
<1>9. CASE word.op = 32
  <2> DEFINE at == g.r[word.a] + Signed(word.imm, Half)
  <2>1. Sets(n, m, word.t, Read(m.mem, m.r[word.a] + Signed(word.imm, Half)))
    BY <1>1, <1>3, <1>5, <1>9, LoadRuns
  <2>2. Sets(w, g, word.t, Read(g.mem, at))
    BY <1>2, <1>3, <1>5, <1>9, LoadRuns
  <2>3. Read(m.mem, at) = Read(g.mem, at)
    BY <1>9 DEF LoadsApart, Twins, Kept
  <2>4. Sets(n, m, word.t, Read(g.mem, at))
    BY <1>5, <2>1, <2>3
  <2> QED BY <2>2, <2>4, TwinsSet
<1>10. CASE word.op = 36
  <2> DEFINE at == g.r[word.a] + Signed(word.imm, Half)
  <2>1. Stores(n, m, at, g.r[word.t])
    BY <1>1, <1>3, <1>5, <1>10, StoreRuns
  <2>2. Stores(w, g, at, g.r[word.t])
    BY <1>2, <1>3, <1>5, <1>10, StoreRuns
  <2> HIDE DEF at
  <2>3. n.mem = Store(m.mem, at, g.r[word.t]) /\ w.mem = Store(g.mem, at, g.r[word.t])
    BY <2>1, <2>2 DEF Stores
  <2>4. MemAlike(n, w, g)
    BY <2>3, SameStore DEF Twins
  <2> QED BY <2>1, <2>2, <2>4 DEF Stores, Twins, RestAlike
<1>11. CASE word.op = 37
  <2> DEFINE at == g.r[word.a] + Signed(word.imm, Half)
  <2>1. Signed(word.imm, Half) \in Int
    BY <1>3, <1>11
  <2>2. Pushes(n, m, word.a, at, g.r[word.t])
    BY <1>1, <1>3, <1>5, <1>11, <2>1, PushRuns
  <2>3. Pushes(w, g, word.a, at, g.r[word.t])
    BY <1>2, <1>3, <1>5, <1>11, <2>1, PushRuns
  <2> HIDE DEF at
  <2>4. n.mem = Store(m.mem, at, g.r[word.t]) /\ w.mem = Store(g.mem, at, g.r[word.t])
    BY <2>2, <2>3 DEF Pushes
  <2>5. MemAlike(n, w, g)
    BY <2>4, SameStore DEF Twins
  <2> QED BY <2>2, <2>3, <2>5 DEF Pushes, Twins, RestAlike
<1>12. CASE word.op = 31 /\ word.xo = 467
  <2>1. word.imm = 8
    BY <1>3, <1>4, <1>12
  <2>2. /\ IsMachine(n) /\ n.pc = m.pc + 4 /\ n.r = m.r
        /\ n.lr = m.r[word.t] /\ n.ctr = m.ctr /\ n.cr = m.cr /\ n.mem = m.mem
    BY <1>1, <1>3, <1>5, <1>12, <2>1, MoveToLrRuns
  <2>3. /\ IsMachine(w) /\ w.pc = g.pc + 4 /\ w.r = g.r
        /\ w.lr = g.r[word.t] /\ w.ctr = g.ctr /\ w.cr = g.cr /\ w.mem = g.mem
    BY <1>2, <1>3, <1>5, <1>12, <2>1, MoveToLrRuns
  <2>4. MemAlike(n, w, g)
    BY <2>2, <2>3, SameMemory DEF Twins
  <2> QED BY <2>2, <2>3, <2>4 DEF Twins, RestAlike
<1>13. CASE word.op = 31 /\ word.xo = 339
  <2>1. word.imm = 8
    BY <1>3, <1>4, <1>13
  <2>2. Sets(n, m, word.t, m.lr)
    BY <1>1, <1>3, <1>5, <1>13, <2>1, MoveFromRuns
  <2>3. Sets(w, g, word.t, g.lr)
    BY <1>2, <1>3, <1>5, <1>13, <2>1, MoveFromRuns
  <2> QED BY <1>5, <2>2, <2>3, TwinsSet
<1>14. CASE word.op \notin {14, 15, 24, 31, 32, 36, 37} \/ (word.op = 31 /\ word.xo \notin {467, 339})
  <2>1. On(n, m) /\ On(w, g)
    BY <1>1, <1>2, <1>5, <1>14, OtherRuns
  <2>2. n.mem = m.mem /\ w.mem = g.mem
    BY <2>1 DEF On
  <2>3. MemAlike(n, w, g)
    BY <2>2, SameMemory DEF Twins
  <2> QED BY <2>1, <2>3 DEF On, Twins, RestAlike
<1> QED BY <1>6, <1>7, <1>8, <1>9, <1>10, <1>11, <1>12, <1>13, <1>14

\* A branch that is taken leads both to the same place.
LEMMA TwinsBranch ==
  ASSUME NEW m, NEW g, Twins(m, g), NEW word, Instruction(word), Classify(word) = "PIC",
         IsBranch(word)
  PROVE  LET n == Exec(word, m)
             w == Exec(word, g)
         IN  /\ IsMachine(n) /\ n.ctr = (IF word.dec THEN m.ctr - 1 ELSE m.ctr)
             /\ n.pc = m.pc + 4 \/ n.pc = g.lr
                  \/ (word.op \in {16, 18} /\ word.abs /\ n.pc = Displacement(word))
             /\ ~word.dec /\ ~word.link =>
                  /\ RestAlike(n, w, g)
                  /\ (n.pc = m.pc + 4 /\ w.pc = g.pc + 4) \/ n.pc = w.pc
             /\ ~word.dec => (n.pc = m.pc + 4 /\ w.pc = g.pc + 4) \/ n.pc = w.pc
<1>1. PICK n : n = Exec(word, m)
  OBVIOUS
<1>2. PICK w : w = Exec(word, g)
  OBVIOUS
<1>3. IsMachine(m) /\ IsMachine(g) /\ m.r = g.r /\ m.lr = g.lr /\ m.cr = g.cr
  BY DEF Twins
<1>4. PICK to : to = IF word.op = 19 THEN g.lr ELSE Displacement(word)
  OBVIOUS
<1>5. to \in Int
  BY <1>3, <1>4, InstructionFields, MachineTyped
<1>6. BranchTo(word, m) = to /\ BranchTo(word, g) = to
  <2>1. CASE word.op = 19
    <3>1. word.xo = 16
      BY <2>1, TakenWords DEF IsBranch
    <3> QED BY <1>3, <1>4, <2>1, <3>1 DEF BranchTo
  <2>2. CASE word.op # 19
    <3>1. word.op \in {16, 18} /\ word.abs
      BY <2>2, TakenWords DEF IsBranch
    <3>2. to = Displacement(word) /\ Displacement(word) \in Int
      BY <1>4, <2>2, InstructionFields
    <3> QED BY <2>2, <3>1, <3>2 DEF BranchTo
  <2> QED BY <2>1, <2>2
<1>7. /\ IsMachine(n) /\ n.r = m.r /\ n.cr = m.cr /\ n.mem = m.mem
      /\ n.pc = (IF Taken(word, m) THEN to ELSE m.pc + 4)
      /\ n.lr = (IF word.link THEN m.pc + 4 ELSE m.lr) /\ n.ctr = Count(word, m)
  BY <1>1, <1>3, <1>5, <1>6, BranchRuns, BranchSets
<1>8. /\ IsMachine(w) /\ w.r = g.r /\ w.cr = g.cr /\ w.mem = g.mem
      /\ w.pc = (IF Taken(word, g) THEN to ELSE g.pc + 4)
      /\ w.lr = (IF word.link THEN g.pc + 4 ELSE g.lr)
  BY <1>2, <1>3, <1>5, <1>6, BranchRuns, BranchSets
<1>9. MemAlike(n, w, g)
  BY <1>7, <1>8, SameMemory DEF Twins
<1>10. ~word.dec => (Taken(word, m) <=> Taken(word, g))
  BY <1>3 DEF Taken
<1>11. to = g.lr \/ (word.op \in {16, 18} /\ word.abs /\ to = Displacement(word))
  BY <1>4, TakenWords DEF IsBranch
<1>12. ~word.link => n.lr = w.lr
  BY <1>3, <1>7, <1>8
<1>13. ~word.link => RestAlike(n, w, g)
  BY <1>3, <1>7, <1>8, <1>9, <1>12 DEF RestAlike
<1>14. ~word.dec => (n.pc = m.pc + 4 /\ w.pc = g.pc + 4) \/ n.pc = w.pc
  BY <1>7, <1>8, <1>10
<1>15. n.pc = m.pc + 4 \/ n.pc = to
  BY <1>7
<1>16. n.ctr = (IF word.dec THEN m.ctr - 1 ELSE m.ctr)
  BY <1>7 DEF Count
<1> QED BY <1>1, <1>2, <1>7, <1>11, <1>13, <1>14, <1>15, <1>16

-----------------------------------------------------------------------------
(* What is written where.                                                      *)

\* A word that may be at the site.
Fit(word) ==
  /\ Instruction(word)
  /\ word.op \in {16, 18} /\ word.abs => Elsewhere(scene.place, Displacement(word))

\* The scene is one of those Init starts with.
SceneOK ==
  /\ scene.shape \in {"JUMP", "CALL", "REWRITE"}
  /\ scene.place \in Places
  /\ scene.backend \in {"direct", "fp"}
  /\ scene.external \in BOOLEAN /\ (scene.external => scene.shape = "JUMP")
  /\ scene.hooks \in 0..MaxHooks /\ (scene.hooks = 0 <=> scene.shape = "REWRITE")
  /\ Fit(scene.live)
  /\ scene.shape = "REWRITE" => Fit(scene.replacement)

\* The slots of the stubs: the entry, the thunk, and two of each link.
StubWords(j) ==
  IF j = 0 THEN IF scene.shape = "REWRITE" THEN BuildRewrite(Ret, scene.replacement)
                                           ELSE BuildIndirect(HeadAt)
  ELSE IF j = 1 THEN BuildRewrite(Ret, scene.live)
  ELSE IF j % 2 = 0 THEN BuildIndirect(NextAt(j \div 2))
  ELSE BuildCall(Ret, HookAt(j \div 2))

\* What slot j holds, and all that is written into slots and at the site.
Stub(j) == Written(SiteSlot + (64 * j), StubWords(j))

StubParts == PrepareSite \cup UNION {PrepareLink(i) : i \in 1..scene.hooks}
SiteParts == {Written(w.at, <<w.word>>) : w \in Patched}

\* Where things are.
LEMMA WhereThingsAre ==
  ASSUME SceneOK
  PROVE  /\ Site \in Nat /\ SiteSlot \in Nat /\ Ret \in Nat /\ Ret <= kTop /\ Ret = Site + 4
         /\ EntryAddr = SiteSlot /\ ThunkAddr \in {0, SiteSlot + 64}
         /\ HeadAt \in Nat /\ HeadAt <= kTop /\ HeadAt = SiteSlot + 65536
         /\ MaxHooks <= 255 /\ scene.hooks \in Nat /\ scene.hooks <= 255
         /\ \A i \in 1..MaxHooks :
              /\ NextShim(i) = SiteSlot + (128 * i)
              /\ LinkSlot(i) + (4 * kLinkCallOffset) = SiteSlot + (128 * i) + 64
              /\ HookAt(i) = SiteSlot + 32768 + (64 * i) /\ HookAt(i) \in Nat /\ HookAt(i) <= kTop
              /\ NextAt(i) = SiteSlot + 65536 + (4 * i) /\ NextAt(i) \in Nat /\ NextAt(i) <= kTop
         /\ Site + 4 < SiteSlot \/ SiteSlot + 131072 <= Site
         /\ SP + 8 < SiteSlot \/ SiteSlot + 131072 <= SP - 16
<1>1. /\ Site \in Nat /\ SiteSlot \in Nat /\ Site + 4 <= kTop /\ SiteSlot + 131072 <= kTop
      /\ Site + 4 < SiteSlot \/ SiteSlot + 131072 <= Site
      /\ SP + 8 < SiteSlot \/ SiteSlot + 131072 <= SP - 16
  BY PlacesAssumption DEF SceneOK, Site, SiteSlot
<1>2. MaxHooks \in 0..255 /\ scene.hooks \in 0..MaxHooks
  BY HooksAssumption DEF SceneOK
<1>3. kTop \in Nat
  BY SMT DEF kTop
<1>4. Ret = Site + 4
  BY DEF Ret
<1>5. EntryAddr = SiteSlot /\ ThunkAddr \in {0, SiteSlot + 64}
  BY <1>1 DEF EntryAddr, ThunkAddr, kSiteEntryOffset, kSiteThunkOffset
<1>6. HeadAt = SiteSlot + 65536
  BY DEF HeadAt, SiteSlot
<1>7. ASSUME NEW i \in 1..MaxHooks
      PROVE  /\ NextShim(i) = SiteSlot + (128 * i)
             /\ LinkSlot(i) + (4 * kLinkCallOffset) = SiteSlot + (128 * i) + 64
             /\ HookAt(i) = SiteSlot + 32768 + (64 * i) /\ HookAt(i) \in Nat /\ HookAt(i) <= kTop
             /\ NextAt(i) = SiteSlot + 65536 + (4 * i) /\ NextAt(i) \in Nat /\ NextAt(i) <= kTop
  <2>1. i \in Nat /\ 1 <= i /\ i <= 255
    BY <1>2
  <2>2. LinkSlot(i) = SiteSlot + (128 * i)
    BY <1>1, <2>1 DEF LinkSlot, SiteSlot, kSlotWords
  <2>3. /\ HookAt(i) = SiteSlot + 32768 + (64 * i)
        /\ NextAt(i) = SiteSlot + 65536 + (4 * i)
    BY DEF HookAt, NextAt, SiteSlot
  <2>4. NextShim(i) = LinkSlot(i)
    BY <1>1, <2>1, <2>2 DEF NextShim, kLinkNextOffset
  <2>5. LinkSlot(i) + (4 * kLinkCallOffset) = SiteSlot + (128 * i) + 64
    BY <1>1, <2>1, <2>2 DEF kLinkCallOffset
  <2> QED BY <1>1, <1>3, <2>1, <2>2, <2>3, <2>4, <2>5
<1> QED BY <1>1, <1>2, <1>3, <1>4, <1>5, <1>6, <1>7

\* Of parts of which no two have an address in common, each is in the whole.
LEMMA PartIsThere ==
  ASSUME NEW parts, NEW part \in parts, NEW a \in DOMAIN part,
         \A other \in parts : a \in DOMAIN other => other = part
  PROVE  a \in DOMAIN Merged(parts) /\ Merged(parts)[a] = part[a]
<1>1. a \in UNION {DOMAIN p : p \in parts}
  OBVIOUS
<1>2. (CHOOSE p \in parts : a \in DOMAIN p) = part
  OBVIOUS
<1>3. Merged(parts)[a] = (CHOOSE p \in parts : a \in DOMAIN p)[a]
  BY <1>1 DEF Merged
<1> QED BY <1>1, <1>2, <1>3 DEF Merged

\* Words are written one after the other.
LEMMA WordIsThere ==
  ASSUME NEW at \in Int, NEW words, NEW n \in Nat, DOMAIN words = 1..n
  PROVE  /\ \A k \in 1..n : /\ at + (4 * (k - 1)) \in DOMAIN Written(at, words)
                            /\ Written(at, words)[at + (4 * (k - 1))] = words[k]
         /\ \A a \in DOMAIN Written(at, words) : a \in Int /\ at <= a /\ a <= at + (4 * (n - 1))
<1>1. DOMAIN Written(at, words) = {at + (4 * (k - 1)) : k \in 1..n}
  BY DEF Written
<1>2. ASSUME NEW k \in 1..n
      PROVE  /\ at + (4 * (k - 1)) \in DOMAIN Written(at, words)
             /\ Written(at, words)[at + (4 * (k - 1))] = words[k]
  <2>1. at + (4 * (k - 1)) \in DOMAIN Written(at, words)
    BY <1>1
  <2>2. (((at + (4 * (k - 1))) - at) \div 4) + 1 = k
    OBVIOUS
  <2>3. Written(at, words)[at + (4 * (k - 1))] = words[(((at + (4 * (k - 1))) - at) \div 4) + 1]
    BY <2>1 DEF Written
  <2> QED BY <2>1, <2>2, <2>3
<1> QED BY <1>1, <1>2

\* How many words BuildRewrite, BuildIndirect and BuildCall emit.
LEMMA StubLengths ==
  /\ \A ret, word : DOMAIN BuildRewrite(ret, word) = 1..9
  /\ \A ptr : DOMAIN BuildIndirect(ptr) = 1..9
  /\ \A ret, hook : DOMAIN BuildCall(ret, hook) = 1..7
BY DEF BuildRewrite, BuildIndirect, BuildCall

\* A stub stays in its slot.
LEMMA StubIsThere ==
  ASSUME SceneOK, NEW j \in 0..511
  PROVE  /\ \A k \in DOMAIN StubWords(j) :
              /\ SiteSlot + (64 * j) + (4 * (k - 1)) \in DOMAIN Stub(j)
              /\ Stub(j)[SiteSlot + (64 * j) + (4 * (k - 1))] = StubWords(j)[k]
         /\ \A a \in DOMAIN Stub(j) :
              a \in Int /\ SiteSlot + (64 * j) <= a /\ a <= SiteSlot + (64 * j) + 32
<1>1. PICK n \in {7, 9} : DOMAIN StubWords(j) = 1..n
  BY StubLengths DEF StubWords
<1>2. SiteSlot \in Nat /\ SiteSlot + (64 * j) \in Int
  BY WhereThingsAre
<1>3. /\ \A k \in 1..n :
           /\ SiteSlot + (64 * j) + (4 * (k - 1)) \in DOMAIN Stub(j)
           /\ Stub(j)[SiteSlot + (64 * j) + (4 * (k - 1))] = StubWords(j)[k]
      /\ \A a \in DOMAIN Stub(j) :
           a \in Int /\ SiteSlot + (64 * j) <= a /\ a <= SiteSlot + (64 * j) + (4 * (n - 1))
  <2>1. PICK at : at = SiteSlot + (64 * j)
    OBVIOUS
  <2>2. PICK words : words = StubWords(j)
    OBVIOUS
  <2>3. Stub(j) = Written(at, words)
    BY <2>1, <2>2 DEF Stub
  <2>4. at \in Int /\ n \in Nat /\ DOMAIN words = 1..n
    BY <1>1, <1>2, <2>1, <2>2
  <2>5. /\ \A k \in 1..n : /\ at + (4 * (k - 1)) \in DOMAIN Written(at, words)
                           /\ Written(at, words)[at + (4 * (k - 1))] = words[k]
        /\ \A a \in DOMAIN Written(at, words) : a \in Int /\ at <= a /\ a <= at + (4 * (n - 1))
    BY <2>4, WordIsThere
  <2> QED BY <2>1, <2>2, <2>3, <2>5
<1>4. 4 * (n - 1) \in Nat /\ 4 * (n - 1) <= 32
  BY <1>1
<1>5. \A a \in DOMAIN Stub(j) : a <= SiteSlot + (64 * j) + 32
  BY <1>2, <1>3, <1>4
<1> QED BY <1>1, <1>3, <1>5

\* All that is written besides the site is a stub in its slot.
LEMMA PartsAreStubs ==
  ASSUME SceneOK
  PROVE  /\ \A part \in StubParts : \E j \in 0..511 : part = Stub(j)
         /\ Stub(0) \in StubParts
         /\ ThunkAddr # 0 => ThunkAddr = SiteSlot + 64 /\ Stub(1) \in StubParts
         /\ \A i \in 1..scene.hooks :
              /\ Stub(2 * i) \in StubParts /\ StubWords(2 * i) = BuildIndirect(NextAt(i))
              /\ scene.shape = "CALL" => /\ Stub((2 * i) + 1) \in StubParts
                                         /\ StubWords((2 * i) + 1) = BuildCall(Ret, HookAt(i))
<1>1. SiteSlot \in Nat /\ EntryAddr = SiteSlot /\ ThunkAddr \in {0, SiteSlot + 64}
  BY WhereThingsAre
<1>2. /\ Stub(0) = Written(EntryAddr, StubWords(0))
      /\ Stub(1) = Written(SiteSlot + 64, BuildRewrite(Ret, scene.live))
  <2>1. SiteSlot + (64 * 0) = SiteSlot /\ SiteSlot + (64 * 1) = SiteSlot + 64
    BY <1>1
  <2>2. StubWords(1) = BuildRewrite(Ret, scene.live)
    BY DEF StubWords
  <2> QED BY <1>1, <2>1, <2>2 DEF Stub
<1>3. /\ Stub(0) \in PrepareSite
      /\ \A part \in PrepareSite : part = Stub(0) \/ part = Stub(1)
      /\ ThunkAddr # 0 => Stub(1) \in PrepareSite
  <2>1. CASE scene.shape = "REWRITE"
    <3>1. PrepareSite = {Stub(0)} /\ ThunkAddr = 0
      BY <1>2, <2>1 DEF PrepareSite, StubWords, ThunkAddr
    <3> QED BY <3>1
  <2>2. CASE scene.shape # "REWRITE"
    <3>1. Stub(0) = Written(EntryAddr, BuildIndirect(HeadAt))
      BY <1>2, <2>2 DEF StubWords
    <3>2. ThunkAddr # 0 => Stub(1) = Written(ThunkAddr, BuildRewrite(Ret, scene.live))
      BY <1>1, <1>2
    <3>3. PrepareSite = {Stub(0)} \cup (IF ThunkAddr = 0 THEN {} ELSE {Stub(1)})
      BY <2>2, <3>1, <3>2 DEF PrepareSite
    <3> QED BY <3>3
  <2> QED BY <2>1, <2>2
<1>4. ASSUME NEW i \in 1..scene.hooks
      PROVE  /\ i \in 1..255 /\ 2 * i \in 0..511 /\ (2 * i) + 1 \in 0..511
             /\ StubWords(2 * i) = BuildIndirect(NextAt(i))
             /\ StubWords((2 * i) + 1) = BuildCall(Ret, HookAt(i))
             /\ PrepareLink(i) = {Stub(2 * i)} \cup
                  (IF scene.shape # "CALL" THEN {} ELSE {Stub((2 * i) + 1)})
  <2>1. i \in Nat /\ 1 <= i /\ i <= 255 /\ i \in 1..MaxHooks
    <3>1. scene.hooks \in Nat /\ MaxHooks \in Nat /\ scene.hooks <= MaxHooks /\ MaxHooks <= 255
      BY HooksAssumption DEF SceneOK
    <3> QED BY <3>1
  <2>2. /\ (2 * i) % 2 = 0 /\ (2 * i) \div 2 = i /\ 2 * i # 0 /\ 2 * i # 1
        /\ ((2 * i) + 1) % 2 = 1 /\ ((2 * i) + 1) \div 2 = i
        /\ (2 * i) + 1 # 0 /\ (2 * i) + 1 # 1
    BY <2>1
  <2>3. /\ StubWords(2 * i) = BuildIndirect(NextAt(i))
        /\ StubWords((2 * i) + 1) = BuildCall(Ret, HookAt(i))
    BY <2>2 DEF StubWords
  <2>4. /\ SiteSlot + (64 * (2 * i)) = SiteSlot + (128 * i)
        /\ SiteSlot + (64 * ((2 * i) + 1)) = SiteSlot + (128 * i) + 64
    BY <1>1, <2>1
  <2>5. /\ LinkSlot(i) + (4 * kLinkNextOffset) = SiteSlot + (128 * i)
        /\ LinkSlot(i) + (4 * kLinkCallOffset) = SiteSlot + (128 * i) + 64
    BY <2>1, WhereThingsAre DEF NextShim
  <2>6. /\ Stub(2 * i) = Written(LinkSlot(i) + (4 * kLinkNextOffset), BuildIndirect(NextAt(i)))
        /\ Stub((2 * i) + 1) = Written(LinkSlot(i) + (4 * kLinkCallOffset),
                                       BuildCall(Ret, HookAt(i)))
    BY <2>3, <2>4, <2>5 DEF Stub
  <2>7. PrepareLink(i) = {Stub(2 * i)} \cup
          (IF scene.shape # "CALL" THEN {} ELSE {Stub((2 * i) + 1)})
    BY <2>6 DEF PrepareLink
  <2> QED BY <2>1, <2>3, <2>7
<1>5. ASSUME NEW part \in StubParts PROVE \E j \in 0..511 : part = Stub(j)
  <2>1. CASE part \in PrepareSite
    BY <1>3, <2>1
  <2>2. CASE part \notin PrepareSite
    <3>1. PICK i \in 1..scene.hooks : part \in PrepareLink(i)
      BY <2>2 DEF StubParts
    <3> QED BY <1>4, <3>1
  <2> QED BY <2>1, <2>2
<1>6. ASSUME NEW i \in 1..scene.hooks
      PROVE  Stub(2 * i) \in StubParts /\ (scene.shape = "CALL" => Stub((2 * i) + 1) \in StubParts)
  BY <1>4, <1>6 DEF StubParts
<1>7. Stub(0) \in StubParts /\ (ThunkAddr # 0 => Stub(1) \in StubParts)
  BY <1>3 DEF StubParts
<1> QED BY <1>1, <1>4, <1>5, <1>6, <1>7

\* There is one way to encode a branch, if any.
LEMMA OneBranch ==
  ASSUME NEW at, NEW to, NEW link
  PROVE  /\ EncodeBranch(at, to, link) # {} => \E word : EncodeBranch(at, to, link) = {word}
         /\ EncodeAbsoluteBranch(to, link) # {} => \E word : EncodeAbsoluteBranch(to, link) = {word}
<1>1. EncodeBranch(at, to, link) # {} => \E word : EncodeBranch(at, to, link) = {word}
  <2>1. CASE at % 4 = 0 /\ to % 4 = 0 /\ Reaches(to - at)
    <3>1. EncodeBranch(at, to, link) =
          {[Blank EXCEPT !.op = 18, !.imm = (to - at) % 67108864, !.link = link]}
      BY <2>1, SMT DEF EncodeBranch
    <3> QED BY <3>1, SMT
  <2>2. CASE ~(at % 4 = 0 /\ to % 4 = 0 /\ Reaches(to - at))
    BY <2>2, SMT DEF EncodeBranch
  <2> QED BY <2>1, <2>2
<1>2. EncodeAbsoluteBranch(to, link) # {} => \E word : EncodeAbsoluteBranch(to, link) = {word}
  BY SMT DEF EncodeAbsoluteBranch
<1> QED BY <1>1, <1>2

\* A site is patched in one place only, whoever patches it.
Patch(word) == [at |-> Site, word |-> word]

\* Which write installs the site: the direct backend's one word, or the jump the
\* FunctionPatcher module makes.
LEMMA PatchedHow ==
  ASSUME SceneOK, Applies
  PROVE  \/ /\ scene.backend = "direct"
            /\ \E word \in SiteWords : Patched = {Patch(word)}
         \/ scene.backend = "fp" /\ Patched = {Patch(JumpAnywhere(scene.external))}
<1>1. CASE scene.backend = "direct"
  <2>1. Patched = {Patch(word) : word \in SiteWords} /\ SiteWords # {}
    BY <1>1 DEF Patched, Patch, Applies
  <2>2. \E word : SiteWords = {word}
    BY <2>1, OneBranch DEF SiteWords
  <2> QED BY <1>1, <2>1, <2>2
<1>2. CASE scene.backend = "fp"
  <2>1. FpApply(scene.place, scene.external) # {}
    BY <1>2 DEF Applies
  <2>2. \A told \in FpApply(scene.place, scene.external) :
          /\ told.gated = scene.external /\ Patches(scene.place, told) = {Site}
    <3> TAKE told \in FpApply(scene.place, scene.external)
    <3>1. told \in Describe(scene.place, scene.external)
      BY DEF FpApply
    <3>2. told.gated = scene.external
      <4>1. CASE scene.external /\ ~scene.place.byAddress
        <5>1. told.gated = TRUE
          BY <3>1, <4>1 DEF Describe
        <5> QED BY <4>1, <5>1 DEF SceneOK
      <4>2. CASE ~(scene.external /\ ~scene.place.byAddress)
                 /\ (scene.external \/ scene.place.byPhysical)
        BY <3>1, <4>2 DEF Describe
      <4>3. CASE ~(scene.external \/ scene.place.byPhysical)
        <5>1. told.gated = FALSE
          BY <3>1, <4>3 DEF Describe
        <5> QED BY <4>3, <5>1 DEF SceneOK
      <4> QED BY <4>1, <4>2, <4>3
    <3>3. PICK p : p = scene.place
      OBVIOUS
    <3>4. PICK count : count = Len(p.modules)
      OBVIOUS
    <3>5. /\ count \in Nat /\ DOMAIN p.modules = 1..count /\ kMaxModules \in Nat
          /\ \A i \in 1..count : /\ p.modules[i].text \in Nat
                                 /\ p.modules[i].name = NoName => i <= kMaxModules
      BY <3>3, <3>4, ModulesAssumption DEF SceneOK
    <3>6. p.site \in Nat
      BY <3>3, PlacesAssumption DEF SceneOK
    <3>7. scene.external \in BOOLEAN
      BY DEF SceneOK
    <3>8. Patches(p, told) = {p.site}
      BY <3>3, <3>5, <3>6, <3>7, PatchesTheSite
    <3> QED BY <3>2, <3>3, <3>8 DEF Site
  <2>3. Patched = UNION {{[at |-> at, word |-> JumpAnywhere(told.gated)] :
                            at \in Patches(scene.place, told)} :
                          told \in FpApply(scene.place, scene.external)}
    BY <1>2 DEF Patched
  <2>4. Patched = UNION {{Patch(JumpAnywhere(scene.external))} :
                          told \in FpApply(scene.place, scene.external)}
    BY <2>2, <2>3 DEF Patch
  <2> QED BY <1>2, <2>1, <2>4
<1> QED BY <1>1, <1>2 DEF SceneOK

-----------------------------------------------------------------------------

\* Where the slots are.
InSlots(a) == a \in Int /\ SiteSlot <= a /\ a < SiteSlot + 32768

\* Stubs in different slots have no address in common, nor with the site.
LEMMA StubsApart ==
  ASSUME SceneOK
  PROVE  \A j \in 0..511 : \A a \in DOMAIN Stub(j) :
           /\ InSlots(a) /\ a # Site
           /\ \A other \in 0..511 : a \in DOMAIN Stub(other) => other = j
<1> SUFFICES ASSUME NEW j \in 0..511, NEW a \in DOMAIN Stub(j)
             PROVE  /\ InSlots(a) /\ a # Site
                    /\ \A other \in 0..511 : a \in DOMAIN Stub(other) => other = j
  OBVIOUS
<1>1. /\ SiteSlot \in Nat /\ Site \in Nat
      /\ Site + 4 < SiteSlot \/ SiteSlot + 131072 <= Site
  BY WhereThingsAre
<1>2. a \in Int /\ SiteSlot + (64 * j) <= a /\ a <= SiteSlot + (64 * j) + 32
  BY StubIsThere
<1>3. ASSUME NEW other \in 0..511, a \in DOMAIN Stub(other) PROVE other = j
  <2>1. SiteSlot + (64 * other) <= a /\ a <= SiteSlot + (64 * other) + 32
    BY <1>3, StubIsThere
  <2> QED BY <1>1, <1>2, <2>1
<1>4. /\ j \in Nat /\ j <= 511 /\ 64 * j \in Nat /\ 64 * j <= 32704
  OBVIOUS
<1>5. InSlots(a) /\ a # Site
  BY <1>1, <1>2, <1>4 DEF InSlots
<1> QED BY <1>3, <1>5

\* The word at the site.
LEMMA SiteIsThere ==
  ASSUME SceneOK, NEW word
  PROVE  /\ DOMAIN Written(Site, <<word>>) = {Site} /\ Written(Site, <<word>>)[Site] = word
<1>1. Site \in Nat
  BY WhereThingsAre
<1>2. PICK words : words = <<word>>
  OBVIOUS
<1>3. DOMAIN words = 1..1 /\ words[1] = word
  BY <1>2
<1>4. PICK at : at = Site
  OBVIOUS
<1>5. DOMAIN Written(at, words) = {at}
  BY <1>1, <1>3, <1>4 DEF Written
<1>6. Written(at, words)[at] = words[((at - at) \div 4) + 1]
  BY <1>5 DEF Written
<1>7. ((at - at) \div 4) + 1 = 1
  BY <1>1, <1>4
<1> QED BY <1>2, <1>3, <1>4, <1>5, <1>6, <1>7

\* What the code memory holds once the site is installed: every stub at its slot, the
\* branch at the site, and nothing else.
LEMMA CodeIs ==
  ASSUME SceneOK, NEW word, Patched = {Patch(word)}
  PROVE  /\ \A j \in 0..511 : Stub(j) \in StubParts =>
              \A k \in DOMAIN StubWords(j) :
                /\ SiteSlot + (64 * j) + (4 * (k - 1)) \in DOMAIN Program
                /\ Program[SiteSlot + (64 * j) + (4 * (k - 1))] = StubWords(j)[k]
         /\ Site \in DOMAIN Program /\ Program[Site] = word
         /\ \A a \in DOMAIN Program :
              a = Site \/ InSlots(a)
<1> DEFINE parts == StubParts \cup SiteParts
<1>1. Program = Merged(parts)
  BY Zenon DEF Program, StubParts, SiteParts
<1>2. SiteParts = {Written(Site, <<word>>)}
  BY DEF SiteParts, Patch
<1>3. \A part \in StubParts : \E j \in 0..511 : part = Stub(j)
  BY PartsAreStubs
<1>4. /\ DOMAIN Written(Site, <<word>>) = {Site} /\ Written(Site, <<word>>)[Site] = word
  BY SiteIsThere
<1>5. ASSUME NEW j \in 0..511, Stub(j) \in StubParts, NEW k \in DOMAIN StubWords(j)
      PROVE  /\ SiteSlot + (64 * j) + (4 * (k - 1)) \in DOMAIN Program
             /\ Program[SiteSlot + (64 * j) + (4 * (k - 1))] = StubWords(j)[k]
  <2>1. PICK a : a = SiteSlot + (64 * j) + (4 * (k - 1))
    OBVIOUS
  <2>2. a \in DOMAIN Stub(j) /\ Stub(j)[a] = StubWords(j)[k]
    BY <2>1, StubIsThere
  <2>3. ASSUME NEW other \in parts, a \in DOMAIN other PROVE other = Stub(j)
    <3>1. CASE other \in StubParts
      <4>1. PICK i \in 0..511 : other = Stub(i)
        BY <1>3, <3>1
      <4>2. i = j
        BY <2>2, <2>3, <4>1, StubsApart
      <4> QED BY <4>1, <4>2
    <3>2. CASE other \in SiteParts
      <4>1. a = Site
        BY <1>2, <1>4, <2>3, <3>2
      <4> QED BY <2>2, <4>1, StubsApart
    <3> QED BY <3>1, <3>2
  <2>4. Stub(j) \in parts
    BY <1>5
  <2> HIDE DEF parts
  <2>5. a \in DOMAIN Merged(parts) /\ Merged(parts)[a] = Stub(j)[a]
    BY <2>2, <2>3, <2>4, PartIsThere
  <2> QED BY <1>1, <2>1, <2>2, <2>5
<1>6. Site \in DOMAIN Program /\ Program[Site] = word
  <2>1. PICK part : part = Written(Site, <<word>>)
    OBVIOUS
  <2>2. Site \in DOMAIN part /\ part[Site] = word /\ part \in parts
    BY <1>2, <1>4, <2>1
  <2>3. ASSUME NEW other \in parts, Site \in DOMAIN other PROVE other = part
    <3>1. CASE other \in StubParts
      <4>1. PICK i \in 0..511 : other = Stub(i)
        BY <1>3, <3>1
      <4> QED BY <2>3, <4>1, StubsApart
    <3>2. CASE other \in SiteParts
      BY <1>2, <2>1, <3>2
    <3> QED BY <3>1, <3>2
  <2> HIDE DEF parts
  <2>4. Site \in DOMAIN Merged(parts) /\ Merged(parts)[Site] = part[Site]
    BY <2>2, <2>3, PartIsThere
  <2> QED BY <1>1, <2>2, <2>4
<1>7. ASSUME NEW a \in DOMAIN Program
      PROVE  a = Site \/ InSlots(a)
  <2>1. PICK part \in parts : a \in DOMAIN part
    BY <1>1 DEF Merged
  <2>2. CASE part \in StubParts
    <3>1. PICK i \in 0..511 : part = Stub(i)
      BY <1>3, <2>2
    <3> QED BY <2>1, <3>1, StubsApart
  <2>3. CASE part \in SiteParts
    BY <1>2, <1>4, <2>1, <2>3
  <2> QED BY <2>1, <2>2, <2>3
<1> HIDE DEF parts
<1> QED BY <1>5, <1>6, <1>7

-----------------------------------------------------------------------------
(* The course of a core through a patched site.                                 *)

\* Where the library has written nothing and no hook begins.
Away(a) == /\ a \in Int /\ a # Site /\ ~InSlots(a)
           /\ \A i \in 1..MaxHooks : a # HookAt(i)

\* The word that is run for the site's, and where.
Shown  == IF scene.shape = "REWRITE" THEN scene.replacement ELSE scene.live
ShimAt == IF scene.shape = "REWRITE" THEN EntryAddr ELSE ThunkAddr

HasShim == IF scene.shape = "REWRITE" THEN Classify(scene.replacement) = "PIC" ELSE ThunkAddr # 0

\* The leg on which it is run.
LastLeg(l) == l = IF scene.shape = "REWRITE" THEN "site" ELSE "on"

\* Where link i goes on to.
NextTo(i) == IF i < scene.hooks THEN LinkEntry(i + 1) ELSE ThunkAddr
CallAt(i) == LinkSlot(i) + (4 * kLinkCallOffset)

\* Somewhere in a stub.
OnIndirect(at, ptr, to, m, f) == \E k \in 1..9 : InIndirect(at, ptr, to, k, m, f)
OnRewrite(at, m, f)           == \E k \in 1..8 : InRewrite(at, Ret, k, m, f)
OnCall(i, m)                  == \E k \in 1..7 : InCall(CallAt(i), Ret, HookAt(i), k, m)

\* LR and CR are as they were: but for the CALL's branch at the site, and for what
\* FunctionPatcher does at an export.
LinkKept(m, f, l) == (l = "on" \/ scene.shape # "CALL") => m.lr = f.lr
CondKept(m, f, l) == ~(l = "site" /\ scene.external) => m.cr = f.cr

\* At the start of hook i.
AtHook(i, m, f, l) ==
  /\ scene.shape # "REWRITE" /\ (i = 1 <=> l = "site")
  /\ m.pc = HookAt(i) /\ m.r[1] = SP
  /\ IF scene.shape = "CALL" THEN m.r[11] = HookAt(i) /\ m.lr = Ret
                             ELSE m.r[11] = f.r[11] /\ m.lr = f.lr

\* In a stub, or at a hook.
OnWay(m, f, l) ==
  \/ /\ l = "site" /\ scene.shape # "REWRITE" /\ LinkKept(m, f, l)
     /\ OnIndirect(EntryAddr, HeadAt, LinkEntry(1), m, f)
  \/ /\ l = "on" /\ scene.shape # "REWRITE" /\ LinkKept(m, f, l) /\ ThunkAddr # 0
     /\ \E i \in 1..scene.hooks : OnIndirect(NextShim(i), NextAt(i), NextTo(i), m, f)
  \/ scene.shape = "CALL" /\ \E i \in 1..scene.hooks : (i = 1 <=> l = "site") /\ OnCall(i, m)
  \/ \E i \in 1..scene.hooks : AtHook(i, m, f, l)
  \/ LastLeg(l) /\ HasShim /\ LinkKept(m, f, l) /\ OnRewrite(ShimAt, m, f)

\* The machine the word would have made at the site, and a machine that is like it
\* where CTR is spent.
Back(f)           == [f EXCEPT !.pc = Site]
Would(word, f)    == Exec(word, Back(f))
Alike(word, m, f) == RestAlike(m, Would(word, f), f)

\* The word has run, and the stub's branch is to come.
Ran(word, at, m, f) ==
  /\ IsMachine(m) /\ m.pc = at + 32 /\ m.ctr \in {Ret, Ret - 1}
  /\ ~word.dec /\ ~word.link => Alike(word, m, f) /\ Would(word, f).pc = Ret /\ m.ctr = Ret

\* Out in the game again.
Gone(m, f, l) ==
  /\ Away(m.pc)
  /\ \/ l = "returned"
     \/ /\ LastLeg(l)
        /\ ~Shown.dec /\ ~Shown.link => Alike(Shown, m, f) /\ m.pc = Would(Shown, f).pc

\* The machine at the site, or as a hook leaves it.
Left(f) ==
  /\ IsMachine(f) /\ Away(f.lr)
  /\ f.r[0] = 0 /\ f.r[1] = SP /\ f.r[3] \in {3 * Half, 2 * Half}
  /\ f.r[11] = 11 * Half \/ \E i \in 1..scene.hooks : f.r[11] = HookAt(i)
  /\ scene.shape # "REWRITE" => Read(f.mem, HeadAt) = LinkEntry(1)
  /\ \A i \in 1..scene.hooks : Read(f.mem, NextAt(i)) = NextTo(i)

\* Where a core may be that came to the site as f and is on leg l.
At(m, f, l) ==
  \/ m = f /\ f.pc = Site /\ l = "site"
  \/ l \in {"site", "on"} /\ Carried(m, f) /\ CondKept(m, f, l) /\ OnWay(m, f, l)
  \/ LastLeg(l) /\ HasShim /\ Ran(Shown, ShimAt, m, f)
  \/ Gone(m, f, l)

\* What a core makes of the words that are written.
Runs(m, n) ==
  IF Program[m.pc] \in {JumpAnywhere(gated) : gated \in BOOLEAN}
  THEN \E cr \in IF Program[m.pc].cond THEN BOOLEAN ELSE {m.cr} :
         n = [m EXCEPT !.pc = EntryAddr, !.cr = cr]
  ELSE n = Exec(Program[m.pc], m)

\* The words are written for the site of the scene.
Laid == SceneOK /\ Applies /\ (scene.shape = "REWRITE" => HasShim)
-----------------------------------------------------------------------------
\* A word is written at the site, as CodeIs has it.
LEMMA LaidDown ==
  ASSUME Laid
  PROVE  \E word : /\ Patched = {Patch(word)} /\ Site \in DOMAIN Program /\ Program[Site] = word
                   /\ \/ scene.backend = "direct" /\ word \in SiteWords
                      \/ scene.backend = "fp" /\ word = JumpAnywhere(scene.external)
<1>1. PICK word : /\ Patched = {Patch(word)}
                  /\ \/ scene.backend = "direct" /\ word \in SiteWords
                     \/ scene.backend = "fp" /\ word = JumpAnywhere(scene.external)
  BY PatchedHow DEF Laid
<1>2. Site \in DOMAIN Program /\ Program[Site] = word
  BY <1>1, CodeIs DEF Laid
<1> QED BY <1>1, <1>2

\* What is written is at the site or in the slots.
LEMMA WhereWritten ==
  ASSUME Laid
  PROVE  \A a \in DOMAIN Program : a = Site \/ InSlots(a)
BY LaidDown, CodeIs DEF Laid

\* The words of a stub are where it is.
LEMMA StubWritten ==
  ASSUME Laid
  PROVE  \A j \in 0..511 : Stub(j) \in StubParts =>
           \A k \in DOMAIN StubWords(j) :
             /\ SiteSlot + (64 * j) + (4 * (k - 1)) \in DOMAIN Program
             /\ Program[SiteSlot + (64 * j) + (4 * (k - 1))] = StubWords(j)[k]
BY LaidDown, CodeIs DEF Laid

\* No word of the title, nor of a stub, is FunctionPatcher's.
LEMMA PlainWords ==
  ASSUME NEW word, Instruction(word) \/ word.op # 18 \/ word.xo = 0
  PROVE  word \notin {JumpAnywhere(gated) : gated \in BOOLEAN}
<1>1. ASSUME NEW gated, word = JumpAnywhere(gated) PROVE FALSE
  <2>1. word.op = 18 /\ word.xo = 1
    BY <1>1 DEF JumpAnywhere, Blank
  <2> QED BY <2>1, InstructionFields
<1> QED BY <1>1

\* A plain word is executed.
LEMMA PlainRuns ==
  ASSUME NEW m, NEW n, Runs(m, n), NEW word, Program[m.pc] = word,
         Instruction(word) \/ word.op # 18 \/ word.xo = 0
  PROVE  n = Exec(word, m)
BY PlainWords, Zenon DEF Runs

-----------------------------------------------------------------------------
(* A stub from its first word to its last.                                       *)

\* The opcodes of the stubs' words.
LEMMA StubWordsPlain ==
  /\ \A ptr : \A k \in 1..9 : BuildIndirect(ptr)[k].op # 18
  /\ \A ret, word : \A k \in 1..9 : k # 8 => BuildRewrite(ret, word)[k].op # 18
  /\ \A ret, hook : \A k \in 1..7 : BuildCall(ret, hook)[k].op # 18
<1> USE DFields, SprFields, BctrFields
<1>1. ASSUME NEW ptr, NEW k \in 1..9 PROVE BuildIndirect(ptr)[k].op # 18
  <2>1. PICK words : words = BuildIndirect(ptr)
    OBVIOUS
  <2>2. /\ words[1].op = 37 /\ words[2].op = 36 /\ words[3].op = 15 /\ words[4].op = 24
        /\ words[5].op = 32 /\ words[6].op = 31 /\ words[7].op = 32 /\ words[8].op = 14
        /\ words[9].op = 19
    BY <2>1 DEF BuildIndirect, Stwu, Stw, Lis, Ori, Lwz, MtCtr, Addi
  <2> QED BY <2>1, <2>2
<1>2. ASSUME NEW ret, NEW word, NEW k \in 1..9, k # 8 PROVE BuildRewrite(ret, word)[k].op # 18
  <2>1. PICK words : words = BuildRewrite(ret, word)
    OBVIOUS
  <2>2. /\ words[1].op = 37 /\ words[2].op = 36 /\ words[3].op = 15 /\ words[4].op = 24
        /\ words[5].op = 31 /\ words[6].op = 32 /\ words[7].op = 14 /\ words[9].op = 19
    BY <2>1 DEF BuildRewrite, Stwu, Stw, Lis, Ori, Lwz, MtCtr, Addi
  <2>3. k \in {1, 2, 3, 4, 5, 6, 7, 9}
    BY <1>2
  <2>4. words[k].op # 18
    BY <2>2, <2>3
  <2> QED BY <2>1, <2>4
<1>3. ASSUME NEW ret, NEW hook, NEW k \in 1..7 PROVE BuildCall(ret, hook)[k].op # 18
  <2>1. PICK words : words = BuildCall(ret, hook)
    OBVIOUS
  <2>2. /\ words[1].op = 15 /\ words[2].op = 24 /\ words[3].op = 31 /\ words[4].op = 15
        /\ words[5].op = 24 /\ words[6].op = 31 /\ words[7].op = 19
    BY <2>1 DEF BuildCall, Lis, Ori, MtLr, MtCtr
  <2> QED BY <2>1, <2>2
<1> QED BY <1>1, <1>2, <1>3

\* The last word of a stub, and the one a BuildRewrite is for.
LEMMA LastWords ==
  /\ \A ptr : BuildIndirect(ptr)[9] = Bctr
  /\ \A ret, word : BuildRewrite(ret, word)[8] = word /\ BuildRewrite(ret, word)[9] = Bctr
  /\ \A ret, hook : BuildCall(ret, hook)[7] = Bctr
BY DEF BuildIndirect, BuildRewrite, BuildCall

\* The words of a stub lie in the slots.
LEMMA SlotPlace ==
  ASSUME SceneOK, NEW j \in 0..511, NEW k \in 1..9
  PROVE  InSlots(SiteSlot + (64 * j) + (4 * (k - 1)))
<1>1. SiteSlot \in Nat
  BY WhereThingsAre
<1>2. j \in Nat /\ j <= 511 /\ 64 * j \in Nat /\ 64 * j <= 32704
  OBVIOUS
<1>3. 4 * (k - 1) \in Nat /\ 4 * (k - 1) <= 32
  OBVIOUS
<1> QED BY <1>1, <1>2, <1>3 DEF InSlots

\* A stub at an address.
LiesAt(j, at, words) == /\ j \in 0..511 /\ at = SiteSlot + (64 * j) /\ Stub(j) \in StubParts
                        /\ StubWords(j) = words

\* Through BuildIndirect: all the way, with nothing changed but CTR.
LEMMA IndirectGoes ==
  ASSUME Laid, NEW ptr \in Nat, ptr <= kTop, ptr \notin {SP - 16, SP - 8},
         NEW j, NEW at, LiesAt(j, at, BuildIndirect(ptr)), NEW to, NEW m, NEW f, Carried(m, f), Read(f.mem, ptr) = to,
         OnIndirect(at, ptr, to, m, f), NEW n, Runs(m, n)
  PROVE  /\ Carried(n, f) /\ n.lr = m.lr /\ n.cr = m.cr
         /\ OnIndirect(at, ptr, to, n, f) \/ (n.pc = to /\ n.r[1] = SP /\ n.r[11] = f.r[11])
<1>1. PICK k \in 1..9 : InIndirect(at, ptr, to, k, m, f)
  BY DEF OnIndirect
<1>2. /\ j \in 0..511 /\ at = SiteSlot + (64 * j) /\ Stub(j) \in StubParts
      /\ StubWords(j) = BuildIndirect(ptr)
  BY DEF LiesAt
<1>3. DOMAIN StubWords(j) = 1..9 /\ m.pc = SiteSlot + (64 * j) + (4 * (k - 1))
  BY <1>1, <1>2, StubLengths DEF InIndirect
<1>4. Program[m.pc] = BuildIndirect(ptr)[k]
  BY <1>2, <1>3, StubWritten
<1>5. n = Exec(BuildIndirect(ptr)[k], m)
  BY <1>4, StubWordsPlain, PlainRuns
<1>6. at \in Int
  BY <1>2, WhereThingsAre DEF Laid
<1>7. CASE k = 9
  <2>1. n = Exec(Bctr, m)
    BY <1>5, <1>7, LastWords
  <2>2. Carried(n, f) /\ n.pc = m.ctr /\ n.r = m.r /\ n.lr = m.lr /\ n.cr = m.cr
    BY <2>1, LastWord
  <2>3. m.ctr = to /\ m.r[1] = SP /\ m.r[11] = f.r[11]
    BY <1>1, <1>7 DEF InIndirect
  <2> QED BY <2>2, <2>3
<1>8. CASE k # 9
  <2>1. k \in 1..8 /\ k + 1 \in 1..9
    BY <1>8
  <2>2. /\ Carried(n, f) /\ InIndirect(at, ptr, to, k + 1, n, f)
        /\ n.lr = m.lr /\ n.cr = m.cr
    BY <1>1, <1>5, <1>6, <2>1, IndirectStep
  <2> QED BY <2>1, <2>2 DEF OnIndirect
<1> QED BY <1>7, <1>8

\* Through BuildCall: LR is the word after the site.
LEMMA CallGoes ==
  ASSUME Laid, NEW i \in 1..scene.hooks, scene.shape = "CALL",
         NEW m, NEW f, Carried(m, f), OnCall(i, m), NEW n, Runs(m, n)
  PROVE  /\ Carried(n, f) /\ n.cr = m.cr
         /\ OnCall(i, n) \/ (n.pc = HookAt(i) /\ n.r[1] = SP /\ n.r[11] = HookAt(i) /\ n.lr = Ret)
<1>1. PICK k \in 1..7 : InCall(CallAt(i), Ret, HookAt(i), k, m)
  BY DEF OnCall
<1>2. /\ i \in 1..MaxHooks /\ i \in 1..255 /\ (2 * i) + 1 \in 0..511
      /\ CallAt(i) = SiteSlot + (128 * i) + 64 /\ CallAt(i) \in Int
      /\ HookAt(i) \in Nat /\ HookAt(i) <= kTop /\ Ret \in Nat /\ Ret <= kTop
  <2>1. /\ SiteSlot \in Nat /\ scene.hooks \in Nat /\ scene.hooks <= 255 /\ Ret \in Nat /\ Ret <= kTop
        /\ \A l \in 1..MaxHooks :
             /\ LinkSlot(l) + (4 * kLinkCallOffset) = SiteSlot + (128 * l) + 64
             /\ HookAt(l) \in Nat /\ HookAt(l) <= kTop
    BY WhereThingsAre DEF Laid
  <2>2. i \in 1..MaxHooks
    BY HooksAssumption DEF Laid, SceneOK
  <2>3. i \in 1..255 /\ (2 * i) + 1 \in 0..511
    BY <2>1
  <2> QED BY <2>1, <2>2, <2>3 DEF CallAt
<1>3. SiteSlot \in Nat
  BY WhereThingsAre DEF Laid
<1>4. CallAt(i) = SiteSlot + (64 * ((2 * i) + 1))
  BY <1>2, <1>3
<1>5. Stub((2 * i) + 1) \in StubParts /\ StubWords((2 * i) + 1) = BuildCall(Ret, HookAt(i))
  BY PartsAreStubs DEF Laid
<1>6. m.pc = SiteSlot + (64 * ((2 * i) + 1)) + (4 * (k - 1))
  BY <1>1, <1>4 DEF InCall
<1>7. DOMAIN StubWords((2 * i) + 1) = 1..7
  BY <1>5, StubLengths
<1>8. Program[m.pc] = BuildCall(Ret, HookAt(i))[k]
  BY <1>2, <1>5, <1>6, <1>7, StubWritten
<1>9. n = Exec(BuildCall(Ret, HookAt(i))[k], m)
  BY <1>8, StubWordsPlain, PlainRuns
<1>10. CASE k = 7
  <2>1. n = Exec(Bctr, m)
    BY <1>9, <1>10, LastWords
  <2>2. Carried(n, f) /\ n.pc = m.ctr /\ n.r = m.r /\ n.lr = m.lr /\ n.cr = m.cr
    BY <2>1, LastWord
  <2>3. m.ctr = HookAt(i) /\ m.r[1] = SP /\ m.r[11] = HookAt(i) /\ m.lr = Ret
    BY <1>1, <1>10 DEF InCall
  <2> QED BY <2>2, <2>3
<1>11. CASE k # 7
  <2>1. k \in 1..6 /\ k + 1 \in 1..7
    BY <1>11
  <2>2. Carried(n, f) /\ InCall(CallAt(i), Ret, HookAt(i), k + 1, n) /\ n.cr = m.cr
    BY <1>1, <1>2, <1>9, <2>1, CallStep
  <2> QED BY <2>1, <2>2 DEF OnCall
<1> QED BY <1>10, <1>11

-----------------------------------------------------------------------------
(* The word that is run for the site's.                                         *)

\* Hooks are above the slots and below the pointers, each at its place.
LEMMA HooksAreApart ==
  ASSUME SceneOK
  PROVE  \A i \in 1..MaxHooks :
           /\ HookAt(i) \in Nat /\ SiteSlot + 32832 <= HookAt(i) /\ HookAt(i) <= SiteSlot + 49088
           /\ ~InSlots(HookAt(i)) /\ HookAt(i) # Site
           /\ \A k \in 1..MaxHooks : HookAt(k) = HookAt(i) => k = i
<1>1. /\ SiteSlot \in Nat /\ Site \in Nat /\ MaxHooks <= 255 /\ MaxHooks \in Nat
      /\ \A i \in 1..MaxHooks : HookAt(i) = SiteSlot + 32768 + (64 * i)
      /\ Site + 4 < SiteSlot \/ SiteSlot + 131072 <= Site
  BY WhereThingsAre, HooksAssumption
<1> SUFFICES ASSUME NEW i \in 1..MaxHooks
             PROVE  /\ HookAt(i) \in Nat /\ SiteSlot + 32832 <= HookAt(i)
                    /\ HookAt(i) <= SiteSlot + 49088
                    /\ ~InSlots(HookAt(i)) /\ HookAt(i) # Site
                    /\ \A k \in 1..MaxHooks : HookAt(k) = HookAt(i) => k = i
  OBVIOUS
<1>2. i \in Nat /\ 1 <= i /\ i <= 255 /\ 64 * i \in Nat /\ 64 <= 64 * i /\ 64 * i <= 16320
  BY <1>1
<1>3. HookAt(i) \in Nat /\ SiteSlot + 32832 <= HookAt(i) /\ HookAt(i) <= SiteSlot + 49088
  BY <1>1, <1>2
<1>4. ~InSlots(HookAt(i)) /\ HookAt(i) # Site
  BY <1>1, <1>3 DEF InSlots
<1>5. ASSUME NEW k \in 1..MaxHooks, HookAt(k) = HookAt(i) PROVE k = i
  BY <1>1, <1>5
<1> QED BY <1>3, <1>4, <1>5

\* Where a core may go from the stubs and the hooks.
LEMMA AwayOnes ==
  ASSUME SceneOK
  PROVE  /\ Away(Ret) /\ Away(Ret - 1)
         /\ \A i \in 1..MaxHooks : Away(HookAt(i) + 8)
         /\ \A a \in Int : Elsewhere(scene.place, a) => Away(a)
<1>1. /\ SiteSlot \in Nat /\ Site \in Nat /\ Ret = Site + 4
      /\ \A i \in 1..MaxHooks : HookAt(i) = SiteSlot + 32768 + (64 * i)
      /\ Site + 4 < SiteSlot \/ SiteSlot + 131072 <= Site
  BY WhereThingsAre
<1>2. \A i \in 1..MaxHooks : /\ HookAt(i) \in Nat /\ SiteSlot + 32832 <= HookAt(i)
                             /\ HookAt(i) <= SiteSlot + 49088
  BY HooksAreApart
<1>3. Away(Ret) /\ Away(Ret - 1)
  <2>1. Ret \in Int /\ Ret # Site /\ ~InSlots(Ret) /\ Ret - 1 # Site /\ ~InSlots(Ret - 1)
    BY <1>1 DEF InSlots
  <2>2. \A i \in 1..MaxHooks : Ret # HookAt(i) /\ Ret - 1 # HookAt(i)
    BY <1>1, <1>2
  <2> QED BY <1>1, <2>1, <2>2 DEF Away
<1>4. ASSUME NEW i \in 1..MaxHooks PROVE Away(HookAt(i) + 8)
  <2>1. PICK h : h = HookAt(i) + 8
    OBVIOUS
  <2>2. h \in Int /\ SiteSlot + 32768 <= h /\ h < SiteSlot + 65536
    <3>1. /\ HookAt(i) \in Nat /\ SiteSlot + 32832 <= HookAt(i)
          /\ HookAt(i) <= SiteSlot + 49088
      BY <1>2
    <3> QED BY <1>1, <2>1, <3>1
  <2>3. h # Site /\ ~InSlots(h)
    BY <1>1, <2>2 DEF InSlots
  <2>4. ASSUME NEW k \in 1..MaxHooks PROVE h # HookAt(k)
    <3>1. h = SiteSlot + 32768 + (64 * i) + 8 /\ HookAt(k) = SiteSlot + 32768 + (64 * k)
      BY <1>1, <2>1
    <3>2. i \in Int /\ k \in Int
      OBVIOUS
    <3> QED BY <1>1, <3>1, <3>2
  <2> QED BY <2>1, <2>2, <2>3, <2>4 DEF Away
<1>5. ASSUME NEW a \in Int, Elsewhere(scene.place, a) PROVE Away(a)
  <2>1. a # Site /\ ~(SiteSlot <= a /\ a < SiteSlot + 131072)
    BY <1>5 DEF Elsewhere, Site, SiteSlot
  <2>2. ~InSlots(a)
    BY <1>1, <2>1 DEF InSlots
  <2>3. \A i \in 1..MaxHooks : a # HookAt(i)
    BY <1>1, <1>2, <2>1
  <2> QED BY <2>1, <2>2, <2>3 DEF Away
<1> QED BY <1>3, <1>4, <1>5

\* The stub for the word that is run for the site's is there, and the word may run
\* in it.
LEMMA ShimThere ==
  ASSUME Laid, HasShim
  PROVE  /\ \E j \in {0, 1} : /\ ShimAt = SiteSlot + (64 * j) /\ Stub(j) \in StubParts
                              /\ StubWords(j) = BuildRewrite(Ret, Shown)
         /\ Fit(Shown) /\ Classify(Shown) = "PIC"
<1>1. CASE scene.shape = "REWRITE"
  <2>1. ShimAt = EntryAddr /\ Shown = scene.replacement
    BY <1>1 DEF ShimAt, Shown
  <2>2. SiteSlot \in Nat /\ EntryAddr = SiteSlot
    BY WhereThingsAre DEF Laid
  <2>3. StubWords(0) = BuildRewrite(Ret, Shown)
    BY <1>1, <2>1 DEF StubWords
  <2>4. Stub(0) \in StubParts
    BY PartsAreStubs DEF Laid
  <2>5. Fit(Shown) /\ Classify(Shown) = "PIC"
    BY <1>1, <2>1 DEF HasShim, Laid, SceneOK
  <2>6. ShimAt = SiteSlot + (64 * 0)
    BY <2>1, <2>2
  <2> QED BY <2>3, <2>4, <2>5, <2>6
<1>2. CASE scene.shape # "REWRITE"
  <2>1. ShimAt = ThunkAddr /\ Shown = scene.live /\ ThunkAddr # 0
    BY <1>2 DEF ShimAt, Shown, HasShim
  <2>2. SiteSlot \in Nat /\ ThunkAddr = SiteSlot + 64 /\ Stub(1) \in StubParts
    BY <2>1, WhereThingsAre, PartsAreStubs DEF Laid
  <2>3. StubWords(1) = BuildRewrite(Ret, Shown)
    BY <2>1 DEF StubWords
  <2>4. Fit(Shown)
    BY <2>1 DEF Laid, SceneOK
  <2>5. Classify(Shown) = "PIC"
    BY <1>2, <2>1 DEF ThunkAddr
  <2>6. ShimAt = SiteSlot + (64 * 1)
    BY <2>1, <2>2
  <2> QED BY <2>2, <2>3, <2>4, <2>5, <2>6
<1> QED BY <1>1, <1>2

\* No word loads from a stub's frame: what it may count from is on the stack, low,
\* or a hook's address.
LEMMA LoadsElsewhere ==
  ASSUME SceneOK, NEW f, Left(f), NEW word, Instruction(word)
  PROVE  LoadsApart(word, f)
<1> SUFFICES ASSUME word.op = 32
             PROVE  f.r[word.a] + Signed(word.imm, Half) \notin {SP - 16, SP - 8}
  BY DEF LoadsApart
<1>1. /\ SP \in Nat /\ 1048576 <= SP
      /\ SiteSlot \in Nat /\ (SP + 8 < SiteSlot \/ SiteSlot + 131072 <= SP - 16)
  BY WhereThingsAre, StackAssumption
<1>2. PICK imm : imm = Signed(word.imm, Half)
  OBVIOUS
<1>3. /\ imm \in Int /\ -32768 <= imm /\ imm <= 32767
      /\ word.imm \in Nat /\ (word.imm < 32768 => imm = word.imm)
      /\ word.a \in Registers /\ (word.a = 1 => word.imm < 32768)
  BY <1>2, InstructionFields, SignedBounds
<1>4. /\ f.r[0] = 0 /\ f.r[1] = SP /\ (f.r[3] = 196608 \/ f.r[3] = 131072)
      /\ f.r[11] = 720896 \/ \E i \in 1..scene.hooks : f.r[11] = HookAt(i)
  BY DEF Left, Half
<1>5. CASE word.a = 1
  BY <1>1, <1>2, <1>3, <1>4, <1>5
<1>6. CASE word.a = 0 \/ word.a = 3
  BY <1>1, <1>2, <1>3, <1>4, <1>6
<1>7. CASE word.a = 11
  <2>1. CASE f.r[11] = 720896
    BY <1>1, <1>2, <1>3, <1>7, <2>1
  <2>2. CASE \E i \in 1..scene.hooks : f.r[11] = HookAt(i)
    <3>1. PICK i \in 1..MaxHooks : f.r[11] = HookAt(i)
      BY <2>2, HooksAssumption DEF SceneOK
    <3>2. /\ f.r[11] \in Nat /\ SiteSlot + 32832 <= f.r[11]
          /\ f.r[11] <= SiteSlot + 49088
      BY <3>1, HooksAreApart
    <3> QED BY <1>1, <1>2, <1>3, <1>7, <3>2
  <2> QED BY <1>4, <2>1, <2>2
<1>8. word.a \in {0, 1, 3, 11}
  BY <1>3 DEF Registers
<1> QED BY <1>5, <1>6, <1>7, <1>8

\* What the word makes of a core that is as one at the site, in pc and CTR apart.
LEMMA ShownRuns ==
  ASSUME Laid, HasShim, NEW f, Left(f), NEW m, Twins(m, Back(f)), NEW n, n = Exec(Shown, m)
  PROVE  /\ IsMachine(n) /\ n.ctr \in {m.ctr, m.ctr - 1}
         /\ n.pc = m.pc + 4 \/ Away(n.pc)
         /\ ~Shown.dec /\ ~Shown.link =>
              /\ n.ctr = m.ctr /\ Alike(Shown, n, f)
              /\ (n.pc = m.pc + 4 /\ Would(Shown, f).pc = Ret) \/ n.pc = Would(Shown, f).pc
<1>1. PICK word : word = Shown
  OBVIOUS
<1>2. Fit(word) /\ Instruction(word) /\ Classify(word) = "PIC"
  BY <1>1, ShimThere DEF Fit
<1> DEFINE g == Back(f)
<1>3. PICK w : w = Exec(word, g)
  OBVIOUS
<1>4. /\ g.pc = Site /\ g.r = f.r /\ g.lr = f.lr /\ g.ctr = f.ctr /\ g.cr = f.cr /\ g.mem = f.mem
  BY DEF Left, IsMachine, Back
<1> HIDE DEF g
<1>5. Twins(m, g)
  BY DEF g
<1>6. n = Exec(word, m)
  BY <1>1
<1>7. w = Would(word, f) /\ g.pc + 4 = Ret
  BY <1>3, <1>4 DEF Would, Ret, g
<1>8. RestAlike(n, w, g) => Alike(word, n, f)
  BY <1>4, <1>7 DEF RestAlike, MemAlike, Alike
<1>9. m.ctr \in Int
  BY <1>5, MachineTyped DEF Twins
<1>10. CASE ~IsBranch(word)
  <2>1. LoadsApart(word, g)
    <3>1. LoadsApart(word, f)
      BY <1>2, LoadsElsewhere DEF Laid
    <3> QED BY <1>4, <3>1 DEF LoadsApart
  <2>2. /\ IsMachine(n) /\ n.pc = m.pc + 4 /\ w.pc = g.pc + 4 /\ n.ctr = m.ctr
        /\ RestAlike(n, w, g)
    BY <1>2, <1>3, <1>10, <1>5, <1>6, <2>1, TwinsGoOn
  <2> QED BY <1>1, <1>7, <1>8, <2>2
<1>11. CASE IsBranch(word)
  <2>1. /\ IsMachine(n) /\ n.ctr = (IF word.dec THEN m.ctr - 1 ELSE m.ctr)
        /\ n.pc = m.pc + 4 \/ n.pc = g.lr
             \/ (word.op \in {16, 18} /\ word.abs /\ n.pc = Displacement(word))
        /\ ~word.dec /\ ~word.link =>
             /\ RestAlike(n, w, g)
             /\ (n.pc = m.pc + 4 /\ w.pc = g.pc + 4) \/ n.pc = w.pc
    BY <1>2, <1>3, <1>11, <1>5, <1>6, TwinsBranch
  <2>2. Away(g.lr)
    BY <1>4 DEF Left
  <2>3. word.op \in {16, 18} /\ word.abs => Away(Displacement(word))
    BY <1>2, AwayOnes, InstructionFields DEF Fit, Laid
  <2>4. n.pc = m.pc + 4 \/ Away(n.pc)
    BY <2>1, <2>2, <2>3
  <2>5. n.ctr \in {m.ctr, m.ctr - 1} /\ (~word.dec => n.ctr = m.ctr)
    BY <2>1
  <2> QED BY <1>1, <1>7, <1>8, <2>1, <2>4, <2>5
<1> QED BY <1>10, <1>11

\* The word itself leads away from the site.
LEMMA WouldGo ==
  ASSUME Laid, HasShim, NEW f, Left(f)
  PROVE  /\ Away(Would(Shown, f).pc) /\ Alike(Shown, Would(Shown, f), f)
<1>1. PICK g : g = Back(f)
  OBVIOUS
<1>2. PICK w : w = Exec(Shown, g)
  OBVIOUS
<1>3. w = Would(Shown, f)
  BY <1>1, <1>2 DEF Would
<1>4. IsMachine(g) /\ g.pc = Site
  <2>1. /\ f = [pc |-> f.pc, r |-> f.r, lr |-> f.lr, ctr |-> f.ctr, cr |-> f.cr, mem |-> f.mem]
        /\ f.pc \in Int /\ f.lr \in Int /\ f.ctr \in Int /\ f.cr \in BOOLEAN
        /\ f.r \in [Registers -> Int]
        /\ \A a \in DOMAIN f.mem : f.mem[a] \in Int
    BY DEF Left, IsMachine
  <2>2. g = [pc |-> Site, r |-> f.r, lr |-> f.lr, ctr |-> f.ctr, cr |-> f.cr, mem |-> f.mem]
    BY <1>1, <2>1 DEF Back
  <2>3. Site \in Int
    BY WhereThingsAre DEF Laid
  <2> QED BY <2>1, <2>2, <2>3, MachineBuilt
<1>5. Twins(g, g)
  BY <1>4 DEF Twins, Kept
<1>6. w.pc = g.pc + 4 \/ Away(w.pc)
  BY <1>1, <1>2, <1>5, ShownRuns
<1>7. Away(g.pc + 4)
  <2>1. g.pc + 4 = Ret
    BY <1>4 DEF Ret
  <2> QED BY <2>1, AwayOnes DEF Laid
<1>8. Alike(Shown, w, f)
  BY <1>3 DEF Alike, RestAlike, MemAlike
<1> QED BY <1>3, <1>6, <1>7, <1>8

\* Before the word, all that the stub spent is back.
LEMMA AllBack ==
  ASSUME Laid, NEW f, Left(f), NEW l, LastLeg(l), NEW m, Carried(m, f),
         CondKept(m, f, l), LinkKept(m, f, l), InRewrite(ShimAt, Ret, 8, m, f)
  PROVE  Twins(m, Back(f)) /\ m.ctr = Ret /\ m.pc = ShimAt + 28
<1>1. m.lr = f.lr
  BY DEF LinkKept, LastLeg
<1>2. m.cr = f.cr
  BY DEF CondKept, LastLeg, Laid, SceneOK
<1>3. m.r[1] = SP /\ m.r[11] = f.r[11] /\ m.ctr = Ret /\ m.pc = ShimAt + (4 * (8 - 1))
  BY DEF InRewrite
<1>4. m.r[0] = f.r[0] /\ m.r[3] = f.r[3] /\ f.r[1] = SP
  BY DEF Carried, Left
<1>5. \A reg \in Registers : m.r[reg] = f.r[reg]
  BY <1>3, <1>4 DEF Registers
<1>6. m.r \in [Registers -> Int] /\ f.r \in [Registers -> Int]
  BY DEF Carried, Left, IsMachine
<1>7. m.r = f.r
  BY <1>5, <1>6
<1>8. PICK g : g = Back(f)
  OBVIOUS
<1>9. /\ f = [pc |-> f.pc, r |-> f.r, lr |-> f.lr, ctr |-> f.ctr, cr |-> f.cr, mem |-> f.mem]
      /\ f.pc \in Int /\ f.lr \in Int /\ f.ctr \in Int /\ f.cr \in BOOLEAN
      /\ f.r \in [Registers -> Int]
      /\ \A a \in DOMAIN f.mem : f.mem[a] \in Int
  BY DEF Left, IsMachine
<1>10. g = [pc |-> Site, r |-> f.r, lr |-> f.lr, ctr |-> f.ctr, cr |-> f.cr, mem |-> f.mem]
  BY <1>8, <1>9 DEF Back
<1>11. Site \in Int
  BY WhereThingsAre DEF Laid
<1>12. IsMachine(g)
  BY <1>9, <1>10, <1>11, MachineBuilt
<1>13. Kept(m, g)
  BY <1>10 DEF Carried, Kept
<1>14. Twins(m, g)
  BY <1>1, <1>2, <1>7, <1>10, <1>12, <1>13 DEF Twins, Carried
<1>15. 4 * (8 - 1) = 28
  OBVIOUS
<1> QED BY <1>3, <1>8, <1>14, <1>15

\* Through BuildRewrite up to the word, and past it.
LEMMA RewriteGoes ==
  ASSUME Laid, HasShim, NEW f, Left(f), NEW l, LastLeg(l), NEW m, Carried(m, f),
         CondKept(m, f, l), LinkKept(m, f, l), OnRewrite(ShimAt, m, f), NEW n, Runs(m, n)
  PROVE  \/ Carried(n, f) /\ n.lr = m.lr /\ n.cr = m.cr /\ OnRewrite(ShimAt, n, f)
         \/ Ran(Shown, ShimAt, n, f)
         \/ Gone(n, f, l)
<1>1. PICK k \in 1..8 : InRewrite(ShimAt, Ret, k, m, f)
  BY DEF OnRewrite
<1>2. PICK j \in {0, 1} : /\ ShimAt = SiteSlot + (64 * j) /\ Stub(j) \in StubParts
                          /\ StubWords(j) = BuildRewrite(Ret, Shown)
  BY ShimThere
<1>3. j \in 0..511 /\ k \in 1..9
  OBVIOUS
<1>4. /\ SiteSlot \in Nat /\ ShimAt \in Int /\ Ret \in Nat /\ Ret <= kTop
  BY <1>2, WhereThingsAre DEF Laid
<1>5. m.pc = SiteSlot + (64 * j) + (4 * (k - 1))
  BY <1>1, <1>2 DEF InRewrite
<1>6. DOMAIN StubWords(j) = 1..9
  BY <1>2, StubLengths
<1>7. Program[m.pc] = BuildRewrite(Ret, Shown)[k]
  BY <1>2, <1>3, <1>5, <1>6, StubWritten
<1>8. CASE k # 8
  <2>1. k \in 1..7 /\ k + 1 \in 1..8
    BY <1>8
  <2>2. BuildRewrite(Ret, Shown)[k].op # 18
    BY <1>3, <1>8, StubWordsPlain
  <2>3. n = Exec(BuildRewrite(Ret, Shown)[k], m)
    BY <1>7, <2>2, PlainRuns
  <2>4. /\ Carried(n, f) /\ InRewrite(ShimAt, Ret, k + 1, n, f)
        /\ n.lr = m.lr /\ n.cr = m.cr
    BY <1>1, <1>4, <2>1, <2>3, RewriteStep
  <2> QED BY <2>1, <2>4 DEF OnRewrite
<1>9. CASE k = 8
  <2>1. BuildRewrite(Ret, Shown)[8] = Shown
    BY LastWords
  <2>2. Program[m.pc] = Shown
    BY <1>7, <1>9, <2>1
  <2>3. n = Exec(Shown, m)
    <3>1. Instruction(Shown)
      BY ShimThere DEF Fit
    <3> QED BY <2>2, <3>1, PlainRuns
  <2>4. InRewrite(ShimAt, Ret, 8, m, f)
    BY <1>1, <1>9
  <2>5. Twins(m, Back(f)) /\ m.ctr = Ret /\ m.pc = ShimAt + 28
    BY <2>4, AllBack
  <2>6. /\ IsMachine(n) /\ n.ctr \in {m.ctr, m.ctr - 1}
        /\ n.pc = m.pc + 4 \/ Away(n.pc)
        /\ ~Shown.dec /\ ~Shown.link =>
             /\ n.ctr = m.ctr /\ Alike(Shown, n, f)
             /\ (n.pc = m.pc + 4 /\ Would(Shown, f).pc = Ret) \/ n.pc = Would(Shown, f).pc
    BY <2>3, <2>5, ShownRuns
  <2>7. m.pc + 4 = ShimAt + 32
    BY <1>4, <2>5
  <2>8. CASE n.pc = m.pc + 4
    <3>1. InSlots(n.pc)
      <4>1. InSlots(SiteSlot + (64 * j) + (4 * (9 - 1)))
        <5>1. \A q \in 1..9 : InSlots(SiteSlot + (64 * j) + (4 * (q - 1)))
          BY <1>3, SlotPlace DEF Laid
        <5>2. 9 \in 1..9
          OBVIOUS
        <5> QED BY <5>1, <5>2
      <4>2. SiteSlot + (64 * j) + (4 * (9 - 1)) = ShimAt + 32
        BY <1>2, <1>4
      <4> QED BY <2>7, <2>8, <4>1, <4>2
    <3>2. Away(Would(Shown, f).pc)
      BY WouldGo
    <3>3. n.pc # Would(Shown, f).pc
      BY <3>1, <3>2 DEF Away
    <3>4. ~Shown.dec /\ ~Shown.link =>
            n.ctr = Ret /\ Alike(Shown, n, f) /\ Would(Shown, f).pc = Ret
      BY <2>5, <2>6, <3>3
    <3>5. n.pc = ShimAt + 32
      BY <2>7, <2>8
    <3>6. n.ctr \in {Ret, Ret - 1}
      BY <2>5, <2>6
    <3> QED BY <2>6, <3>4, <3>5, <3>6 DEF Ran
  <2>9. CASE n.pc # m.pc + 4
    BY <2>6, <2>9 DEF Gone
  <2> QED BY <2>8, <2>9
<1> QED BY <1>8, <1>9

\* The branch after the word leads back to the game.
LEMMA RanGoes ==
  ASSUME Laid, HasShim, NEW f, Left(f), NEW l, LastLeg(l), NEW m,
         Ran(Shown, ShimAt, m, f), NEW n, Runs(m, n)
  PROVE  Gone(n, f, l)
<1>1. PICK j \in {0, 1} : /\ ShimAt = SiteSlot + (64 * j) /\ Stub(j) \in StubParts
                          /\ StubWords(j) = BuildRewrite(Ret, Shown)
  BY ShimThere
<1>2. SiteSlot \in Nat /\ ShimAt \in Int
  BY <1>1, WhereThingsAre DEF Laid
<1>3. m.pc = SiteSlot + (64 * j) + (4 * (9 - 1))
  BY <1>1, <1>2 DEF Ran
<1>4. DOMAIN StubWords(j) = 1..9 /\ 9 \in 1..9 /\ j \in 0..511
  BY <1>1, StubLengths
<1>5. Program[m.pc] = Bctr
  <2>1. Program[m.pc] = StubWords(j)[9]
    BY <1>1, <1>3, <1>4, StubWritten
  <2> QED BY <1>1, <2>1, LastWords
<1>6. n = Exec(Bctr, m)
  BY <1>5, BctrFields, PlainRuns
<1>7. /\ IsMachine(n) /\ n.pc = m.ctr /\ n.r = m.r
      /\ n.lr = m.lr /\ n.ctr = m.ctr /\ n.cr = m.cr /\ n.mem = m.mem
  BY <1>6, CountTaken DEF Ran
<1>8. Away(n.pc)
  BY <1>7, AwayOnes DEF Ran, Laid
<1>9. ASSUME ~Shown.dec, ~Shown.link
      PROVE  Alike(Shown, n, f) /\ n.pc = Would(Shown, f).pc
  <2>1. Alike(Shown, m, f) /\ Would(Shown, f).pc = Ret /\ m.ctr = Ret
    BY <1>9 DEF Ran
  <2>2. Alike(Shown, n, f)
    BY <1>7, <2>1 DEF Alike, RestAlike, MemAlike
  <2> QED BY <1>7, <2>1, <2>2
<1> QED BY <1>8, <1>9 DEF Gone

-----------------------------------------------------------------------------
(* The word at the site.                                                       *)

\* A branch that is encoded is taken to where it was encoded for, with LR set if it
\* links.
LEMMA BranchTaken ==
  ASSUME NEW at \in Nat, NEW to \in Nat, NEW link \in BOOLEAN,
         NEW word \in EncodeBranch(at, to, link) \cup EncodeAbsoluteBranch(to, link),
         NEW m, IsMachine(m), m.pc = at, NEW n, n = Exec(word, m)
  PROVE  /\ word.op = 18 /\ word.xo = 0
         /\ IsMachine(n) /\ n.pc = to /\ n.r = m.r /\ n.cr = m.cr /\ n.mem = m.mem
         /\ n.lr = IF link THEN at + 4 ELSE m.lr
<1>1. /\ word.op = 18 /\ word.xo = 0 /\ word.link = link
      /\ word.cond = FALSE /\ word.dec = FALSE
      /\ Displacement(word) + (IF word.abs THEN 0 ELSE m.pc) = to
  <2>1. CASE word \in EncodeBranch(at, to, link)
    <3>1. to - at \in Int /\ Reaches(to - at)
      BY <2>1 DEF EncodeBranch
    <3>2. word = [Blank EXCEPT !.op = 18, !.imm = (to - at) % 67108864, !.link = link]
      BY <2>1, <3>1 DEF EncodeBranch
    <3>3. /\ word.op = 18 /\ word.imm = (to - at) % 67108864 /\ word.xo = 0
          /\ word.abs = FALSE /\ word.cond = FALSE /\ word.dec = FALSE /\ word.link = link
      BY <3>2 DEF Blank
    <3>4. Signed(word.imm, 67108864) = to - at
      BY <3>1, <3>3, FieldHolds
    <3>5. Displacement(word) = to - at
      BY <3>3, <3>4 DEF Displacement
    <3>6. (to - at) + at = to
      OBVIOUS
    <3> QED BY <3>3, <3>5, <3>6
  <2>2. CASE word \in EncodeAbsoluteBranch(to, link)
    <3>1. to <= 33554428 /\ word = [Blank EXCEPT !.op = 18, !.imm = to, !.abs = TRUE, !.link = link]
      BY <2>2 DEF EncodeAbsoluteBranch
    <3>2. /\ word.op = 18 /\ word.imm = to /\ word.xo = 0
          /\ word.abs = TRUE /\ word.cond = FALSE /\ word.dec = FALSE /\ word.link = link
      BY <3>1 DEF Blank
    <3>3. Signed(to, 67108864) = to
      BY <3>1 DEF Signed
    <3>4. Displacement(word) = to
      BY <3>2, <3>3 DEF Displacement
    <3> QED BY <3>2, <3>4
  <2> QED BY <2>1, <2>2
<1>2. n = Branch(word, m)
  BY <1>1, BranchRuns DEF IsBranch
<1>3. BranchTo(word, m) = to /\ Taken(word, m)
  BY <1>1 DEF BranchTo, Taken
<1>4. /\ IsMachine(n) /\ n.r = m.r /\ n.cr = m.cr /\ n.mem = m.mem
      /\ n.pc = (IF Taken(word, m) THEN BranchTo(word, m) ELSE m.pc + 4)
      /\ n.lr = (IF word.link THEN m.pc + 4 ELSE m.lr)
  BY <1>2, <1>3, BranchSets
<1> QED BY <1>1, <1>3, <1>4

\* At the first word of the entry.
LEMMA Enters ==
  ASSUME Laid, NEW f, Left(f), NEW n, IsMachine(n), n.pc = EntryAddr, n.r = f.r, n.mem = f.mem,
         scene.shape # "CALL" => n.lr = f.lr, ~scene.external => n.cr = f.cr
  PROVE  At(n, f, "site")
<1>1. /\ EntryAddr \in Nat /\ Site \in Nat /\ EntryAddr + (4 * (1 - 1)) = EntryAddr
  BY WhereThingsAre DEF Laid
<1>2. Carried(n, f) /\ CondKept(n, f, "site") /\ LinkKept(n, f, "site")
  BY DEF Carried, Kept, CondKept, LinkKept
<1>3. n.r[1] = SP /\ n.r[11] = f.r[11]
  BY DEF Left
<1>4. CASE scene.shape = "REWRITE"
  <2>1. InRewrite(EntryAddr, Ret, 1, n, f)
    BY <1>1, <1>3 DEF InRewrite
  <2>2. OnRewrite(ShimAt, n, f)
    BY <1>4, <2>1 DEF OnRewrite, ShimAt
  <2> QED BY <1>2, <1>4, <2>2 DEF At, OnWay, LastLeg, Laid
<1>5. CASE scene.shape # "REWRITE"
  <2>1. InIndirect(EntryAddr, HeadAt, LinkEntry(1), 1, n, f)
    BY <1>1, <1>3 DEF InIndirect
  <2>2. OnIndirect(EntryAddr, HeadAt, LinkEntry(1), n, f)
    BY <2>1 DEF OnIndirect
  <2> QED BY <1>2, <1>5, <2>2 DEF At, OnWay
<1> QED BY <1>4, <1>5

\* The patched word leads to the entry, or is the replacement itself.
LEMMA Starts ==
  ASSUME Laid, NEW f, Left(f), f.pc = Site, NEW n, Runs(f, n)
  PROVE  At(n, f, "site")
<1>1. PICK word : /\ Program[Site] = word
                  /\ \/ scene.backend = "direct" /\ word \in SiteWords
                     \/ scene.backend = "fp" /\ word = JumpAnywhere(scene.external)
  BY LaidDown
<1>2. /\ SiteSlot \in Nat /\ Site \in Nat /\ EntryAddr \in Nat /\ Ret = Site + 4
      /\ IsMachine(f)
  BY WhereThingsAre DEF Laid, Left
<1>3. CASE scene.backend = "direct" /\ scene.shape = "REWRITE"
  <2>1. word = scene.replacement /\ Shown = word /\ HasShim
    BY <1>1, <1>3 DEF SiteWords, Shown, Laid
  <2>2. Instruction(word)
    BY <2>1, ShimThere DEF Fit
  <2>3. n = Exec(word, f)
    BY <1>1, <2>2, PlainRuns
  <2>4. Back(f) = f
    BY <1>2 DEF Back, IsMachine
  <2>5. n = Would(Shown, f)
    BY <2>1, <2>3, <2>4 DEF Would
  <2>6. Away(n.pc) /\ Alike(Shown, n, f)
    BY <2>1, <2>5, WouldGo
  <2> QED BY <1>3, <2>5, <2>6 DEF At, Gone, LastLeg
<1>4. CASE scene.backend = "direct" /\ scene.shape # "REWRITE"
  <2>1. PICK link \in BOOLEAN : /\ link = (scene.shape = "CALL")
          /\ word \in EncodeBranch(Site, EntryAddr, link) \cup EncodeAbsoluteBranch(EntryAddr, link)
    BY <1>1, <1>4 DEF SiteWords
  <2>2. PICK x : x = Exec(word, f)
    OBVIOUS
  <2>3. /\ word.op = 18 /\ word.xo = 0
        /\ IsMachine(x) /\ x.pc = EntryAddr /\ x.r = f.r /\ x.cr = f.cr /\ x.mem = f.mem
        /\ x.lr = IF link THEN Site + 4 ELSE f.lr
    <3>1. PICK at \in Nat, to \in Nat : at = Site /\ to = EntryAddr
      BY <1>2
    <3>2. word \in EncodeBranch(at, to, link) \cup EncodeAbsoluteBranch(to, link)
      BY <2>1, <3>1
    <3>3. f.pc = at /\ IsMachine(f)
      BY <1>2, <3>1
    <3>4. /\ word.op = 18 /\ word.xo = 0
          /\ IsMachine(x) /\ x.pc = to /\ x.r = f.r /\ x.cr = f.cr /\ x.mem = f.mem
          /\ x.lr = IF link THEN at + 4 ELSE f.lr
      BY <2>2, <3>2, <3>3, BranchTaken
    <3> QED BY <3>1, <3>4
  <2>4. n = x
    BY <1>1, <2>2, <2>3, PlainRuns
  <2>5. /\ IsMachine(n) /\ n.pc = EntryAddr /\ n.r = f.r /\ n.cr = f.cr /\ n.mem = f.mem
        /\ n.lr = IF link THEN Site + 4 ELSE f.lr
    BY <2>3, <2>4
  <2> QED BY <2>1, <2>5, Enters
<1>5. CASE scene.backend = "fp"
  <2>1. word = JumpAnywhere(scene.external) /\ scene.external \in BOOLEAN
    BY <1>1, <1>5 DEF Laid, SceneOK
  <2>2. word.cond = scene.external
    BY <2>1 DEF JumpAnywhere, Blank
  <2>3. word \in {JumpAnywhere(gated) : gated \in BOOLEAN}
    BY <2>1
  <2>4. PICK cr \in IF word.cond THEN BOOLEAN ELSE {f.cr} :
          n = [f EXCEPT !.pc = EntryAddr, !.cr = cr]
    BY <1>1, <2>3 DEF Runs
  <2>5. /\ f = [pc |-> f.pc, r |-> f.r, lr |-> f.lr, ctr |-> f.ctr, cr |-> f.cr, mem |-> f.mem]
        /\ f.pc \in Int /\ f.lr \in Int /\ f.ctr \in Int /\ f.cr \in BOOLEAN
        /\ f.r \in [Registers -> Int]
        /\ \A a \in DOMAIN f.mem : f.mem[a] \in Int
    BY <1>2 DEF IsMachine
  <2>6. cr \in BOOLEAN /\ (~scene.external => cr = f.cr)
    BY <2>2, <2>4, <2>5
  <2>7. n = [pc |-> EntryAddr, r |-> f.r, lr |-> f.lr, ctr |-> f.ctr, cr |-> cr, mem |-> f.mem]
    BY <2>4, <2>5
  <2>8. EntryAddr \in Int
    BY <1>2
  <2>9. IsMachine(n)
    BY <2>5, <2>6, <2>7, <2>8, MachineBuilt
  <2>10. /\ n.pc = EntryAddr /\ n.r = f.r /\ n.mem = f.mem /\ n.lr = f.lr /\ n.cr = cr
    BY <2>7
  <2> QED BY <2>6, <2>9, <2>10, Enters
<1>6. scene.backend \in {"direct", "fp"}
  BY DEF Laid, SceneOK
<1> QED BY <1>3, <1>4, <1>5, <1>6

-----------------------------------------------------------------------------
(* From stub to stub.                                                          *)

\* Links of the chain are links the module has room for.
LEMMA LinkBounds ==
  ASSUME SceneOK, NEW i \in 1..scene.hooks
  PROVE  i \in 1..MaxHooks /\ i \in 1..255 /\ 2 * i \in 0..511 /\ scene.shape # "REWRITE"
<1>1. scene.hooks \in Nat /\ scene.hooks <= 255 /\ scene.hooks <= MaxHooks /\ MaxHooks \in Nat
  BY WhereThingsAre, HooksAssumption DEF SceneOK
<1>2. scene.hooks # 0
  BY <1>1
<1> QED BY <1>1, <1>2 DEF SceneOK

\* The pointers are not in a stub's frame.
LEMMA PointersApart ==
  ASSUME SceneOK
  PROVE  /\ HeadAt \notin {SP - 16, SP - 8}
         /\ \A i \in 1..scene.hooks : NextAt(i) \notin {SP - 16, SP - 8}
<1>1. /\ SP \in Nat /\ SiteSlot \in Nat /\ HeadAt = SiteSlot + 65536
      /\ SP + 8 < SiteSlot \/ SiteSlot + 131072 <= SP - 16
      /\ \A i \in 1..MaxHooks : NextAt(i) = SiteSlot + 65536 + (4 * i)
  BY WhereThingsAre, StackAssumption
<1>2. HeadAt \notin {SP - 16, SP - 8}
  BY <1>1
<1>3. ASSUME NEW i \in 1..scene.hooks PROVE NextAt(i) \notin {SP - 16, SP - 8}
  <2>1. i \in 1..255 /\ NextAt(i) = SiteSlot + 65536 + (4 * i)
    BY <1>1, LinkBounds
  <2> QED BY <1>1, <2>1
<1> QED BY <1>2, <1>3

\* At the first word of what leads to a link.
LEMMA EntersLink ==
  ASSUME Laid, NEW f, NEW l \in {"site", "on"}, NEW n, LinkKept(n, f, l),
         NEW i \in 1..scene.hooks, i = 1 <=> l = "site",
         n.pc = LinkEntry(i), n.r[1] = SP, n.r[11] = f.r[11]
  PROVE  OnWay(n, f, l)
<1>1. scene.shape # "REWRITE"
  BY LinkBounds DEF Laid
<1>2. CASE scene.shape = "CALL"
  <2>1. n.pc = CallAt(i)
    BY <1>2 DEF LinkEntry, CallAt
  <2>2. CallAt(i) + (4 * (1 - 1)) = CallAt(i)
    <3>1. i \in 1..MaxHooks
      BY LinkBounds DEF Laid
    <3>2. SiteSlot \in Nat /\ CallAt(i) = SiteSlot + (128 * i) + 64
      BY <3>1, WhereThingsAre DEF CallAt, Laid
    <3> QED BY <3>2
  <2>3. InCall(CallAt(i), Ret, HookAt(i), 1, n)
    BY <2>1, <2>2 DEF InCall
  <2>4. OnCall(i, n)
    BY <2>3 DEF OnCall
  <2> QED BY <1>2, <2>4 DEF OnWay
<1>3. CASE scene.shape # "CALL"
  <2>1. n.pc = HookAt(i) /\ n.lr = f.lr
    BY <1>3 DEF LinkEntry, LinkKept
  <2>2. AtHook(i, n, f, l)
    BY <1>1, <1>3, <2>1 DEF AtHook
  <2> QED BY <2>2 DEF OnWay
<1> QED BY <1>2, <1>3

\* From the site to the first link.
LEMMA FirstGoes ==
  ASSUME Laid, NEW f, Left(f), NEW m, Carried(m, f), CondKept(m, f, "site"),
         LinkKept(m, f, "site"), scene.shape # "REWRITE",
         OnIndirect(EntryAddr, HeadAt, LinkEntry(1), m, f), NEW n, Runs(m, n)
  PROVE  At(n, f, "site")
<1>1. /\ HeadAt \in Nat /\ HeadAt <= kTop /\ HeadAt \notin {SP - 16, SP - 8}
      /\ SiteSlot \in Nat /\ EntryAddr = SiteSlot + (64 * 0)
  BY WhereThingsAre, PointersApart DEF Laid
<1>2. Stub(0) \in StubParts /\ StubWords(0) = BuildIndirect(HeadAt) /\ 0 \in 0..511
  BY PartsAreStubs DEF Laid, StubWords
<1>3. Read(f.mem, HeadAt) = LinkEntry(1)
  BY DEF Left
<1>4. LiesAt(0, EntryAddr, BuildIndirect(HeadAt))
  BY <1>1, <1>2 DEF LiesAt
<1>5. /\ Carried(n, f) /\ n.lr = m.lr /\ n.cr = m.cr
      /\ \/ OnIndirect(EntryAddr, HeadAt, LinkEntry(1), n, f)
         \/ n.pc = LinkEntry(1) /\ n.r[1] = SP /\ n.r[11] = f.r[11]
  BY <1>1, <1>3, <1>4, IndirectGoes
<1>6. CondKept(n, f, "site") /\ LinkKept(n, f, "site")
  BY <1>5 DEF CondKept, LinkKept
<1>7. 1 \in 1..scene.hooks
  BY WhereThingsAre DEF Laid, SceneOK
<1>8. OnWay(n, f, "site")
  <2>1. CASE OnIndirect(EntryAddr, HeadAt, LinkEntry(1), n, f)
    BY <1>6, <2>1 DEF OnWay
  <2>2. CASE n.pc = LinkEntry(1) /\ n.r[1] = SP /\ n.r[11] = f.r[11]
    BY <1>6, <1>7, <2>2, EntersLink
  <2> QED BY <1>5, <2>1, <2>2
<1> QED BY <1>5, <1>6, <1>8 DEF At

\* From a hook to the next, or to the thunk.
LEMMA NextGoes ==
  ASSUME Laid, NEW f, Left(f), NEW m, Carried(m, f), CondKept(m, f, "on"),
         LinkKept(m, f, "on"), ThunkAddr # 0, NEW i \in 1..scene.hooks,
         OnIndirect(NextShim(i), NextAt(i), NextTo(i), m, f), NEW n, Runs(m, n)
  PROVE  At(n, f, "on")
<1>1. i \in 1..MaxHooks /\ i \in 1..255 /\ 2 * i \in 0..511 /\ scene.shape # "REWRITE"
  BY LinkBounds DEF Laid
<1>2. SiteSlot \in Nat /\ scene.hooks \in Nat
  BY WhereThingsAre DEF Laid
<1>3. /\ NextAt(i) \in Nat /\ NextAt(i) <= kTop /\ NextAt(i) \notin {SP - 16, SP - 8}
      /\ NextShim(i) = SiteSlot + (128 * i)
  BY <1>1, WhereThingsAre, PointersApart DEF Laid
<1>4. NextShim(i) = SiteSlot + (64 * (2 * i))
  BY <1>1, <1>2, <1>3
<1>5. Stub(2 * i) \in StubParts /\ StubWords(2 * i) = BuildIndirect(NextAt(i))
  BY PartsAreStubs DEF Laid
<1>6. Read(f.mem, NextAt(i)) = NextTo(i)
  BY DEF Left
<1>7. LiesAt(2 * i, NextShim(i), BuildIndirect(NextAt(i)))
  BY <1>1, <1>4, <1>5 DEF LiesAt
<1>8. /\ Carried(n, f) /\ n.lr = m.lr /\ n.cr = m.cr
      /\ \/ OnIndirect(NextShim(i), NextAt(i), NextTo(i), n, f)
         \/ n.pc = NextTo(i) /\ n.r[1] = SP /\ n.r[11] = f.r[11]
  BY <1>3, <1>6, <1>7, IndirectGoes
<1>9. CondKept(n, f, "on") /\ LinkKept(n, f, "on")
  BY <1>8 DEF CondKept, LinkKept
<1>10. OnWay(n, f, "on")
  <2>1. CASE OnIndirect(NextShim(i), NextAt(i), NextTo(i), n, f)
    BY <1>1, <1>9, <2>1 DEF OnWay
  <2>2. CASE n.pc = NextTo(i) /\ n.r[1] = SP /\ n.r[11] = f.r[11]
    <3>1. CASE i < scene.hooks
      <4>1. i + 1 \in 1..scene.hooks /\ i + 1 # 1
        BY <1>1, <1>2, <3>1
      <4>2. n.pc = LinkEntry(i + 1)
        BY <2>2, <3>1 DEF NextTo
      <4> QED BY <1>9, <2>2, <4>1, <4>2, EntersLink
    <3>2. CASE ~(i < scene.hooks)
      <4>1. n.pc = ThunkAddr /\ ThunkAddr = SiteSlot + 64
        BY <2>2, <3>2, PartsAreStubs DEF NextTo, Laid
      <4>2. ShimAt = ThunkAddr /\ HasShim
        BY <1>1 DEF ShimAt, HasShim
      <4>3. n.pc = ShimAt + (4 * (1 - 1))
        BY <1>2, <4>1, <4>2
      <4>4. InRewrite(ShimAt, Ret, 1, n, f)
        BY <2>2, <4>3 DEF InRewrite
      <4>5. OnRewrite(ShimAt, n, f)
        BY <4>4 DEF OnRewrite
      <4>6. LastLeg("on")
        BY <1>1 DEF LastLeg
      <4> QED BY <1>9, <4>2, <4>5, <4>6 DEF OnWay
    <3> QED BY <3>1, <3>2
  <2> QED BY <1>8, <2>1, <2>2
<1> QED BY <1>8, <1>9, <1>10 DEF At

\* At a hook there is nothing of the library's to run.
LEMMA HooksAreNotWritten ==
  ASSUME Laid, NEW i \in 1..MaxHooks
  PROVE  HookAt(i) \notin DOMAIN Program
BY WhereWritten, HooksAreApart DEF Laid

\* On the way, a word leads on.
LEMMA WayGoes ==
  ASSUME Laid, NEW f, Left(f), NEW l \in {"site", "on"}, NEW m, Carried(m, f),
         CondKept(m, f, l), OnWay(m, f, l), m.pc \in DOMAIN Program, NEW n, Runs(m, n)
  PROVE  At(n, f, l)
<1>1. CASE /\ l = "site" /\ scene.shape # "REWRITE" /\ LinkKept(m, f, l)
           /\ OnIndirect(EntryAddr, HeadAt, LinkEntry(1), m, f)
  BY <1>1, FirstGoes
<1>2. CASE /\ l = "on" /\ scene.shape # "REWRITE" /\ LinkKept(m, f, l) /\ ThunkAddr # 0
           /\ \E i \in 1..scene.hooks : OnIndirect(NextShim(i), NextAt(i), NextTo(i), m, f)
  BY <1>2, NextGoes
<1>3. CASE scene.shape = "CALL" /\ \E i \in 1..scene.hooks : (i = 1 <=> l = "site") /\ OnCall(i, m)
  <2>1. PICK i \in 1..scene.hooks : (i = 1 <=> l = "site") /\ OnCall(i, m)
    BY <1>3
  <2>2. /\ Carried(n, f) /\ n.cr = m.cr
        /\ OnCall(i, n) \/ (n.pc = HookAt(i) /\ n.r[1] = SP /\ n.r[11] = HookAt(i) /\ n.lr = Ret)
    BY <1>3, <2>1, CallGoes
  <2>3. CondKept(n, f, l)
    BY <2>2 DEF CondKept
  <2>4. OnCall(i, n) \/ AtHook(i, n, f, l)
    BY <1>3, <2>1, <2>2 DEF AtHook
  <2>5. OnWay(n, f, l)
    BY <1>3, <2>1, <2>4 DEF OnWay
  <2> QED BY <2>2, <2>3, <2>5 DEF At
<1>4. CASE \E i \in 1..scene.hooks : AtHook(i, m, f, l)
  <2>1. PICK i \in 1..scene.hooks : m.pc = HookAt(i)
    BY <1>4 DEF AtHook
  <2>2. i \in 1..MaxHooks
    BY LinkBounds DEF Laid
  <2> QED BY <2>1, <2>2, HooksAreNotWritten
<1>5. CASE LastLeg(l) /\ HasShim /\ LinkKept(m, f, l) /\ OnRewrite(ShimAt, m, f)
  <2>1. \/ Carried(n, f) /\ n.lr = m.lr /\ n.cr = m.cr /\ OnRewrite(ShimAt, n, f)
        \/ Ran(Shown, ShimAt, n, f)
        \/ Gone(n, f, l)
    BY <1>5, RewriteGoes
  <2>2. CASE Carried(n, f) /\ n.lr = m.lr /\ n.cr = m.cr /\ OnRewrite(ShimAt, n, f)
    <3>1. CondKept(n, f, l) /\ LinkKept(n, f, l)
      BY <1>5, <2>2 DEF CondKept, LinkKept
    <3>2. OnWay(n, f, l)
      BY <1>5, <2>2, <3>1 DEF OnWay
    <3> QED BY <2>2, <3>1, <3>2 DEF At
  <2> QED BY <1>5, <2>1, <2>2 DEF At
<1> QED BY <1>1, <1>2, <1>3, <1>4, <1>5 DEF OnWay

\* Wherever a core is, a word the library wrote leads on.
LEMMA CourseRuns ==
  ASSUME Laid, NEW f, Left(f), NEW l, NEW m, At(m, f, l), m.pc \in DOMAIN Program,
         NEW n, Runs(m, n)
  PROVE  At(n, f, l)
<1>1. CASE m = f /\ f.pc = Site /\ l = "site"
  BY <1>1, Starts
<1>2. CASE l \in {"site", "on"} /\ Carried(m, f) /\ CondKept(m, f, l) /\ OnWay(m, f, l)
  BY <1>2, WayGoes
<1>3. CASE LastLeg(l) /\ HasShim /\ Ran(Shown, ShimAt, m, f)
  BY <1>3, RanGoes DEF At
<1>4. CASE Gone(m, f, l)
  BY <1>4, WhereWritten DEF Gone, Away
<1> QED BY <1>1, <1>2, <1>3, <1>4 DEF At

-----------------------------------------------------------------------------
(* The course is kept.                                                         *)

\* The inductive invariant: the scene stands, nothing has run until the site is applied,
\* and then a core is where the program leads it.
Course ==
  /\ SceneOK
  /\ site.state = "DECLARED" =>
       (\E cr \in BOOLEAN : machine = AtSite(cr)) /\ from = machine /\ leg = "site"
  /\ site.state = "APPLIED" =>
       /\ Laid /\ code = Program /\ site.entryAddr = EntryAddr /\ site.originalThunk = ThunkAddr
       /\ Left(from) /\ At(machine, from, leg)

\* What is said of the scene alone stays true with it.
LEMMA PlacesStay ==
  ASSUME scene' = scene
  PROVE  /\ SiteSlot' = SiteSlot /\ Site' = Site /\ Ret' = Ret /\ EntryAddr' = EntryAddr
         /\ HeadAt' = HeadAt /\ ThunkAddr' = ThunkAddr
         /\ \A i : /\ HookAt(i)' = HookAt(i) /\ NextAt(i)' = NextAt(i)
                   /\ LinkSlot(i)' = LinkSlot(i) /\ NextShim(i)' = NextShim(i)
                   /\ LinkEntry(i)' = LinkEntry(i) /\ CallAt(i)' = CallAt(i)
                   /\ NextTo(i)' = NextTo(i)
<1>1. /\ SiteSlot' = SiteSlot /\ Site' = Site /\ Ret' = Ret /\ EntryAddr' = EntryAddr
      /\ HeadAt' = HeadAt /\ ThunkAddr' = ThunkAddr
  BY DEF SiteSlot, Site, Ret, EntryAddr, HeadAt, ThunkAddr
<1>2. \A i : /\ HookAt(i)' = HookAt(i) /\ NextAt(i)' = NextAt(i)
             /\ LinkSlot(i)' = LinkSlot(i) /\ NextShim(i)' = NextShim(i)
  BY DEF HookAt, NextAt, LinkSlot, NextShim
<1>3. \A i : LinkEntry(i)' = LinkEntry(i) /\ CallAt(i)' = CallAt(i)
  BY <1>2 DEF LinkEntry, CallAt
<1>4. \A i : NextTo(i)' = NextTo(i)
  BY <1>1, <1>3 DEF NextTo
<1> QED BY <1>1, <1>2, <1>3, <1>4

\* So does what is written.
LEMMA ProgramStays ==
  ASSUME scene' = scene
  PROVE  Program' = Program /\ Laid' = Laid /\ SceneOK' = SceneOK
<1>1. PrepareSite' = PrepareSite
  BY PlacesStay DEF PrepareSite
<1>2. \A i : PrepareLink(i)' = PrepareLink(i)
  BY PlacesStay DEF PrepareLink
<1>3. SiteWords' = SiteWords
  BY PlacesStay DEF SiteWords
<1>4. Patched' = Patched
  BY <1>3, PlacesStay DEF Patched
<1>5. Program' = Program
  BY <1>1, <1>2, <1>4 DEF Program
<1>6. Applies' = Applies
  BY <1>3 DEF Applies
<1>7. SceneOK' = SceneOK
  BY DEF SceneOK, Fit
<1>8. HasShim' = HasShim
  BY PlacesStay DEF HasShim
<1>9. Laid' = Laid
  BY <1>6, <1>7, <1>8 DEF Laid
<1> QED BY <1>5, <1>7, <1>9

\* So does where a core may be.
LEMMA CourseStays ==
  ASSUME scene' = scene
  PROVE  \A m, f, l : At(m, f, l)' = At(m, f, l) /\ Left(f)' = Left(f)
<1>1. \A a : InSlots(a)' = InSlots(a)
  BY PlacesStay DEF InSlots
<1>2. \A a : Away(a)' = Away(a)
  BY <1>1, PlacesStay DEF Away
<1>3. /\ Shown' = Shown /\ ShimAt' = ShimAt /\ HasShim' = HasShim
      /\ \A l : LastLeg(l)' = LastLeg(l)
  BY PlacesStay DEF Shown, ShimAt, HasShim, LastLeg
<1>4. \A m, f, l : LinkKept(m, f, l)' = LinkKept(m, f, l) /\ CondKept(m, f, l)' = CondKept(m, f, l)
  BY DEF LinkKept, CondKept
<1>5. \A i, m, f, l : AtHook(i, m, f, l)' = AtHook(i, m, f, l)
  BY PlacesStay DEF AtHook
<1>6. /\ \A at, m, f : OnRewrite(at, m, f)' = OnRewrite(at, m, f)
      /\ \A i, m : OnCall(i, m)' = OnCall(i, m)
  BY PlacesStay DEF OnRewrite, OnCall
<1>7. ASSUME NEW m, NEW f, NEW l PROVE OnWay(m, f, l)' = OnWay(m, f, l)
  <2>1. OnIndirect(EntryAddr, HeadAt, LinkEntry(1), m, f)'
          = OnIndirect(EntryAddr, HeadAt, LinkEntry(1), m, f)
    BY PlacesStay
  <2>2. \A i : OnIndirect(NextShim(i), NextAt(i), NextTo(i), m, f)'
                 = OnIndirect(NextShim(i), NextAt(i), NextTo(i), m, f)
    BY PlacesStay
  <2>3. OnRewrite(ShimAt, m, f)' = OnRewrite(ShimAt, m, f)
    BY <1>3, <1>6
  <2> QED BY <1>3, <1>4, <1>5, <1>6, <2>1, <2>2, <2>3, PlacesStay DEF OnWay
<1>8. \A word, f : Would(word, f)' = Would(word, f)
  BY PlacesStay DEF Would, Back
<1>9. \A word, m, f : Alike(word, m, f)' = Alike(word, m, f)
  BY <1>8 DEF Alike
<1>10. \A m, f : Ran(Shown, ShimAt, m, f)' = Ran(Shown, ShimAt, m, f)
  BY <1>3, <1>8, <1>9, PlacesStay DEF Ran
<1>11. \A m, f, l : Gone(m, f, l)' = Gone(m, f, l)
  BY <1>2, <1>3, <1>8, <1>9 DEF Gone
<1>12. \A f : Left(f)' = Left(f)
  BY <1>2, PlacesStay DEF Left
<1>13. \A m, f, l : At(m, f, l)' = At(m, f, l)
  BY <1>3, <1>4, <1>7, <1>10, <1>11, PlacesStay DEF At
<1> QED BY <1>12, <1>13

-----------------------------------------------------------------------------
(* The first states.                                                           *)

\* What the title has at a site, or a patch brings, fits there.
LEMMA WordsFit ==
  ASSUME scene.place \in Places, NEW word \in Words \cup Replacements
  PROVE  Fit(word)
BY WordsAssumption, PlacesAssumption DEF Fit

\* So does what the loader made of it.
LEMMA LinkedFits ==
  ASSUME scene.place \in Places, NEW word \in Words, NEW half \in MayHold(word.op),
         half # "none" => word.a # 1, NEW address
  PROVE  address \in Nat => Fit(LinkedAs(word, half, address))
<1> SUFFICES ASSUME address \in Nat PROVE Fit(LinkedAs(word, half, address))
  OBVIOUS
<1>1. CASE half = "none"
  BY <1>1, WordsFit DEF LinkedAs
<1>2. CASE half # "none"
  <2>1. word.op \in LowFields \cup {15}
    BY <1>2 DEF MayHold
  <2>2. word.op \notin {16, 18, 31}
    BY <2>1 DEF LowFields
  <2>3. HalfOf(half, address) \in Nat /\ HalfOf(half, address) < Half
    <3>1. half \in {"low", "high", "adjusted"}
      BY <1>2 DEF MayHold
    <3>2. address + 32768 \in Nat
      OBVIOUS
    <3>3. \A x \in Nat : /\ High(x) \in Nat /\ High(x) < Half /\ Low(x) \in Nat /\ Low(x) < Half
      BY SMT DEF High, Low, Half
    <3> QED BY <3>1, <3>2, <3>3 DEF HalfOf
  <2>4. PICK imm \in Nat : imm = HalfOf(half, address) /\ imm < Half
    BY <2>3
  <2>5. PICK linked : linked = [word EXCEPT !.imm = imm]
    OBVIOUS
  <2>6. linked = LinkedAs(word, half, address)
    BY <1>2, <2>4, <2>5 DEF LinkedAs
  <2>7. /\ word \in [op : 0..63, xo : Nat, t : Registers, a : Registers, imm : Nat,
                    abs : BOOLEAN, link : BOOLEAN, dec : BOOLEAN, cond : BOOLEAN]
        /\ Instruction(word)
    BY WordsAssumption DEF Instruction
  <2>8. /\ linked \in [op : 0..63, xo : Nat, t : Registers, a : Registers, imm : Nat,
                      abs : BOOLEAN, link : BOOLEAN, dec : BOOLEAN, cond : BOOLEAN]
        /\ linked.op = word.op /\ linked.imm = imm /\ linked.a = word.a
    BY <2>5, <2>7
  <2>9. Instruction(linked)
    BY <1>2, <2>2, <2>4, <2>8 DEF Instruction
  <2>10. Fit(linked)
    BY <2>2, <2>8, <2>9 DEF Fit
  <2> QED BY <2>6, <2>10
<1> QED BY <1>1, <1>2

\* Another patcher's branch is a word as well.
LEMMA ForeignFits == Fit(Foreign)
<1> DEFINE Fields == [op : 0..63, xo : Nat, t : Registers, a : Registers, imm : Nat,
                      abs : BOOLEAN, link : BOOLEAN, dec : BOOLEAN, cond : BOOLEAN]
<1>1. 0 \in Registers
  BY DEF Registers
<1>2. PICK blank : blank = Blank
  OBVIOUS
<1>3. blank \in Fields /\ blank.xo = 0 /\ blank.abs = FALSE
  BY <1>1, <1>2 DEF Blank
<1>4. PICK op \in 0..63, imm \in Nat : op = 18 /\ imm = 2048
  OBVIOUS
<1>5. PICK other : other = [blank EXCEPT !.op = op]
  OBVIOUS
<1>6. other \in Fields /\ other.op = 18 /\ other.xo = 0 /\ other.abs = FALSE
  BY <1>3, <1>4, <1>5
<1>7. PICK word : word = [other EXCEPT !.imm = imm]
  OBVIOUS
<1>8. word \in Fields /\ word.op = 18 /\ word.xo = 0 /\ word.abs = FALSE
  BY <1>6, <1>7
<1>9. Instruction(word)
  BY <1>8 DEF Instruction
<1>10. word = Foreign
  BY <1>2, <1>4, <1>5, <1>7 DEF Foreign
<1> QED BY <1>8, <1>9, <1>10 DEF Fit

\* Every initial state is on course.
LEMMA InitCourse == Init => Course
<1> SUFFICES ASSUME Init PROVE Course
  OBVIOUS
<1> DEFINE Set(word, native, held, shape, place, backend, external, replacement, hooks) ==
        [shape |-> shape, place |-> place, backend |-> backend,
         external |-> external, delta |-> held.delta, native |-> native,
         expected |-> LinkedAs(word, held.half, held.address),
         live |-> IF native THEN LinkedAs(word, held.half, held.address + held.delta)
                            ELSE Foreign,
         replacement |-> replacement, hooks |-> hooks]
<1>1. PICK shape \in Shapes, word \in Words, place \in Places,
           backend \in {"direct", "fp"}, native \in BOOLEAN :
        \E held \in Halved(word), external \in IF shape = "JUMP" THEN BOOLEAN ELSE {FALSE},
           replacement \in IF shape = "REWRITE" THEN Replacements ELSE {Blank},
           hooks \in IF shape = "REWRITE" THEN {0} ELSE 1..MaxHooks :
          scene = Set(word, native, held, shape, place, backend, external, replacement, hooks)
  BY Zenon DEF Init
<1>2. PICK held \in Halved(word), external \in IF shape = "JUMP" THEN BOOLEAN ELSE {FALSE},
            replacement \in IF shape = "REWRITE" THEN Replacements ELSE {Blank},
            hooks \in IF shape = "REWRITE" THEN {0} ELSE 1..MaxHooks :
          scene = Set(word, native, held, shape, place, backend, external, replacement, hooks)
  BY <1>1, Zenon
<1>3. /\ scene.shape = shape /\ scene.place = place /\ scene.backend = backend
      /\ scene.external = external /\ scene.replacement = replacement /\ scene.hooks = hooks
      /\ scene.live = IF native THEN LinkedAs(word, held.half, held.address + held.delta)
                                ELSE Foreign
  BY <1>2
<1>4. /\ held.half \in MayHold(word.op) /\ held.address \in Nat /\ held.delta \in Nat
      /\ held.half # "none" => word.a # 1
  <2>1. CASE held \in [half : {"none"}, address : {0}, delta : {0}]
    BY <2>1 DEF MayHold
  <2>2. CASE held \in [half : IF word.a = 1 THEN {} ELSE MayHold(word.op) \ {"none"},
                       address : Linked, delta : DataDeltas]
    <3>1. held.half \in IF word.a = 1 THEN {} ELSE MayHold(word.op) \ {"none"}
      BY <2>2
    <3> QED BY <2>2, <3>1, LinkedAssumption
  <2> QED BY <1>3, <2>1, <2>2 DEF Halved
<1>5. scene.place \in Places
  BY <1>3
<1>6. Fit(scene.live)
  <2>1. CASE native
    <3>1. held.address + held.delta \in Nat
      BY <1>4
    <3> QED BY <1>3, <1>4, <1>5, <2>1, <3>1, LinkedFits
  <2>2. CASE ~native
    BY <1>3, <2>2, ForeignFits
  <2> QED BY <2>1, <2>2
<1>7. shape \in {"JUMP", "CALL", "REWRITE"}
  BY ShapesAssumption
<1>8. scene.shape = "REWRITE" => Fit(scene.replacement)
  BY <1>3, <1>5, WordsFit
<1>9. hooks \in 0..MaxHooks /\ (hooks = 0 <=> shape = "REWRITE")
  <2>1. MaxHooks \in Nat
    BY HooksAssumption
  <2>2. CASE shape = "REWRITE"
    BY <2>1, <2>2
  <2>3. CASE shape # "REWRITE"
    BY <2>1, <2>3
  <2> QED BY <2>2, <2>3
<1>10. external \in BOOLEAN /\ (external => shape = "JUMP")
  OBVIOUS
<1>11. SceneOK
  BY <1>3, <1>5, <1>6, <1>7, <1>8, <1>9, <1>10 DEF SceneOK
<1>12. /\ site.state = "DECLARED" /\ from = machine /\ leg = "site"
       /\ \E cr \in BOOLEAN : machine = AtSite(cr)
  <2>1. site.state = "DECLARED" /\ from = machine /\ leg = "site"
    BY DEF Init
  <2>2. \E cr \in IF scene.live.cond THEN BOOLEAN ELSE {TRUE} : machine = AtSite(cr)
    BY Zenon DEF Init
  <2> QED BY <2>1, <2>2
<1> QED BY <1>11, <1>12 DEF Course

-----------------------------------------------------------------------------
(* The steps.                                                                  *)

\* What leads to a link is an address.
LEMMA EntriesAre ==
  ASSUME SceneOK
  PROVE  /\ ThunkAddr \in Int
         /\ \A i \in 1..scene.hooks : LinkEntry(i) \in Int /\ NextTo(i) \in Int
<1>1. SiteSlot \in Nat /\ ThunkAddr \in {0, SiteSlot + 64} /\ scene.hooks \in Nat
  BY WhereThingsAre
<1>2. ASSUME NEW i \in 1..scene.hooks PROVE LinkEntry(i) \in Int
  <2>1. i \in 1..MaxHooks /\ i \in Int
    BY LinkBounds
  <2>2. /\ HookAt(i) \in Nat /\ LinkSlot(i) + (4 * kLinkCallOffset) = SiteSlot + (128 * i) + 64
    BY <2>1, WhereThingsAre
  <2>3. LinkSlot(i) + (4 * kLinkCallOffset) \in Int
    BY <1>1, <2>1, <2>2
  <2> QED BY <2>2, <2>3 DEF LinkEntry
<1>3. ASSUME NEW i \in 1..scene.hooks PROVE NextTo(i) \in Int
  <2>1. i < scene.hooks => i + 1 \in 1..scene.hooks
    BY <1>1
  <2> QED BY <1>1, <1>2, <2>1 DEF NextTo
<1> QED BY <1>1, <1>2, <1>3

\* What the head and the links hold.
LEMMA PointersHold ==
  ASSUME SceneOK
  PROVE  /\ DOMAIN Pointers = {HeadAt} \cup {NextAt(i) : i \in 1..scene.hooks}
         /\ \A a \in DOMAIN Pointers :
              /\ a \in Int /\ SiteSlot <= a /\ a < SiteSlot + 131072 /\ Pointers[a] \in Int
         /\ scene.shape # "REWRITE" => Pointers[HeadAt] = LinkEntry(1)
         /\ \A i \in 1..scene.hooks : Pointers[NextAt(i)] = NextTo(i)
<1>1. DOMAIN Pointers = {HeadAt} \cup {NextAt(i) : i \in 1..scene.hooks}
  BY DEF Pointers
<1>2. /\ SiteSlot \in Nat /\ HeadAt = SiteSlot + 65536 /\ HeadAt \in Nat /\ scene.hooks \in Nat
      /\ \A i \in 1..MaxHooks : NextAt(i) = SiteSlot + 65536 + (4 * i)
  BY WhereThingsAre
<1>3. Pointers[HeadAt] = IF 0 < scene.hooks THEN LinkEntry(1) ELSE ThunkAddr
  <2>1. (HeadAt - HeadAt) \div 4 = 0 /\ 0 + 1 = 1
    BY <1>2
  <2>2. PICK at : at = HeadAt
    OBVIOUS
  <2>3. Pointers[at] = LET i == (at - HeadAt) \div 4
                       IN  IF i < scene.hooks THEN LinkEntry(i + 1) ELSE ThunkAddr
    BY <2>2 DEF Pointers
  <2> QED BY <2>1, <2>2, <2>3
<1>4. ASSUME NEW i \in 1..scene.hooks
      PROVE  /\ Pointers[NextAt(i)] = NextTo(i)
             /\ NextAt(i) \in Int /\ SiteSlot <= NextAt(i) /\ NextAt(i) < SiteSlot + 131072
  <2>1. i \in 1..MaxHooks /\ i \in 1..255
    BY LinkBounds
  <2>2. NextAt(i) = SiteSlot + 65536 + (4 * i)
    BY <1>2, <2>1
  <2>3. (NextAt(i) - HeadAt) \div 4 = i
    <3>1. NextAt(i) - HeadAt = 4 * i
      BY <1>2, <2>1, <2>2
    <3>2. (4 * i) \div 4 = i
      BY <2>1, SMT
    <3> QED BY <3>1, <3>2
  <2>4. PICK at : at = NextAt(i)
    OBVIOUS
  <2>5. Pointers[at] = LET k == (at - HeadAt) \div 4
                       IN  IF k < scene.hooks THEN LinkEntry(k + 1) ELSE ThunkAddr
    BY <2>4 DEF Pointers
  <2>6. Pointers[NextAt(i)] = NextTo(i)
    BY <2>3, <2>4, <2>5 DEF NextTo
  <2>7. NextAt(i) \in Int /\ SiteSlot <= NextAt(i) /\ NextAt(i) < SiteSlot + 131072
    BY <1>2, <2>1, <2>2
  <2> QED BY <2>6, <2>7
<1>5. scene.shape # "REWRITE" => 0 < scene.hooks
  BY <1>2 DEF SceneOK
<1>6. Pointers[HeadAt] \in Int
  <2>1. 0 < scene.hooks => 1 \in 1..scene.hooks
    BY <1>2
  <2> QED BY <1>3, <2>1, EntriesAre
<1>7. ASSUME NEW a \in DOMAIN Pointers
      PROVE  a \in Int /\ SiteSlot <= a /\ a < SiteSlot + 131072 /\ Pointers[a] \in Int
  <2>1. CASE a = HeadAt
    BY <1>2, <1>6, <2>1
  <2>2. CASE a \in {NextAt(i) : i \in 1..scene.hooks}
    <3>1. PICK i \in 1..scene.hooks : a = NextAt(i)
      BY <2>2
    <3> QED BY <1>4, <3>1, EntriesAre
  <2> QED BY <1>1, <2>1, <2>2
<1> QED BY <1>1, <1>3, <1>4, <1>5, <1>7

\* A core that comes to a site whose chain is published.
LEMMA Comes ==
  ASSUME SceneOK, NEW cr \in BOOLEAN, NEW m, m = AtSite(cr),
         NEW f, f = [m EXCEPT !.mem = Merged({Pointers, @})]
  PROVE  Left(f) /\ f.pc = Site
<1> DEFINE stack == [a \in {SP, SP + 8} |-> a - SP]
           regs  == [reg \in Registers |-> IF reg = 1 THEN SP ELSE reg * Half]
<1>1. SP \in Nat
  BY StackAssumption
<1>2. m = [pc |-> Site, lr |-> Caller, ctr |-> 1, cr |-> cr, r |-> regs, mem |-> stack]
  BY DEF AtSite, Site
<1>3. PICK mem : mem = Merged({Pointers, stack})
  OBVIOUS
<1>4. f = [pc |-> Site, r |-> regs, lr |-> Caller, ctr |-> 1, cr |-> cr, mem |-> mem]
  <2> HIDE DEF stack, regs
  <2>1. PICK s : s = stack
    OBVIOUS
  <2>2. PICK r : r = regs
    OBVIOUS
  <2>3. m.mem = stack
    BY <1>2
  <2>4. f = [m EXCEPT !.mem = mem]
    BY <1>3, <2>3
  <2> QED BY <1>2, <2>4
<1>5. \A a \in DOMAIN stack : a \in {SP, SP + 8} /\ stack[a] \in Int
  BY <1>1
<1>6. \A a \in DOMAIN Pointers : a \notin DOMAIN stack
  <2>1. SP + 8 < SiteSlot \/ SiteSlot + 131072 <= SP - 16
    BY WhereThingsAre
  <2>2. SiteSlot \in Nat
    BY WhereThingsAre
  <2>3. \A a \in DOMAIN Pointers : a \in Int /\ SiteSlot <= a /\ a < SiteSlot + 131072
    BY PointersHold
  <2> QED BY <1>1, <2>1, <2>2, <2>3
<1>7. \A a \in DOMAIN Pointers : a \in DOMAIN mem /\ mem[a] = Pointers[a]
  <2> SUFFICES ASSUME NEW a \in DOMAIN Pointers
               PROVE  a \in DOMAIN mem /\ mem[a] = Pointers[a]
    OBVIOUS
  <2>1. \A other \in {Pointers, stack} : a \in DOMAIN other => other = Pointers
    BY <1>6
  <2> HIDE DEF stack
  <2> QED BY <1>3, <2>1, PartIsThere
<1>8. \A a \in DOMAIN mem : mem[a] \in Int
  <2> SUFFICES ASSUME NEW a \in DOMAIN mem PROVE mem[a] \in Int
    OBVIOUS
  <2>1. CASE a \in DOMAIN Pointers
    BY <1>7, <2>1, PointersHold
  <2>2. CASE a \notin DOMAIN Pointers
    <3>1. a \in UNION {DOMAIN part : part \in {Pointers, stack}}
      BY <1>3 DEF Merged
    <3>2. a \in DOMAIN stack
      BY <2>2, <3>1
    <3>3. \A other \in {Pointers, stack} : a \in DOMAIN other => other = stack
      BY <2>2
    <3>4. mem[a] = stack[a]
      <4> HIDE DEF stack
      <4> QED BY <1>3, <3>2, <3>3, PartIsThere
    <3> QED BY <1>5, <3>2, <3>4
  <2> QED BY <2>1, <2>2
<1>9. /\ regs \in [Registers -> Int] /\ regs[0] = 0 /\ regs[1] = SP
      /\ regs[3] = 3 * Half /\ regs[11] = 11 * Half
  <2>1. Half \in Int /\ 0 * Half = 0
    BY DEF Half
  <2> QED BY <1>1, <2>1 DEF Registers
<1>10. Site \in Int /\ Caller \in Int
  BY WhereThingsAre, PlacesAssumption
<1> HIDE DEF stack, regs
<1>11. IsMachine(f)
  <2>1. PICK ctr \in Int : ctr = 1
    OBVIOUS
  <2>2. f = [pc |-> Site, r |-> regs, lr |-> Caller, ctr |-> ctr, cr |-> cr, mem |-> mem]
    BY <1>4, <2>1
  <2>3. IsMachine([pc |-> Site, r |-> regs, lr |-> Caller, ctr |-> ctr, cr |-> cr, mem |-> mem])
    BY <1>8, <1>9, <1>10, MachineBuilt
  <2> QED BY <2>2, <2>3
<1>12. /\ f.pc = Site /\ f.r = regs /\ f.lr = Caller /\ f.mem = mem
  BY <1>4
<1>13. Away(Caller)
  <2>1. Elsewhere(scene.place, Caller)
    BY PlacesAssumption DEF SceneOK
  <2> QED BY <1>10, <2>1, AwayOnes
<1>14. /\ scene.shape # "REWRITE" => Read(f.mem, HeadAt) = LinkEntry(1)
       /\ \A i \in 1..scene.hooks : Read(f.mem, NextAt(i)) = NextTo(i)
  BY <1>7, <1>12, PointersHold DEF Read
<1> QED BY <1>9, <1>11, <1>12, <1>13, <1>14 DEF Left

\* Who is at a hook has come there as hooks are entered.
LEMMA AtAHook ==
  ASSUME Laid, NEW m, NEW f, Left(f), NEW l, At(m, f, l), NEW i \in 1..MaxHooks, m.pc = HookAt(i)
  PROVE  /\ i \in 1..scene.hooks /\ AtHook(i, m, f, l) /\ l \in {"site", "on"}
         /\ Carried(m, f) /\ CondKept(m, f, l)
<1>1. ~InSlots(m.pc) /\ m.pc # Site /\ \A k \in 1..MaxHooks : HookAt(k) = m.pc => k = i
  BY HooksAreApart DEF Laid
<1>2. ~(m = f /\ f.pc = Site /\ l = "site") /\ ~Gone(m, f, l)
  BY <1>1 DEF Gone, Away
<1>3. SiteSlot \in Nat
  BY WhereThingsAre DEF Laid
<1>4. \A j \in 0..511 : \A k \in 1..9 : m.pc # SiteSlot + (64 * j) + (4 * (k - 1))
  BY <1>1, SlotPlace DEF Laid
<1>5. ASSUME NEW j \in 0..511, NEW at, at = SiteSlot + (64 * j)
      PROVE  \A k \in 1..9 : m.pc # at + (4 * (k - 1))
  BY <1>4, <1>5
<1>6. HasShim => \A k \in 1..9 : m.pc # ShimAt + (4 * (k - 1))
  <2> SUFFICES ASSUME HasShim PROVE \A k \in 1..9 : m.pc # ShimAt + (4 * (k - 1))
    OBVIOUS
  <2>1. PICK j \in {0, 1} : ShimAt = SiteSlot + (64 * j)
    BY ShimThere
  <2>2. j \in 0..511
    OBVIOUS
  <2> QED BY <1>5, <2>1, <2>2
<1>7. ~(LastLeg(l) /\ HasShim /\ Ran(Shown, ShimAt, m, f))
  <2>1. HasShim => m.pc # ShimAt + (4 * (9 - 1))
    BY <1>6
  <2>2. 4 * (9 - 1) = 32
    OBVIOUS
  <2> QED BY <2>1, <2>2 DEF Ran
<1>8. l \in {"site", "on"} /\ Carried(m, f) /\ CondKept(m, f, l) /\ OnWay(m, f, l)
  BY <1>2, <1>7 DEF At
<1>9. ~OnIndirect(EntryAddr, HeadAt, LinkEntry(1), m, f)
  <2>1. EntryAddr = SiteSlot + (64 * 0) /\ 0 \in 0..511
    BY <1>3, WhereThingsAre DEF Laid
  <2>2. \A k \in 1..9 : m.pc # EntryAddr + (4 * (k - 1))
    BY <1>5, <2>1
  <2> QED BY <2>2 DEF OnIndirect, InIndirect
<1>10. ASSUME NEW k \in 1..scene.hooks
       PROVE  ~OnIndirect(NextShim(k), NextAt(k), NextTo(k), m, f) /\ ~OnCall(k, m)
  <2>1. /\ k \in 1..MaxHooks /\ k \in 1..255 /\ 2 * k \in 0..511 /\ (2 * k) + 1 \in 0..511
    BY <1>10, LinkBounds DEF Laid
  <2>2. NextShim(k) = SiteSlot + (128 * k) /\ CallAt(k) = SiteSlot + (128 * k) + 64
    BY <2>1, WhereThingsAre DEF Laid, CallAt
  <2>3. NextShim(k) = SiteSlot + (64 * (2 * k)) /\ CallAt(k) = SiteSlot + (64 * ((2 * k) + 1))
    BY <1>3, <2>1, <2>2
  <2>4. \A q \in 1..9 : m.pc # NextShim(k) + (4 * (q - 1))
    BY <1>5, <2>1, <2>3
  <2>5. \A q \in 1..9 : m.pc # CallAt(k) + (4 * (q - 1))
    BY <1>5, <2>1, <2>3
  <2>6. \A q \in 1..7 : m.pc # CallAt(k) + (4 * (q - 1))
    BY <2>5
  <2> QED BY <2>4, <2>6 DEF OnIndirect, InIndirect, OnCall, InCall
<1>11. ~(HasShim /\ OnRewrite(ShimAt, m, f))
  <2>1. HasShim => \A k \in 1..8 : m.pc # ShimAt + (4 * (k - 1))
    BY <1>6
  <2> QED BY <2>1 DEF OnRewrite, InRewrite
<1>12. PICK k \in 1..scene.hooks : AtHook(k, m, f, l)
  BY <1>8, <1>9, <1>10, <1>11 DEF OnWay
<1>13. k = i
  <2>1. k \in 1..MaxHooks
    BY LinkBounds DEF Laid
  <2> QED BY <1>1, <1>12, <2>1 DEF AtHook
<1> QED BY <1>8, <1>12, <1>13

\* On the way there is always a word of the library's to run, or a hook.
LEMMA OnlyGoneIsOut ==
  ASSUME Laid, NEW m, NEW f, NEW l, Left(f), At(m, f, l), m.pc \notin DOMAIN Program,
         \A i \in 1..MaxHooks : m.pc # HookAt(i)
  PROVE  Gone(m, f, l)
<1>1. SiteSlot \in Nat
  BY WhereThingsAre DEF Laid
<1>2. Site \in DOMAIN Program
  BY LaidDown
<1>3. ASSUME NEW j \in 0..511, NEW at, at = SiteSlot + (64 * j), Stub(j) \in StubParts
      PROVE  \A k \in DOMAIN StubWords(j) : m.pc # at + (4 * (k - 1))
  BY <1>3, StubWritten
<1>4. HasShim => \A k \in 1..9 : m.pc # ShimAt + (4 * (k - 1))
  <2> SUFFICES ASSUME HasShim PROVE \A k \in 1..9 : m.pc # ShimAt + (4 * (k - 1))
    OBVIOUS
  <2>1. PICK j \in {0, 1} : /\ ShimAt = SiteSlot + (64 * j) /\ Stub(j) \in StubParts
                            /\ StubWords(j) = BuildRewrite(Ret, Shown)
    BY ShimThere
  <2>2. j \in 0..511 /\ DOMAIN StubWords(j) = 1..9
    BY <2>1, StubLengths
  <2> QED BY <1>3, <2>1, <2>2
<1>5. ~(LastLeg(l) /\ HasShim /\ Ran(Shown, ShimAt, m, f))
  <2>1. HasShim => m.pc # ShimAt + (4 * (9 - 1))
    BY <1>4
  <2>2. 4 * (9 - 1) = 32
    OBVIOUS
  <2> QED BY <2>1, <2>2 DEF Ran
<1>6. ~(HasShim /\ OnRewrite(ShimAt, m, f))
  <2>1. HasShim => \A k \in 1..8 : m.pc # ShimAt + (4 * (k - 1))
    BY <1>4
  <2> QED BY <2>1 DEF OnRewrite, InRewrite
<1>7. scene.shape # "REWRITE" => ~OnIndirect(EntryAddr, HeadAt, LinkEntry(1), m, f)
  <2> SUFFICES ASSUME scene.shape # "REWRITE"
               PROVE  ~OnIndirect(EntryAddr, HeadAt, LinkEntry(1), m, f)
    OBVIOUS
  <2>1. EntryAddr = SiteSlot + (64 * 0) /\ 0 \in 0..511 /\ Stub(0) \in StubParts
    BY <1>1, WhereThingsAre, PartsAreStubs DEF Laid
  <2>2. StubWords(0) = BuildIndirect(HeadAt)
    BY DEF StubWords
  <2>3. DOMAIN StubWords(0) = 1..9
    BY <2>2, StubLengths
  <2>4. \A k \in 1..9 : m.pc # EntryAddr + (4 * (k - 1))
    BY <1>3, <2>1, <2>3
  <2> QED BY <2>4 DEF OnIndirect, InIndirect
<1>8. ASSUME NEW i \in 1..scene.hooks
      PROVE  /\ ~OnIndirect(NextShim(i), NextAt(i), NextTo(i), m, f)
             /\ scene.shape = "CALL" => ~OnCall(i, m)
             /\ ~AtHook(i, m, f, l)
  <2>1. i \in 1..MaxHooks /\ i \in 1..255 /\ 2 * i \in 0..511 /\ (2 * i) + 1 \in 0..511
    BY <1>8, LinkBounds DEF Laid
  <2>2. NextShim(i) = SiteSlot + (128 * i) /\ CallAt(i) = SiteSlot + (128 * i) + 64
    BY <2>1, WhereThingsAre DEF Laid, CallAt
  <2>3. NextShim(i) = SiteSlot + (64 * (2 * i)) /\ CallAt(i) = SiteSlot + (64 * ((2 * i) + 1))
    BY <1>1, <2>1, <2>2
  <2>4. /\ Stub(2 * i) \in StubParts /\ StubWords(2 * i) = BuildIndirect(NextAt(i))
        /\ scene.shape = "CALL" => /\ Stub((2 * i) + 1) \in StubParts
                                   /\ StubWords((2 * i) + 1) = BuildCall(Ret, HookAt(i))
    BY PartsAreStubs DEF Laid
  <2>5. DOMAIN StubWords(2 * i) = 1..9
    BY <2>4, StubLengths
  <2>6. \A k \in 1..9 : m.pc # NextShim(i) + (4 * (k - 1))
    BY <1>3, <2>1, <2>3, <2>4, <2>5
  <2>7. scene.shape = "CALL" => \A k \in 1..7 : m.pc # CallAt(i) + (4 * (k - 1))
    <3> SUFFICES ASSUME scene.shape = "CALL"
                 PROVE  \A k \in 1..7 : m.pc # CallAt(i) + (4 * (k - 1))
      OBVIOUS
    <3>1. DOMAIN StubWords((2 * i) + 1) = 1..7
      BY <2>4, StubLengths
    <3> QED BY <1>3, <2>1, <2>3, <2>4, <3>1
  <2> QED BY <2>1, <2>6, <2>7 DEF OnIndirect, InIndirect, OnCall, InCall, AtHook
<1>9. ~OnWay(m, f, l)
  BY <1>6, <1>7, <1>8 DEF OnWay
<1>10. ~(m = f /\ f.pc = Site)
  BY <1>2
<1> QED BY <1>5, <1>9, <1>10 DEF At

\* A hook that goes on leaves the machine as hooks do, at the first word of the stub
\* that leads on.
LEMMA GoesOn ==
  ASSUME Laid, NEW f, Left(f), NEW l, NEW m, At(m, f, l), NEW i \in 1..MaxHooks,
         m.pc = HookAt(i), ThunkAddr # 0, NEW lr \in {m.lr, HookAt(i) + 8},
         NEW n, n = [m EXCEPT !.pc = NextShim(i), !.lr = lr, !.ctr = 1, !.r[3] = 2 * Half]
  PROVE  Left(n) /\ At(n, n, "on")
<1>1. /\ i \in 1..scene.hooks /\ AtHook(i, m, f, l) /\ Carried(m, f)
  BY AtAHook
<1>2. /\ m = [pc |-> m.pc, r |-> m.r, lr |-> m.lr, ctr |-> m.ctr, cr |-> m.cr, mem |-> m.mem]
      /\ m.pc \in Int /\ m.lr \in Int /\ m.ctr \in Int /\ m.cr \in BOOLEAN
      /\ m.r \in [Registers -> Int]
      /\ \A a \in DOMAIN m.mem : m.mem[a] \in Int
  BY <1>1 DEF Carried, IsMachine
<1>3. /\ m.r[0] = 0 /\ m.r[1] = SP
      /\ m.r[11] = 11 * Half \/ \E k \in 1..scene.hooks : m.r[11] = HookAt(k)
  <2>1. m.r[0] = f.r[0] /\ m.r[1] = SP /\ (m.r[11] = HookAt(i) \/ m.r[11] = f.r[11])
    BY <1>1 DEF Carried, AtHook
  <2> QED BY <1>1, <2>1 DEF Left
<1>4. Away(m.lr)
  <2>1. m.lr = Ret \/ m.lr = f.lr
    BY <1>1 DEF AtHook
  <2>2. Away(Ret)
    BY AwayOnes DEF Laid
  <2> QED BY <2>1, <2>2 DEF Left
<1>5. Away(lr) /\ lr \in Int
  <2>1. Away(HookAt(i) + 8)
    BY AwayOnes DEF Laid
  <2> QED BY <1>4, <2>1 DEF Away
<1>6. PICK x \in Int, ctr \in Int : x = 2 * Half /\ ctr = 1
  BY DEF Half
<1>7. PICK pc : pc = NextShim(i)
  OBVIOUS
<1>8. pc \in Int /\ pc = pc + (4 * (1 - 1))
  <2>1. SiteSlot \in Nat /\ NextShim(i) = SiteSlot + (128 * i) /\ i \in Int
    BY WhereThingsAre DEF Laid
  <2> QED BY <1>6, <1>7, <2>1
<1>9. PICK r : r = [m.r EXCEPT ![3] = x]
  OBVIOUS
<1>10. /\ r \in [Registers -> Int] /\ r[3] = x
      /\ r[0] = m.r[0] /\ r[1] = m.r[1] /\ r[11] = m.r[11]
  BY <1>2, <1>6, <1>7, <1>9 DEF Registers
<1>11. n = [pc |-> pc, r |-> r, lr |-> lr, ctr |-> ctr, cr |-> m.cr, mem |-> m.mem]
  <2>1. n = [m EXCEPT !.pc = pc, !.lr = lr, !.ctr = ctr, !.r[3] = x]
    BY <1>6, <1>7
  <2>2. [m EXCEPT !.r[3] = x].r = r
    BY <1>2, <1>9
  <2> QED BY <1>2, <1>9, <2>1
<1>12. PICK cr \in BOOLEAN : cr = m.cr
  BY <1>2
<1>13. PICK mem : mem = m.mem
  OBVIOUS
<1>14. PICK made : made = [pc |-> pc, r |-> r, lr |-> lr, ctr |-> ctr, cr |-> cr, mem |-> mem]
  OBVIOUS
<1>15. IsMachine(made)
  BY <1>2, <1>5, <1>6, <1>7, <1>8, <1>10, <1>12, <1>13, <1>14, MachineBuilt
<1>16. made.pc = pc /\ made.r = r /\ made.lr = lr /\ made.cr = cr /\ made.mem = mem
  BY <1>14
<1>17. n = made
  BY <1>11, <1>12, <1>13, <1>14
<1>18. IsMachine(n)
  BY <1>15, <1>17
<1>19. n.pc = pc /\ n.r = r /\ n.lr = lr /\ n.cr = m.cr /\ n.mem = m.mem
  BY <1>12, <1>13, <1>16, <1>17
<1>20. /\ scene.shape # "REWRITE" => Read(n.mem, HeadAt) = LinkEntry(1)
       /\ \A k \in 1..scene.hooks : Read(n.mem, NextAt(k)) = NextTo(k)
  BY <1>1, <1>19, PointersApart DEF Carried, Kept, Left, Laid
<1>21. Left(n)
  BY <1>3, <1>5, <1>6, <1>7, <1>10, <1>18, <1>19, <1>20 DEF Left
<1>22. Carried(n, n) /\ CondKept(n, n, "on") /\ LinkKept(n, n, "on")
  BY <1>18 DEF Carried, Kept, CondKept, LinkKept
<1>23. InIndirect(NextShim(i), NextAt(i), NextTo(i), 1, n, n)
  BY <1>3, <1>6, <1>7, <1>8, <1>10, <1>19 DEF InIndirect
<1>24. OnIndirect(NextShim(i), NextAt(i), NextTo(i), n, n)
  BY <1>23 DEF OnIndirect
<1>25. OnWay(n, n, "on")
  BY <1>1, <1>22, <1>24 DEF OnWay, AtHook
<1> QED BY <1>21, <1>22, <1>25 DEF At

\* A hook that returns leads back to who entered it.
LEMMA Returns ==
  ASSUME Laid, NEW f, Left(f), NEW l, NEW m, At(m, f, l), NEW i \in 1..MaxHooks,
         m.pc = HookAt(i), NEW n, n = [m EXCEPT !.pc = m.lr]
  PROVE  At(n, f, "returned")
<1>1. AtHook(i, m, f, l) /\ IsMachine(m)
  BY AtAHook DEF Carried
<1>2. Away(m.lr)
  <2>1. m.lr = Ret \/ m.lr = f.lr
    BY <1>1 DEF AtHook
  <2>2. Away(Ret)
    BY AwayOnes DEF Laid
  <2> QED BY <2>1, <2>2 DEF Left
<1>3. n.pc = m.lr
  BY <1>1 DEF IsMachine
<1> QED BY <1>2, <1>3 DEF At, Gone

\* A site that is installed, with a core at it.
LEMMA ApplyCourse == Course /\ Apply => Course'
<1> SUFFICES ASSUME Course, Apply PROVE Course'
  OBVIOUS
<1>1. scene' = scene /\ SceneOK /\ SceneOK'
  BY ProgramStays DEF Apply, Course
<1>2. site' = [state |-> IF Applies THEN "APPLIED" ELSE "FAILED",
               entryAddr |-> EntryAddr, originalThunk |-> ThunkAddr]
  BY DEF Apply
<1>3. /\ site'.state = (IF Applies THEN "APPLIED" ELSE "FAILED")
      /\ site'.entryAddr = EntryAddr /\ site'.originalThunk = ThunkAddr
  BY <1>2
<1>4. /\ code' = Program /\ from' = machine' /\ leg' = leg /\ leg = "site"
      /\ machine' = [machine EXCEPT !.mem = Merged({Pointers, @})]
      /\ \E cr \in BOOLEAN : machine = AtSite(cr)
  BY DEF Apply, Course
<1>5. PICK m : m = machine
  OBVIOUS
<1>6. PICK cr \in BOOLEAN : m = AtSite(cr)
  BY <1>4, <1>5
<1>7. PICK f : f = [m EXCEPT !.mem = Merged({Pointers, @})]
  OBVIOUS
<1>8. machine' = f /\ from' = f /\ leg' = "site"
  BY <1>4, <1>5, <1>6, <1>7
<1>9. Left(f) /\ f.pc = Site
  BY <1>1, <1>5, <1>6, <1>7, Comes
<1>10. At(f, f, "site")
  BY <1>9 DEF At
<1>11. scene.shape = "REWRITE" => HasShim
  BY DEF Apply, Takes, HasShim
<1>12. Applies => Laid /\ Laid'
  <2>1. Applies => Laid
    BY <1>1, <1>11 DEF Laid
  <2> QED BY <1>1, <2>1, ProgramStays
<1>13. code' = Program' /\ site'.entryAddr = EntryAddr' /\ site'.originalThunk = ThunkAddr'
  BY <1>1, <1>3, <1>4, ProgramStays, PlacesStay
<1>14. Left(from)' /\ At(machine, from, leg)'
  <2>1. Left(f)' /\ At(f, f, "site")'
    BY <1>1, <1>9, <1>10, CourseStays
  <2> QED BY <1>8, <2>1
<1>15. site'.state # "DECLARED" /\ (site'.state = "APPLIED" => Applies)
  BY <1>3
<1> QED BY <1>1, <1>12, <1>13, <1>14, <1>15 DEF Course

\* In a course that is kept, the core is somewhere on it.
LEMMA KeepsCourse ==
  ASSUME Course, scene' = scene, site' = site, code' = code, site.state = "APPLIED",
         NEW m, NEW f, NEW l, At(m, f, l), Left(f), machine' = m, from' = f, leg' = l
  PROVE  Course'
<1>1. /\ SceneOK /\ Laid /\ code = Program
      /\ site.entryAddr = EntryAddr /\ site.originalThunk = ThunkAddr
  BY DEF Course
<1>2. /\ SceneOK' /\ Laid' /\ code' = Program'
      /\ site'.entryAddr = EntryAddr' /\ site'.originalThunk = ThunkAddr'
  BY <1>1, ProgramStays, PlacesStay
<1>3. Left(f)' /\ At(m, f, l)'
  BY CourseStays
<1>4. Left(from)' /\ At(machine, from, leg)'
  BY <1>3
<1>5. site'.state = "APPLIED"
  OBVIOUS
<1> QED BY <1>2, <1>4, <1>5 DEF Course

\* A step from a state on course leads to one on course.
LEMMA NextCourse == Course /\ [Next]_vars => Course'
<1> SUFFICES ASSUME Course, [Next]_vars PROVE Course'
  OBVIOUS
<1>1. PICK m, f, l : m = machine /\ f = from /\ l = leg
  OBVIOUS
<1>2. site.state = "APPLIED" =>
        /\ Laid /\ code = Program /\ site.entryAddr = EntryAddr /\ site.originalThunk = ThunkAddr
        /\ Left(f) /\ At(m, f, l)
  BY <1>1 DEF Course
<1>3. CASE Refuse
  <2>1. scene' = scene /\ SceneOK'
    BY <1>3, ProgramStays DEF Refuse, Course
  <2>2. site' = [site EXCEPT !.state = "REFUSED"]
    BY <1>3 DEF Refuse
  <2>3. site'.state # "DECLARED" /\ site'.state # "APPLIED"
    BY <2>2
  <2> QED BY <2>1, <2>3 DEF Course
<1>4. CASE Apply
  BY <1>4, ApplyCourse
<1>5. CASE Run
  <2>1. /\ site.state = "APPLIED" /\ m.pc \in DOMAIN Program
        /\ scene' = scene /\ site' = site /\ code' = code /\ from' = f /\ leg' = l
    BY <1>1, <1>2, <1>5 DEF Run
  <2>2. PICK n : n = machine'
    OBVIOUS
  <2>3. Runs(m, n)
    <3>1. PICK word : word = code[machine.pc]
      OBVIOUS
    <3>2. IF word \in {JumpAnywhere(gated) : gated \in BOOLEAN}
          THEN \E cr \in IF word.cond THEN BOOLEAN ELSE {machine.cr} :
                 machine' = [machine EXCEPT !.pc = site.entryAddr, !.cr = cr]
          ELSE machine' = Exec(word, machine)
      BY <1>5, <3>1, Zenon DEF Run
    <3>3. word = Program[m.pc] /\ site.entryAddr = EntryAddr
      BY <1>1, <1>2, <2>1, <3>1
    <3> QED BY <1>1, <2>2, <3>2, <3>3 DEF Runs
  <2>4. At(n, f, l)
    BY <1>2, <2>1, <2>3, CourseRuns
  <2> QED BY <1>2, <2>1, <2>2, <2>4, KeepsCourse
<1>6. ASSUME NEW i \in 1..MaxHooks, HookGoesOn(i) PROVE Course'
  <2>1. /\ site.state = "APPLIED" /\ m.pc = HookAt(i) /\ site.originalThunk # 0
        /\ scene' = scene /\ site' = site /\ code' = code /\ from' = machine' /\ leg' = "on"
    BY <1>1, <1>6 DEF HookGoesOn, InHook
  <2>2. PICK lr \in {m.lr, HookAt(i) + 8} :
          machine' = [m EXCEPT !.pc = NextShim(i), !.lr = lr, !.ctr = 1, !.r[3] = 2 * Half]
    BY <1>1, <1>6 DEF HookGoesOn
  <2>3. PICK n : n = [m EXCEPT !.pc = NextShim(i), !.lr = lr, !.ctr = 1, !.r[3] = 2 * Half]
    OBVIOUS
  <2>4. ThunkAddr # 0
    BY <1>2, <2>1
  <2>5. Left(n) /\ At(n, n, "on")
    BY <1>2, <2>1, <2>3, <2>4, GoesOn
  <2>6. machine' = n /\ from' = n
    BY <2>1, <2>2, <2>3
  <2> QED BY <2>1, <2>5, <2>6, KeepsCourse
<1>7. ASSUME NEW i \in 1..MaxHooks, HookReturns(i) PROVE Course'
  <2>1. /\ site.state = "APPLIED" /\ m.pc = HookAt(i) /\ machine' = [m EXCEPT !.pc = m.lr]
        /\ scene' = scene /\ site' = site /\ code' = code /\ from' = f /\ leg' = "returned"
    BY <1>1, <1>7 DEF HookReturns, InHook
  <2>2. PICK n : n = [m EXCEPT !.pc = m.lr]
    OBVIOUS
  <2>3. At(n, f, "returned")
    BY <1>2, <2>1, <2>2, Returns
  <2>4. machine' = n
    BY <2>1, <2>2
  <2> QED BY <1>2, <2>1, <2>3, <2>4, KeepsCourse
<1>8. CASE UNCHANGED vars
  <2>1. /\ scene' = scene /\ site' = site /\ code' = code /\ machine' = machine
        /\ from' = from /\ leg' = leg
    BY <1>8 DEF vars
  <2>2. SceneOK'
    BY <2>1, ProgramStays DEF Course
  <2>3. CASE site.state = "APPLIED"
    BY <1>1, <1>2, <2>1, <2>3, KeepsCourse
  <2>4. CASE site.state # "APPLIED"
    <3>1. \A cr : AtSite(cr)' = AtSite(cr)
      BY <2>1 DEF AtSite
    <3>2. site.state = "DECLARED" =>
            (\E cr \in BOOLEAN : machine = AtSite(cr)) /\ from = machine /\ leg = "site"
      BY DEF Course
    <3>3. site'.state = "DECLARED" =>
            (\E cr \in BOOLEAN : machine' = AtSite(cr)') /\ from' = machine' /\ leg' = "site"
      BY <2>1, <3>1, <3>2
    <3>4. site'.state # "APPLIED"
      BY <2>1, <2>4
    <3> QED BY <2>2, <3>3, <3>4 DEF Course
  <2> QED BY <2>3, <2>4
<1> QED BY <1>3, <1>4, <1>5, <1>6, <1>7, <1>8 DEF Next

-----------------------------------------------------------------------------
(* What is promised to hooks, and to the game.                                  *)

\* Every hook of every chain is entered with the registers, LR, CR and stack that its
\* shape promises, whatever the words, addresses and hooks are.
THEOREM HooksEnteredRightHolds == Spec => []HooksEnteredRight
<1>1. Course => HooksEnteredRight
  <2> SUFFICES ASSUME Course, NEW i \in 1..scene.hooks, InHook(i)
               PROVE  LET kept == IF scene.shape = "CALL" THEN {1, 3} ELSE {1, 3, 11}
                      IN  /\ i = 1 <=> leg = "site"
                          /\ \A reg \in kept : machine.r[reg] = from.r[reg]
                          /\ machine.lr = IF scene.shape = "CALL" THEN Ret ELSE from.lr
                          /\ ~(i = 1 /\ scene.external) => machine.cr = from.cr
                          /\ StackKept(from)
    BY DEF HooksEnteredRight
  <2>1. Laid /\ Left(from) /\ At(machine, from, leg) /\ machine.pc = HookAt(i)
    BY DEF Course, InHook
  <2>2. i \in 1..MaxHooks
    BY LinkBounds DEF Course
  <2>3. /\ AtHook(i, machine, from, leg) /\ Carried(machine, from)
        /\ CondKept(machine, from, leg)
    BY <2>1, <2>2, AtAHook
  <2>4. machine.r[1] = from.r[1] /\ machine.r[3] = from.r[3]
    BY <2>1, <2>3 DEF AtHook, Carried, Left
  <2>5. /\ i = 1 <=> leg = "site"
        /\ scene.shape # "CALL" => machine.r[11] = from.r[11]
        /\ machine.lr = IF scene.shape = "CALL" THEN Ret ELSE from.lr
    BY <2>3 DEF AtHook
  <2>6. ~(i = 1 /\ scene.external) => machine.cr = from.cr
    BY <2>3, <2>5 DEF CondKept
  <2>7. StackKept(from)
    <3> SUFFICES ASSUME NEW a \in DOMAIN machine.mem,
                        a >= from.r[1] \/ Read(from.mem, a) # Read(from.mem, a)
                 PROVE  machine.mem[a] = Read(from.mem, a)
      BY DEF StackKept
    <3>1. a >= SP /\ SP \in Nat
      BY <2>1, StackAssumption DEF Left
    <3>2. a \notin {SP - 16, SP - 8}
      BY <3>1
    <3>3. Read(machine.mem, a) = Read(from.mem, a)
      BY <2>3, <3>2 DEF Carried, Kept
    <3> QED BY <3>3 DEF Read
  <2> QED BY <2>4, <2>5, <2>6, <2>7
<1> QED BY InitCourse, NextCourse, <1>1, PTL DEF Spec

\* What comes out of the stubs is what the displaced word, or its replacement, would
\* have made of the machine at the site, for every word that is taken.
THEOREM OriginalRunsHolds == Spec => []OriginalRuns
<1>1. Course => OriginalRuns
  <2> SUFFICES ASSUME Course, Out, leg # "returned"
               PROVE  LET word == IF scene.shape = "REWRITE" THEN scene.replacement
                                                             ELSE scene.live
                      IN  (leg = "site") = (scene.shape = "REWRITE")
                          /\ (~word.dec /\ ~word.link => AsAtSite(word))
    BY DEF OriginalRuns
  <2>1. /\ Laid /\ Left(from) /\ At(machine, from, leg) /\ machine.pc \notin DOMAIN Program
        /\ \A i \in 1..MaxHooks : machine.pc # HookAt(i)
    BY DEF Course, Out
  <2>2. Gone(machine, from, leg)
    BY <2>1, OnlyGoneIsOut
  <2>3. /\ LastLeg(leg)
        /\ ~Shown.dec /\ ~Shown.link =>
             Alike(Shown, machine, from) /\ machine.pc = Would(Shown, from).pc
    BY <2>2 DEF Gone
  <2>4. (leg = "site") = (scene.shape = "REWRITE")
    BY <2>3 DEF LastLeg
  <2>5. ASSUME Alike(Shown, machine, from), machine.pc = Would(Shown, from).pc
        PROVE  AsAtSite(Shown)
    <3>1. PICK would : would = Exec(Shown, [from EXCEPT !.pc = Site])
      OBVIOUS
    <3>2. would = Would(Shown, from)
      BY <3>1 DEF Would, Back
    <3>3. /\ machine.pc = would.pc /\ machine.lr = would.lr /\ machine.cr = would.cr
          /\ machine.r = would.r
      BY <2>5, <3>2 DEF Alike, RestAlike
    <3>4. StackKept(would)
      <4> SUFFICES ASSUME NEW a \in DOMAIN machine.mem,
                          a >= from.r[1] \/ Read(would.mem, a) # Read(from.mem, a)
                   PROVE  machine.mem[a] = Read(would.mem, a)
        BY DEF StackKept
      <4>1. SP \in Nat /\ from.r[1] = SP
        BY <2>1, StackAssumption DEF Left
      <4>2. a \notin {SP - 16, SP - 8} \/ Read(would.mem, a) # Read(from.mem, a)
        BY <4>1
      <4>3. Read(machine.mem, a) = Read(would.mem, a)
        BY <2>5, <3>2, <4>2 DEF Alike, RestAlike, MemAlike
      <4> QED BY <4>3 DEF Read
    <3> QED BY <3>1, <3>3, <3>4 DEF AsAtSite
  <2> QED BY <2>3, <2>4, <2>5 DEF Shown
<1> QED BY InitCourse, NextCourse, <1>1, PTL DEF Spec
=============================================================================
