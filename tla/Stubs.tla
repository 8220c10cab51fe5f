-------------------------------- MODULE Stubs --------------------------------
(* The words the library writes, and what a core does when it runs them: the    *)
(* site's branch, the dispatcher, the stubs of the links, the thunk that runs     *)
(* the displaced word, and the rewrite shim (wupatch_ppc.cpp, wupatch_shim.cpp,    *)
(* PrepareSite and PrepareLink of wupatch_apply.cpp, encodeSite of the direct      *)
(* backend; what the other one asks for is in Targets).                           *)
(*                                                                             *)
(* One site with its chain already in order; how chains change is Chain's         *)
(* matter.  A word is a record of the fields its opcode has, the machine the       *)
(* registers the stubs use and one more.  Addresses stay below 2^31.               *)
EXTENDS Reloc, Targets

CONSTANTS
  Shapes,      \* those of "JUMP", "CALL", "REWRITE" in play
  Words,       \* the instruction words a site may have in the image
  Linked,      \* the addresses of .data such a word may hold half of
  Replacements,\* the words a REWRITE may put there
  DataDeltas,  \* where the loader may have put .data, against the link-time place
  Places,      \* where the site is, as in Targets, and `pool': the module that holds
               \* slots and hooks
  MaxHooks,    \* the longest chain
  Caller, SP   \* LR and r1 as a core comes to the site

\* The last address there is here.
kTop == 2147483647

ASSUME ShapesAssumption == Shapes \subseteq {"JUMP", "CALL", "REWRITE"}
ASSUME HooksAssumption  == MaxHooks \in 0..255
ASSUME StackAssumption  == SP \in Nat /\ 1048576 <= SP /\ SP <= kTop
ASSUME LinkedAssumption == Linked \subseteq Nat /\ DataDeltas \subseteq Nat

\* A branch of the image is not the one another patcher writes.
ASSUME ForeignAssumption == \A word \in Words : word.op = 18 => word.imm # 2048

VARIABLES
  scene,    \* [shape, place, backend, external, delta, expected, native, live,
            \*  replacement, hooks]: fixed from the start
  site,     \* [state, entryAddr, originalThunk] of the site's record
  code,     \* the words the library has written, by address
  machine,  \* [pc, r, lr, ctr, cr, mem] of a core that comes to the site
  from,     \* the machine as it was at the site, or as the last hook left it
  leg       \* "site", "on" or "returned": how control left there

vars == <<scene, site, code, machine, from, leg>>

-----------------------------------------------------------------------------
(* Words (wupatch_ppc.cpp).                                                    *)

Blank == [op |-> 0, xo |-> 0, t |-> 0, a |-> 0, imm |-> 0,
          abs |-> FALSE, link |-> FALSE, dec |-> FALSE, cond |-> FALSE]

DForm(op, t, a, imm) == [Blank EXCEPT !.op = op, !.t = t, !.a = a, !.imm = imm % Half]
Spr(xo, t, spr)      == [Blank EXCEPT !.op = 31, !.xo = xo, !.t = t, !.imm = spr]

Lis(reg, address) == DForm(15, reg, 0, High(address))
Ori(reg, address) == DForm(24, reg, reg, Low(address))

Lwz(rt, ra, disp)  == DForm(32, rt, ra, disp)
Stw(rs, ra, disp)  == DForm(36, rs, ra, disp)
Stwu(rs, ra, disp) == DForm(37, rs, ra, disp)
Addi(rt, ra, imm)  == DForm(14, rt, ra, imm)

MtLr(reg)  == Spr(467, reg, 8)
MtCtr(reg) == Spr(467, reg, 9)
Bctr       == [Blank EXCEPT !.op = 19, !.xo = 528]

\* EncodeBranch: within 32 MB of the site, in a field of 26 bits.
Reaches(distance) == -33554432 <= distance /\ distance <= 33554428

EncodeBranch(at, to, link) ==
  IF at % 4 = 0 /\ to % 4 = 0 /\ Reaches(to - at)
  THEN {[Blank EXCEPT !.op = 18, !.imm = (to - at) % 67108864, !.link = link]}
  ELSE {}

EncodeAbsoluteBranch(to, link) ==
  IF to % 4 = 0 /\ to <= 33554428
  THEN {[Blank EXCEPT !.op = 18, !.imm = to, !.abs = TRUE, !.link = link]}
  ELSE {}

\* Mutant: every branch is taken to survive relocation.
ClassifyBranches(word) ==
  CASE word.op \in {0, 1, 17}                                           -> "UNKNOWN"
    [] word.op = 19 /\ word.xo = 528                                    -> "UNKNOWN"
    [] word.op = 31 /\ word.xo \in {467, 339} /\ word.imm = 9           -> "UNKNOWN"
    [] OTHER                                                            -> "PIC"

\* Classify: may this word run at another address than its own?
Classify(word) ==
  CASE word.op \in {16, 18}                    -> IF word.abs THEN "PIC" ELSE "PC_RELATIVE"
    [] word.op \in {0, 1, 17}                  -> "UNKNOWN"
    [] word.op = 19 /\ word.xo = 528           -> "UNKNOWN"
    [] word.op = 31 /\ word.xo \in {467, 339} /\ word.imm = 9 -> "UNKNOWN"
    [] OTHER                                   -> "PIC"

-----------------------------------------------------------------------------
(* External: the processor, as far as these words go.                           *)

\* The registers the stubs use, and two more.
Registers == {0, 1, 3, 11}

Signed(x, size) == IF x < size \div 2 THEN x ELSE x - size

\* By how much, or where to, a branch goes.
Displacement(word) == Signed(word.imm, IF word.op = 18 THEN 67108864 ELSE Half)

Read(mem, a)     == IF a \in DOMAIN mem THEN mem[a] ELSE 0
Store(mem, a, x) == [b \in DOMAIN mem \cup {a} |-> IF b = a THEN x ELSE mem[b]]

Branch(word, s) ==
  LET count == IF word.dec THEN s.ctr - 1 ELSE s.ctr
      taken == (word.cond => s.cr) /\ (word.dec => count # 0)
      to    == IF word.op = 19 THEN IF word.xo = 16 THEN s.lr ELSE s.ctr
               ELSE Displacement(word) + (IF word.abs THEN 0 ELSE s.pc)
  IN  [s EXCEPT !.pc = IF taken THEN to ELSE @ + 4,
                !.lr = IF word.link THEN s.pc + 4 ELSE @, !.ctr = count]

\* One word.  Where an ori runs, the low half it sets is clear.
Exec(word, s) ==
  LET on == [s EXCEPT !.pc = @ + 4]
      at == s.r[word.a] + Signed(word.imm, Half)
  IN  CASE word.op = 14 -> [on EXCEPT !.r[word.t] = at]
        [] word.op = 15 -> [on EXCEPT !.r[word.t] = word.imm * Half]
        [] word.op = 24 -> [on EXCEPT !.r[word.a] = s.r[word.t] + word.imm]
        [] word.op = 32 -> [on EXCEPT !.r[word.t] = Read(s.mem, at)]
        [] word.op = 36 -> [on EXCEPT !.mem = Store(@, at, s.r[word.t])]
        [] word.op = 37 -> [on EXCEPT !.mem = Store(@, at, s.r[word.t]), !.r[word.a] = at]
        [] word.op = 31 /\ word.xo = 467 ->
             IF word.imm = 8 THEN [on EXCEPT !.lr = s.r[word.t]]
                             ELSE [on EXCEPT !.ctr = s.r[word.t]]
        [] word.op = 31 /\ word.xo = 339 ->
             [on EXCEPT !.r[word.t] = IF word.imm = 8 THEN s.lr ELSE s.ctr]
        [] word.op \in {16, 18} \/ (word.op = 19 /\ word.xo \in {16, 528}) -> Branch(word, s)
        [] OTHER -> on

\* The words a title may have at a site, and a patch may bring: of the moves to
\* and from special registers those of LR and CTR, and no load from below the
\* stack pointer.
Instruction(word) ==
  /\ word \in [op : 0..63, xo : Nat, t : Registers, a : Registers, imm : Nat,
              abs : BOOLEAN, link : BOOLEAN, dec : BOOLEAN, cond : BOOLEAN]
  /\ IF word.op = 18 THEN word.xo = 0 ELSE word.imm < Half
  /\ word.op = 31 /\ word.xo \in {467, 339} => word.imm \in {8, 9}
  /\ word.op = 32 /\ word.a = 1 => word.imm < 32768

ASSUME WordsAssumption == \A word \in Words \cup Replacements : Instruction(word)

\* The module is neither at the site nor on the stack, and all addresses are below
\* 2^31; a core comes to the site from elsewhere, and the branches of the title to
\* absolute addresses lead elsewhere.
Elsewhere(place, a) == a # place.site /\ ~(place.pool <= a /\ a < place.pool + 131072)

ASSUME PlacesAssumption ==
  /\ Caller \in Nat
  /\ \A place \in Places :
       /\ place.site \in Nat /\ place.pool \in Nat
       /\ place.site + 4 < place.pool \/ place.pool + 131072 <= place.site
       /\ SP + 8 < place.pool \/ place.pool + 131072 <= SP - 16
       /\ place.site + 4 <= kTop /\ place.pool + 131072 <= kTop
       /\ Elsewhere(place, Caller)
       /\ \A word \in Words \cup Replacements :
            word.op \in {16, 18} /\ word.abs => Elsewhere(place, Displacement(word))

\* A module without a name is among those the loader's array has room for.
ASSUME ModulesAssumption ==
  /\ kMaxModules \in Nat
  /\ \A place \in Places :
       /\ Len(place.modules) \in Nat /\ DOMAIN place.modules = 1..Len(place.modules)
       /\ \A i \in DOMAIN place.modules :
            /\ place.modules[i].text \in Nat
            /\ place.modules[i].name = NoName => i <= kMaxModules

-----------------------------------------------------------------------------
(* The stubs (wupatch_shim.cpp).                                                *)

BuildCall(ret, hook) ==
  <<Lis(11, ret), Ori(11, ret), MtLr(11), Lis(11, hook), Ori(11, hook), MtCtr(11), Bctr>>

\* Mutant: the word runs before r11 and the frame are given back.
BuildRewriteInFrame(ret, replacement) ==
  <<Stwu(1, 1, -16), Stw(11, 1, 8), Lis(11, ret), Ori(11, ret), MtCtr(11),
    replacement, Lwz(11, 1, 8), Addi(1, 1, 16), Bctr>>

BuildRewrite(ret, replacement) ==
  <<Stwu(1, 1, -16), Stw(11, 1, 8), Lis(11, ret), Ori(11, ret), MtCtr(11),
    Lwz(11, 1, 8), Addi(1, 1, 16), replacement, Bctr>>

\* Mutant: r11 is spent, as a linkage stub may.
BuildIndirectSpent(ptrAddr) ==
  <<Lis(11, ptrAddr), Ori(11, ptrAddr), Lwz(11, 11, 0), MtCtr(11), Bctr>>

BuildIndirect(ptrAddr) ==
  <<Stwu(1, 1, -16), Stw(11, 1, 8), Lis(11, ptrAddr), Ori(11, ptrAddr), Lwz(11, 11, 0),
    MtCtr(11), Lwz(11, 1, 8), Addi(1, 1, 16), Bctr>>

\* Mutant: a slot has room for one shim only.
SharedOffset == 0

\* Where things are in the module: the two pools of slots, the hooks, and the
\* words the dispatcher and the link stubs jump through.
kSlotWords       == 32
kSiteEntryOffset == 0
kSiteThunkOffset == 16
kLinkNextOffset  == 0
kLinkCallOffset  == 16

SiteSlot    == scene.place.pool
LinkSlot(i) == scene.place.pool + (4 * kSlotWords * i)
HookAt(i)   == scene.place.pool + 32768 + (64 * i)
HeadAt      == scene.place.pool + 65536
NextAt(i)   == scene.place.pool + 65536 + (4 * i)
Site        == scene.place.site

\* Parts of memory that do not overlap, as one.
Merged(parts) == [a \in UNION {DOMAIN part : part \in parts} |->
                    (CHOOSE part \in parts : a \in DOMAIN part)[a]]

Written(at, words) ==
  [a \in {at + (4 * (k - 1)) : k \in DOMAIN words} |-> words[((a - at) \div 4) + 1]]

\* `ret' of PrepareSite and PrepareLink.
Ret == Site + 4

\* PrepareSite: a thunk if the word can run from one, and after it the entry.
ThunkAddr == IF scene.shape # "REWRITE" /\ Classify(scene.live) = "PIC"
             THEN SiteSlot + (4 * kSiteThunkOffset) ELSE 0
EntryAddr == SiteSlot + (4 * kSiteEntryOffset)

PrepareSite ==
  IF scene.shape = "REWRITE"
  THEN {Written(EntryAddr, BuildRewrite(Ret, scene.replacement))}
  ELSE {Written(EntryAddr, BuildIndirect(HeadAt))}
       \cup (IF ThunkAddr = 0 THEN {} ELSE {Written(ThunkAddr, BuildRewrite(Ret, scene.live))})

\* PrepareLink: the stub a hook goes on through and, for a CALL, the one it is
\* entered through.
PrepareLink(i) ==
  {Written(LinkSlot(i) + (4 * kLinkNextOffset), BuildIndirect(NextAt(i)))}
  \cup (IF scene.shape # "CALL" THEN {}
        ELSE {Written(LinkSlot(i) + (4 * kLinkCallOffset), BuildCall(Ret, HookAt(i)))})

\* attachLink: what leads to a link.
LinkEntry(i) == IF scene.shape = "CALL" THEN LinkSlot(i) + (4 * kLinkCallOffset) ELSE HookAt(i)

\* encodeSite: the word the direct backend writes, if there is one that reaches.
SiteWords ==
  LET link == scene.shape = "CALL"
      near == EncodeBranch(Site, EntryAddr, link)
  IN  IF scene.shape = "REWRITE" THEN {scene.replacement}
      ELSE IF near # {} THEN near ELSE EncodeAbsoluteBranch(EntryAddr, link)

\* What the head and the forwarding words hold once the chain is published.
Pointers ==
  [a \in {HeadAt} \cup {NextAt(i) : i \in 1..scene.hooks} |->
     LET i == (a - HeadAt) \div 4
     IN  IF i < scene.hooks THEN LinkEntry(i + 1) ELSE ThunkAddr]

NextShim(i) == LinkSlot(i) + (4 * kLinkNextOffset)

\* External: FunctionPatcher's branch reaches every address, without linking.  To
\* serve one process only it compares first, in CR.
JumpAnywhere(gated) == [Blank EXCEPT !.op = 18, !.xo = 1, !.cond = gated]

\* The patched word, and where it went.
Patched ==
  IF scene.backend = "direct"
  THEN {[at |-> Site, word |-> word] : word \in SiteWords}
  ELSE UNION {{[at |-> at, word |-> JumpAnywhere(told.gated)] : at \in Patches(scene.place, told)} :
              told \in FpApply(scene.place, scene.external)}

\* All that is written once the site is installed.
Program ==
  Merged(PrepareSite \cup (UNION {PrepareLink(i) : i \in 1..scene.hooks})
         \cup {Written(w.at, <<w.word>>) : w \in Patched})

Applies == IF scene.backend = "direct" THEN SiteWords # {} ELSE FpApply(scene.place, scene.external) # {}

-----------------------------------------------------------------------------
(* A site is guarded, prepared and installed; then a core comes to it.          *)

\* External: another patcher's branch, there before us.
Foreign == [Blank EXCEPT !.op = 18, !.imm = 2048]

AtSite(cr) ==
  [pc |-> scene.place.site, lr |-> Caller, ctr |-> 1, cr |-> cr,
   r |-> [reg \in Registers |-> IF reg = 1 THEN SP ELSE reg * Half],
   mem |-> [a \in {SP, SP + 8} |-> a - SP]]

\* Every half a word may hold of an address that moves, or none.  What is counted
\* from r1 lies on the stack.
Halved(word) ==
  [half : {"none"}, address : {0}, delta : {0}]
  \cup [half : IF word.a = 1 THEN {} ELSE MayHold(word.op) \ {"none"},
        address : Linked, delta : DataDeltas]

Init ==
  /\ \E shape \in Shapes, word \in Words, place \in Places,
        backend \in {"direct", "fp"}, native \in BOOLEAN :
       \E held \in Halved(word), external \in IF shape = "JUMP" THEN BOOLEAN ELSE {FALSE},
          replacement \in IF shape = "REWRITE" THEN Replacements ELSE {Blank},
          hooks \in IF shape = "REWRITE" THEN {0} ELSE 1..MaxHooks :
         scene = [shape |-> shape, place |-> place, backend |-> backend,
                  external |-> external, delta |-> held.delta, native |-> native,
                  expected |-> LinkedAs(word, held.half, held.address),
                  live |-> IF native THEN LinkedAs(word, held.half, held.address + held.delta)
                                     ELSE Foreign,
                  replacement |-> replacement, hooks |-> hooks]
  /\ site = [state |-> "DECLARED", entryAddr |-> 0, originalThunk |-> 0]
  /\ code = <<>>
  /\ \E cr \in IF scene.live.cond THEN BOOLEAN ELSE {TRUE} : machine = AtSite(cr)
  /\ from = machine
  /\ leg = "site"

\* Declare takes no replacement that is not position-independent, and a site whose
\* word has no thunk takes one patch only.  Until the title's module is found there
\* is nothing to do.
Takes == /\ Find(scene.place) # {}
         /\ scene.shape = "REWRITE" => Classify(scene.replacement) = "PIC"
         /\ scene.hooks > 1 => ThunkAddr # 0

\* A Tick that comes to the site: guard, slot, links, chain, install.  What a core
\* sees of these steps one by one is Chain's and Registry's matter.
\* For an export, the first look defines what is expected.
Guard == \/ scene.external
         \/ InText(scene.place) /\ MatchesNative(scene.live, scene.expected, scene.delta)

Refuse ==
  /\ site.state = "DECLARED" /\ Takes /\ ~Guard
  /\ site' = [site EXCEPT !.state = "REFUSED"]
  /\ UNCHANGED <<scene, code, machine, from, leg>>

Apply ==
  /\ site.state = "DECLARED" /\ Takes /\ Guard
  /\ site' = [state |-> IF Applies THEN "APPLIED" ELSE "FAILED",
              entryAddr |-> EntryAddr, originalThunk |-> ThunkAddr]
  /\ code' = Program
  /\ machine' = [machine EXCEPT !.mem = Merged({Pointers, @})]
  /\ from' = machine'
  /\ UNCHANGED <<scene, leg>>

\* A core runs the word at its pc, if the library wrote it.
Run ==
  /\ site.state = "APPLIED"
  /\ machine.pc \in DOMAIN code
  /\ LET word == code[machine.pc]
     IN  IF word \in {JumpAnywhere(gated) : gated \in BOOLEAN}
         THEN \E cr \in IF word.cond THEN BOOLEAN ELSE {machine.cr} :
                machine' = [machine EXCEPT !.pc = site.entryAddr, !.cr = cr]
         ELSE machine' = Exec(word, machine)
  /\ UNCHANGED <<scene, site, code, from, leg>>

\* External: a hook.  It goes on to what GetOriginalThunk gave it, if that is not 0:
\* by a branch, or by a call with a return address of its own; or it returns.  It
\* leaves CTR and r3 as it likes.
InHook(i) == site.state = "APPLIED" /\ machine.pc = HookAt(i)

HookGoesOn(i) ==
  /\ InHook(i) /\ site.originalThunk # 0
  /\ \E lr \in {machine.lr, HookAt(i) + 8} :
       machine' = [machine EXCEPT !.pc = NextShim(i), !.lr = lr, !.ctr = 1, !.r[3] = 2 * Half]
  /\ from' = machine'
  /\ leg' = "on"
  /\ UNCHANGED <<scene, site, code>>

HookReturns(i) ==
  /\ InHook(i)
  /\ machine' = [machine EXCEPT !.pc = machine.lr]
  /\ leg' = "returned"
  /\ UNCHANGED <<scene, site, code, from>>

Next ==
  \/ Refuse \/ Apply \/ Run
  \/ \E i \in 1..MaxHooks : HookGoesOn(i) \/ HookReturns(i)

\* A core does not stop in the middle, and a hook comes to an end.
Spec == Init /\ [][Next]_vars /\ WF_vars(Next)

-----------------------------------------------------------------------------
(* Properties.                                                                 *)

Out == site.state = "APPLIED" /\ machine.pc \notin DOMAIN code \cup {HookAt(i) : i \in 1..MaxHooks}

\* The stack a caller can see, and what `would' have written itself.
StackKept(would) ==
  \A a \in DOMAIN machine.mem :
    (a >= from.r[1] \/ Read(would.mem, a) # Read(from.mem, a)) => machine.mem[a] = Read(would.mem, a)

\* The machine is as a core would have it that ran `word' at the site; CTR is spent.
AsAtSite(word) ==
  LET would == Exec(word, [from EXCEPT !.pc = Site])
  IN  /\ machine.pc = would.pc
      /\ machine.lr = would.lr /\ machine.cr = would.cr /\ machine.r = would.r
      /\ StackKept(would)

\* The guard takes a site of the title whatever the loader made of its word, so that
\* no half of a moved address makes it refuse a title it knows, and takes no patched
\* one and none elsewhere (GuardSite, MatchesNative); exports it takes as they are.
NativeIsTaken ==
  site.state # "DECLARED" =>
    (site.state # "REFUSED") = (scene.external \/ (scene.native /\ InText(scene.place)))

\* A hook is entered as its shape promises: LR, CR, r1, r3 and the caller's stack as
\* at the site or as the hook before it left them, r11 too unless it is a CALL,
\* whose LR is the word after the site (the clobber contract of the README, and
\* wupatch_shim.h on r11).  FunctionPatcher may spend CR at an export.
HooksEnteredRight ==
  \A i \in 1..scene.hooks : InHook(i) =>
    LET kept == IF scene.shape = "CALL" THEN {1, 3} ELSE {1, 3, 11}
    IN  /\ i = 1 <=> leg = "site"
        /\ \A reg \in kept : machine.r[reg] = from.r[reg]
        /\ machine.lr = IF scene.shape = "CALL" THEN Ret ELSE from.lr
        /\ ~(i = 1 /\ scene.external) => machine.cr = from.cr
        /\ StackKept(from)

\* The word that is patched is the one the guard saw, whoever patches it, and what
\* comes out of the stubs into the game, at the end of the chain or from a
\* rewrite, is what the displaced word, or its replacement, does at the site: same
\* next pc, registers, LR and stack.  For words that leave CTR and LR alone.
OriginalRuns ==
  Out /\ leg # "returned" =>
    LET word == IF scene.shape = "REWRITE" THEN scene.replacement ELSE scene.live
    IN  (leg = "site") = (scene.shape = "REWRITE")
        /\ (~word.dec /\ ~word.link => AsAtSite(word))

\* A core that comes to a patched site comes out again.
ComesOut == site.state = "APPLIED" ~> Out

\* wupatch_ppc.h says that a word that touches CTR is refused along with the rest:
\* then every word that is taken does in a stub what it does at the site.
TakenRunsAlike ==
  Out /\ leg # "returned" =>
    LET word == IF scene.shape = "REWRITE" THEN scene.replacement ELSE scene.live
    IN  ~word.link => AsAtSite(word)
=============================================================================
