------------------------------- MODULE Targets -------------------------------
(* How a site is described to FunctionPatcher, so that it patches the word the   *)
(* guard has seen (fpApply of wupatch_backend_fp.cpp), and the loader's list of   *)
(* modules that both look the title up in (wupatch_module.cpp).                  *)
(*                                                                             *)
(* A place `p' is all a site's description depends on:                            *)
(*   site           its runtime address                                          *)
(*   modules        the loader's list of [name, text, size]                       *)
(*   executable     Config::executableName; names are sequences                  *)
(*   byPhysical     Config::fpByPhysicalAddress                                  *)
(*   byAddress      for an export: its library is kLibraryByAddress               *)
(*   physical       whether the address has a physical one                       *)
(*   title          whether title and version are those the patcher is to gate on  *)
EXTENDS Integers, FiniteSets, SequencesExt

CONSTANTS
  kMaxModules,   \* 48 in the code
  NoName         \* a module the loader lists without a name

\* The array the loader fills has room for so many.
Infos(p) == {i \in DOMAIN p.modules : i <= kMaxModules}

Ending(p, infos) ==
  {i \in infos : p.modules[i].name # NoName /\ IsSuffix(p.executable, p.modules[i].name)}

First(p, found) == {p.modules[i] : i \in {k \in found : \A j \in found : k <= j}}

Find(p) == First(p, Ending(p, Infos(p)))

\* Mutant: the count stops where the title is found.
UnnamedBefore(p) ==
  Cardinality({i \in Infos(p) : /\ p.modules[i].name = NoName
                                /\ \A k \in Ending(p, Infos(p)) : i < k})

CountUnnamed(p) == Cardinality({i \in Infos(p) : p.modules[i].name = NoName})

\* GuardSite: a site of the title is within the text of the module found.
InText(p) == \E m \in Find(p) : m.text <= p.site /\ (p.site - m.text) + 4 <= m.size

-----------------------------------------------------------------------------
(* External: the memory map, and FunctionPatcher.                               *)

Shifted == 268435456

OSEffectiveToPhysical(p) == IF p.physical THEN p.site + Shifted ELSE 0

\* What it patches, for a description: an export it looks up again; a physical
\* address as it is; an offset in the first module of that name, if it survives the
\* walk of the list.
Patches(p, told) ==
  IF told.kind = "export" THEN {p.site}
  ELSE IF told.kind = "physical" THEN {told.at - Shifted}
  ELSE {m.text + told.at : m \in {found \in First(p, Ending(p, DOMAIN p.modules)) :
                                    \A i \in DOMAIN p.modules : p.modules[i].name # NoName}}

-----------------------------------------------------------------------------
(* The backend.                                                               *)

\* How fpApply describes the site, if it can.  A library is loaded in every
\* process, and is patched for ours only.
Describe(p, external) ==
  IF external /\ ~p.byAddress
  THEN {[kind |-> "export", at |-> 0, gated |-> TRUE]}
  ELSE IF external \/ p.byPhysical
  THEN {[kind |-> "physical", at |-> at, gated |-> external] :
          at \in {OSEffectiveToPhysical(p)} \ {0}}
  ELSE {[kind |-> "executable", at |-> p.site - m.text, gated |-> FALSE] :
          m \in {found \in Find(p) : CountUnnamed(p) = 0}}

\* A patch the title gate would defer is taken back.
FpApply(p, external) == {told \in Describe(p, external) : told.kind = "executable" => p.title}
=============================================================================
